-------------------------- MODULE SpeakerTurnsProofs --------------------------
(***************************************************************************)
(* Theorems about SpeakerTurns and TranscriptText.  First the turns, for   *)
(* every length and shift of the chunks and any regions of speech: the     *)
(* turns are in order, each moment belongs to the chunk whose centre is    *)
(* nearest, and smoothing keeps the speech.  Then the text, for segments   *)
(* of any length: cutting a segment at its tokens keeps its characters and *)
(* gives each letter to the speaker of its token.                          *)
(***************************************************************************)
EXTENDS TranscriptText, SequenceTheorems, WellFoundedInduction, TLAPS

-----------------------------------------------------------------------------
(* One step of the merge *)

\* The speaker has the moment in one of the spans.
Speaks(list, x, speaker) == \E k \in DOMAIN list : During(x, list[k]) /\ list[k].speaker = speaker

\* Somebody has the moment.
Covers(list, x) == \E k \in DOMAIN list : During(x, list[k])

\* Where the chunk takes over from the turns before it.
Boundary(merged, chunk) ==
  IF merged # <<>> /\ Last(merged).end > chunk.start THEN Middle(Last(merged), chunk) ELSE chunk.start

LEMMA TurnFields ==
  \A t \in TurnRecords : t.start \in Nat /\ t.end \in Nat /\ t.speaker \in Speakers
  BY DEF TurnRecords

LEMMA Appended ==
  ASSUME NEW list \in Seq(TurnRecords), NEW e \in TurnRecords
  PROVE  LET new == Append(list, e) IN
         /\ new \in Seq(TurnRecords) /\ new # <<>>
         /\ DOMAIN new = 1 .. Len(list) + 1 /\ Len(new) = Len(list) + 1
         /\ \A i \in 1 .. Len(list) : new[i] = list[i]
         /\ new[Len(list) + 1] = e /\ Last(new) = e
  BY DEF Last

LEMMA OrderedTurns ==
  ASSUME NEW list \in Seq(TurnRecords)
  PROVE  /\ \A i \in 1 .. Len(list) :
              list[i].start \in Nat /\ list[i].end \in Nat /\ list[i].speaker \in Speakers
         /\ Ordered(list) <=>
              /\ \A i \in 1 .. Len(list) : list[i].start < list[i].end
              /\ \A i, j \in 1 .. Len(list) : i < j => list[i].end <= list[j].start
  <1>1. DOMAIN list = 1 .. Len(list) /\ \A i \in 1 .. Len(list) : list[i] \in TurnRecords
    OBVIOUS
  <1>2. \A i \in 1 .. Len(list) :
          list[i].start \in Nat /\ list[i].end \in Nat /\ list[i].speaker \in Speakers
    BY <1>1, TurnFields
  <1> QED  BY <1>1, <1>2 DEF Ordered

LEMMA LastOf ==
  ASSUME NEW S, NEW list \in Seq(S), list # <<>>
  PROVE  /\ Len(list) \in DOMAIN list /\ Len(list) \in Nat /\ Len(list) >= 1
         /\ Last(list) = list[Len(list)]
         /\ Last(list) \in S
  BY DEF Last

\* What a merge needs of the turns and the next chunk: the turns are in order,
\* the last of them ends before the chunk does and begins before its boundary.
Mergeable(merged, chunk) ==
  /\ Ordered(merged)
  /\ chunk.start < chunk.end
  /\ merged # <<>> =>
       /\ Last(merged).end < chunk.end
       /\ Last(merged).end > chunk.start =>
            LET b == Boundary(merged, chunk) IN
            /\ b \in Nat
            /\ chunk.start <= b /\ b <= Last(merged).end
            /\ Last(merged).start < b

\* What a merge returns: turns in order that end with the chunk, and the chunk
\* has every moment from the boundary on and none before it.  Nobody gets a
\* moment that neither a turn nor the chunk had.
Merges(merged, chunk, new) ==
  LET b == Boundary(merged, chunk) IN
  /\ new \in Seq(TurnRecords) /\ new # <<>>
  /\ Ordered(new)
  /\ Last(new).end = chunk.end /\ Last(new).start <= b
  /\ \A x \in Nat, s \in Speakers :
       /\ x < b /\ Speaks(merged, x, s) => Speaks(new, x, s)
       /\ b <= x /\ x < chunk.end => Speaks(new, x, chunk.speaker)
  /\ \A x \in Nat : Covers(new, x) => Covers(merged, x) \/ During(x, chunk)

LEMMA EndsBefore ==
  ASSUME NEW merged \in Seq(TurnRecords), Ordered(merged), merged # <<>>
  PROVE  \A i \in 1 .. Len(merged) :
           /\ merged[i].start < merged[i].end
           /\ merged[i].end <= Last(merged).end
           /\ i # Len(merged) => merged[i].end <= Last(merged).start
  <1> DEFINE n == Len(merged)
  <1>1. n \in 1 .. n /\ DOMAIN merged = 1 .. n /\ Last(merged) = merged[n] /\ merged[n] \in TurnRecords
    BY LastOf
  <1> SUFFICES ASSUME NEW i \in 1 .. n
               PROVE  /\ merged[i].start < merged[i].end
                      /\ merged[i].end <= merged[n].end
                      /\ i # n => merged[i].end <= merged[n].start
    BY <1>1
  <1>2. /\ merged[i].start \in Nat /\ merged[i].end \in Nat
        /\ merged[n].start \in Nat /\ merged[n].end \in Nat
    BY <1>1, OrderedTurns
  <1>3. merged[i].start < merged[i].end /\ merged[n].start < merged[n].end
    BY <1>1, OrderedTurns
  <1>4. i < n => merged[i].end <= merged[n].start
    BY <1>1, OrderedTurns
  <1>5. CASE i = n
    BY <1>2, <1>3, <1>5
  <1>6. CASE i # n
    <2>1. i < n /\ n \in Nat
      BY <1>6
    <2> QED  BY <1>2, <1>3, <1>4, <1>6, <2>1
  <1> QED  BY <1>5, <1>6

LEMMA MergeAppends ==
  ASSUME NEW merged \in Seq(TurnRecords), NEW chunk \in TurnRecords, Mergeable(merged, chunk),
         merged # <<>> => Last(merged).end <= chunk.start
  PROVE  Merges(merged, chunk, Append(merged, chunk))
  <1> DEFINE new == Append(merged, chunk)
             n == Len(merged)
  <1>1. /\ new \in Seq(TurnRecords) /\ new # <<>> /\ n \in Nat
        /\ DOMAIN new = 1 .. n + 1 /\ DOMAIN merged = 1 .. n
        /\ \A i \in 1 .. n : new[i] = merged[i]
        /\ new[n + 1] = chunk /\ Last(new) = chunk
    BY DEF Last
  <1>2. /\ chunk.start \in Nat /\ chunk.end \in Nat
        /\ merged # <<>> => Last(merged).end \in Nat
    BY LastOf, TurnFields DEF TurnRecords
  <1>3. Boundary(merged, chunk) = chunk.start
    BY <1>2 DEF Boundary
  <1>4. \A i \in 1 .. n : merged[i].end <= chunk.start
    <2> SUFFICES ASSUME NEW i \in 1 .. n  PROVE merged[i].end <= chunk.start
      OBVIOUS
    <2>1. merged # <<>> /\ merged[i] \in TurnRecords
      BY <1>1
    <2>2. merged[i].end <= Last(merged).end
      BY <2>1, EndsBefore DEF Mergeable
    <2> QED  BY <2>1, <2>2, <1>2, TurnFields DEF TurnRecords
  <1>5. Ordered(new)
    <2>1. \A i \in DOMAIN new : new[i].start < new[i].end
      BY <1>1 DEF Mergeable, Ordered
    <2>2. \A i, j \in DOMAIN new : i < j => new[i].end <= new[j].start
      BY <1>1, <1>4 DEF Mergeable, Ordered
    <2> QED  BY <2>1, <2>2 DEF Ordered
  <1>6. ASSUME NEW x \in Nat, NEW s \in Speakers
        PROVE  /\ Speaks(merged, x, s) => Speaks(new, x, s)
               /\ chunk.start <= x /\ x < chunk.end => Speaks(new, x, chunk.speaker)
    <2> HIDE DEF new
    <2> QED  BY <1>1 DEF Speaks, During
  <1> HIDE DEF new
  <1>7. \A x \in Nat : Covers(new, x) => Covers(merged, x) \/ During(x, chunk)
    BY <1>1 DEF Covers
  <1>8. Merges(merged, chunk, new)
    BY <1>1, <1>2, <1>3, <1>5, <1>6, <1>7 DEF Merges
  <1> QED  BY <1>8 DEF new

LEMMA MergeExtends ==
  ASSUME NEW merged \in Seq(TurnRecords), NEW chunk \in TurnRecords, Mergeable(merged, chunk),
         merged # <<>>, Last(merged).end >= chunk.start, Last(merged).speaker = chunk.speaker,
         NEW new,
         new = [merged EXCEPT ![Len(merged)] =
                  [start |-> Last(merged).start, end |-> chunk.end, speaker |-> chunk.speaker]]
  PROVE  Merges(merged, chunk, new)
  <1> DEFINE n == Len(merged)
             b == Boundary(merged, chunk)
  <1>1. /\ n \in 1 .. n /\ n \in Nat /\ DOMAIN merged = 1 .. n
        /\ Last(merged) = merged[n] /\ merged[n] \in TurnRecords
    BY LastOf
  <1>2. /\ merged[n].start \in Nat /\ merged[n].end \in Nat
        /\ chunk.start \in Nat /\ chunk.end \in Nat /\ chunk.speaker \in Speakers
    BY <1>1, TurnFields DEF TurnRecords
  <1>3. [start |-> merged[n].start, end |-> chunk.end, speaker |-> chunk.speaker] \in TurnRecords
    BY <1>2, TurnFields DEF TurnRecords
  <1>4. /\ new \in Seq(TurnRecords) /\ new # <<>>
        /\ Len(new) = n /\ DOMAIN new = 1 .. n
        /\ \A i \in 1 .. n : i # n => new[i] = merged[i]
        /\ new[n] = [start |-> merged[n].start, end |-> chunk.end, speaker |-> chunk.speaker]
        /\ Last(new) = new[n]
    BY <1>1, <1>3 DEF Last
  <1>5. merged[n].start < merged[n].end /\ merged[n].end < chunk.end
    BY <1>1 DEF Mergeable, Ordered
  <1>6. b \in Nat /\ merged[n].start <= b /\ b <= merged[n].end
    BY <1>1, <1>2, <1>5 DEF Boundary, Mergeable
  <1>7. Ordered(new)
    <2>1. /\ \A i \in 1 .. n : merged[i].start < merged[i].end
          /\ \A i, j \in 1 .. n : i < j => merged[i].end <= merged[j].start
      BY OrderedTurns DEF Mergeable
    <2>2. new[n].start = merged[n].start /\ new[n].end = chunk.end /\ merged[n].start < chunk.end
      BY <1>2, <1>4, <1>5
    <2>3. ASSUME NEW i \in 1 .. n  PROVE new[i].start < new[i].end
      BY <1>4, <2>1, <2>2
    <2>4. ASSUME NEW i \in 1 .. n, NEW j \in 1 .. n, i < j  PROVE new[i].end <= new[j].start
      <3>1. i # n /\ new[j].start = merged[j].start
        BY <1>1, <1>4, <2>2, <2>4
      <3> QED  BY <1>4, <2>1, <2>4, <3>1
    <2> QED  BY <2>3, <2>4, <1>4, OrderedTurns
  <1> HIDE DEF b
  <1>8. ASSUME NEW x \in Nat, NEW s \in Speakers, Speaks(merged, x, s)
        PROVE  Speaks(new, x, s)
    <2>1. PICK k \in 1 .. n : During(x, merged[k]) /\ merged[k].speaker = s
      BY <1>8, <1>1 DEF Speaks
    <2>2. CASE k = n
      BY <2>1, <2>2, <1>1, <1>2, <1>4, <1>5 DEF During, Speaks
    <2>3. CASE k # n
      BY <2>1, <2>3, <1>4 DEF Speaks
    <2> QED  BY <2>2, <2>3
  <1>9. ASSUME NEW x \in Nat, b <= x, x < chunk.end
        PROVE  Speaks(new, x, chunk.speaker)
    BY <1>9, <1>1, <1>2, <1>4, <1>6 DEF During, Speaks
  <1>10. Last(new).end = chunk.end /\ Last(new).start <= b
    BY <1>4, <1>6
  <1>11. ASSUME NEW x \in Nat, Covers(new, x)
         PROVE  Covers(merged, x) \/ During(x, chunk)
    <2>1. PICK k \in 1 .. n : During(x, new[k])
      BY <1>11, <1>4 DEF Covers
    <2>2. CASE k = n
      BY <2>1, <2>2, <1>1, <1>2, <1>4, <1>5 DEF During, Covers
    <2>3. CASE k # n
      BY <2>1, <2>3, <1>1, <1>4 DEF Covers
    <2> QED  BY <2>2, <2>3
  <1> QED  BY <1>4, <1>7, <1>8, <1>9, <1>10, <1>11 DEF Merges, b

LEMMA MergeCuts ==
  ASSUME NEW merged \in Seq(TurnRecords), NEW chunk \in TurnRecords, Mergeable(merged, chunk),
         merged # <<>>, Last(merged).end > chunk.start,
         NEW shortened \in Seq(TurnRecords), Len(shortened) = Len(merged),
         \A i \in 1 .. Len(merged) : i # Len(merged) => shortened[i] = merged[i],
         NEW cut \in Nat, cut = Boundary(merged, chunk),
         NEW first \in TurnRecords, shortened[Len(merged)] = first,
         first.start = Last(merged).start, first.end = cut, first.speaker = Last(merged).speaker,
         NEW rest \in TurnRecords,
         rest.start = cut, rest.end = chunk.end, rest.speaker = chunk.speaker,
         NEW new, new = Append(shortened, rest)
  PROVE  Merges(merged, chunk, new)
  <1> DEFINE n == Len(merged)
  <1>1. /\ n \in 1 .. n /\ n \in Nat /\ DOMAIN merged = 1 .. n
        /\ Last(merged) = merged[n] /\ merged[n] \in TurnRecords
    BY LastOf
  <1>2. /\ merged[n].start \in Nat /\ merged[n].end \in Nat /\ merged[n].speaker \in Speakers
        /\ chunk.start \in Nat /\ chunk.end \in Nat /\ chunk.speaker \in Speakers
    BY <1>1, TurnFields
  <1>3. /\ cut \in Nat /\ merged[n].start < cut /\ cut <= merged[n].end /\ chunk.start <= cut
        /\ merged[n].end < chunk.end
    BY <1>1 DEF Mergeable
  <1>6. /\ new \in Seq(TurnRecords) /\ new # <<>>
        /\ DOMAIN new = 1 .. n + 1 /\ Len(new) = n + 1
        /\ \A i \in 1 .. n : i # n => new[i] = merged[i]
        /\ new[n] = first
        /\ new[n + 1] = rest /\ Last(new) = rest
    <2>1. /\ new \in Seq(TurnRecords) /\ new # <<>>
          /\ DOMAIN new = 1 .. Len(shortened) + 1 /\ Len(new) = Len(shortened) + 1
          /\ \A i \in 1 .. Len(shortened) : new[i] = shortened[i]
          /\ new[Len(shortened) + 1] = rest /\ Last(new) = rest
      BY Appended DEF Last
    <2>2. /\ new \in Seq(TurnRecords) /\ new # <<>>
          /\ DOMAIN new = 1 .. n + 1 /\ Len(new) = n + 1
          /\ \A i \in 1 .. n : new[i] = shortened[i]
          /\ new[n + 1] = rest /\ Last(new) = rest
      BY <2>1, Zenon
    <2> QED  BY <1>1, <2>2
  <1>7. \A i \in 1 .. n : i # n => merged[i].end <= merged[n].start /\ merged[i].end \in Nat
    BY <1>1, EndsBefore, OrderedTurns DEF Mergeable
  <1>8. Ordered(new)
    <2>1. /\ \A i \in 1 .. n : merged[i].start < merged[i].end
          /\ \A i, j \in 1 .. n : i < j => merged[i].end <= merged[j].start
      BY OrderedTurns DEF Mergeable
    <2>2. /\ new[n].start = merged[n].start /\ new[n].end = cut
          /\ new[n + 1].start = cut /\ new[n + 1].end = chunk.end /\ cut < chunk.end
      <3>1. new[n] = first /\ new[n + 1] = rest
        BY <1>6
      <3>2. cut < chunk.end
        BY <1>2, <1>3
      <3> QED  BY <1>1, <3>1, <3>2
    <2>3. ASSUME NEW i \in 1 .. n + 1  PROVE new[i].start < new[i].end
      <3>1. i = n + 1 \/ i = n \/ (i \in 1 .. n /\ i # n)
        BY <1>1
      <3> QED  BY <3>1, <1>3, <1>6, <2>1, <2>2
    <2>4. ASSUME NEW i \in 1 .. n + 1, NEW j \in 1 .. n + 1, i < j
          PROVE  new[i].end <= new[j].start
      <3>1. CASE j = n + 1 /\ i = n
        BY <3>1, <1>3, <2>2
      <3>2. CASE j = n + 1 /\ i # n
        <4>1. i \in 1 .. n /\ new[i].end = merged[i].end
          BY <3>2, <2>4, <1>1, <1>6
        <4>2. merged[i].end <= merged[n].start /\ merged[i].end \in Nat
          BY <3>2, <4>1, <1>7
        <4> QED  BY <3>2, <4>1, <4>2, <1>2, <1>3, <2>2
      <3>3. CASE j # n + 1
        <4>1. i \in 1 .. n /\ i # n /\ j \in 1 .. n
          BY <3>3, <2>4, <1>1
        <4>2. new[i].end = merged[i].end
          BY <4>1, <1>6
        <4>3. new[j].start = merged[j].start
          BY <4>1, <1>6, <2>2
        <4> QED  BY <2>1, <2>4, <4>1, <4>2, <4>3
      <3> QED  BY <3>1, <3>2, <3>3
    <2> QED  BY <2>3, <2>4, <1>1, <1>6, OrderedTurns
  <1>9. ASSUME NEW x \in Nat, NEW s \in Speakers, x < cut, Speaks(merged, x, s)
        PROVE  Speaks(new, x, s)
    <2>1. PICK k \in 1 .. n : During(x, merged[k]) /\ merged[k].speaker = s
      BY <1>9, <1>1 DEF Speaks
    <2>2. CASE k = n
      BY <2>1, <2>2, <1>1, <1>2, <1>6, <1>9 DEF During, Speaks
    <2>3. CASE k # n
      BY <2>1, <2>3, <1>1, <1>6 DEF Speaks
    <2> QED  BY <2>2, <2>3
  <1>10. ASSUME NEW x \in Nat, cut <= x, x < chunk.end
         PROVE  Speaks(new, x, chunk.speaker)
    BY <1>10, <1>1, <1>6 DEF During, Speaks
  <1>11. ASSUME NEW x \in Nat, Covers(new, x)
         PROVE  Covers(merged, x) \/ During(x, chunk)
    <2>1. PICK k \in 1 .. n + 1 : During(x, new[k])
      BY <1>11, <1>6 DEF Covers
    <2>2. CASE k = n + 1
      BY <2>1, <2>2, <1>2, <1>3, <1>6 DEF During
    <2>3. CASE k = n
      BY <2>1, <2>3, <1>1, <1>2, <1>3, <1>6 DEF During, Covers
    <2>4. CASE k \in 1 .. n /\ k # n
      BY <2>1, <2>4, <1>1, <1>6 DEF Covers
    <2> QED  BY <1>1, <2>2, <2>3, <2>4
  <1> QED  BY <1>2, <1>3, <1>6, <1>8, <1>9, <1>10, <1>11 DEF Merges

LEMMA MergeTurnMerges ==
  ASSUME NEW merged \in Seq(TurnRecords), NEW chunk \in TurnRecords, Mergeable(merged, chunk)
  PROVE  Merges(merged, chunk, MergeTurn(merged, chunk))
  <1>1. CASE merged = <<>>
    <2>1. MergeTurn(merged, chunk) = Append(merged, chunk)
      BY <1>1 DEF MergeTurn
    <2> QED  BY <1>1, <2>1, MergeAppends
  <1>2. CASE merged # <<>>
    <2> DEFINE n == Len(merged)
               last == merged[n]
    <2>1. /\ n \in DOMAIN merged /\ Last(merged) = last /\ last \in TurnRecords
      BY <1>2, LastOf
    <2>2. /\ last.start \in Nat /\ last.end \in Nat /\ chunk.start \in Nat /\ chunk.end \in Nat
          /\ last = [start |-> last.start, end |-> last.end, speaker |-> last.speaker]
          /\ chunk = [start |-> chunk.start, end |-> chunk.end, speaker |-> chunk.speaker]
      BY <2>1 DEF TurnRecords
    <2>3. CASE last.speaker # chunk.speaker /\ last.end > chunk.start
      <3> DEFINE cut == Middle(last, chunk)
                 first == [start |-> last.start, end |-> cut, speaker |-> last.speaker]
                 shortened == [merged EXCEPT ![n] = first]
                 rest == [start |-> cut, end |-> chunk.end, speaker |-> chunk.speaker]
      <3>1. cut = Boundary(merged, chunk)
        BY <1>2, <2>1, <2>3 DEF Boundary
      <3> HIDE DEF cut
      <3>2. [last EXCEPT !.end = cut] = first
        BY <2>2
      <3>3. [merged EXCEPT ![n].end = cut] = shortened
        BY <2>1, <3>2
      <3>4. [chunk EXCEPT !.start = cut] = rest
        BY <2>2
      <3>5. MergeTurn(merged, chunk) = Append([merged EXCEPT ![n].end = cut], [chunk EXCEPT !.start = cut])
        BY <1>2, <2>1, <2>3 DEF MergeTurn, cut
      <3>6. MergeTurn(merged, chunk) = Append(shortened, rest)
        BY <3>3, <3>4, <3>5
      <3>7. cut \in Nat
        BY <1>2, <2>1, <2>3, <3>1 DEF Mergeable
      <3>8. first \in TurnRecords /\ rest \in TurnRecords
        BY <2>1, <2>2, <3>7, TurnFields DEF TurnRecords
      <3>9. /\ shortened \in Seq(TurnRecords) /\ Len(shortened) = n
            /\ \A i \in 1 .. n : i # n => shortened[i] = merged[i]
            /\ shortened[n] = first
        <4> HIDE DEF first
        <4> QED  BY <2>1, <3>8
      <3>10. /\ first.start = Last(merged).start /\ first.end = cut
             /\ first.speaker = Last(merged).speaker
             /\ rest.start = cut /\ rest.end = chunk.end /\ rest.speaker = chunk.speaker
        BY <2>1
      <3>11. Last(merged).end > chunk.start
        BY <2>1, <2>3
      <3> HIDE DEF shortened, first, rest
      <3> QED  BY <1>2, <3>1, <3>6, <3>7, <3>8, <3>9, <3>10, <3>11, MergeCuts
    <2>4. CASE last.speaker # chunk.speaker /\ ~(last.end > chunk.start)
      <3>1. MergeTurn(merged, chunk) = Append(merged, chunk)
        BY <1>2, <2>1, <2>4 DEF MergeTurn
      <3>2. last.end <= chunk.start
        BY <2>2, <2>4
      <3> QED  BY <2>1, <3>1, <3>2, MergeAppends
    <2>5. CASE last.speaker = chunk.speaker /\ chunk.start <= last.end
      <3> DEFINE whole == [start |-> last.start, end |-> chunk.end, speaker |-> chunk.speaker]
      <3>1. Greater(last.end, chunk.end) = chunk.end
        BY <1>2, <2>1, <2>2 DEF Mergeable, Greater
      <3>2. [last EXCEPT !.end = chunk.end] = whole
        BY <2>2, <2>5
      <3>3. [merged EXCEPT ![n].end = Greater(@, chunk.end)] = [merged EXCEPT ![n] = whole]
        BY <2>1, <3>1, <3>2
      <3>4. MergeTurn(merged, chunk) = [merged EXCEPT ![n].end = Greater(@, chunk.end)]
        BY <1>2, <2>1, <2>5 DEF MergeTurn
      <3>5. MergeTurn(merged, chunk) = [merged EXCEPT ![n] = whole]
        BY <3>3, <3>4
      <3>6. last.end >= chunk.start
        BY <2>2, <2>5
      <3> QED  BY <1>2, <2>1, <2>5, <3>5, <3>6, MergeExtends
    <2>6. CASE last.speaker = chunk.speaker /\ ~(chunk.start <= last.end)
      <3>1. MergeTurn(merged, chunk) = Append(merged, chunk)
        BY <1>2, <2>1, <2>6 DEF MergeTurn
      <3>2. last.end <= chunk.start
        BY <2>2, <2>6
      <3> QED  BY <2>1, <3>1, <3>2, MergeAppends
    <2> QED  BY <2>3, <2>4, <2>5, <2>6
  <1> QED  BY <1>1, <1>2

-----------------------------------------------------------------------------
(* The invariant *)

\* The loop over the chunks of a region: where the last one lies.
LoopInv ==
  /\ Region.start <= Region.end
  /\ candidate = 0 => lastEnd = 0
  /\ candidate = 0 /\ labeled # <<>> => Last(labeled).end <= 2 * Region.start
  /\ candidate > 0 =>
       /\ labeled # <<>> /\ candidate >= Shift
       /\ lastEnd = Lesser(candidate - Shift + ChunkLength, RegionLength)
       /\ Last(labeled).start = 2 * (Region.start + Greater(0, lastEnd - ChunkLength))
       /\ Last(labeled).end = 2 * (Region.start + lastEnd)

\* No chunk begins or ends after the last one.
LatestInv ==
  labeled # <<>> =>
    /\ Last(labeled).start < Last(labeled).end
    /\ \A i \in DOMAIN labeled :
         labeled[i].start <= Last(labeled).start /\ labeled[i].end <= Last(labeled).end

\* The last turn ends with the last chunk and begins before its centre.
MergeInv ==
  /\ turns = <<>> <=> labeled = <<>>
  /\ Ordered(turns)
  /\ turns # <<>> =>
       /\ Last(turns).end = Last(labeled).end
       /\ 2 * Last(turns).start < Last(labeled).start + Last(labeled).end

Hears(chunks, x) == {i \in DOMAIN chunks : During(x, chunks[i])}
Nearest(chunks, x, i) == \A j \in Hears(chunks, x) : OffCentre(x, chunks[i]) <= OffCentre(x, chunks[j])
Given(chunks, list, x) ==
  \E i \in Hears(chunks, x) : Nearest(chunks, x, i) /\ Speaks(list, x, chunks[i].speaker)

\* Every moment that is heard belongs to the nearest chunk.
AllGiven(chunks, list) == \A x \in Nat : Hears(chunks, x) # {} => Given(chunks, list, x)
NearestInv == AllGiven(labeled, turns)

\* Some region has the moment, and in the last one the chunks have got to it.
Reached(i) == IF i = Len(regions) THEN regions[i].start + lastEnd ELSE regions[i].end
Chunked(x) == \E i \in DOMAIN regions : 2 * regions[i].start <= x /\ x < 2 * Reached(i)

\* The chunks hear the regions and no silence, as far as they have got; the
\* turns are within the chunks.
CoverInv ==
  /\ regions # <<>> => Region.start < Region.end
  /\ \A x \in Nat : Covers(labeled, x) <=> Chunked(x)
  /\ \A x \in Nat : Covers(turns, x) => Covers(labeled, x)

TurnsInv == TurnsTypeOK /\ LoopInv /\ LatestInv /\ MergeInv /\ NearestInv /\ CoverInv

-----------------------------------------------------------------------------
(* The next chunk *)

LEMMA RegionType ==
  ASSUME TurnsTypeOK
  PROVE  Region.start \in Nat /\ Region.end \in Nat
  <1>1. CASE regions = <<>>
    BY <1>1 DEF Region
  <1>2. CASE regions # <<>>
    <2> DEFINE Spans == [start : Nat, end : Nat]
    <2>1. regions \in Seq(Spans)
      BY DEF TurnsTypeOK
    <2>2. Region = Last(regions)
      BY <1>2 DEF Region
    <2> HIDE DEF Spans
    <2>3. Region \in Spans
      BY <1>2, <2>1, <2>2, LastOf
    <2> QED  BY <2>3 DEF Spans
  <1> QED  BY <1>1, <1>2

LEMMA ChunkFields ==
  ASSUME TurnsTypeOK, LoopInv, MoreChunks, NEW speaker \in Speakers
  PROVE  LET chunk == Chunk(speaker) IN
         /\ chunk \in TurnRecords /\ chunk.speaker = speaker
         /\ ChunkEnd \in Nat /\ lastEnd < ChunkEnd
         /\ ChunkEnd = Lesser(candidate + ChunkLength, RegionLength)
         /\ chunk.start = 2 * (Region.start + Greater(0, ChunkEnd - ChunkLength))
         /\ chunk.end = 2 * (Region.start + ChunkEnd)
         /\ chunk.start < chunk.end
         /\ chunk.end <= 2 * Region.end
  <1>1. /\ Region.start \in Nat /\ Region.end \in Nat /\ candidate \in Nat /\ lastEnd \in Nat
        /\ ChunkLength \in Nat /\ ChunkLength > 0
    BY RegionType, TurnsAssumption DEF TurnsTypeOK
  <1>2. RegionLength \in Nat /\ RegionLength = Region.end - Region.start
    BY <1>1 DEF RegionLength, LoopInv
  <1>3. /\ ChunkEnd \in Nat /\ lastEnd < ChunkEnd /\ ChunkEnd <= RegionLength
        /\ ChunkEnd = Lesser(candidate + ChunkLength, RegionLength)
    BY <1>1, <1>2 DEF ChunkEnd, Lesser, MoreChunks
  <1>4. /\ Greater(0, ChunkEnd - ChunkLength) \in Nat
        /\ Greater(0, ChunkEnd - ChunkLength) < ChunkEnd
    BY <1>1, <1>3 DEF Greater
  <1> DEFINE g == Greater(0, ChunkEnd - ChunkLength)
             chunk == Chunk(speaker)
  <1>5. /\ chunk.start = 2 * (Region.start + g)
        /\ chunk.end = 2 * (Region.start + ChunkEnd)
        /\ chunk.speaker = speaker
        /\ chunk = [start |-> chunk.start, end |-> chunk.end, speaker |-> chunk.speaker]
    BY DEF Chunk
  <1> HIDE DEF g, chunk
  <1>6. chunk.start \in Nat /\ chunk.end \in Nat /\ chunk.start < chunk.end /\ chunk.end <= 2 * Region.end
    BY <1>1, <1>2, <1>3, <1>4, <1>5 DEF g
  <1>7. chunk \in TurnRecords
    BY <1>5, <1>6 DEF TurnRecords
  <1> QED  BY <1>3, <1>5, <1>6, <1>7 DEF g, chunk

\* The next chunk begins no earlier than the last and ends later, and if the
\* two overlap they are equally long.
LEMMA ChunkFollows ==
  ASSUME TurnsTypeOK, LoopInv, LatestInv, MoreChunks, NEW speaker \in Speakers, labeled # <<>>
  PROVE  LET last == Last(labeled)
             chunk == Chunk(speaker) IN
         /\ last.start <= chunk.start /\ last.end < chunk.end
         /\ last.end > chunk.start =>
              /\ last.end - last.start = chunk.end - chunk.start
              /\ \E m \in Nat : 2 * m = last.end + chunk.start
  <1> DEFINE last == Last(labeled)
             chunk == Chunk(speaker)
             g == Greater(0, ChunkEnd - ChunkLength)
  <1>1. last.start \in Nat /\ last.end \in Nat /\ last.start < last.end
    BY LastOf, TurnFields DEF TurnsTypeOK, LatestInv
  <1>2. /\ chunk.start \in Nat /\ chunk.end \in Nat /\ ChunkEnd \in Nat /\ lastEnd < ChunkEnd
        /\ ChunkEnd = Lesser(candidate + ChunkLength, RegionLength)
        /\ chunk.start = 2 * (Region.start + g)
        /\ chunk.end = 2 * (Region.start + ChunkEnd)
        /\ chunk.start < chunk.end
    BY ChunkFields, TurnFields
  <1>3. /\ Region.start \in Nat /\ Region.end \in Nat /\ candidate \in Nat /\ lastEnd \in Nat
        /\ ChunkLength \in Nat /\ Shift \in Nat /\ 0 < Shift /\ Shift < ChunkLength
        /\ RegionLength \in Nat
    BY RegionType, TurnsAssumption DEF TurnsTypeOK, RegionLength, LoopInv
  <1> HIDE DEF chunk, last
  <1>4. CASE candidate = 0
    <2>1. last.end <= 2 * Region.start
      BY <1>4 DEF LoopInv, last
    <2>2. g \in Nat
      BY <1>2, <1>3 DEF Greater
    <2> HIDE DEF g
    <2>3. last.end <= chunk.start
      <3> DEFINE r == Region.start
      <3>1. /\ chunk.start = 2 * (r + g) /\ r \in Nat
            /\ last.end \in Nat /\ last.end <= 2 * r
        BY <1>1, <1>2, <1>3, <2>1
      <3> HIDE DEF r
      <3>2. last.end <= 2 * (r + g)
        BY ONLY <2>2, <3>1
      <3> QED  BY <3>1, <3>2
    <2> QED  BY <1>1, <1>2, <2>3 DEF last, chunk
  <1>5. CASE candidate > 0
    <2>1. /\ candidate >= Shift
          /\ lastEnd = Lesser(candidate - Shift + ChunkLength, RegionLength)
          /\ last.start = 2 * (Region.start + Greater(0, lastEnd - ChunkLength))
          /\ last.end = 2 * (Region.start + lastEnd)
      BY <1>5 DEF LoopInv, last
    <2>2. lastEnd < RegionLength
      BY <1>2, <1>3 DEF Lesser
    <2>3. lastEnd >= ChunkLength
      BY <1>3, <2>1, <2>2 DEF Lesser
    <2>4. Greater(0, lastEnd - ChunkLength) = lastEnd - ChunkLength /\ g = ChunkEnd - ChunkLength
      BY <1>2, <1>3, <2>3 DEF Greater
    <2>5. /\ last.start = 2 * (Region.start + (lastEnd - ChunkLength))
          /\ chunk.start = 2 * (Region.start + (ChunkEnd - ChunkLength))
      BY <1>2, <2>1, <2>4
    <2> DEFINE base == Region.start
    <2>6. /\ base \in Nat /\ last.end = 2 * (base + lastEnd) /\ last.start = 2 * (base + (lastEnd - ChunkLength))
          /\ chunk.end = 2 * (base + ChunkEnd) /\ chunk.start = 2 * (base + (ChunkEnd - ChunkLength))
      BY <1>2, <1>3, <2>1, <2>5
    <2> HIDE DEF base
    <2>7. /\ last.start <= chunk.start /\ last.end < chunk.end
          /\ last.end - last.start = chunk.end - chunk.start
          /\ \E m \in Nat : 2 * m = last.end + chunk.start
      <3>1. /\ base \in Nat /\ lastEnd \in Nat /\ ChunkEnd \in Nat /\ ChunkLength \in Nat
            /\ lastEnd < ChunkEnd /\ ChunkLength <= lastEnd
        BY <1>2, <1>3, <2>3, <2>6
      <3> HIDE DEF g
      <3>2. /\ 2 * (base + (lastEnd - ChunkLength)) <= 2 * (base + (ChunkEnd - ChunkLength))
            /\ 2 * (base + lastEnd) < 2 * (base + ChunkEnd)
            /\ 2 * (base + lastEnd) - 2 * (base + (lastEnd - ChunkLength))
                 = 2 * (base + ChunkEnd) - 2 * (base + (ChunkEnd - ChunkLength))
        BY <3>1
      <3>3. \E m \in Nat : 2 * m = 2 * (base + lastEnd) + 2 * (base + (ChunkEnd - ChunkLength))
        <4> DEFINE m == (base + lastEnd) + (base + (ChunkEnd - ChunkLength))
        <4>1. m \in Nat /\ 2 * m = 2 * (base + lastEnd) + 2 * (base + (ChunkEnd - ChunkLength))
          BY <3>1
        <4> QED  BY <4>1
      <3> QED  BY <3>2, <3>3, <2>6, Zenon
    <2> QED  BY <2>7 DEF last, chunk
  <1> QED  BY <1>3, <1>4, <1>5

LEMMA Halves ==
  ASSUME NEW m \in Nat
  PROVE  (2 * m) \div 2 = m
  OBVIOUS

LEMMA ChunkMergeable ==
  ASSUME TurnsTypeOK, LoopInv, LatestInv, MergeInv, MoreChunks, NEW speaker \in Speakers
  PROVE  LET last == Last(labeled)
             chunk == Chunk(speaker)
             b == Boundary(turns, chunk) IN
         /\ Mergeable(turns, chunk)
         /\ b \in Nat /\ chunk.start <= b
         /\ labeled # <<>> /\ last.end > chunk.start =>
              2 * b = last.end + chunk.start /\ b <= last.end
         /\ ~(labeled # <<>> /\ last.end > chunk.start) => b = chunk.start
  <1> DEFINE last == Last(labeled)
             chunk == Chunk(speaker)
             b == Boundary(turns, chunk)
  <1>1. chunk \in TurnRecords /\ chunk.start \in Nat /\ chunk.end \in Nat /\ chunk.start < chunk.end
    BY ChunkFields, TurnFields
  <1>2. Ordered(turns) /\ (turns = <<>> <=> labeled = <<>>)
    BY DEF MergeInv
  <1>3. ASSUME labeled # <<>>
        PROVE  /\ last.start \in Nat /\ last.end \in Nat /\ last.start < last.end
               /\ last.start <= chunk.start /\ last.end < chunk.end
               /\ last.end > chunk.start => \E m \in Nat : 2 * m = last.end + chunk.start
               /\ Last(turns).end = last.end /\ Last(turns).start \in Nat
               /\ 2 * Last(turns).start < last.start + last.end
    <2>1. last.start \in Nat /\ last.end \in Nat /\ last.start < last.end
      BY <1>3, LastOf, TurnFields DEF TurnsTypeOK, LatestInv
    <2>2. /\ last.start <= chunk.start /\ last.end < chunk.end
          /\ last.end > chunk.start => \E m \in Nat : 2 * m = last.end + chunk.start
      BY <1>3, ChunkFollows
    <2>3. /\ Last(turns).end = last.end /\ Last(turns).start \in Nat
          /\ 2 * Last(turns).start < last.start + last.end
      BY <1>2, <1>3, LastOf, TurnFields DEF TurnsTypeOK, MergeInv
    <2> QED  BY <2>1, <2>2, <2>3
  <1> HIDE DEF last, chunk
  <1>4. CASE labeled # <<>> /\ last.end > chunk.start
    <2>1. PICK m \in Nat : 2 * m = last.end + chunk.start
      BY <1>3, <1>4
    <2>2. b = (last.end + chunk.start) \div 2
      BY <1>2, <1>3, <1>4 DEF Boundary, Middle
    <2>3. b = m
      BY <2>1, <2>2, Halves
    <2>4. chunk.start <= b /\ b <= last.end /\ Last(turns).start < b /\ b \in Nat
      <3>1. /\ last.start \in Nat /\ last.end \in Nat /\ Last(turns).start \in Nat
            /\ last.start <= chunk.start /\ 2 * Last(turns).start < last.start + last.end
        BY <1>3, <1>4
      <3>2. chunk.start \in Nat /\ chunk.start < last.end /\ m \in Nat /\ 2 * m = last.end + chunk.start
        BY <1>1, <1>4, <2>1
      <3>3. chunk.start <= m /\ m <= last.end /\ Last(turns).start < m
        BY ONLY <3>1, <3>2
      <3> QED  BY <2>3, <3>3
    <2>5. Mergeable(turns, chunk)
      BY <1>1, <1>2, <1>3, <1>4, <2>4 DEF Mergeable
    <2> HIDE DEF b
    <2> QED  BY <1>4, <2>1, <2>3, <2>4, <2>5 DEF last, chunk, b
  <1>5. CASE ~(labeled # <<>> /\ last.end > chunk.start)
    <2>1. b = chunk.start
      BY <1>2, <1>3, <1>5 DEF Boundary
    <2>2. Mergeable(turns, chunk)
      BY <1>1, <1>2, <1>3, <1>5 DEF Mergeable
    <2> HIDE DEF b
    <2> QED  BY <1>1, <1>5, <2>1, <2>2 DEF last, chunk, b
  <1> QED  BY <1>4, <1>5

-----------------------------------------------------------------------------
(* The nearest centre *)

\* Two equally long spans: before the middle of their overlap the earlier is
\* nearer; after it the later is nearer than anything not later than the earlier.
LEMMA NearerBefore ==
  ASSUME NEW x \in Nat, NEW p \in TurnRecords, NEW c \in TurnRecords,
         p.start <= c.start, p.end <= c.end, p.end - p.start = c.end - c.start,
         NEW b \in Nat, 2 * b = p.end + c.start, x < b
  PROVE  OffCentre(x, p) <= OffCentre(x, c)
  <1>1. p.start \in Nat /\ p.end \in Nat /\ c.start \in Nat /\ c.end \in Nat
    BY TurnFields
  <1> QED  BY <1>1 DEF OffCentre

LEMMA NearerAfter ==
  ASSUME NEW x \in Nat, NEW p \in TurnRecords, NEW c \in TurnRecords, NEW j \in TurnRecords,
         p.start <= c.start, p.end <= c.end, p.end - p.start = c.end - c.start,
         j.start <= p.start, j.end <= p.end,
         NEW b \in Nat, 2 * b = p.end + c.start, b <= x
  PROVE  OffCentre(x, c) <= OffCentre(x, j)
  <1>1. /\ p.start \in Nat /\ p.end \in Nat /\ c.start \in Nat /\ c.end \in Nat
        /\ j.start \in Nat /\ j.end \in Nat
    BY TurnFields
  <1> QED  BY <1>1 DEF OffCentre

LEMMA OffCentreType ==
  \A x \in Nat, c \in TurnRecords : OffCentre(x, c) \in Int
  BY TurnFields DEF OffCentre

\* The chunk follows the others and takes over at b: in the middle between its
\* start and the end of the last of them where they overlap.
Follows(chunks, chunk, b) ==
  LET last == Last(chunks) IN
  /\ \A i \in 1 .. Len(chunks) : chunks[i].start <= last.start /\ chunks[i].end <= last.end
  /\ chunk.start <= b /\ chunk.start < chunk.end
  /\ chunks # <<>> => last.start <= chunk.start /\ last.end < chunk.end
  /\ chunks # <<>> /\ last.end > chunk.start =>
       /\ 2 * b = last.end + chunk.start /\ b <= last.end
       /\ last.end - last.start = chunk.end - chunk.start
  /\ ~(chunks # <<>> /\ last.end > chunk.start) => b = chunk.start

\* Moments before b keep their speaker, the others of the chunk get its own.
TakesOver(list, new, chunk, b) ==
  \A x \in Nat, s \in Speakers :
    /\ x < b /\ Speaks(list, x, s) => Speaks(new, x, s)
    /\ b <= x /\ x < chunk.end => Speaks(new, x, chunk.speaker)

LEMMA StepNearest ==
  ASSUME NEW chunks \in Seq(TurnRecords), NEW list, NEW chunk \in TurnRecords,
         NEW merged, NEW b \in Nat,
         AllGiven(chunks, list), Follows(chunks, chunk, b), TakesOver(list, merged, chunk, b)
  PROVE  AllGiven(Append(chunks, chunk), merged)
  <1> DEFINE n == Len(chunks)
             last == Last(chunks)
             longer == Append(chunks, chunk)
  <1> SUFFICES ASSUME NEW x \in Nat, Hears(longer, x) # {}
               PROVE  Given(longer, merged, x)
    BY DEF AllGiven
  <1>0. /\ longer \in Seq(TurnRecords) /\ DOMAIN longer = 1 .. n + 1
        /\ \A i \in 1 .. n : longer[i] = chunks[i]
        /\ longer[n + 1] = chunk
    OBVIOUS
  <1> HIDE DEF longer
  <1>a. /\ \A i \in 1 .. n : chunks[i].start <= last.start /\ chunks[i].end <= last.end
        /\ chunk.start <= b /\ chunk.start < chunk.end
        /\ chunks # <<>> => last.start <= chunk.start /\ last.end < chunk.end
        /\ chunks # <<>> /\ last.end > chunk.start =>
             /\ 2 * b = last.end + chunk.start /\ b <= last.end
             /\ last.end - last.start = chunk.end - chunk.start
        /\ ~(chunks # <<>> /\ last.end > chunk.start) => b = chunk.start
    BY DEF Follows
  <1>b. /\ Hears(chunks, x) # {} => Given(chunks, list, x)
        /\ \A s \in Speakers :
             /\ x < b /\ Speaks(list, x, s) => Speaks(merged, x, s)
             /\ b <= x /\ x < chunk.end => Speaks(merged, x, chunk.speaker)
    BY DEF AllGiven, TakesOver
  <1>1. /\ n \in Nat /\ DOMAIN chunks = 1 .. n
        /\ \A i \in 1 .. n : chunks[i] \in TurnRecords /\ chunks[i].speaker \in Speakers
        /\ chunk.start \in Nat /\ chunk.end \in Nat /\ chunk.speaker \in Speakers
    BY TurnFields
  <1>2. ASSUME chunks # <<>>
        PROVE  /\ n \in 1 .. n /\ last = chunks[n] /\ last \in TurnRecords
               /\ last.start \in Nat /\ last.end \in Nat
    BY <1>2, LastOf, TurnFields
  <1>3. \A i \in 1 .. n : i \in Hears(chunks, x) <=> i \in Hears(longer, x)
    BY <1>0, <1>1 DEF Hears
  <1>4. n + 1 \in Hears(longer, x) <=> chunk.start <= x /\ x < chunk.end
    BY <1>0, <1>1 DEF Hears, During
  <1>5. Hears(longer, x) \subseteq 1 .. n + 1 /\ Hears(chunks, x) \subseteq 1 .. n
    BY <1>0, <1>1 DEF Hears
  <1>6. \A i \in Hears(chunks, x) : chunks # <<>> /\ x < last.end
    <2> SUFFICES ASSUME NEW i \in Hears(chunks, x)  PROVE chunks # <<>> /\ x < last.end
      OBVIOUS
    <2>1. i \in 1 .. n /\ x < chunks[i].end /\ chunks[i].end \in Nat /\ chunks[i].end <= last.end
      BY <1>a, <1>1, <1>5, TurnFields DEF Hears, During
    <2>2. chunks # <<>>
      BY <2>1
    <2> QED  BY <1>2, <2>1, <2>2
  \* Before the boundary nothing changes.
  <1>7. CASE x < b
    <2>1. Hears(chunks, x) # {}
      <3>1. PICK j \in 1 .. n + 1 : j \in Hears(longer, x)
        BY <1>5
      <3>2. CASE j \in 1 .. n
        BY <3>1, <3>2, <1>3
      <3>3. CASE j = n + 1
        <4>1. chunk.start <= x
          BY <1>4, <3>1, <3>3
        <4>2. chunks # <<>> /\ last.end > chunk.start
          BY <1>a, <1>1, <1>7, <4>1
        <4>3. n \in Hears(chunks, x)
          BY <1>a, <1>1, <1>2, <1>7, <4>1, <4>2 DEF Hears, During
        <4> QED  BY <4>3
      <3> QED  BY <1>1, <3>2, <3>3
    <2>2. PICK i \in Hears(chunks, x) : Nearest(chunks, x, i) /\ Speaks(list, x, chunks[i].speaker)
      BY <1>b, <2>1 DEF Given
    <2>3. /\ i \in 1 .. n /\ i \in Hears(longer, x) /\ longer[i] = chunks[i]
          /\ chunks[i].speaker \in Speakers /\ chunks[i] \in TurnRecords
      BY <1>0, <2>2, <1>1, <1>3, <1>5
    <2>4. Speaks(merged, x, longer[i].speaker)
      BY <1>b, <1>7, <2>2, <2>3
    <2>5. ASSUME NEW j \in Hears(longer, x)
          PROVE  OffCentre(x, longer[i]) <= OffCentre(x, longer[j])
      <3>1. CASE j \in 1 .. n
        BY <1>0, <3>1, <2>2, <2>3, <2>5, <1>3 DEF Nearest
      <3>2. CASE j = n + 1
        <4>1. chunk.start <= x
          BY <1>4, <2>5, <3>2
        <4>2. chunks # <<>> /\ last.end > chunk.start
          BY <1>a, <1>1, <1>7, <4>1
        <4>3. n \in Hears(chunks, x)
          BY <1>a, <1>1, <1>2, <1>7, <4>1, <4>2 DEF Hears, During
        <4>4. OffCentre(x, chunks[i]) <= OffCentre(x, last)
          BY <1>2, <2>2, <4>2, <4>3 DEF Nearest
        <4>5. 2 * b = last.end + chunk.start /\ last.end - last.start = chunk.end - chunk.start
          BY <1>a, <4>2
        <4>6. last.start <= chunk.start /\ last.end <= chunk.end
          BY <1>a, <1>1, <1>2, <4>2
        <4>7. OffCentre(x, last) <= OffCentre(x, chunk)
          BY <1>2, <1>7, <4>2, <4>5, <4>6, NearerBefore
        <4>8. /\ OffCentre(x, chunks[i]) \in Int /\ OffCentre(x, last) \in Int
              /\ OffCentre(x, chunk) \in Int
          BY <1>2, <2>3, <4>2, OffCentreType
        <4>9. OffCentre(x, chunks[i]) <= OffCentre(x, chunk)
          BY <4>4, <4>7, <4>8
        <4> QED  BY <1>0, <2>3, <3>2, <4>9
      <3> QED  BY <1>1, <1>5, <2>5, <3>1, <3>2
    <2> QED  BY <2>3, <2>4, <2>5 DEF Given, Nearest
  \* From the boundary on the chunk is the nearest.
  <1>8. CASE b <= x
    <2>1. x < chunk.end
      <3>1. PICK j \in 1 .. n + 1 : j \in Hears(longer, x)
        BY <1>5
      <3>2. CASE j \in 1 .. n
        BY <1>a, <1>1, <1>2, <1>3, <1>6, <3>1, <3>2
      <3>3. CASE j = n + 1
        BY <1>4, <3>1, <3>3
      <3> QED  BY <1>1, <3>2, <3>3
    <2>2. n + 1 \in Hears(longer, x)
      BY <1>a, <1>1, <1>4, <1>8, <2>1
    <2>3. Speaks(merged, x, longer[n + 1].speaker)
      BY <1>0, <1>b, <1>1, <1>8, <2>1
    <2>4. ASSUME NEW j \in Hears(longer, x)
          PROVE  OffCentre(x, longer[n + 1]) <= OffCentre(x, longer[j])
      <3>1. CASE j \in 1 .. n
        <4>1. j \in Hears(chunks, x) /\ longer[j] = chunks[j] /\ chunks[j] \in TurnRecords
          BY <1>0, <1>1, <1>3, <2>4, <3>1
        <4>2. chunks # <<>> /\ x < last.end
          BY <1>6, <4>1
        <4>3. last.end > chunk.start
          BY <1>a, <1>1, <1>2, <1>8, <4>2
        <4>4. 2 * b = last.end + chunk.start /\ last.end - last.start = chunk.end - chunk.start
          BY <1>a, <4>2, <4>3
        <4>5. /\ last.start <= chunk.start /\ last.end <= chunk.end
              /\ chunks[j].start <= last.start /\ chunks[j].end <= last.end
          BY <1>a, <1>1, <1>2, <3>1, <4>2
        <4>6. OffCentre(x, chunk) <= OffCentre(x, chunks[j])
          BY <1>2, <1>8, <4>1, <4>2, <4>4, <4>5, NearerAfter
        <4> QED  BY <1>0, <3>1, <4>1, <4>6
      <3>2. CASE j = n + 1
        <4>1. OffCentre(x, longer[n + 1]) \in Int
          BY <1>0, OffCentreType
        <4> QED  BY <3>2, <4>1
      <3> QED  BY <1>1, <1>5, <2>4, <3>1, <3>2
    <2> QED  BY <2>2, <2>3, <2>4 DEF Given, Nearest
  <1> QED  BY <1>7, <1>8

-----------------------------------------------------------------------------
(* What the chunks hear *)

LEMMA RegionsType ==
  ASSUME TurnsTypeOK
  PROVE  /\ Len(regions) \in Nat /\ DOMAIN regions = 1 .. Len(regions)
         /\ \A i \in 1 .. Len(regions) : regions[i].start \in Nat /\ regions[i].end \in Nat
         /\ regions # <<>> => Len(regions) >= 1 /\ Region = regions[Len(regions)]
         /\ regions = <<>> => Len(regions) = 0
  <1> DEFINE Spans == [start : Nat, end : Nat]
  <1>1. regions \in Seq(Spans)
    BY DEF TurnsTypeOK
  <1>2. \A span \in Spans : span.start \in Nat /\ span.end \in Nat
    OBVIOUS
  <1>3. Region = IF regions = <<>> THEN [start |-> 0, end |-> 0] ELSE regions[Len(regions)]
    BY DEF Region, Last
  <1> HIDE DEF Spans
  <1> QED  BY <1>1, <1>2, <1>3

\* The loop ends when the chunks have reached the end of the region.
LEMMA LoopEnds ==
  ASSUME TurnsTypeOK, LoopInv, CoverInv, ~MoreChunks, regions # <<>>
  PROVE  lastEnd = RegionLength
  <1>1. /\ candidate \in Nat /\ lastEnd \in Nat
        /\ Shift \in Nat /\ ChunkLength \in Nat /\ 0 < Shift /\ Shift < ChunkLength
    BY TurnsAssumption DEF TurnsTypeOK
  <1>2. RegionLength \in Nat /\ RegionLength > 0
    BY RegionType DEF CoverInv, RegionLength
  <1>3. candidate = 0 => lastEnd = 0
    BY DEF LoopInv
  <1>4. candidate > 0 => lastEnd = Lesser(candidate - Shift + ChunkLength, RegionLength)
    BY DEF LoopInv
  <1>5. candidate < RegionLength => Lesser(candidate + ChunkLength, RegionLength) <= lastEnd
    BY <1>1, <1>2 DEF MoreChunks, ChunkEnd, Lesser
  <1> HIDE DEF RegionLength
  <1> QED  BY <1>1, <1>2, <1>3, <1>4, <1>5 DEF Lesser

LEMMA AllChunked ==
  ASSUME TurnsTypeOK, LoopInv, CoverInv, ~MoreChunks, NEW x \in Nat
  PROVE  Chunked(x) <=> \E i \in DOMAIN regions : 2 * regions[i].start <= x /\ x < 2 * regions[i].end
  <1>1. \A i \in DOMAIN regions : Reached(i) = regions[i].end
    <2> SUFFICES ASSUME NEW i \in DOMAIN regions, i = Len(regions)
                 PROVE  regions[i].start + lastEnd = regions[i].end
      BY DEF Reached
    <2>1. Region = regions[i] /\ regions # <<>>
      BY RegionsType
    <2>2. lastEnd = regions[i].end - regions[i].start
      BY <2>1, LoopEnds DEF RegionLength
    <2> QED  BY <2>2, RegionsType
  <1> QED  BY <1>1 DEF Chunked

LEMMA OpenCovers ==
  ASSUME TurnsInv, NEW gap \in Gaps, NEW length \in Lengths, OpenRegion(gap, length)
  PROVE  CoverInv'
  <1> DEFINE Spans == [start : Nat, end : Nat]
             next == [start |-> Region.end + gap, end |-> Region.end + gap + length]
  <1>0. PICK n : n = Len(regions)
    OBVIOUS
  <1>1. Region.end \in Nat /\ gap \in Nat /\ length \in Nat /\ length > 0
    BY RegionType, TurnsAssumption DEF TurnsInv
  <1>2. next \in Spans /\ next.start < next.end /\ next.start \in Nat
    BY <1>1
  <1>3. regions' = Append(regions, next) /\ lastEnd' = 0 /\ labeled' = labeled /\ turns' = turns
    BY DEF OpenRegion
  <1>4. regions \in Seq(Spans)
    BY DEF TurnsInv, TurnsTypeOK
  <1> HIDE DEF next
  <1>5. /\ regions' # <<>> /\ Last(regions') = next /\ n \in Nat
        /\ DOMAIN regions' = 1 .. n + 1 /\ Len(regions') = n + 1
        /\ \A i \in 1 .. n : regions'[i] = regions[i]
        /\ regions'[n + 1] = next
    <2> HIDE DEF Spans
    <2> QED  BY <1>0, <1>2, <1>3, <1>4 DEF Last
  <1>6. Region' = next
    BY <1>5 DEF Region
  <1>7. ASSUME NEW x \in Nat  PROVE Chunked(x)' <=> Chunked(x)
    <2>1. \A i \in 1 .. n : Reached(i)' = regions[i].end
      BY <1>5 DEF Reached
    <2>2. Reached(n + 1)' = next.start
      BY <1>2, <1>3, <1>5 DEF Reached
    <2>3. Chunked(x)' <=> \E i \in 1 .. n + 1 : 2 * regions'[i].start <= x /\ x < 2 * Reached(i)'
      BY <1>5 DEF Chunked
    <2>4. Chunked(x)' <=> \E i \in 1 .. n : 2 * regions[i].start <= x /\ x < 2 * regions[i].end
      BY <1>2, <1>5, <2>1, <2>2, <2>3
    <2>5. DOMAIN regions = 1 .. n
      BY <1>0, <1>4
    <2> QED  BY <2>4, <2>5, AllChunked DEF TurnsInv, OpenRegion
  <1> QED  BY <1>2, <1>3, <1>6, <1>7 DEF TurnsInv, CoverInv, Covers

\* A span from g or later to c, after one to e.
LEMMA Gapless ==
  ASSUME NEW r \in Nat, NEW g \in Nat, NEW e \in Nat, NEW c \in Nat, NEW x \in Nat, g <= e, e < c
  PROVE  2 * r <= x /\ x < 2 * (r + c)
           <=> (2 * r <= x /\ x < 2 * (r + e)) \/ (2 * (r + g) <= x /\ x < 2 * (r + c))
  OBVIOUS

LEMMA LabelCovers ==
  ASSUME TurnsInv, NEW speaker \in Speakers, LabelChunk(speaker)
  PROVE  CoverInv'
  <1> DEFINE chunk == Chunk(speaker)
             n == Len(labeled)
  <1>0. PICK l : l = Len(regions)
    OBVIOUS
  <1>1. /\ MoreChunks
        /\ labeled' = Append(labeled, chunk)
        /\ turns' = MergeTurn(turns, chunk)
        /\ lastEnd' = ChunkEnd
        /\ regions' = regions
    BY DEF LabelChunk
  <1>2. /\ labeled \in Seq(TurnRecords) /\ turns \in Seq(TurnRecords)
        /\ candidate \in Nat /\ lastEnd \in Nat
        /\ Shift \in Nat /\ Shift < ChunkLength /\ ChunkLength \in Nat
    BY TurnsAssumption DEF TurnsInv, TurnsTypeOK
  <1>3. /\ chunk \in TurnRecords
        /\ ChunkEnd \in Nat /\ lastEnd < ChunkEnd
        /\ ChunkEnd = Lesser(candidate + ChunkLength, RegionLength)
        /\ chunk.start = 2 * (Region.start + Greater(0, ChunkEnd - ChunkLength))
        /\ chunk.end = 2 * (Region.start + ChunkEnd)
    BY <1>1, ChunkFields DEF TurnsInv
  <1>4. Mergeable(turns, chunk)
    BY <1>1, ChunkMergeable DEF TurnsInv
  <1>5. Region.start \in Nat /\ Region.end \in Nat /\ candidate < RegionLength
    BY <1>1, RegionType DEF MoreChunks, TurnsInv
  <1>6. regions # <<>>
    BY <1>2, <1>5 DEF RegionLength, Region
  <1> HIDE DEF chunk
  \* The chunk begins where the one before it ended, or earlier.
  <1>7. Greater(0, ChunkEnd - ChunkLength) \in Nat /\ Greater(0, ChunkEnd - ChunkLength) <= lastEnd
    <2>1. RegionLength \in Nat
      BY <1>2, <1>5 DEF RegionLength
    <2>2. candidate > 0 => lastEnd = Lesser(candidate - Shift + ChunkLength, RegionLength)
      BY DEF TurnsInv, LoopInv
    <2>3. ChunkEnd - ChunkLength <= candidate
      BY <1>2, <1>3, <2>1 DEF Lesser
    <2>4. candidate <= lastEnd
      BY <1>2, <1>5, <2>1, <2>2 DEF Lesser
    <2> QED  BY <1>2, <1>3, <2>3, <2>4 DEF Greater
  <1>8. ASSUME NEW x \in Nat  PROVE Covers(labeled, x)' <=> Covers(labeled, x) \/ During(x, chunk)
    <2>1. /\ DOMAIN labeled' = 1 .. n + 1 /\ DOMAIN labeled = 1 .. n /\ n \in Nat
          /\ \A i \in 1 .. n : labeled'[i] = labeled[i]
          /\ labeled'[n + 1] = chunk
      BY <1>1, <1>2, <1>3
    <2> QED  BY <2>1 DEF Covers
  <1>9. ASSUME NEW x \in Nat  PROVE Chunked(x)' <=> Chunked(x) \/ During(x, chunk)
    <2>1. /\ DOMAIN regions = 1 .. l /\ l \in 1 .. l /\ Region = regions[l]
      BY <1>0, <1>6, RegionsType DEF TurnsInv
    <2>2. \A i \in 1 .. l : i # l => Reached(i)' = Reached(i)
      BY <1>0, <1>1 DEF Reached
    <2>3. Reached(l)' = Region.start + ChunkEnd /\ Reached(l) = Region.start + lastEnd
      BY <1>0, <1>1, <2>1 DEF Reached
    <2>4. /\ 2 * Region.start <= x /\ x < 2 * (Region.start + ChunkEnd)
          <=> \/ 2 * Region.start <= x /\ x < 2 * (Region.start + lastEnd)
              \/ During(x, chunk)
      <3> DEFINE g == Greater(0, ChunkEnd - ChunkLength)
      <3>1. /\ Region.start \in Nat /\ g \in Nat /\ lastEnd \in Nat /\ ChunkEnd \in Nat
            /\ g <= lastEnd /\ lastEnd < ChunkEnd
        BY <1>2, <1>3, <1>5, <1>7
      <3>2. During(x, chunk) <=> 2 * (Region.start + g) <= x /\ x < 2 * (Region.start + ChunkEnd)
        BY <1>3 DEF During
      <3> HIDE DEF g
      <3> QED  BY <3>1, <3>2, Gapless
    <2>5. 2 * regions[l].start <= x /\ x < 2 * Reached(l)'
          <=> \/ 2 * regions[l].start <= x /\ x < 2 * Reached(l)
              \/ During(x, chunk)
      BY <2>1, <2>3, <2>4
    <2>7. Chunked(x)' <=> \E i \in 1 .. l : 2 * regions[i].start <= x /\ x < 2 * Reached(i)'
      BY <1>1, <2>1 DEF Chunked
    <2>8. Chunked(x) <=> \E i \in 1 .. l : 2 * regions[i].start <= x /\ x < 2 * Reached(i)
      BY <2>1 DEF Chunked
    <2> HIDE DEF Reached
    <2> QED  BY <2>1, <2>2, <2>5, <2>7, <2>8
  <1>10. Merges(turns, chunk, turns')
    BY <1>1, <1>2, <1>3, <1>4, MergeTurnMerges
  <1>11. ASSUME NEW x \in Nat  PROVE Covers(turns, x)' => Covers(labeled, x)'
    <2>1. Covers(turns', x) => Covers(turns, x) \/ During(x, chunk)
      BY <1>10 DEF Merges
    <2> QED  BY <1>8, <2>1 DEF TurnsInv, CoverInv, Covers
  <1>12. Region' = Region
    BY <1>1 DEF Region
  <1>13. regions' # <<>> => Region'.start < Region'.end
    BY <1>1, <1>12 DEF TurnsInv, CoverInv
  <1> QED  BY <1>8, <1>9, <1>11, <1>13 DEF TurnsInv, CoverInv

-----------------------------------------------------------------------------
(* The steps *)

LEMMA InitTurns == TurnsInit => TurnsInv
  <1> SUFFICES ASSUME TurnsInit  PROVE TurnsInv
    OBVIOUS
  <1>1. TurnsTypeOK
    BY DEF TurnsInit, TurnsTypeOK
  <1>2. LoopInv
    <2>1. Region.start = 0 /\ Region.end = 0
      BY DEF TurnsInit, Region
    <2> QED  BY <2>1 DEF TurnsInit, LoopInv
  <1>3. LatestInv /\ MergeInv /\ NearestInv
    BY DEF TurnsInit, LatestInv, MergeInv, Ordered, NearestInv, AllGiven, Hears
  <1>4. CoverInv
    BY DEF TurnsInit, CoverInv, Covers, Chunked
  <1> QED  BY <1>1, <1>2, <1>3, <1>4 DEF TurnsInv

LEMMA StepOpenRegion ==
  ASSUME TurnsInv, NEW gap \in Gaps, NEW length \in Lengths, OpenRegion(gap, length)
  PROVE  TurnsInv'
  <1> DEFINE Spans == [start : Nat, end : Nat]
             next == [start |-> Region.end + gap, end |-> Region.end + gap + length]
  <1>1. /\ Region.start \in Nat /\ Region.end \in Nat /\ gap \in Nat /\ length \in Nat
        /\ Region.start <= Region.end
    BY RegionType, TurnsAssumption DEF TurnsInv, LoopInv
  <1>2. next \in Spans /\ next.start = Region.end + gap /\ next.end = Region.end + gap + length
    BY <1>1
  <1>3. regions' = Append(regions, next) /\ candidate' = 0 /\ lastEnd' = 0 /\ labeled' = labeled /\ turns' = turns
    BY DEF OpenRegion
  <1>4. regions \in Seq(Spans)
    BY DEF TurnsInv, TurnsTypeOK
  <1> HIDE DEF next
  <1>5. regions' \in Seq(Spans) /\ regions' # <<>> /\ Last(regions') = next
    <2> HIDE DEF Spans
    <2> QED  BY <1>2, <1>3, <1>4 DEF Last
  <1>6. Region' = next
    BY <1>5 DEF Region
  <1>7. TurnsTypeOK'
    BY <1>3, <1>5 DEF TurnsInv, TurnsTypeOK
  <1>8. LoopInv'
    <2>1. Region'.start <= Region'.end
      BY <1>1, <1>2, <1>6
    <2>2. ASSUME labeled # <<>>  PROVE Last(labeled).end <= 2 * (Region.end + gap)
      <3>1. Last(labeled).end \in Nat
        BY <2>2, LastOf, TurnFields DEF TurnsInv, TurnsTypeOK
      <3>2. Last(labeled).end <= 2 * Region.end
        <4>1. CASE candidate = 0
          <5>1. Last(labeled).end <= 2 * Region.start
            BY <2>2, <4>1 DEF TurnsInv, LoopInv
          <5> QED  BY <1>1, <3>1, <5>1
        <4>2. CASE candidate > 0
          <5>1. /\ Last(labeled).end = 2 * (Region.start + lastEnd)
                /\ lastEnd = Lesser(candidate - Shift + ChunkLength, RegionLength)
            BY <4>2 DEF TurnsInv, LoopInv
          <5>2. candidate \in Nat /\ Shift \in Nat /\ ChunkLength \in Nat /\ lastEnd \in Nat
            BY TurnsAssumption DEF TurnsInv, TurnsTypeOK
          <5>3. lastEnd <= RegionLength /\ RegionLength = Region.end - Region.start
            BY <1>1, <5>1, <5>2 DEF Lesser, RegionLength
          <5>4. Region.start + lastEnd <= Region.end
            BY <1>1, <5>2, <5>3
          <5> QED  BY <1>1, <5>1, <5>2, <5>4
        <4>3. candidate \in Nat
          BY DEF TurnsInv, TurnsTypeOK
        <4> QED  BY <4>1, <4>2, <4>3
      <3> QED  BY <1>1, <3>1, <3>2
    <2>3. labeled' # <<>> => Last(labeled)'.end <= 2 * Region'.start
      BY <1>2, <1>3, <1>6, <2>2
    <2> QED  BY <1>3, <2>1, <2>3 DEF LoopInv
  <1>9. LatestInv' /\ MergeInv' /\ NearestInv'
    BY <1>3 DEF TurnsInv, LatestInv, MergeInv, NearestInv, AllGiven, Hears, Given, Nearest, Speaks, Ordered
  <1>10. CoverInv'
    BY OpenCovers
  <1> QED  BY <1>7, <1>8, <1>9, <1>10 DEF TurnsInv

LEMMA StepLabelChunk ==
  ASSUME TurnsInv, NEW speaker \in Speakers, LabelChunk(speaker)
  PROVE  TurnsInv'
  <1> DEFINE chunk == Chunk(speaker)
             b == Boundary(turns, chunk)
             last == Last(labeled)
             n == Len(labeled)
  <1> USE DEF TurnsInv
  <1>1. /\ MoreChunks
        /\ labeled' = Append(labeled, chunk)
        /\ turns' = MergeTurn(turns, chunk)
        /\ candidate' = candidate + Shift /\ lastEnd' = ChunkEnd
        /\ regions' = regions
    BY DEF LabelChunk
  <1>2. /\ labeled \in Seq(TurnRecords) /\ turns \in Seq(TurnRecords)
        /\ candidate \in Nat /\ lastEnd \in Nat
        /\ Shift \in Nat /\ 0 < Shift /\ ChunkLength \in Nat
    BY TurnsAssumption DEF TurnsTypeOK
  <1>3. /\ chunk \in TurnRecords /\ chunk.start \in Nat /\ chunk.end \in Nat
        /\ ChunkEnd \in Nat /\ lastEnd < ChunkEnd
        /\ ChunkEnd = Lesser(candidate + ChunkLength, RegionLength)
        /\ chunk.start = 2 * (Region.start + Greater(0, ChunkEnd - ChunkLength))
        /\ chunk.end = 2 * (Region.start + ChunkEnd)
        /\ chunk.start < chunk.end
    BY <1>1, ChunkFields, TurnFields
  <1>4. /\ Mergeable(turns, chunk)
        /\ b \in Nat /\ chunk.start <= b
        /\ labeled # <<>> /\ last.end > chunk.start => 2 * b = last.end + chunk.start /\ b <= last.end
        /\ ~(labeled # <<>> /\ last.end > chunk.start) => b = chunk.start
    BY <1>1, ChunkMergeable
  <1>5. labeled # <<>> =>
          /\ last.start <= chunk.start /\ last.end < chunk.end
          /\ last.end > chunk.start => last.end - last.start = chunk.end - chunk.start
          /\ last.start \in Nat /\ last.end \in Nat
    BY <1>1, <1>2, ChunkFollows, LastOf, TurnFields
  <1> HIDE DEF chunk, b
  <1>6. /\ labeled' \in Seq(TurnRecords) /\ labeled' # <<>>
        /\ DOMAIN labeled' = 1 .. n + 1 /\ Len(labeled') = n + 1
        /\ \A i \in 1 .. n : labeled'[i] = labeled[i]
        /\ labeled'[n + 1] = chunk /\ Last(labeled') = chunk
    <2>1. labeled \in Seq(TurnRecords) /\ chunk \in TurnRecords
      BY <1>2, <1>3
    <2>2. labeled' = Append(labeled, chunk)
      BY <1>1
    <2> QED  BY ONLY <2>1, <2>2, Appended
  <1>7. Merges(turns, chunk, turns')
    BY <1>1, <1>2, <1>3, <1>4, MergeTurnMerges
  <1>8. TurnsTypeOK'
    BY <1>1, <1>2, <1>3, <1>6, <1>7 DEF TurnsTypeOK, Merges
  <1>9. LoopInv'
    <2>1. Region' = Region /\ RegionLength' = RegionLength
      BY <1>1 DEF Region, RegionLength
    <2>2. /\ candidate' > 0 /\ candidate' >= Shift /\ candidate' - Shift = candidate
      BY <1>1, <1>2
    <2>3. Region'.start <= Region'.end
      BY <2>1 DEF LoopInv
    <2>4. /\ lastEnd' = Lesser(candidate' - Shift + ChunkLength, RegionLength')
          /\ Last(labeled)'.start = 2 * (Region'.start + Greater(0, lastEnd' - ChunkLength))
          /\ Last(labeled)'.end = 2 * (Region'.start + lastEnd')
      BY <1>1, <1>3, <1>6, <2>1, <2>2
    <2> QED  BY <1>6, <2>2, <2>3, <2>4 DEF LoopInv
  <1>10. LatestInv'
    <2>1. ASSUME NEW i \in 1 .. n + 1
          PROVE  labeled'[i].start <= chunk.start /\ labeled'[i].end <= chunk.end
      <3>1. CASE i = n + 1
        BY <1>3, <1>6, <3>1
      <3>2. CASE i # n + 1
        <4>1. i \in 1 .. n /\ labeled # <<>> /\ labeled[i].start \in Nat /\ labeled[i].end \in Nat
          BY <1>2, <3>2, OrderedTurns
        <4>2. labeled[i].start <= last.start /\ labeled[i].end <= last.end
          BY <1>2, <4>1 DEF LatestInv
        <4> HIDE DEF last
        <4>3. /\ last.start <= chunk.start /\ last.end <= chunk.end
              /\ last.start \in Nat /\ last.end \in Nat
              /\ chunk.start \in Nat /\ chunk.end \in Nat
          BY <1>3, <1>5, <4>1
        <4>4. labeled'[i] = labeled[i]
          BY <1>6, <4>1
        <4> QED  BY <4>1, <4>2, <4>3, <4>4
      <3> QED  BY <3>1, <3>2
    <2> QED  BY <1>3, <1>6, <2>1 DEF LatestInv
  <1>11. MergeInv'
    <2>1. turns' # <<>> /\ Ordered(turns') /\ Last(turns').end = chunk.end /\ Last(turns').start <= b
      BY <1>7 DEF Merges, b
    <2>2. Last(turns').start \in Nat
      BY <1>8, <2>1, LastOf, TurnFields DEF TurnsTypeOK
    <2>3. 2 * b < chunk.start + chunk.end
      <3> HIDE DEF last
      <3> QED  BY <1>3, <1>4, <1>5
    <2>4. 2 * Last(turns').start < chunk.start + chunk.end
      BY <1>3, <1>4, <2>1, <2>2, <2>3
    <2> QED  BY <1>6, <2>1, <2>4 DEF MergeInv
  <1>12. NearestInv'
    <2>1. \A i \in 1 .. n : labeled[i].start <= last.start /\ labeled[i].end <= last.end
      BY <1>2 DEF LatestInv
    <2>2. Follows(labeled, chunk, b)
      BY <1>3, <1>4, <1>5, <2>1 DEF Follows
    <2>3. TakesOver(turns, turns', chunk, b)
      BY <1>7 DEF Merges, TakesOver, b
    <2>4. AllGiven(Append(labeled, chunk), turns')
      BY <1>2, <1>3, <1>4, <2>2, <2>3, StepNearest DEF NearestInv
    <2>5. AllGiven(labeled', turns')
      BY <1>1, <2>4
    <2> QED  BY <2>5 DEF NearestInv
  <1>13. CoverInv'
    BY LabelCovers
  <1> QED  BY <1>8, <1>9, <1>10, <1>11, <1>12, <1>13

LEMMA Inductive == TurnsSpec => []TurnsInv
  <1>1. ASSUME TurnsInv, [TurnsNext]_turnVars  PROVE TurnsInv'
    <2>1. CASE TurnsNext
      BY <1>1, <2>1, StepOpenRegion, StepLabelChunk DEF TurnsNext
    <2>2. CASE UNCHANGED turnVars
      <3>1. /\ regions' = regions /\ candidate' = candidate /\ lastEnd' = lastEnd
            /\ labeled' = labeled /\ turns' = turns
        BY <2>2 DEF turnVars
      <3>2. TurnsTypeOK' /\ LatestInv' /\ MergeInv'
        BY <1>1, <3>1 DEF TurnsInv, TurnsTypeOK, LatestInv, MergeInv, Ordered
      <3>3. LoopInv'
        BY <1>1, <3>1 DEF TurnsInv, LoopInv, Region, RegionLength
      <3>4. NearestInv'
        BY <1>1, <3>1 DEF TurnsInv, NearestInv, AllGiven, Given, Nearest, Hears, Speaks
      <3>5. CoverInv'
        BY <1>1, <3>1 DEF TurnsInv, CoverInv, Covers, Chunked, Reached, Region
      <3> QED  BY <3>2, <3>3, <3>4, <3>5 DEF TurnsInv
    <2> QED  BY <1>1, <2>1, <2>2
  <1> QED  BY InitTurns, <1>1, PTL DEF TurnsSpec

-----------------------------------------------------------------------------
(* Merging a list of turns *)

LEMMA Least ==
  ASSUME NEW T, T \subseteq Nat, T # {}
  PROVE  \E x \in T : \A y \in T : x <= y
  <1>1. IsWellFoundedOn(OpToRel(<, Nat), Nat)
    BY NatLessThanWellFounded
  <1>2. PICK x \in T : \A y \in T : ~ (<<y, x>> \in OpToRel(<, Nat))
    BY <1>1, WFMin
  <1>3. ASSUME NEW y \in T  PROVE x <= y
    <2>1. ~ (<<y, x>> \in {ss \in Nat \X Nat : ss[1] < ss[2]})
      BY <1>2 DEF OpToRel
    <2> QED  BY <2>1
  <1> QED  BY <1>3

\* A set that has 0, and n + 1 with n, has every number.
LEMMA Induct ==
  ASSUME NEW T, 0 \in T, \A n \in Nat : n \in T => n + 1 \in T
  PROVE  Nat \subseteq T
  <1> SUFFICES ASSUME Nat \ T # {}  PROVE FALSE
    OBVIOUS
  <1>1. PICK x \in Nat \ T : \A y \in Nat \ T : x <= y
    BY Least
  <1>2. x - 1 \in Nat /\ x - 1 \in T /\ x - 1 + 1 = x
    BY <1>1
  <1> QED  BY <1>1, <1>2

\* MergeTurns merges the turns one after another.
MergesFirst(m, list, n) ==
  m = [i \in 0 .. n |-> IF i = 0 THEN <<>> ELSE MergeTurn(m[i - 1], list[i])]

LEMMA MergeTurnsIs ==
  ASSUME NEW list \in Seq(TurnRecords)
  PROVE  \E m : /\ m[0] = <<>>
                /\ \A i \in 1 .. Len(list) : m[i] = MergeTurn(m[i - 1], list[i])
                /\ MergeTurns(list) = m[Len(list)]
  <1> DEFINE T == {n \in Nat : \E m : MergesFirst(m, list, n)}
             N == Len(list)
  <1>1. 0 \in T
    <2>1. MergesFirst([i \in 0 .. 0 |-> <<>>], list, 0)
      BY DEF MergesFirst
    <2> QED  BY <2>1
  <1>2. ASSUME NEW n \in Nat, n \in T  PROVE n + 1 \in T
    <2>1. PICK m : MergesFirst(m, list, n)
      BY <1>2
    <2> DEFINE g == [i \in 0 .. n + 1 |-> IF i <= n THEN m[i] ELSE MergeTurn(m[n], list[n + 1])]
    <2>2. \A i \in 0 .. n : m[i] = IF i = 0 THEN <<>> ELSE MergeTurn(m[i - 1], list[i])
      BY <2>1 DEF MergesFirst
    <2>3. \A i \in 0 .. n + 1 : g[i] = IF i = 0 THEN <<>> ELSE MergeTurn(g[i - 1], list[i])
      BY <2>2
    <2>4. MergesFirst(g, list, n + 1)
      BY <2>3 DEF MergesFirst
    <2> HIDE DEF g
    <2>5. \E h : MergesFirst(h, list, n + 1)
      BY <2>4
    <2> QED  BY <2>5
  <1> HIDE DEF T
  <1>3. N \in T
    BY <1>1, <1>2, Induct
  <1> DEFINE f == CHOOSE m : MergesFirst(m, list, N)
  <1>4. MergesFirst(f, list, N)
    BY <1>3 DEF T
  <1>5. MergeTurns(list) = f[N]
    BY DEF MergeTurns, MergesFirst
  <1> HIDE DEF f
  <1>6. N \in Nat
    OBVIOUS
  <1>7. f[0] = <<>> /\ \A i \in 1 .. N : f[i] = MergeTurn(f[i - 1], list[i])
    <2>1. \A i \in 0 .. N : f[i] = IF i = 0 THEN <<>> ELSE MergeTurn(f[i - 1], list[i])
      BY <1>4 DEF MergesFirst
    <2> QED  BY <1>6, <2>1
  <1> QED  BY <1>5, <1>7

\* The first n turns of the list, merged: turns in order that end with the n-th,
\* each moment with the speaker who had it, and no moment besides.
Merged(new, list, n) ==
  /\ new \in Seq(TurnRecords) /\ Ordered(new)
  /\ new = <<>> <=> n = 0
  /\ n > 0 => Last(new).end = list[n].end
  /\ \A x \in Nat, i \in 1 .. n : During(x, list[i]) => Speaks(new, x, list[i].speaker)
  /\ \A x \in Nat : Covers(new, x) => \E i \in 1 .. n : During(x, list[i])

LEMMA MergeNext ==
  ASSUME NEW list \in Seq(TurnRecords), Ordered(list),
         NEW n \in Nat, n + 1 \in 1 .. Len(list), NEW merged, Merged(merged, list, n)
  PROVE  Merged(MergeTurn(merged, list[n + 1]), list, n + 1)
  <1> DEFINE chunk == list[n + 1]
             new == MergeTurn(merged, chunk)
  <1>1. /\ chunk \in TurnRecords /\ merged \in Seq(TurnRecords)
        /\ chunk.start \in Nat /\ chunk.end \in Nat /\ chunk.speaker \in Speakers
        /\ chunk.start < chunk.end
    BY OrderedTurns DEF Merged
  <1>2. \A i \in 1 .. n : /\ list[i].start \in Nat /\ list[i].end \in Nat /\ list[i].speaker \in Speakers
                          /\ list[i].end <= chunk.start
    <2> SUFFICES ASSUME NEW i \in 1 .. n
                 PROVE  /\ list[i].start \in Nat /\ list[i].end \in Nat /\ list[i].speaker \in Speakers
                        /\ list[i].end <= list[n + 1].start
      OBVIOUS
    <2>1. i \in 1 .. Len(list) /\ i < n + 1
      OBVIOUS
    <2> QED  BY <2>1, OrderedTurns
  <1>3. merged # <<>> => n \in 1 .. n /\ Last(merged).end = list[n].end
    BY DEF Merged
  <1>4. Mergeable(merged, chunk)
    BY <1>1, <1>2, <1>3 DEF Mergeable, Merged
  <1>5. Boundary(merged, chunk) = chunk.start
    BY <1>1, <1>2, <1>3 DEF Boundary
  <1>6. Merges(merged, chunk, new)
    BY <1>1, <1>4, MergeTurnMerges
  <1> HIDE DEF new, chunk
  <1>7. new \in Seq(TurnRecords) /\ Ordered(new) /\ new # <<>> /\ Last(new).end = chunk.end
    BY <1>6 DEF Merges
  <1>8. ASSUME NEW x \in Nat, NEW i \in 1 .. n + 1, During(x, list[i])
        PROVE  Speaks(new, x, list[i].speaker)
    <2>1. CASE i = n + 1
      BY <1>1, <1>5, <1>6, <1>8, <2>1 DEF Merges, During, chunk
    <2>2. CASE i # n + 1
      <3>1. i \in 1 .. n
        BY <2>2
      <3>2. Speaks(merged, x, list[i].speaker)
        BY <1>8, <3>1 DEF Merged
      <3>3. x < chunk.start
        BY <1>1, <1>2, <1>8, <3>1 DEF During
      <3> QED  BY <1>2, <1>5, <1>6, <3>1, <3>2, <3>3 DEF Merges
    <2> QED  BY <2>1, <2>2
  <1>9. ASSUME NEW x \in Nat, Covers(new, x)
        PROVE  \E i \in 1 .. n + 1 : During(x, list[i])
    <2>1. Covers(merged, x) \/ During(x, chunk)
      BY <1>6, <1>9 DEF Merges
    <2>2. Covers(merged, x) => \E i \in 1 .. n : During(x, list[i])
      BY DEF Merged
    <2> QED  BY <2>1, <2>2 DEF chunk
  <1>10. Merged(new, list, n + 1)
    BY <1>7, <1>8, <1>9 DEF Merged, chunk
  <1> QED  BY <1>10 DEF new, chunk

LEMMA MergeInOrder ==
  ASSUME NEW list \in Seq(TurnRecords), Ordered(list)
  PROVE  Merged(MergeTurns(list), list, Len(list))
  <1>1. PICK m : /\ m[0] = <<>>
                 /\ \A i \in 1 .. Len(list) : m[i] = MergeTurn(m[i - 1], list[i])
                 /\ MergeTurns(list) = m[Len(list)]
    BY MergeTurnsIs
  <1> DEFINE T == {n \in Nat : n <= Len(list) => Merged(m[n], list, n)}
  <1>2. 0 \in T
    <2>1. Merged(<<>>, list, 0)
      BY DEF Merged, Ordered, Covers
    <2> QED  BY <1>1, <2>1
  <1>3. ASSUME NEW n \in Nat, n \in T  PROVE n + 1 \in T
    <2> SUFFICES ASSUME n + 1 <= Len(list)  PROVE Merged(m[n + 1], list, n + 1)
      OBVIOUS
    <2>1. n + 1 \in 1 .. Len(list) /\ n <= Len(list)
      OBVIOUS
    <2>2. Merged(m[n], list, n)
      BY <1>3, <2>1
    <2>3. m[n + 1] = MergeTurn(m[n], list[n + 1])
      BY <1>1, <2>1
    <2> QED  BY <2>1, <2>2, <2>3, MergeNext
  <1> HIDE DEF T
  <1>4. Len(list) \in T
    BY <1>2, <1>3, Induct
  <1> QED  BY <1>1, <1>4 DEF T

-----------------------------------------------------------------------------
(* Smoothing *)

\* Only the speakers of turns are adjusted, to those of a neighbour.
LEMMA AdjustedTurns ==
  ASSUME NEW list \in Seq(TurnRecords), Ordered(list)
  PROVE  LET new == Adjusted(list) IN
         /\ new \in Seq(TurnRecords) /\ Ordered(new) /\ Len(new) = Len(list)
         /\ \A i \in 1 .. Len(list) :
              /\ new[i].start = list[i].start /\ new[i].end = list[i].end
              /\ new[i].speaker = IF IsShort(list[i]) /\ Len(list) > 1
                                    THEN list[Successor(list, i)].speaker
                                    ELSE list[i].speaker
  <1> DEFINE new == Adjusted(list)
             N == Len(list)
             speaker(i) == IF IsShort(list[i]) /\ N > 1
                             THEN list[Successor(list, i)].speaker ELSE list[i].speaker
  <1>1. N \in Nat /\ DOMAIN list = 1 .. N /\ \A i \in 1 .. N : list[i] \in TurnRecords
    OBVIOUS
  <1>2. \A i \in 1 .. N : N > 1 => Successor(list, i) \in 1 .. N
    <2> SUFFICES ASSUME NEW i \in 1 .. N, N > 1  PROVE Successor(list, i) \in 1 .. N
      OBVIOUS
    <2>1. CASE i = 1
      BY <2>1 DEF Successor
    <2>2. CASE i # 1 /\ Successor(list, i) = i - 1
      BY <2>2
    <2>3. CASE i # N /\ Successor(list, i) = i + 1
      BY <2>3
    <2>4. i = 1 \/ Successor(list, i) = i - 1 \/ (i # N /\ Successor(list, i) = i + 1)
      BY DEF Successor
    <2> QED  BY <2>1, <2>2, <2>3, <2>4
  <1>3. ASSUME NEW i \in 1 .. N
        PROVE  new[i] = [start |-> list[i].start, end |-> list[i].end, speaker |-> speaker(i)]
    <2>1. list[i] = [start |-> list[i].start, end |-> list[i].end, speaker |-> list[i].speaker]
      BY <1>1 DEF TurnRecords
    <2>2. new[i] = IF IsShort(list[i]) /\ N > 1
                     THEN [list[i] EXCEPT !.speaker = list[Successor(list, i)].speaker]
                     ELSE list[i]
      BY <1>1 DEF Adjusted
    <2> HIDE DEF new
    <2>3. ASSUME NEW s
          PROVE  [list[i] EXCEPT !.speaker = s] = [start |-> list[i].start, end |-> list[i].end, speaker |-> s]
      BY <2>1
    <2> QED  BY <2>1, <2>2, <2>3
  <1>4. \A i \in 1 .. N : speaker(i) \in Speakers
    BY <1>1, <1>2, TurnFields
  <1> HIDE DEF speaker
  <1> HIDE DEF new
  <1>5. ASSUME NEW i \in 1 .. N
        PROVE  /\ new[i] \in TurnRecords
               /\ new[i].start = list[i].start /\ new[i].end = list[i].end /\ new[i].speaker = speaker(i)
    <2>1. PICK s \in Speakers : s = speaker(i)
      BY <1>4
    <2>2. new[i] = [start |-> list[i].start, end |-> list[i].end, speaker |-> s]
      BY <1>3, <2>1
    <2>3. list[i].start \in Nat /\ list[i].end \in Nat
      BY OrderedTurns
    <2>4. new[i] \in TurnRecords
      BY <2>2, <2>3 DEF TurnRecords
    <2> QED  BY <2>1, <2>2, <2>4
  <1>6. new \in Seq(TurnRecords) /\ Len(new) = N
    <2>1. new = [i \in 1 .. N |-> new[i]]
      BY <1>1 DEF Adjusted, new
    <2> QED  BY <1>1, <1>5, <2>1
  <1>7. Ordered(new)
    BY <1>5, <1>6, OrderedTurns
  <1> QED  BY <1>5, <1>6, <1>7 DEF new, speaker

\* Smoothing leaves turns in order, each moment with the speaker it was
\* adjusted to, and no moment besides.
LEMMA SmoothInOrder ==
  ASSUME NEW list \in Seq(TurnRecords), Ordered(list)
  PROVE  LET smooth == SmoothTurns(list) IN
         /\ smooth \in Seq(TurnRecords) /\ Ordered(smooth)
         /\ \A x \in Nat, i \in 1 .. Len(list) :
              During(x, list[i]) => Speaks(smooth, x, Adjusted(list)[i].speaker)
         /\ \A x \in Nat : Covers(smooth, x) <=> Covers(list, x)
  <1> DEFINE new == Adjusted(list)
             smooth == SmoothTurns(list)
  <1>1. /\ new \in Seq(TurnRecords) /\ Ordered(new) /\ Len(new) = Len(list)
        /\ \A i \in 1 .. Len(list) : new[i].start = list[i].start /\ new[i].end = list[i].end
    BY AdjustedTurns
  <1> HIDE DEF new
  <1>2. Merged(smooth, new, Len(list))
    BY <1>1, MergeInOrder DEF SmoothTurns, new
  <1> HIDE DEF smooth
  <1>3. \A x \in Nat, i \in 1 .. Len(list) : During(x, list[i]) <=> During(x, new[i])
    BY <1>1 DEF During
  <1>4. \A x \in Nat, i \in 1 .. Len(list) : During(x, list[i]) => Speaks(smooth, x, new[i].speaker)
    BY <1>2, <1>3 DEF Merged
  <1>5. ASSUME NEW x \in Nat  PROVE Covers(smooth, x) <=> Covers(list, x)
    <2>1. Covers(smooth, x) => \E i \in 1 .. Len(list) : During(x, list[i])
      BY <1>2, <1>3 DEF Merged
    <2>2. DOMAIN list = 1 .. Len(list)
      OBVIOUS
    <2> QED  BY <1>4, <2>1, <2>2 DEF Covers, Speaks
  <1> QED  BY <1>2, <1>4, <1>5 DEF Merged, smooth, new

\* Who speaks at a moment, in turns that are in order.
LEMMA SpeakingIs ==
  ASSUME NEW list \in Seq(TurnRecords), Ordered(list), NEW x \in Nat, NEW speaker, Speaks(list, x, speaker)
  PROVE  Speaking(list, x) = speaker
  <1>1. PICK k \in DOMAIN list : During(x, list[k]) /\ list[k].speaker = speaker
    BY DEF Speaks
  <1>2. ASSUME NEW l \in DOMAIN list, During(x, list[l])  PROVE l = k
    <2>1. /\ l \in Nat /\ k \in Nat
          /\ list[l].start \in Nat /\ list[l].end \in Nat
          /\ list[k].start \in Nat /\ list[k].end \in Nat
      BY <1>1, <1>2, OrderedTurns
    <2>2. /\ l < k => list[l].end <= list[k].start
          /\ k < l => list[k].end <= list[l].start
      BY <1>1, <1>2 DEF Ordered
    <2> QED  BY <1>1, <1>2, <2>1, <2>2 DEF During
  <1>3. Speaking(list, x) = list[k].speaker
    BY <1>1, <1>2 DEF Speaking
  <1> QED  BY <1>1, <1>3

LEMMA SpeakingSomebody ==
  ASSUME NEW list \in Seq(TurnRecords), NEW x \in Nat
  PROVE  Speaking(list, x) \in Speakers <=> Covers(list, x)
  <1>1. CASE Covers(list, x)
    <2> DEFINE i == CHOOSE i \in DOMAIN list : During(x, list[i])
    <2>1. i \in DOMAIN list
      BY <1>1 DEF Covers
    <2>2. Speaking(list, x) = list[i].speaker
      BY <1>1 DEF Covers, Speaking
    <2> HIDE DEF i
    <2> QED  BY <1>1, <2>1, <2>2, OrderedTurns
  <1>2. CASE ~Covers(list, x)
    BY <1>2, TurnsAssumption DEF Covers, Speaking
  <1> QED  BY <1>1, <1>2

-----------------------------------------------------------------------------
(* Theorems *)

\* Positions are ticks and speakers clusters, for every length and shift of the
\* chunks and any number of regions (_camplus_chunk_intervals, _merge_turns).
THEOREM TypeCorrect == TurnsSpec => []TurnsTypeOK
  <1>1. TurnsInv => TurnsTypeOK
    BY DEF TurnsInv
  <1> QED  BY Inductive, <1>1, PTL

\* However chunks overlap and whoever they are given to, the merged turns
\* follow one another, none of them empty (_merge_turns).
THEOREM MergedInOrder == TurnsSpec => []Ordered(turns)
  <1>1. TurnsInv => Ordered(turns)
    BY DEF TurnsInv, MergeInv
  <1> QED  BY Inductive, <1>1, PTL

\* Cutting each overlap in the middle gives every moment to the chunk whose
\* centre is nearest, of all the chunks that heard it (_merge_turns).
THEOREM NearestSpeaks == TurnsSpec => []NearestChunkSpeaks
  <1>1. ASSUME TurnsInv  PROVE NearestChunkSpeaks
    <2> SUFFICES ASSUME NEW x \in Moments, Hears(labeled, x) # {}
                 PROVE  \E i \in Hears(labeled, x) :
                          Nearest(labeled, x, i) /\ Speaking(turns, x) = labeled[i].speaker
      BY DEF NearestChunkSpeaks, Hears, Nearest
    <2>1. x \in Nat
      BY <1>1, RegionType DEF Moments, TurnsInv
    <2>2. PICK i \in Hears(labeled, x) : Nearest(labeled, x, i) /\ Speaks(turns, x, labeled[i].speaker)
      BY <1>1, <2>1 DEF TurnsInv, NearestInv, AllGiven, Given
    <2>3. turns \in Seq(TurnRecords) /\ Ordered(turns)
      BY <1>1 DEF TurnsInv, TurnsTypeOK, MergeInv
    <2> QED  BY <2>1, <2>2, <2>3, SpeakingIs
  <1> QED  BY Inductive, <1>1, PTL

\* However the chunks overlap and whoever they are given to, cutting, joining
\* and smoothing them leaves turns in order, none of them empty or reversed
\* (_merge_turns, _smooth_turns).
THEOREM SmoothedInOrder == TurnsSpec => []TurnsOrdered
  <1>1. TurnsInv => TurnsOrdered
    BY SmoothInOrder DEF TurnsInv, TurnsTypeOK, MergeInv, TurnsOrdered
  <1> QED  BY Inductive, <1>1, PTL

\* All speech is given to somebody and no silence is, in the merged turns and
\* in the smoothed ones (_camplus_chunk_intervals, _merge_turns, _smooth_turns).
THEOREM SpeechIsGiven == TurnsSpec => []SpeechHasSpeaker
  <1>1. ASSUME TurnsInv  PROVE SpeechHasSpeaker
    <2> DEFINE smooth == SmoothTurns(turns)
               Spoken(x) == \E i \in DOMAIN regions : 2 * regions[i].start <= x /\ x < 2 * regions[i].end
    <2> SUFFICES ASSUME ~MoreChunks, NEW x \in Moments
                 PROVE  /\ Speaking(turns, x) \in Speakers <=> Spoken(x)
                        /\ Speaking(smooth, x) \in Speakers <=> Spoken(x)
      BY DEF SpeechHasSpeaker
    <2>1. x \in Nat
      BY <1>1, RegionType DEF Moments, TurnsInv
    <2>2. turns \in Seq(TurnRecords) /\ Ordered(turns) /\ labeled \in Seq(TurnRecords)
      BY <1>1 DEF TurnsInv, TurnsTypeOK, MergeInv
    <2>3. smooth \in Seq(TurnRecords) /\ (Covers(smooth, x) <=> Covers(turns, x))
      BY <2>1, <2>2, SmoothInOrder
    <2>4. Covers(labeled, x) <=> Spoken(x)
      BY <1>1, <2>1, AllChunked DEF TurnsInv, CoverInv
    <2>5. Covers(turns, x) => Covers(labeled, x)
      BY <1>1, <2>1 DEF TurnsInv, CoverInv
    <2>6. ASSUME Covers(labeled, x)  PROVE Covers(turns, x)
      <3>1. Hears(labeled, x) # {}
        BY <2>6 DEF Covers, Hears
      <3>2. Given(labeled, turns, x)
        BY <1>1, <2>1, <3>1 DEF TurnsInv, NearestInv, AllGiven
      <3> QED  BY <3>2 DEF Given, Speaks, Covers
    <2> HIDE DEF smooth, Spoken
    <2> QED  BY <2>1, <2>2, <2>3, <2>4, <2>5, <2>6, SpeakingSomebody
  <1> QED  BY Inductive, <1>1, PTL

\* Smoothing leaves a turn that is not short alone and gives a short one to the
\* neighbour across the shorter silence (_smooth_turns).
THEOREM ShortAbsorbed == TurnsSpec => []AbsorbedByNearest
  <1>1. ASSUME TurnsInv  PROVE AbsorbedByNearest
    <2> DEFINE smooth == SmoothTurns(turns)
               N == Len(turns)
    <2>1. turns \in Seq(TurnRecords) /\ Ordered(turns) /\ N \in Nat /\ DOMAIN turns = 1 .. N
      BY <1>1 DEF TurnsInv, TurnsTypeOK, MergeInv
    <2>2. ASSUME NEW i \in DOMAIN turns, NEW x \in turns[i].start .. turns[i].end - 1
          PROVE  Speaking(smooth, x) = Adjusted(turns)[i].speaker
      <3>1. turns[i].start \in Nat /\ turns[i].end \in Nat
        BY <2>1, OrderedTurns
      <3>2. x \in Nat /\ During(x, turns[i])
        BY <3>1 DEF During
      <3>3. /\ smooth \in Seq(TurnRecords) /\ Ordered(smooth)
            /\ Speaks(smooth, x, Adjusted(turns)[i].speaker)
        BY <2>1, <3>2, SmoothInOrder
      <3> HIDE DEF smooth
      <3> QED  BY <3>2, <3>3, SpeakingIs
    <2>3. ASSUME NEW i \in DOMAIN turns
          PROVE  Adjusted(turns)[i].speaker = IF IsShort(turns[i]) /\ N > 1
                                                THEN turns[Successor(turns, i)].speaker
                                                ELSE turns[i].speaker
      BY <2>1, AdjustedTurns
    <2>4. ASSUME NEW i \in DOMAIN turns    PROVE N > 1 <=> Neighbours(i) # {}
      <3>1. i \in 1 .. N /\ Neighbours(i) = 1 .. N \cap {i - 1, i + 1}
        BY <2>1, <2>4 DEF Neighbours
      <3>2. CASE i > 1
        <4>1. i - 1 \in Neighbours(i) /\ N > 1
          BY <2>1, <3>1, <3>2
        <4> QED  BY <4>1
      <3>3. CASE i = 1 /\ N > 1
        <4>1. i + 1 \in Neighbours(i)
          BY <2>1, <3>1, <3>3
        <4> QED  BY <3>3, <4>1
      <3>4. CASE i = 1 /\ N = 1
        BY <3>1, <3>4
      <3> QED  BY <2>1, <3>1, <3>2, <3>3, <3>4
    <2>5. ASSUME NEW i \in DOMAIN turns, N > 1
          PROVE  LET j == Successor(turns, i) IN
                 j \in Neighbours(i) /\ \A k \in Neighbours(i) : Silence(i, j) <= Silence(i, k)
      <3>1. \A k \in 1 .. N : turns[k].start \in Nat /\ turns[k].end \in Nat
        BY <2>1, OrderedTurns
      <3>2. CASE i = 1
        <4>1. Successor(turns, i) = 2
          BY <3>2 DEF Successor
        <4>2. Neighbours(i) = {2} /\ turns[2].start - turns[1].end \in Int
          BY <2>1, <2>5, <3>1, <3>2 DEF Neighbours
        <4>3. Silence(i, 2) <= Silence(i, 2)
          BY <3>2, <4>2 DEF Silence
        <4> QED  BY <4>1, <4>2, <4>3
      <3>3. CASE i # 1 /\ i = N
        <4>1. Successor(turns, i) = i - 1
          BY <3>3 DEF Successor
        <4>2. Neighbours(i) = {i - 1} /\ turns[i].start - turns[i - 1].end \in Int
          BY <2>1, <2>5, <3>1, <3>3 DEF Neighbours
        <4>3. Silence(i, i - 1) \in Int
          BY <2>1, <2>5, <4>2 DEF Silence
        <4> QED  BY <4>1, <4>2, <4>3
      <3>4. CASE i # 1 /\ i # N
        <4>1. /\ Neighbours(i) = {i - 1, i + 1} /\ i \in 1 .. N /\ i - 1 \in 1 .. N /\ i + 1 \in 1 .. N
              /\ i - 1 # i + 1 /\ i - 1 < i /\ ~(i + 1 < i)
          BY <2>1, <2>5, <3>4 DEF Neighbours
        <4>2. /\ Silence(i, i - 1) = turns[i].start - turns[i - 1].end
              /\ Silence(i, i + 1) = turns[i + 1].start - turns[i].end
          BY <4>1 DEF Silence
        <4>3. Silence(i, i - 1) \in Int /\ Silence(i, i + 1) \in Int
          BY <3>1, <4>1, <4>2
        <4>4. Successor(turns, i) = IF Silence(i, i - 1) <= Silence(i, i + 1) THEN i - 1 ELSE i + 1
          BY <3>4, <4>2 DEF Successor
        <4> QED  BY <4>1, <4>3, <4>4
      <3> QED  BY <3>2, <3>3, <3>4
    <2> HIDE DEF smooth, N
    <2> QED  BY <2>2, <2>3, <2>4, <2>5 DEF AbsorbedByNearest, smooth
  <1> QED  BY Inductive, <1>1, PTL

-----------------------------------------------------------------------------
(* Loops over a text *)

\* The values of a loop that has a step for each index.
Steps(f, V, v, n, step) ==
  /\ f = [i \in 0 .. n |-> f[i]]
  /\ \A i \in 0 .. n : f[i] \in V
  /\ f[0] = v
  /\ \A i \in 1 .. n : f[i] = step[i][f[i - 1]]

LEMMA Loops ==
  ASSUME NEW V, NEW v \in V, NEW N \in Nat, NEW step \in [1 .. N -> [V -> V]]
  PROVE  \E f : Steps(f, V, v, N, step)
  <1> DEFINE Run(n, f) == f[0] = v /\ \A i \in 1 .. n : f[i] = step[i][f[i - 1]]
             T == {n \in Nat : n <= N => \E f \in [0 .. n -> V] : Run(n, f)}
  <1>1. 0 \in T
    <2>1. Run(0, [i \in 0 .. 0 |-> v]) /\ [i \in 0 .. 0 |-> v] \in [0 .. 0 -> V]
      OBVIOUS
    <2> QED  BY <2>1
  <1>2. ASSUME NEW n \in Nat, n \in T  PROVE n + 1 \in T
    <2> SUFFICES ASSUME n + 1 <= N  PROVE \E f \in [0 .. n + 1 -> V] : Run(n + 1, f)
      OBVIOUS
    <2>1. PICK f \in [0 .. n -> V] : Run(n, f)
      BY <1>2
    <2> DEFINE g == [i \in 0 .. n + 1 |-> IF i <= n THEN f[i] ELSE step[n + 1][f[n]]]
    <2>2. f[n] \in V /\ step[n + 1] \in [V -> V]
      OBVIOUS
    <2>3. step[n + 1][f[n]] \in V
      BY <2>2
    <2>4. g \in [0 .. n + 1 -> V]
      BY <2>3
    <2>5. \A i \in 0 .. n : g[i] = f[i]
      OBVIOUS
    <2>6. g[n + 1] = step[n + 1][f[n]]
      OBVIOUS
    <2> HIDE DEF g
    <2>7. ASSUME NEW i \in 1 .. n + 1  PROVE g[i] = step[i][g[i - 1]]
      <3>1. CASE i <= n
        BY <2>1, <2>5, <3>1
      <3>2. CASE i = n + 1
        BY <2>5, <2>6, <3>2
      <3> QED  BY <3>1, <3>2
    <2>8. Run(n + 1, g)
      BY <2>1, <2>5, <2>7
    <2> QED  BY <2>4, <2>8
  <1> HIDE DEF T
  <1>3. N \in T
    BY <1>1, <1>2, Induct
  <1>4. PICK f \in [0 .. N -> V] : Run(N, f)
    BY <1>3 DEF T
  <1> QED  BY <1>4 DEF Steps

-----------------------------------------------------------------------------
(* Characters *)

LEMMA FirstOnes ==
  ASSUME NEW S, NEW s \in Seq(S)
  PROVE  /\ Len(s) \in Nat
         /\ \A i \in 0 .. Len(s) : SubSeq(s, 1, i) \in Seq(S) /\ Len(SubSeq(s, 1, i)) = i
         /\ \A i \in 0 .. Len(s), j \in 1 .. Len(s) : j <= i => SubSeq(s, 1, i)[j] = s[j]
         /\ SubSeq(s, 1, Len(s)) = s
  OBVIOUS

\* The loop of Compact.
LEMMA CompactLoop ==
  ASSUME NEW S, NEW s \in Seq(S)
  PROVE  \E f :
           /\ \A i \in 0 .. Len(s) : f[i] \in Seq(S)
           /\ f[0] = <<>>
           /\ \A i \in 1 .. Len(s) : f[i] = IF IsSpace(s[i]) THEN f[i - 1] ELSE Append(f[i - 1], s[i])
           /\ Compact(s) = f[Len(s)]
  <1> DEFINE N == Len(s)
             V == Seq(S)
             step == [i \in 1 .. N |-> [v \in V |-> IF IsSpace(s[i]) THEN v ELSE Append(v, s[i])]]
             Def(f) == f = [i \in 0 .. N |-> IF i = 0 THEN <<>>
                                             ELSE IF IsSpace(s[i]) THEN f[i - 1]
                                             ELSE Append(f[i - 1], s[i])]
  <1>1. N \in Nat /\ <<>> \in V /\ \A i \in 1 .. N : s[i] \in S
    OBVIOUS
  <1>2. step \in [1 .. N -> [V -> V]]
    BY <1>1
  <1>3. \A i \in 1 .. N, v \in V : step[i][v] = IF IsSpace(s[i]) THEN v ELSE Append(v, s[i])
    OBVIOUS
  <1> HIDE DEF step
  <1>4. PICK g : Steps(g, V, <<>>, N, step)
    <2> HIDE DEF V, N
    <2> QED  BY <1>1, <1>2, Loops
  <1>5. /\ \A i \in 0 .. N : g[i] \in V
        /\ g[0] = <<>>
        /\ \A i \in 1 .. N : g[i] = step[i][g[i - 1]]
    BY <1>4 DEF Steps
  <1>6. \A i \in 1 .. N : g[i] = IF IsSpace(s[i]) THEN g[i - 1] ELSE Append(g[i - 1], s[i])
    BY <1>1, <1>3, <1>5
  <1>7. Def(g)
    <2>1. \A i \in 0 .. N : g[i] = IF i = 0 THEN <<>>
                                   ELSE IF IsSpace(s[i]) THEN g[i - 1]
                                   ELSE Append(g[i - 1], s[i])
      <3> SUFFICES ASSUME NEW i \in 0 .. N
                   PROVE  g[i] = IF i = 0 THEN <<>>
                                 ELSE IF IsSpace(s[i]) THEN g[i - 1]
                                 ELSE Append(g[i - 1], s[i])
        OBVIOUS
      <3>1. i = 0 \/ (i # 0 /\ i \in 1 .. N)
        BY <1>1
      <3> QED  BY <1>5, <1>6, <3>1
    <2>2. g = [i \in 0 .. N |-> g[i]]
      BY <1>4 DEF Steps
    <2> QED  BY <2>1, <2>2
  <1> DEFINE f == CHOOSE f : Def(f)
  <1>8. Def(f)
    BY <1>7
  <1>9. Compact(s) = f[N]
    BY DEF Compact
  <1> HIDE DEF f
  <1>10. f[0] = <<>> /\ \A i \in 1 .. N : f[i] = IF IsSpace(s[i]) THEN f[i - 1] ELSE Append(f[i - 1], s[i])
    <2>1. \A i \in 0 .. N : f[i] = IF i = 0 THEN <<>>
                                   ELSE IF IsSpace(s[i]) THEN f[i - 1]
                                   ELSE Append(f[i - 1], s[i])
      BY <1>8
    <2> QED  BY <1>1, <2>1
  <1> HIDE DEF Def
  <1> DEFINE T == {i \in Nat : i <= N => f[i] = g[i]}
  <1>11. 0 \in T
    BY <1>5, <1>10
  <1>12. ASSUME NEW i \in Nat, i \in T  PROVE i + 1 \in T
    BY <1>6, <1>10, <1>12
  <1> HIDE DEF T
  <1>13. N \in T
    BY <1>1, <1>11, <1>12, Induct
  <1>14. f[N] = g[N]
    BY <1>1, <1>13 DEF T
  <1> QED  BY <1>5, <1>6, <1>9, <1>14

\* Compact of the beginnings of a text: each character that is not a space is
\* one letter more.
LEMMA CompactNext ==
  ASSUME NEW S, NEW s \in Seq(S)
  PROVE  /\ Compact(s) \in Seq(S)
         /\ Compact(SubSeq(s, 1, 0)) = <<>>
         /\ \A i \in 1 .. Len(s) :
              LET before == Compact(SubSeq(s, 1, i - 1)) IN
              /\ before \in Seq(S)
              /\ Compact(SubSeq(s, 1, i)) = IF IsSpace(s[i]) THEN before ELSE Append(before, s[i])
  <1> DEFINE N == Len(s)
             p(i) == SubSeq(s, 1, i)
  <1>1. PICK f :
          /\ \A i \in 0 .. N : f[i] \in Seq(S)
          /\ f[0] = <<>>
          /\ \A i \in 1 .. N : f[i] = IF IsSpace(s[i]) THEN f[i - 1] ELSE Append(f[i - 1], s[i])
          /\ Compact(s) = f[N]
    BY CompactLoop
  <1>2. ASSUME NEW i \in 0 .. N  PROVE Compact(p(i)) = f[i]
    <2>1. /\ p(i) \in Seq(S) /\ Len(p(i)) = i /\ N \in Nat
          /\ \A j \in 1 .. i : p(i)[j] = s[j]
      BY FirstOnes
    <2> HIDE DEF p
    <2>2. PICK q \in Seq(S) : q = p(i)
      BY <2>1
    <2>3. PICK h :
            /\ h[0] = <<>>
            /\ \A j \in 1 .. Len(q) : h[j] = IF IsSpace(q[j]) THEN h[j - 1] ELSE Append(h[j - 1], q[j])
            /\ Compact(q) = h[Len(q)]
      BY CompactLoop
    <2> DEFINE T == {j \in Nat : j <= i => h[j] = f[j]}
    <2>4. 0 \in T
      BY <1>1, <2>3
    <2>5. ASSUME NEW j \in Nat, j \in T  PROVE j + 1 \in T
      <3> SUFFICES ASSUME j + 1 <= i  PROVE h[j + 1] = f[j + 1]
        OBVIOUS
      <3>1. h[j] = f[j] /\ j + 1 \in 1 .. i /\ j + 1 \in 1 .. N /\ (j + 1) - 1 = j
        BY <2>1, <2>5
      <3>2. q[j + 1] = s[j + 1] /\ Len(q) = i
        BY <2>1, <2>2, <3>1
      <3>3. h[j + 1] = IF IsSpace(s[j + 1]) THEN h[j] ELSE Append(h[j], s[j + 1])
        BY <2>3, <3>1, <3>2
      <3>4. f[j + 1] = IF IsSpace(s[j + 1]) THEN f[j] ELSE Append(f[j], s[j + 1])
        BY <1>1, <3>1
      <3> QED  BY <3>1, <3>3, <3>4
    <2> HIDE DEF T
    <2>6. i \in T
      <3>1. Nat \subseteq T
        BY <2>4, <2>5, Induct
      <3>2. i \in Nat
        OBVIOUS
      <3> QED  BY <3>1, <3>2
    <2>7. h[i] = f[i]
      BY <2>1, <2>6 DEF T
    <2> QED  BY <2>1, <2>2, <2>3, <2>7
  <1>3. N \in Nat
    OBVIOUS
  <1>4. Compact(s) \in Seq(S) /\ 0 \in 0 .. N
    BY <1>1, <1>3
  <1>5. Compact(p(0)) = <<>>
    BY <1>1, <1>2, <1>4
  <1>6. ASSUME NEW i \in 1 .. N
        PROVE  /\ Compact(p(i - 1)) \in Seq(S)
               /\ Compact(p(i)) = IF IsSpace(s[i]) THEN Compact(p(i - 1)) ELSE Append(Compact(p(i - 1)), s[i])
    <2>1. i \in 0 .. N /\ i - 1 \in 0 .. N
      BY <1>3
    <2>2. Compact(p(i)) = f[i] /\ Compact(p(i - 1)) = f[i - 1] /\ f[i - 1] \in Seq(S)
      BY <1>1, <1>2, <2>1
    <2> HIDE DEF p
    <2> QED  BY <1>1, <2>2
  <1> QED  BY <1>4, <1>5, <1>6

LEMMA CompactAppend ==
  ASSUME NEW S, NEW s \in Seq(S), NEW c \in S
  PROVE  /\ Append(s, c) \in Seq(S)
         /\ Compact(Append(s, c)) = IF IsSpace(c) THEN Compact(s) ELSE Append(Compact(s), c)
  <1>1. PICK r \in Seq(S) : r = Append(s, c)
    <2>1. Append(s, c) \in Seq(S)
      OBVIOUS
    <2> QED  BY <2>1
  <1>2. PICK n \in Nat : n = Len(r)
    BY LenProperties
  <1>3. /\ n \in 1 .. Len(r) /\ r[n] = c
        /\ SubSeq(r, 1, n) = r
        /\ SubSeq(r, 1, n - 1) = s
    <2>1. n = Len(s) + 1 /\ Len(s) \in Nat
      BY <1>1, <1>2
    <2>2. r[n] = c
      BY <1>1, <2>1
    <2>3. SubSeq(r, 1, n) = r
      BY <1>2
    <2>4. SubSeq(Append(s, c), 1, Len(s)) = s
      OBVIOUS
    <2> QED  BY <1>1, <1>2, <2>1, <2>2, <2>3, <2>4
  <1>4. Compact(SubSeq(r, 1, n)) = IF IsSpace(r[n]) THEN Compact(SubSeq(r, 1, n - 1))
                                   ELSE Append(Compact(SubSeq(r, 1, n - 1)), r[n])
    BY <1>3, CompactNext
  <1> QED  BY <1>1, <1>3, <1>4

LEMMA CompactEmpty == Compact(<<>>) = <<>>
  <1>1. PICK s \in Seq({}) : s = <<>>
    BY EmptySeq
  <1>2. Compact(SubSeq(s, 1, 0)) = <<>>
    BY CompactNext
  <1>3. SubSeq(s, 1, 0) = <<>>
    OBVIOUS
  <1> QED  BY <1>2, <1>3

-----------------------------------------------------------------------------
(* Counting letters *)

LEMMA Counts ==
  ASSUME NEW S, NEW s \in Seq(S)
  PROVE  /\ LetterCount(s, 0) = 0
         /\ LetterCount(s, Len(s)) = Len(Compact(s))
         /\ \A i \in 0 .. Len(s) : LetterCount(s, i) \in Nat
         /\ \A i \in 1 .. Len(s) :
              LetterCount(s, i) = LetterCount(s, i - 1) + IF IsSpace(s[i]) THEN 0 ELSE 1
  <1>1. LetterCount(s, 0) = 0
    <2>1. Compact(SubSeq(s, 1, 0)) = <<>>
      BY CompactNext
    <2> QED  BY <2>1 DEF LetterCount
  <1>2. SubSeq(s, 1, Len(s)) = s /\ Len(s) \in Nat
    BY FirstOnes
  <1>3. ASSUME NEW i \in 0 .. Len(s)  PROVE LetterCount(s, i) \in Nat
    <2>1. PICK q \in Seq(S) : q = SubSeq(s, 1, i)
      BY FirstOnes
    <2>2. Compact(q) \in Seq(S)
      BY CompactNext
    <2> QED  BY <2>1, <2>2, LenProperties DEF LetterCount
  <1>4. ASSUME NEW i \in 1 .. Len(s)
        PROVE  LetterCount(s, i) = LetterCount(s, i - 1) + IF IsSpace(s[i]) THEN 0 ELSE 1
    <2>1. PICK before \in Seq(S) : before = Compact(SubSeq(s, 1, i - 1))
      BY CompactNext
    <2>2. Compact(SubSeq(s, 1, i)) = IF IsSpace(s[i]) THEN before ELSE Append(before, s[i])
      BY <2>1, CompactNext
    <2>3. s[i] \in S
      OBVIOUS
    <2>4. Len(Append(before, s[i])) = Len(before) + 1 /\ Len(before) \in Nat
      BY <2>3
    <2>5. LetterCount(s, i - 1) = Len(before)
      BY <2>1 DEF LetterCount
    <2>6. LetterCount(s, i) = IF IsSpace(s[i]) THEN Len(before) ELSE Len(Append(before, s[i]))
      BY <2>2 DEF LetterCount
    <2> QED  BY <2>4, <2>5, <2>6
  <1> QED  BY <1>1, <1>2, <1>3, <1>4 DEF LetterCount

LEMMA CountsGrow ==
  ASSUME NEW S, NEW s \in Seq(S), NEW i \in 0 .. Len(s), NEW j \in 0 .. Len(s), i <= j
  PROVE  LetterCount(s, i) <= LetterCount(s, j)
  <1> DEFINE T == {d \in Nat : i + d <= Len(s) => LetterCount(s, i) <= LetterCount(s, i + d)}
  <1>1. Len(s) \in Nat /\ \A k \in 0 .. Len(s) : LetterCount(s, k) \in Nat
    BY Counts, LenProperties
  <1>2. 0 \in T
    BY <1>1
  <1>3. ASSUME NEW d \in Nat, d \in T  PROVE d + 1 \in T
    <2> SUFFICES ASSUME i + (d + 1) <= Len(s)  PROVE LetterCount(s, i) <= LetterCount(s, i + (d + 1))
      OBVIOUS
    <2>1. PICK k \in 1 .. Len(s) : k = i + (d + 1) /\ k - 1 = i + d /\ k - 1 \in 0 .. Len(s) /\ k \in 0 .. Len(s)
      BY <1>1
    <2>2. LetterCount(s, i) <= LetterCount(s, k - 1)
      BY <1>1, <1>3, <2>1
    <2>3. LetterCount(s, k) = LetterCount(s, k - 1) + IF IsSpace(s[k]) THEN 0 ELSE 1
      BY Counts
    <2> QED  BY <1>1, <2>1, <2>2, <2>3
  <1> HIDE DEF T
  <1>4. j - i \in T
    <2>1. Nat \subseteq T
      BY <1>2, <1>3, Induct
    <2>2. j - i \in Nat
      BY <1>1
    <2> QED  BY <2>1, <2>2
  <1>5. i + (j - i) = j
    BY <1>1
  <1> QED  BY <1>1, <1>4, <1>5 DEF T

\* The letter that makes up a count is found.
LEMMA SurfaceFound ==
  ASSUME NEW S, NEW s \in Seq(S), NEW count \in Nat, 0 < count, count <= Len(Compact(s))
  PROVE  LET i == SurfaceIndexForCount(s, count) IN
         /\ i \in 1 .. Len(s)
         /\ ~IsSpace(s[i])
         /\ LetterCount(s, i) = count
  <1> DEFINE N == Len(s)
             T == {i \in Nat : i <= N /\ LetterCount(s, i) >= count}
  <1>1. /\ N \in Nat /\ DOMAIN s = 1 .. N
        /\ LetterCount(s, 0) = 0 /\ LetterCount(s, N) = Len(Compact(s))
        /\ \A i \in 0 .. N : LetterCount(s, i) \in Nat
        /\ \A i \in 1 .. N : LetterCount(s, i) = LetterCount(s, i - 1) + IF IsSpace(s[i]) THEN 0 ELSE 1
    BY Counts, LenProperties
  <1>2. N \in T
    BY <1>1
  <1>3. PICK i \in T : \A j \in T : i <= j
    <2>1. T \subseteq Nat /\ T # {}
      BY <1>2
    <2> HIDE DEF T
    <2> QED  BY <2>1, Least
  <1>4. i \in 1 .. N /\ i - 1 \in Nat /\ i - 1 \notin T /\ i - 1 \in 0 .. N
    <2>1. i # 0
      BY <1>1
    <2> QED  BY <1>1, <1>3, <2>1
  <1>5. LetterCount(s, i - 1) < count
    BY <1>1, <1>4
  <1>6. i \in DOMAIN s /\ ~IsSpace(s[i]) /\ LetterCount(s, i) = count
    BY <1>1, <1>3, <1>4, <1>5
  <1> HIDE DEF T, N
  <1> DEFINE k == SurfaceIndexForCount(s, count)
  <1>7. k \in DOMAIN s /\ ~IsSpace(s[k]) /\ LetterCount(s, k) = count
    BY <1>6 DEF SurfaceIndexForCount
  <1> HIDE DEF k
  <1>8. DOMAIN s = 1 .. Len(s)
    OBVIOUS
  <1> QED  BY <1>7, <1>8 DEF k

-----------------------------------------------------------------------------
(* Texts one after another *)

\* The loop of FlattenSeq.
LEMMA FlattenLoop ==
  ASSUME NEW S, NEW ss \in Seq(Seq(S))
  PROVE  \E f :
           /\ \A i \in 0 .. Len(ss) : f[i] \in Seq(S)
           /\ f[0] = <<>>
           /\ \A i \in 1 .. Len(ss) : f[i] = f[i - 1] \o ss[i]
           /\ FlattenSeq(ss) = f[Len(ss)]
  <1> DEFINE N == Len(ss)
             V == Seq(S)
             Def(f) == f = [i \in 1 .. N |-> IF i = 1 THEN ss[i] ELSE f[i - 1] \o ss[i]]
  <1>1. N \in Nat /\ <<>> \in V /\ \A i \in 1 .. N : ss[i] \in V
    OBVIOUS
  <1>2. \A i \in 1 .. N, v \in V : v \o ss[i] \in V
    BY <1>1, ConcatProperties
  <1>3. PICK g : /\ \A i \in 0 .. N : g[i] \in V
                 /\ g[0] = <<>>
                 /\ \A i \in 1 .. N : g[i] = g[i - 1] \o ss[i]
    <2> DEFINE step == [i \in 1 .. N |-> [v \in V |-> v \o ss[i]]]
    <2>1. step \in [1 .. N -> [V -> V]]
      BY <1>2
    <2>2. \A i \in 1 .. N, v \in V : step[i][v] = v \o ss[i]
      OBVIOUS
    <2> HIDE DEF V, N, step
    <2>3. PICK g : Steps(g, V, <<>>, N, step)
      BY <1>1, <2>1, Loops
    <2>4. \A i \in 1 .. N : i - 1 \in 0 .. N
      BY <1>1
    <2>5. \A i \in 1 .. N : g[i - 1] \in V /\ g[i] = step[i][g[i - 1]]
      BY <2>3, <2>4 DEF Steps
    <2>6. \A i \in 1 .. N : g[i] = g[i - 1] \o ss[i]
      BY <2>2, <2>5
    <2> QED  BY <2>3, <2>6 DEF Steps
  <1>4. CASE N = 0
    <2>1. FlattenSeq(ss) = <<>>
      BY <1>4 DEF FlattenSeq
    <2> QED  BY <1>3, <1>4, <2>1
  <1>5. CASE N # 0
    <2> DEFINE r == [i \in 1 .. N |-> g[i]]
               f == CHOOSE f : Def(f)
    <2>1. 1 \in 1 .. N /\ g[1] = ss[1]
      <3>1. 1 \in 1 .. N
        BY <1>1, <1>5
      <3>2. g[1] = g[0] \o ss[1]
        <4>1. PICK k \in 1 .. N : k = 1
          BY <3>1
        <4>2. g[k] = g[k - 1] \o ss[k]
          BY <1>3
        <4>3. k - 1 = 0
          BY <4>1
        <4> QED  BY <4>1, <4>2, <4>3
      <3>3. <<>> \o ss[1] = ss[1]
        BY <1>1, <3>1, ConcatEmptySeq
      <3> QED  BY <1>3, <3>1, <3>2, <3>3
    <2>2. Def(r)
      <3>1. ASSUME NEW i \in 1 .. N  PROVE r[i] = IF i = 1 THEN ss[i] ELSE r[i - 1] \o ss[i]
        <4>1. CASE i = 1
          BY <2>1, <4>1
        <4>2. CASE i # 1
          <5>1. i - 1 \in 1 .. N
            BY <1>1, <4>2
          <5> QED  BY <1>3, <4>2, <5>1
        <4> QED  BY <4>1, <4>2
      <3> QED  BY <3>1
    <2>3. Def(f)
      BY <2>2
    <2>4. FlattenSeq(ss) = f[N]
      BY <1>5 DEF FlattenSeq
    <2> HIDE DEF f
    <2>5. \A i \in 1 .. N : f[i] = IF i = 1 THEN ss[i] ELSE f[i - 1] \o ss[i]
      BY <2>3
    <2> HIDE DEF Def, r
    <2> DEFINE T == {i \in Nat : i + 1 <= N => f[i + 1] = g[i + 1]}
    <2>6. 0 \in T
      BY <2>1, <2>5
    <2>7. ASSUME NEW i \in Nat, i \in T  PROVE i + 1 \in T
      <3> SUFFICES ASSUME (i + 1) + 1 <= N  PROVE f[(i + 1) + 1] = g[(i + 1) + 1]
        OBVIOUS
      <3>1. PICK k \in 1 .. N : k = (i + 1) + 1 /\ k # 1 /\ k - 1 = i + 1
        BY <1>1
      <3>2. f[k - 1] = g[k - 1]
        BY <1>1, <2>7, <3>1
      <3>3. f[k] = g[k]
        BY <1>3, <2>5, <3>1, <3>2
      <3> QED  BY <3>1, <3>3
    <2> HIDE DEF T
    <2>8. N - 1 \in T
      <3>1. Nat \subseteq T
        BY <2>6, <2>7, Induct
      <3>2. N - 1 \in Nat
        BY <1>1, <1>5
      <3> QED  BY <3>1, <3>2
    <2>9. f[N] = g[N]
      <3>1. (N - 1) + 1 = N
        BY <1>1
      <3> QED  BY <1>1, <2>8, <3>1 DEF T
    <2> QED  BY <1>3, <2>4, <2>9
  <1> QED  BY <1>4, <1>5

\* Texts of one character each.
LEMMA FlattenSingles ==
  ASSUME NEW S, NEW ss \in Seq(Seq(S)), \A i \in 1 .. Len(ss) : Len(ss[i]) = 1
  PROVE  LET flat == FlattenSeq(ss) IN
         flat \in Seq(S) /\ Len(flat) = Len(ss) /\ \A i \in 1 .. Len(ss) : flat[i] = ss[i][1]
  <1> DEFINE N == Len(ss)
  <1>1. PICK f :
          /\ \A i \in 0 .. N : f[i] \in Seq(S)
          /\ f[0] = <<>>
          /\ \A i \in 1 .. N : f[i] = f[i - 1] \o ss[i]
          /\ FlattenSeq(ss) = f[N]
    BY FlattenLoop
  <1> DEFINE T == {n \in Nat : n <= N => Len(f[n]) = n /\ \A i \in 1 .. n : f[n][i] = ss[i][1]}
  <1>2. N \in Nat /\ \A i \in 1 .. N : ss[i] \in Seq(S)
    OBVIOUS
  <1>3. 0 \in T
    BY <1>1
  <1>4. ASSUME NEW n \in Nat, n \in T  PROVE n + 1 \in T
    <2> SUFFICES ASSUME n + 1 <= N
                 PROVE  Len(f[n + 1]) = n + 1 /\ \A i \in 1 .. n + 1 : f[n + 1][i] = ss[i][1]
      OBVIOUS
    <2>1. PICK a \in Seq(S) : a = f[n]
      BY <1>1, <1>2
    <2>2. PICK b \in Seq(S) : b = ss[n + 1]
      BY <1>2
    <2>3. n + 1 \in 1 .. N /\ (n + 1) - 1 = n
      BY <1>2
    <2>4. f[n + 1] = a \o b
      BY <1>1, <2>1, <2>2, <2>3
    <2>5. Len(a) = n /\ Len(b) = 1 /\ \A i \in 1 .. n : a[i] = ss[i][1]
      BY <1>2, <1>4, <2>1, <2>2, <2>3
    <2>6. /\ Len(a \o b) = n + 1
          /\ \A i \in 1 .. n + 1 : (a \o b)[i] = IF i <= n THEN a[i] ELSE b[i - n]
      <3>1. /\ Len(a \o b) = Len(a) + Len(b)
            /\ \A i \in 1 .. Len(a) + Len(b) : (a \o b)[i] = IF i <= Len(a) THEN a[i] ELSE b[i - Len(a)]
        BY ConcatProperties
      <3> QED  BY <2>5, <3>1
    <2>7. ASSUME NEW i \in 1 .. n + 1  PROVE (a \o b)[i] = ss[i][1]
      <3>1. CASE i <= n
        BY <2>5, <2>6, <3>1
      <3>2. CASE i = n + 1
        <4>1. i - n = 1 /\ ~(i <= n)
          BY <3>2
        <4>2. (a \o b)[i] = b[1]
          BY <2>6, <4>1
        <4> QED  BY <2>2, <3>2, <4>2
      <3>3. i <= n \/ i = n + 1
        OBVIOUS
      <3> QED  BY <3>1, <3>2, <3>3
    <2> QED  BY <2>4, <2>6, <2>7
  <1> HIDE DEF T
  <1>5. N \in T
    <2>1. Nat \subseteq T
      BY <1>3, <1>4, Induct
    <2> QED  BY <1>2, <2>1
  <1>6. Len(f[N]) = N /\ \A i \in 1 .. N : f[N][i] = ss[i][1]
    BY <1>2, <1>5 DEF T
  <1>7. f[N] \in Seq(S)
    BY <1>1, <1>2
  <1> QED  BY <1>1, <1>6, <1>7

\* The pieces of a text that follow one another are the text.
Adjacent(list, n) ==
  /\ \A k \in DOMAIN list : list[k].start \in Nat /\ list[k].end \in 0 .. n /\ list[k].start <= list[k].end
  /\ \A k \in DOMAIN list : list[k].start = IF k = 1 THEN 0 ELSE list[k - 1].end

LEMMA FlattenAdjacent ==
  ASSUME NEW S, NEW s \in Seq(S), NEW R, NEW list \in Seq(R), list # <<>>,
         Adjacent(list, Len(s)), list[Len(list)].end = Len(s)
  PROVE  FlattenSeq([k \in DOMAIN list |-> TextOf(s, list[k])]) = s
  <1> DEFINE N == Len(list)
             ss == [k \in DOMAIN list |-> TextOf(s, list[k])]
             upto(k) == IF k = 0 THEN 0 ELSE list[k].end
  <1>1. N \in Nat /\ N # 0 /\ DOMAIN list = 1 .. N /\ Len(s) \in Nat
    BY EmptySeq, LenProperties
  <1>2. ASSUME NEW k \in 1 .. N
        PROVE  /\ list[k].start = upto(k - 1)
               /\ upto(k - 1) \in 0 .. upto(k) /\ upto(k) = list[k].end /\ upto(k) \in 0 .. Len(s)
    <2>1. list[k].start = IF k = 1 THEN 0 ELSE list[k - 1].end
      BY <1>1 DEF Adjacent
    <2>2. list[k].start \in Nat /\ list[k].end \in 0 .. Len(s) /\ list[k].start <= list[k].end
      BY <1>1 DEF Adjacent
    <2>3. list[k].start = upto(k - 1) /\ upto(k) = list[k].end
      BY <1>1, <2>1
    <2> HIDE DEF upto
    <2> QED  BY <1>1, <2>2, <2>3
  <1>3. ASSUME NEW k \in 1 .. N
        PROVE  ss[k] = SubSeq(s, upto(k - 1) + 1, upto(k)) /\ ss[k] \in Seq(S)
    <2>1. ss[k] = SubSeq(s, upto(k - 1) + 1, upto(k))
      BY <1>1, <1>2 DEF TextOf
    <2> HIDE DEF upto, ss
    <2>2. \A i \in upto(k - 1) + 1 .. upto(k) : s[i] \in S
      BY <1>1, <1>2
    <2>3. upto(k - 1) + 1 \in Int /\ upto(k) \in Int
      BY <1>1, <1>2
    <2>4. SubSeq(s, upto(k - 1) + 1, upto(k)) \in Seq(S)
      BY <2>2, <2>3, SubSeqProperties
    <2> QED  BY <2>1, <2>4
  <1>4. ss \in Seq(Seq(S)) /\ Len(ss) = N
    <2>1. ss = [k \in 1 .. N |-> ss[k]]
      BY <1>1
    <2> QED  BY <1>1, <1>3, <2>1
  <1> HIDE DEF ss
  <1>5. PICK f : f[0] = <<>> /\ (\A i \in 1 .. N : f[i] = f[i - 1] \o ss[i]) /\ FlattenSeq(ss) = f[N]
    <2>1. PICK rr \in Seq(Seq(S)) : rr = ss
      BY <1>4
    <2>2. \E f : f[0] = <<>> /\ (\A i \in 1 .. Len(rr) : f[i] = f[i - 1] \o rr[i]) /\ FlattenSeq(rr) = f[Len(rr)]
      BY FlattenLoop
    <2> QED  BY <1>4, <2>1, <2>2
  <1> DEFINE T == {n \in Nat : n <= N => f[n] = SubSeq(s, 1, upto(n))}
  <1>6. 0 \in T
    <2>1. SubSeq(s, 1, 0) = <<>> /\ upto(0) = 0
      OBVIOUS
    <2> HIDE DEF upto
    <2> QED  BY <1>5, <2>1
  <1> HIDE DEF upto
  <1>7. ASSUME NEW n \in Nat, n \in T  PROVE n + 1 \in T
    <2> SUFFICES ASSUME n + 1 <= N  PROVE f[n + 1] = SubSeq(s, 1, upto(n + 1))
      OBVIOUS
    <2>1. PICK k \in 1 .. N : k = n + 1 /\ k - 1 = n
      BY <1>1
    <2>2. f[k] = SubSeq(s, 1, upto(k - 1)) \o SubSeq(s, upto(k - 1) + 1, upto(k))
      <3>1. f[k] = f[k - 1] \o ss[k]
        BY <1>5
      <3>2. f[k - 1] = SubSeq(s, 1, upto(k - 1))
        BY <1>1, <1>7, <2>1
      <3>3. ss[k] = SubSeq(s, upto(k - 1) + 1, upto(k))
        BY <1>3
      <3> QED  BY <3>1, <3>2, <3>3
    <2>3. PICK a, b \in 0 .. Len(s) : a = upto(k - 1) /\ b = upto(k) /\ a <= b
      <3>1. PICK b \in 0 .. Len(s) : b = upto(k)
        BY <1>2
      <3>2. PICK a \in 0 .. b : a = upto(k - 1)
        BY <1>2, <3>1
      <3>3. a \in 0 .. Len(s) /\ a <= b
        BY <1>1, <3>1
      <3> QED  BY <3>1, <3>2, <3>3
    <2>4. SubSeq(s, 1, a) \o SubSeq(s, a + 1, b) = SubSeq(s, 1, b)
      <3>1. 1 \in 1 .. Len(s) + 1 /\ a \in 1 - 1 .. Len(s) /\ b \in a .. Len(s)
        BY <1>1, <2>3
      <3> QED  BY <3>1, ConcatAdjacentSubSeq
    <2> QED  BY <2>1, <2>2, <2>3, <2>4
  <1> HIDE DEF T
  <1>8. N \in T
    <2>1. Nat \subseteq T
      BY <1>6, <1>7, Induct
    <2> QED  BY <1>1, <2>1
  <1>9. f[N] = SubSeq(s, 1, upto(N)) /\ upto(N) = Len(s)
    BY <1>1, <1>8 DEF T, upto
  <1>10. SubSeq(s, 1, Len(s)) = s
    OBVIOUS
  <1> QED  BY <1>5, <1>9, <1>10 DEF ss

-----------------------------------------------------------------------------
(* The pieces of a segment *)

PieceRecords(S) == [start : Nat, end : Nat, speaker : S]

\* Where the piece that ends with the i-th token ends.
Surface(string, list, i) ==
  IF i = Len(list) THEN Len(string) ELSE SurfaceIndexForCount(string, Cumulative(list, i))

\* The pieces with the i-th token.
PiecesWith(before, string, list, speakers, i) ==
  IF i < Len(list) /\ speakers[i] = speakers[i + 1] THEN before
  ELSE Append(before, [start |-> IF before = <<>> THEN 0 ELSE Last(before).end,
                       end |-> Surface(string, list, i), speaker |-> speakers[i]])

\* The values of the loop of Pieces.
PiecesSteps(f, S, string, list, speakers) ==
  /\ \A i \in 0 .. Len(list) : f[i] \in Seq(PieceRecords(S))
  /\ f[0] = <<>>
  /\ \A i \in 1 .. Len(list) : f[i] = PiecesWith(f[i - 1], string, list, speakers, i)
  /\ Pieces(string, list, speakers) = f[Len(list)]

LEMMA PiecesLoop ==
  ASSUME NEW S, NEW string, NEW list, NEW speakers, Len(list) \in Nat,
         \A i \in 1 .. Len(list) : speakers[i] \in S /\ Surface(string, list, i) \in Nat
  PROVE  \E f : PiecesSteps(f, S, string, list, speakers)
  <1> DEFINE N == Len(list)
             V == Seq(PieceRecords(S))
             with(v, i) == PiecesWith(v, string, list, speakers, i)
             step == [i \in 1 .. N |-> [v \in V |-> with(v, i)]]
             Def(f) == f = [i \in 0 .. N |-> IF i = 0 THEN <<>> ELSE with(f[i - 1], i)]
             f == CHOOSE f : Def(f)
  <1>1. ASSUME NEW i \in 1 .. N, NEW v \in V  PROVE with(v, i) \in V
    <2> DEFINE start == IF v = <<>> THEN 0 ELSE Last(v).end
    <2>1. start \in Nat
      <3>1. v # <<>> => Last(v) \in PieceRecords(S)
        BY LastOf
      <3> QED  BY <3>1 DEF PieceRecords
    <2> HIDE DEF start
    <2>2. [start |-> start, end |-> Surface(string, list, i), speaker |-> speakers[i]] \in PieceRecords(S)
      BY <2>1 DEF PieceRecords
    <2>3. PICK e \in PieceRecords(S) : e = [start |-> start, end |-> Surface(string, list, i), speaker |-> speakers[i]]
      BY <2>2
    <2>4. Append(v, e) \in V
      BY AppendProperties
    <2>5. with(v, i) = IF i < N /\ speakers[i] = speakers[i + 1] THEN v ELSE Append(v, e)
      BY <2>3 DEF PiecesWith, start
    <2> QED  BY <2>4, <2>5
  <1>2. Pieces(string, list, speakers) = f[N]
    BY DEF Pieces, PiecesWith, Surface
  <1>3. <<>> \in V /\ N \in Nat
    BY EmptySeq
  <1>4. step \in [1 .. N -> [V -> V]]
    BY <1>1
  <1>5. \A i \in 1 .. N, v \in V : step[i][v] = with(v, i)
    OBVIOUS
  <1> HIDE DEF V, N, step, f, with
  <1>6. PICK g : Steps(g, V, <<>>, N, step)
    BY <1>3, <1>4, Loops
  <1>7. g = [i \in 0 .. N |-> g[i]]
    BY <1>6 DEF Steps
  <1>8. /\ \A i \in 0 .. N : g[i] \in V
        /\ g[0] = <<>>
        /\ \A i \in 1 .. N : g[i] = step[i][g[i - 1]]
    BY <1>6 DEF Steps
  <1>9. \A i \in 1 .. N : i - 1 \in 0 .. N
    BY <1>3
  <1>10. \A i \in 1 .. N : g[i] = with(g[i - 1], i)
    BY <1>5, <1>8, <1>9
  <1>11. Def(g)
    <2>1. \A i \in 0 .. N : i = 0 \/ (i # 0 /\ i \in 1 .. N)
      BY <1>3
    <2>2. \A i \in 0 .. N : g[i] = IF i = 0 THEN <<>> ELSE with(g[i - 1], i)
      BY <1>8, <1>10, <2>1
    <2> QED  BY <1>7, <2>2
  <1>12. Def(f)
    BY <1>11 DEF f
  <1>13. \A i \in 0 .. N : f[i] = IF i = 0 THEN <<>> ELSE with(f[i - 1], i)
    BY <1>12
  <1> HIDE DEF Def
  <1> DEFINE T == {i \in Nat : i <= N => f[i] = g[i]}
  <1>14. 0 \in T
    BY <1>3, <1>8, <1>13
  <1>15. ASSUME NEW i \in Nat, i \in T  PROVE i + 1 \in T
    <2> SUFFICES ASSUME i + 1 <= N  PROVE f[i + 1] = g[i + 1]
      OBVIOUS
    <2>1. PICK k \in 1 .. N : k = i + 1 /\ k - 1 = i /\ k # 0 /\ k \in 0 .. N
      BY <1>3
    <2>2. f[k - 1] = g[k - 1]
      BY <1>3, <1>15, <2>1
    <2>3. f[k] = with(f[k - 1], k)
      BY <1>13, <2>1
    <2> QED  BY <1>10, <2>1, <2>2, <2>3
  <1> HIDE DEF T
  <1>16. N \in T
    BY <1>3, <1>14, <1>15, Induct
  <1>17. f[N] = g[N]
    BY <1>3, <1>16 DEF T
  <1>18. \A i \in 1 .. N : g[i] = PiecesWith(g[i - 1], string, list, speakers, i)
    BY <1>10 DEF with
  <1>19. PiecesSteps(g, S, string, list, speakers)
    BY <1>2, <1>8, <1>17, <1>18 DEF N, V, PiecesSteps
  <1> QED  BY <1>19

\* The i-th letter is in a piece of the speaker.
InPieceOf(list, string, i, speaker) ==
  \E k \in 1 .. Len(list) :
    /\ LetterCount(string, list[k].start) < i /\ i <= LetterCount(string, list[k].end)
    /\ list[k].speaker = speaker

\* What holds once the i-th token is in: the pieces are adjacent and hold the
\* first e tokens, and the others have the speaker of the next one.
Cutting(p, string, list, speakers, e, i) ==
  /\ Adjacent(p, Len(string))
  /\ p = <<>> <=> e = 0
  /\ p # <<>> => p[Len(p)].end = Surface(string, list, e)
  /\ \A j \in e + 1 .. i : i < Len(list) /\ speakers[j] = speakers[i + 1]
  /\ \A j \in 1 .. e : InPieceOf(p, string, j, speakers[j])

\* One letter to a token: each piece ends with the last letter of its last token.
LEMMA SurfaceIs ==
  ASSUME NEW C, NEW s \in Seq(C), NEW list, Len(list) = Len(Compact(s)),
         \A i \in 1 .. Len(list) : Cumulative(list, i) = i
  PROVE  /\ \A i \in 1 .. Len(list) :
              Surface(s, list, i) \in 0 .. Len(s) /\ LetterCount(s, Surface(s, list, i)) = i
         /\ \A i, j \in 1 .. Len(list) : i < j => Surface(s, list, i) <= Surface(s, list, j)
  <1> DEFINE N == Len(list)
             sf(i) == Surface(s, list, i)
  <1>1. N \in Nat /\ Len(s) \in Nat /\ LetterCount(s, Len(s)) = N
    <2>1. PICK c \in Seq(C) : c = Compact(s)
      BY CompactNext
    <2>2. Len(c) \in Nat /\ Len(s) \in Nat
      BY LenProperties
    <2> QED  BY <2>1, <2>2, Counts
  <1>2. ASSUME NEW i \in 1 .. N  PROVE sf(i) \in 0 .. Len(s) /\ LetterCount(s, sf(i)) = i
    <2>1. CASE i = N
      BY <1>1, <2>1 DEF Surface
    <2>2. CASE i # N
      <3>1. sf(i) = SurfaceIndexForCount(s, i)
        BY <2>2 DEF Surface
      <3>2. PICK c \in Nat : c = i /\ 0 < c /\ c <= Len(Compact(s))
        BY <1>1
      <3>3. SurfaceIndexForCount(s, c) \in 1 .. Len(s) /\ LetterCount(s, SurfaceIndexForCount(s, c)) = c
        BY <3>2, SurfaceFound
      <3> HIDE DEF sf
      <3> QED  BY <1>1, <3>1, <3>2, <3>3
    <2> QED  BY <2>1, <2>2
  <1> HIDE DEF sf
  <1>3. ASSUME NEW i \in 1 .. N, NEW j \in 1 .. N, i < j  PROVE sf(i) <= sf(j)
    <2>1. PICK a, b \in 0 .. Len(s) : a = sf(i) /\ b = sf(j)
      BY <1>2
    <2>2. LetterCount(s, a) = i /\ LetterCount(s, b) = j
      BY <1>2, <2>1
    <2>3. b <= a => LetterCount(s, b) <= LetterCount(s, a)
      BY CountsGrow
    <2>4. a \in Nat /\ b \in Nat /\ i \in Nat /\ j \in Nat
      BY <1>1
    <2>5. ~(b <= a)
      BY <1>3, <2>2, <2>3, <2>4
    <2> QED  BY <2>1, <2>4, <2>5
  <1> QED  BY <1>2, <1>3 DEF sf

LEMMA CutStep ==
  ASSUME NEW C, NEW s \in Seq(C), NEW list, Len(list) = Len(Compact(s)),
         \A i \in 1 .. Len(list) : Cumulative(list, i) = i,
         NEW S, NEW speakers, NEW i \in 1 .. Len(list), speakers[i] \in S,
         NEW p \in Seq(PieceRecords(S)), NEW e \in 0 .. i - 1, Cutting(p, s, list, speakers, e, i - 1)
  PROVE  \E d \in 0 .. i : Cutting(PiecesWith(p, s, list, speakers, i), s, list, speakers, d, i)
  <1> DEFINE N == Len(list)
             sf(j) == Surface(s, list, j)
             new == PiecesWith(p, s, list, speakers, i)
             M == Len(p)
  <1>1. /\ \A j \in 1 .. N : sf(j) \in 0 .. Len(s) /\ LetterCount(s, sf(j)) = j
        /\ \A j, k \in 1 .. N : j < k => sf(j) <= sf(k)
    BY SurfaceIs
  <1> HIDE DEF sf
  <1>2. i \in Nat /\ e \in Nat /\ M \in Nat /\ DOMAIN p = 1 .. M /\ N \in Nat /\ Len(s) \in Nat /\ e < i
    <2>1. PICK c \in Seq(C) : c = Compact(s)
      BY CompactNext
    <2>2. Len(c) \in Nat /\ Len(s) \in Nat
      BY LenProperties
    <2> QED  BY <2>1, <2>2, LenProperties
  <1>3. \A j \in e + 1 .. i : speakers[j] = speakers[i]
    <2>1. \A j \in e + 1 .. i - 1 : speakers[j] = speakers[(i - 1) + 1]
      BY DEF Cutting
    <2>2. (i - 1) + 1 = i /\ \A j \in e + 1 .. i : j \in e + 1 .. i - 1 \/ j = i
      BY <1>2
    <2> QED  BY <2>1, <2>2
  <1>4. CASE i < N /\ speakers[i] = speakers[i + 1]
    <2>1. new = p
      BY <1>4 DEF PiecesWith
    <2>2. Cutting(p, s, list, speakers, e, i)
      BY <1>3, <1>4 DEF Cutting
    <2>3. e \in 0 .. i
      BY <1>2
    <2> QED  BY <2>1, <2>2, <2>3
  <1>5. CASE ~(i < N /\ speakers[i] = speakers[i + 1])
    <2> DEFINE start == IF p = <<>> THEN 0 ELSE Last(p).end
    <2>1. /\ start \in 0 .. Len(s) /\ start <= sf(i) /\ LetterCount(s, start) = e
          /\ start = IF M = 0 THEN 0 ELSE p[M].end
      <3>1. CASE p = <<>>
        <4>1. e = 0 /\ M = 0 /\ LetterCount(s, 0) = 0
          BY <3>1, EmptySeq, Counts DEF Cutting
        <4> QED  BY <1>1, <1>2, <3>1, <4>1
      <3>2. CASE p # <<>>
        <4>1. e # 0 /\ M # 0 /\ start = p[M].end /\ p[M].end = sf(e)
          BY <3>2, EmptySeq DEF Cutting, Last, sf
        <4>2. e \in 1 .. N /\ i \in 1 .. N
          BY <1>2, <4>1
        <4> HIDE DEF start
        <4> QED  BY <1>1, <1>2, <4>1, <4>2
      <3> QED  BY <3>1, <3>2
    <2> HIDE DEF start
    <2>2. PICK q : q = [start |-> start, end |-> sf(i), speaker |-> speakers[i]]
      OBVIOUS
    <2>3. q.start = start /\ q.end = sf(i) /\ q.speaker = speakers[i] /\ q \in PieceRecords(S)
      BY <1>1, <2>1, <2>2 DEF PieceRecords
    <2>4. new = Append(p, q)
      BY <1>5, <2>2 DEF PiecesWith, start, sf
    <2> HIDE DEF new
    <2>5. /\ new # <<>> /\ Len(new) = M + 1 /\ DOMAIN new = 1 .. M + 1
          /\ \A k \in 1 .. M : new[k] = p[k]
          /\ new[M + 1] = q
      <3> HIDE DEF M
      <3>1. /\ Append(p, q) # <<>> /\ Len(Append(p, q)) = Len(p) + 1 /\ Append(p, q) \in Seq(PieceRecords(S))
            /\ \A k \in 1 .. Len(p) : Append(p, q)[k] = p[k]
            /\ Append(p, q)[Len(p) + 1] = q
        BY <2>3, AppendProperties
      <3>2. DOMAIN Append(p, q) = 1 .. Len(p) + 1
        BY <3>1, LenProperties
      <3> QED  BY <2>4, <3>1, <3>2 DEF M
    <2>6. Adjacent(new, Len(s))
      <3>1. \A k \in 1 .. M :
              /\ p[k].start \in Nat /\ p[k].end \in 0 .. Len(s) /\ p[k].start <= p[k].end
              /\ p[k].start = IF k = 1 THEN 0 ELSE p[k - 1].end
        BY <1>2 DEF Cutting, Adjacent
      <3>2. ASSUME NEW k \in 1 .. M + 1
            PROVE  /\ new[k].start \in Nat /\ new[k].end \in 0 .. Len(s) /\ new[k].start <= new[k].end
                   /\ new[k].start = IF k = 1 THEN 0 ELSE new[k - 1].end
        <4>1. CASE k \in 1 .. M
          <5>1. k # 1 => k - 1 \in 1 .. M
            BY <1>2, <4>1
          <5> QED  BY <2>5, <3>1, <4>1, <5>1
        <4>2. CASE k = M + 1
          <5>1. new[k] = q /\ (k = 1 <=> M = 0) /\ k - 1 = M /\ (M # 0 => M \in 1 .. M)
            BY <1>2, <2>5, <4>2
          <5>2. M # 0 => new[k - 1] = p[M]
            BY <2>5, <5>1
          <5> QED  BY <1>1, <2>1, <2>3, <5>1, <5>2
        <4>3. k \in 1 .. M \/ k = M + 1
          BY <1>2
        <4> QED  BY <4>1, <4>2, <4>3
      <3> QED  BY <2>5, <3>2 DEF Adjacent
    <2>7. ASSUME NEW j \in 1 .. i  PROVE InPieceOf(new, s, j, speakers[j])
      <3>1. CASE j <= e
        <4>1. PICK k \in 1 .. M : /\ LetterCount(s, p[k].start) < j /\ j <= LetterCount(s, p[k].end)
                                  /\ p[k].speaker = speakers[j]
          <5>1. j \in 1 .. e
            BY <1>2, <3>1
          <5> QED  BY <5>1 DEF Cutting, InPieceOf
        <4>2. new[k] = p[k] /\ k \in 1 .. M + 1
          BY <1>2, <2>5
        <4> QED  BY <2>5, <4>1, <4>2 DEF InPieceOf
      <3>2. CASE e < j
        <4>1. speakers[j] = speakers[i]
          <5>1. j \in e + 1 .. i
            BY <1>2, <3>2
          <5> QED  BY <1>3, <5>1
        <4>2. LetterCount(s, q.start) < j /\ j <= LetterCount(s, q.end)
          BY <1>1, <2>1, <2>3, <3>2
        <4>3. M + 1 \in 1 .. M + 1
          BY <1>2
        <4> QED  BY <2>3, <2>5, <4>1, <4>2, <4>3 DEF InPieceOf
      <3> QED  BY <1>2, <3>1, <3>2
    <2>8. Cutting(new, s, list, speakers, i, i)
      <3>1. \A j \in i + 1 .. i : FALSE
        BY <1>2
      <3>2. new[Len(new)].end = Surface(s, list, i)
        BY <2>3, <2>5 DEF sf
      <3> QED  BY <1>2, <2>5, <2>6, <2>7, <3>1, <3>2 DEF Cutting
    <2>9. i \in 0 .. i
      BY <1>2
    <2> QED  BY <2>8, <2>9 DEF new
  <1> QED  BY <1>4, <1>5

\* The pieces of a segment whose tokens have a letter each: they are the text,
\* and each letter is in a piece of its token's speaker.
LEMMA PiecesCut ==
  ASSUME NEW C, NEW s \in Seq(C), NEW list, list # <<>>, Len(list) = Len(Compact(s)), Len(list) # 0,
         \A i \in 1 .. Len(list) : Cumulative(list, i) = i,
         NEW S, NEW speakers, \A i \in 1 .. Len(list) : speakers[i] \in S
  PROVE  LET pieces == Pieces(s, list, speakers) IN
         /\ pieces \in Seq(PieceRecords(S))
         /\ Adjacent(pieces, Len(s))
         /\ FlattenSeq([k \in DOMAIN pieces |-> TextOf(s, pieces[k])]) = s
         /\ \A i \in 1 .. Len(list) : InPieceOf(pieces, s, i, speakers[i])
  <1> DEFINE N == Len(list)
             sf(i) == Surface(s, list, i)
  <1>1. \A i \in 1 .. N : sf(i) \in 0 .. Len(s)
    BY SurfaceIs
  <1>2. N \in Nat /\ Len(s) \in Nat
    <2>1. PICK c \in Seq(C) : c = Compact(s)
      BY CompactNext
    <2>2. Len(c) \in Nat /\ Len(s) \in Nat
      BY LenProperties
    <2> QED  BY <2>1, <2>2
  <1>3. PICK f :
          /\ \A i \in 0 .. N : f[i] \in Seq(PieceRecords(S))
          /\ f[0] = <<>>
          /\ \A i \in 1 .. N : f[i] = PiecesWith(f[i - 1], s, list, speakers, i)
          /\ Pieces(s, list, speakers) = f[N]
    <2>1. \A i \in 1 .. N : speakers[i] \in S /\ Surface(s, list, i) \in Nat
      BY <1>1, <1>2
    <2>2. \E f : PiecesSteps(f, S, s, list, speakers)
      BY <1>2, <2>1, PiecesLoop
    <2> QED  BY <2>2 DEF PiecesSteps
  <1> DEFINE T == {i \in Nat : i <= N => \E e \in 0 .. i : Cutting(f[i], s, list, speakers, e, i)}
  <1>4. 0 \in T
    <2>1. PICK p \in Seq(PieceRecords(S)) : p = <<>>
      BY EmptySeq
    <2>2. DOMAIN p = {} /\ (\A j \in 0 + 1 .. 0 : FALSE) /\ \A j \in 1 .. 0 : FALSE
      BY <2>1, EmptySeq, LenProperties
    <2>3. Adjacent(p, Len(s))
      BY <2>2 DEF Adjacent
    <2>4. Cutting(p, s, list, speakers, 0, 0)
      BY <2>1, <2>2, <2>3 DEF Cutting
    <2>5. PICK z \in Nat : z = 0 /\ z \in 0 .. z
      OBVIOUS
    <2>6. Cutting(f[z], s, list, speakers, z, z)
      BY <1>3, <2>1, <2>4, <2>5
    <2>7. z \in T
      BY <2>5, <2>6
    <2> QED  BY <2>5, <2>7
  <1>5. ASSUME NEW n \in Nat, n \in T  PROVE n + 1 \in T
    <2> SUFFICES ASSUME n + 1 <= N
                 PROVE  \E e \in 0 .. n + 1 : Cutting(f[n + 1], s, list, speakers, e, n + 1)
      OBVIOUS
    <2>1. PICK i \in 1 .. N : i = n + 1 /\ i - 1 = n /\ i - 1 \in 0 .. N
      BY <1>2
    <2>2. PICK e \in 0 .. i - 1 : Cutting(f[i - 1], s, list, speakers, e, i - 1)
      BY <1>2, <1>5, <2>1
    <2>3. PICK p \in Seq(PieceRecords(S)) : p = f[i - 1]
      BY <1>3, <2>1
    <2>4. \E d \in 0 .. i : Cutting(PiecesWith(p, s, list, speakers, i), s, list, speakers, d, i)
      BY <2>2, <2>3, CutStep
    <2>5. f[i] = PiecesWith(p, s, list, speakers, i)
      BY <1>3, <2>3
    <2> QED  BY <2>1, <2>4, <2>5
  <1> HIDE DEF T
  <1>6. N \in T
    BY <1>2, <1>4, <1>5, Induct
  <1>7. PICK p \in Seq(PieceRecords(S)) : p = f[N]
    BY <1>2, <1>3
  <1>8. PICK e \in 0 .. N : Cutting(p, s, list, speakers, e, N)
    BY <1>2, <1>6, <1>7 DEF T
  <1>9. e = N
    <2>1. \A j \in e + 1 .. N : N < N
      BY <1>8 DEF Cutting
    <2>2. e # N => N \in e + 1 .. N
      BY <1>2
    <2> QED  BY <1>2, <2>1, <2>2
  <1>10. p # <<>> /\ Adjacent(p, Len(s)) /\ p[Len(p)].end = Len(s)
    <2>1. p # <<>>
      BY <1>8, <1>9 DEF Cutting
    <2>2. p[Len(p)].end = Surface(s, list, N)
      BY <1>8, <1>9, <2>1 DEF Cutting
    <2>3. Surface(s, list, N) = Len(s)
      BY DEF Surface
    <2> QED  BY <1>8, <2>1, <2>2, <2>3 DEF Cutting
  <1>11. FlattenSeq([k \in DOMAIN p |-> TextOf(s, p[k])]) = s
    BY <1>10, FlattenAdjacent
  <1>12. \A i \in 1 .. N : InPieceOf(p, s, i, speakers[i])
    BY <1>8, <1>9 DEF Cutting
  <1> QED  BY <1>3, <1>7, <1>10, <1>11, <1>12

\* The segment in one piece.
LEMMA WholePiece ==
  ASSUME NEW C, NEW s \in Seq(C), NEW speaker
  PROVE  LET pieces == <<[start |-> 0, end |-> Len(s), speaker |-> speaker]>> IN
         /\ Len(pieces) = 1 /\ DOMAIN pieces = 1 .. 1
         /\ Adjacent(pieces, Len(s))
         /\ FlattenSeq([k \in DOMAIN pieces |-> TextOf(s, pieces[k])]) = s
  <1>1. PICK q : q = [start |-> 0, end |-> Len(s), speaker |-> speaker]
    OBVIOUS
  <1>2. q.start = 0 /\ q.end = Len(s) /\ Len(s) \in Nat
    BY <1>1, LenProperties
  <1>3. PICK p \in Seq({q}) : p = <<q>>
    <2>1. <<q>> \in Seq({q})
      OBVIOUS
    <2> QED  BY <2>1
  <1>4. p # <<>> /\ Len(p) = 1 /\ DOMAIN p = {1} /\ p[1] = q
    BY <1>3
  <1>5. Adjacent(p, Len(s)) /\ p[Len(p)].end = Len(s)
    BY <1>2, <1>4 DEF Adjacent
  <1>6. FlattenSeq([k \in DOMAIN p |-> TextOf(s, p[k])]) = s
    BY <1>4, <1>5, FlattenAdjacent
  <1>7. DOMAIN p = 1 .. 1
    BY <1>4
  <1> QED  BY <1>1, <1>3, <1>4, <1>5, <1>6, <1>7

-----------------------------------------------------------------------------
(* Tokens of one letter each *)

LEMMA OneLetterEach ==
  ASSUME NEW C, NEW list, Len(list) \in Nat, DOMAIN list = 1 .. Len(list),
         \A i \in 1 .. Len(list) : list[i].text \in Seq(C) /\ Len(list[i].text) = 1
  PROVE  /\ \A i \in 1 .. Len(list) : Cumulative(list, i) = i
         /\ LET flat == FlattenSeq([i \in DOMAIN list |-> list[i].text]) IN
            flat \in Seq(C) /\ Len(flat) = Len(list) /\ \A i \in 1 .. Len(list) : flat[i] = list[i].text[1]
  <1>1. ASSUME NEW i \in 0 .. Len(list)
        PROVE  LET flat == FlattenSeq([j \in 1 .. i |-> list[j].text]) IN
               flat \in Seq(C) /\ Len(flat) = i /\ \A j \in 1 .. i : flat[j] = list[j].text[1]
    <2> DEFINE ss == [j \in 1 .. i |-> list[j].text]
    <2>1. ss = [j \in 1 .. i |-> ss[j]]
      OBVIOUS
    <2>2. \A j \in 1 .. i : j \in 1 .. Len(list) /\ ss[j] = list[j].text
      OBVIOUS
    <2> HIDE DEF ss
    <2>3. ss \in Seq(Seq(C)) /\ Len(ss) = i
      <3>1. \A j \in 1 .. i : ss[j] \in Seq(C)
        BY <2>2
      <3> QED  BY <2>1, <3>1
    <2>4. \A j \in 1 .. Len(ss) : Len(ss[j]) = 1
      BY <2>2, <2>3
    <2>5. /\ FlattenSeq(ss) \in Seq(C) /\ Len(FlattenSeq(ss)) = Len(ss)
          /\ \A j \in 1 .. Len(ss) : FlattenSeq(ss)[j] = ss[j][1]
      BY <2>3, <2>4, FlattenSingles
    <2>6. /\ FlattenSeq(ss) \in Seq(C) /\ Len(FlattenSeq(ss)) = i
          /\ \A j \in 1 .. i : FlattenSeq(ss)[j] = list[j].text[1]
      BY <2>2, <2>3, <2>5
    <2> QED  BY <2>6 DEF ss
  <1>2. ASSUME NEW i \in 1 .. Len(list)  PROVE Cumulative(list, i) = i
    <2>1. i \in 0 .. Len(list)
      OBVIOUS
    <2> QED  BY <1>1, <2>1 DEF Cumulative
  <1>3. Len(list) \in 0 .. Len(list)
    OBVIOUS
  <1>4. [i \in DOMAIN list |-> list[i].text] = [j \in 1 .. Len(list) |-> list[j].text]
    OBVIOUS
  <1> DEFINE flat == FlattenSeq([j \in 1 .. Len(list) |-> list[j].text])
  <1>5. flat \in Seq(C) /\ Len(flat) = Len(list) /\ \A j \in 1 .. Len(list) : flat[j] = list[j].text[1]
    BY <1>1, <1>3
  <1>6. flat = FlattenSeq([i \in DOMAIN list |-> list[i].text])
    BY <1>4
  <1> HIDE DEF flat
  <1> QED  BY <1>2, <1>5, <1>6

-----------------------------------------------------------------------------
(* The speaker of a token *)

BestRecords(S) == [overlap : Nat, speaker : S]

\* The best overlap once a turn is looked at.
BestWith(best, token, turn) ==
  IF Overlap(token, turn) > best.overlap
    THEN [overlap |-> Overlap(token, turn), speaker |-> turn.speaker]
  ELSE IF Overlap(token, turn) = 0 /\ 2 * turn.start <= token.start + token.end /\ token.start + token.end <= 2 * turn.end
    THEN [best EXCEPT !.speaker = turn.speaker]
    ELSE best

BestSteps(f, token, list, fallback) ==
  /\ \A i \in 0 .. Len(list) : f[i] \in BestRecords(Speakers \cup {fallback})
  /\ f[0] = [overlap |-> 0, speaker |-> fallback]
  /\ \A i \in 1 .. Len(list) : f[i] = BestWith(f[i - 1], token, list[i])
  /\ SpeakerForToken(token, list, fallback) = f[Len(list)].speaker

LEMMA OverlapIs ==
  ASSUME NEW token, token.start \in Nat, token.end \in Nat, NEW turn, turn.start \in Nat, turn.end \in Nat
  PROVE  /\ Overlap(token, turn) \in Nat
         /\ Overlap(token, turn) > 0 <=> /\ token.start < token.end /\ turn.start < turn.end
                                         /\ token.start < turn.end /\ turn.start < token.end
  BY DEF Overlap, Greater, Lesser

\* The loop of SpeakerForToken.
LEMMA BestLoop ==
  ASSUME NEW token, token.start \in Nat, token.end \in Nat,
         NEW list \in Seq(TurnRecords), NEW fallback
  PROVE  \E f : BestSteps(f, token, list, fallback)
  <1> DEFINE N == Len(list)
             V == BestRecords(Speakers \cup {fallback})
             first == [overlap |-> 0, speaker |-> fallback]
             with(v, i) == BestWith(v, token, list[i])
             step == [i \in 1 .. N |-> [v \in V |-> with(v, i)]]
             Def(f) == f = [i \in 0 .. N |-> IF i = 0 THEN first ELSE with(f[i - 1], i)]
             f == CHOOSE f : Def(f)
  <1>1. ASSUME NEW i \in 1 .. N, NEW v \in V  PROVE with(v, i) \in V
    <2>1. list[i].start \in Nat /\ list[i].end \in Nat /\ list[i].speaker \in Speakers
      BY OrderedTurns
    <2>2. PICK o \in Nat : o = Overlap(token, list[i])
      BY <2>1, OverlapIs
    <2>3. PICK a \in Nat, b \in Speakers \cup {fallback} : v = [overlap |-> a, speaker |-> b]
      BY DEF BestRecords
    <2>4. [v EXCEPT !.speaker = list[i].speaker] = [overlap |-> a, speaker |-> list[i].speaker]
      BY <2>3
    <2>5. [overlap |-> a, speaker |-> list[i].speaker] \in V /\ [overlap |-> o, speaker |-> list[i].speaker] \in V
      BY <2>1 DEF BestRecords
    <2>6. with(v, i) \in {[overlap |-> o, speaker |-> list[i].speaker], [v EXCEPT !.speaker = list[i].speaker], v}
      BY <2>2 DEF BestWith
    <2> HIDE DEF V
    <2> QED  BY <2>4, <2>5, <2>6
  <1>2. SpeakerForToken(token, list, fallback) = f[N].speaker
    BY DEF SpeakerForToken, BestWith
  <1>3. first \in V /\ N \in Nat
    BY LenProperties DEF BestRecords
  <1>4. step \in [1 .. N -> [V -> V]]
    BY <1>1
  <1>5. \A i \in 1 .. N, v \in V : step[i][v] = with(v, i)
    OBVIOUS
  <1> HIDE DEF V, N, step, f, with, first
  <1>6. PICK g : Steps(g, V, first, N, step)
    BY <1>3, <1>4, Loops
  <1>7. g = [i \in 0 .. N |-> g[i]]
    BY <1>6 DEF Steps
  <1>8. /\ \A i \in 0 .. N : g[i] \in V
        /\ g[0] = first
        /\ \A i \in 1 .. N : g[i] = step[i][g[i - 1]]
    BY <1>6 DEF Steps
  <1>9. \A i \in 1 .. N : i - 1 \in 0 .. N
    BY <1>3
  <1>10. \A i \in 1 .. N : g[i] = with(g[i - 1], i)
    BY <1>5, <1>8, <1>9
  <1>11. Def(g)
    <2>1. \A i \in 0 .. N : i = 0 \/ (i # 0 /\ i \in 1 .. N)
      BY <1>3
    <2>2. \A i \in 0 .. N : g[i] = IF i = 0 THEN first ELSE with(g[i - 1], i)
      BY <1>8, <1>10, <2>1
    <2> QED  BY <1>7, <2>2
  <1>12. Def(f)
    BY <1>11 DEF f
  <1>13. \A i \in 0 .. N : f[i] = IF i = 0 THEN first ELSE with(f[i - 1], i)
    BY <1>12
  <1> HIDE DEF Def
  <1> DEFINE T == {i \in Nat : i <= N => f[i] = g[i]}
  <1>14. 0 \in T
    BY <1>3, <1>8, <1>13
  <1>15. ASSUME NEW i \in Nat, i \in T  PROVE i + 1 \in T
    <2> SUFFICES ASSUME i + 1 <= N  PROVE f[i + 1] = g[i + 1]
      OBVIOUS
    <2>1. PICK k \in 1 .. N : k = i + 1 /\ k - 1 = i /\ k # 0 /\ k \in 0 .. N
      BY <1>3
    <2>2. f[k - 1] = g[k - 1]
      BY <1>3, <1>15, <2>1
    <2>3. f[k] = with(f[k - 1], k)
      BY <1>13, <2>1
    <2> QED  BY <1>10, <2>1, <2>2, <2>3
  <1> HIDE DEF T
  <1>16. N \in T
    BY <1>3, <1>14, <1>15, Induct
  <1>17. f[N] = g[N]
    BY <1>3, <1>16 DEF T
  <1>18. \A i \in 1 .. N : g[i] = BestWith(g[i - 1], token, list[i])
    BY <1>10 DEF with
  <1>19. BestSteps(g, token, list, fallback)
    BY <1>2, <1>8, <1>17, <1>18 DEF N, V, first, BestSteps
  <1> QED  BY <1>19

\* The best of the first i turns.
Best(b, token, list, i) ==
  /\ \A k \in 1 .. i : Overlap(token, list[k]) <= b.overlap
  /\ b.overlap > 0 =>
       \E m \in 1 .. i : /\ Overlap(token, list[m]) = b.overlap /\ list[m].speaker = b.speaker
                         /\ \A k \in 1 .. i : k < m => Overlap(token, list[k]) < b.overlap

\* A token that has an extent and shares time with some turn.
LEMMA SpokenTimed ==
  ASSUME NEW token, token.start \in Nat, token.end \in Nat, token.start < token.end,
         NEW list \in Seq(TurnRecords), Ordered(list), NEW fallback,
         \E k \in 1 .. Len(list) : Overlap(token, list[k]) > 0
  PROVE  LET speaker == SpeakerForToken(token, list, fallback) IN
         speaker \in Speakers /\ SpokenIn(token, list, speaker)
  <1> DEFINE N == Len(list)
             O(k) == Overlap(token, list[k])
  <1>1. PICK f : BestSteps(f, token, list, fallback)
    BY BestLoop
  <1>2. /\ N \in Nat /\ DOMAIN list = 1 .. N
        /\ \A k \in 1 .. N :
             /\ list[k].start \in Nat /\ list[k].end \in Nat /\ list[k].speaker \in Speakers
             /\ list[k].start < list[k].end
             /\ O(k) \in Nat
    <2>1. N \in Nat /\ DOMAIN list = 1 .. N
      BY LenProperties
    <2>2. \A k \in 1 .. N :
             /\ list[k].start \in Nat /\ list[k].end \in Nat /\ list[k].speaker \in Speakers
             /\ list[k].start < list[k].end
      BY OrderedTurns
    <2>3. \A k \in 1 .. N : O(k) \in Nat
      BY <2>2, OverlapIs
    <2> QED  BY <2>1, <2>2, <2>3
  <1>3. \A i \in 0 .. N : f[i].overlap \in Nat
    BY <1>1 DEF BestSteps, BestRecords
  <1> DEFINE T == {i \in Nat : i <= N => Best(f[i], token, list, i)}
  <1>4. 0 \in T
    <2>1. f[0].overlap = 0
      BY <1>1 DEF BestSteps
    <2>2. PICK z \in Nat : z = 0
      OBVIOUS
    <2>3. Best(f[z], token, list, z)
      BY <2>1, <2>2 DEF Best
    <2>4. z \in T
      BY <2>3
    <2> QED  BY <2>2, <2>4
  <1>5. ASSUME NEW n \in Nat, n \in T  PROVE n + 1 \in T
    <2> SUFFICES ASSUME n + 1 <= N  PROVE Best(f[n + 1], token, list, n + 1)
      OBVIOUS
    <2>1. PICK i \in 1 .. N : i = n + 1 /\ i - 1 = n /\ n \in 0 .. N /\ i \in Nat /\ n < i
      BY <1>2
    <2>2. PICK b : b = f[n]
      OBVIOUS
    <2>3. Best(b, token, list, n) /\ b.overlap \in Nat
      BY <1>2, <1>3, <1>5, <2>1, <2>2
    <2>4. f[i] = BestWith(b, token, list[i])
      BY <1>1, <2>1, <2>2 DEF BestSteps
    <2>5. \A k \in 1 .. n : O(k) <= b.overlap /\ k \in 1 .. N /\ O(k) \in Nat
      BY <1>2, <2>1, <2>3 DEF Best
    <2>6. \A k \in 1 .. i : k \in 1 .. n \/ k = i
      BY <2>1
    <2>7. CASE O(i) > b.overlap
      <3>1. f[i] = [overlap |-> O(i), speaker |-> list[i].speaker]
        BY <2>4, <2>7 DEF BestWith
      <3>2. f[i].overlap = O(i) /\ f[i].speaker = list[i].speaker
        BY <3>1
      <3> HIDE DEF O
      <3>3. \A k \in 1 .. i : O(k) <= O(i) /\ (k < i => O(k) < O(i))
        BY <1>2, <2>1, <2>3, <2>5, <2>6, <2>7
      <3>4. i \in 1 .. i
        BY <2>1
      <3>5. Best(f[i], token, list, i)
        BY <3>2, <3>3, <3>4 DEF Best, O
      <3> QED  BY <2>1, <3>5
    <2>8. CASE ~(O(i) > b.overlap)
      <3>1. ~(O(i) = 0 /\ 2 * list[i].start <= token.start + token.end /\ token.start + token.end <= 2 * list[i].end)
        <4>1. /\ list[i].start \in Nat /\ list[i].end \in Nat /\ list[i].start < list[i].end
              /\ O(i) > 0 <=> /\ token.start < token.end /\ list[i].start < list[i].end
                              /\ token.start < list[i].end /\ list[i].start < token.end
          BY <1>2, OverlapIs
        <4> HIDE DEF O
        <4>2. PICK ts \in Nat, te \in Nat, us \in Nat, ue \in Nat :
                ts = token.start /\ te = token.end /\ us = list[i].start /\ ue = list[i].end
          BY <4>1
        <4>3. ts < te
          BY <4>2
        <4>4. us < ue
          BY <4>1, <4>2
        <4>5. 2 * us <= ts + te /\ ts + te <= 2 * ue => ts < ue /\ us < te
          BY <4>3, <4>4
        <4> QED  BY <1>2, <4>1, <4>2, <4>3, <4>4, <4>5
      <3>2. f[i] = b
        BY <2>4, <2>8, <3>1 DEF BestWith
      <3> HIDE DEF O
      <3>3. \A k \in 1 .. i : O(k) <= b.overlap
        <4>1. O(i) \in Nat /\ b.overlap \in Nat
          BY <1>2, <2>1, <2>3
        <4>2. O(i) <= b.overlap
          BY <2>8, <4>1
        <4> QED  BY <2>5, <2>6, <4>2
      <3>4. ASSUME b.overlap > 0
            PROVE  \E m \in 1 .. i : /\ O(m) = b.overlap /\ list[m].speaker = b.speaker
                                     /\ \A k \in 1 .. i : k < m => O(k) < b.overlap
        <4>1. PICK m \in 1 .. n : /\ O(m) = b.overlap /\ list[m].speaker = b.speaker
                                  /\ \A k \in 1 .. n : k < m => O(k) < b.overlap
          BY <2>3, <3>4 DEF Best, O
        <4>2. m \in 1 .. i /\ ~(i < m)
          BY <2>1
        <4> QED  BY <2>6, <4>1, <4>2
      <3>5. Best(f[i], token, list, i)
        BY <3>2, <3>3, <3>4 DEF Best, O
      <3> QED  BY <2>1, <3>5
    <2> QED  BY <2>7, <2>8
  <1> HIDE DEF T
  <1>6. N \in T
    BY <1>2, <1>4, <1>5, Induct
  <1>7. PICK b : b = f[N] /\ Best(b, token, list, N) /\ b.overlap \in Nat
    BY <1>2, <1>3, <1>6 DEF T
  <1>8. SpeakerForToken(token, list, fallback) = b.speaker
    BY <1>1, <1>7 DEF BestSteps
  <1>9. b.overlap > 0
    <2>1. PICK k \in 1 .. N : O(k) > 0
      OBVIOUS
    <2>2. O(k) <= b.overlap
      BY <1>7 DEF Best
    <2> HIDE DEF O
    <2> QED  BY <1>2, <1>7, <2>1, <2>2
  <1>10. PICK m \in 1 .. N : /\ O(m) = b.overlap /\ list[m].speaker = b.speaker
                             /\ \A k \in 1 .. N : O(k) <= b.overlap /\ (k < m => O(k) < b.overlap)
    BY <1>7, <1>9 DEF Best
  <1> DEFINE shared == [k \in DOMAIN list |-> O(k)]
             longest == {k \in DOMAIN list : \A j \in DOMAIN list : shared[j] <= shared[k]}
  <1>11. \A k \in 1 .. N : shared[k] = O(k)
    BY <1>2
  <1>12. \A k \in longest : k \in 1 .. N /\ O(m) <= O(k)
    BY <1>2, <1>11
  <1>13. m \in longest
    BY <1>2, <1>10, <1>11
  <1>14. \A j \in longest : m <= j
    <2> HIDE DEF O, longest
    <2> QED  BY <1>2, <1>7, <1>10, <1>12
  <1>15. (CHOOSE k \in longest : \A j \in longest : k <= j) = m
    <2>1. \A k \in longest : (\A j \in longest : k <= j) => k = m
      <3> HIDE DEF O, longest
      <3> QED  BY <1>2, <1>12, <1>13, <1>14
    <2> HIDE DEF longest
    <2> QED  BY <1>13, <1>14, <2>1
  <1>16. \E k \in DOMAIN list : shared[k] > 0
    BY <1>2, <1>9, <1>10, <1>11
  <1>17. SpokenIn(token, list, b.speaker)
    <2>1. b.speaker = list[CHOOSE k \in longest : \A j \in longest : k <= j].speaker
      BY <1>10, <1>15
    <2> QED  BY <1>16, <2>1 DEF SpokenIn
  <1> QED  BY <1>2, <1>8, <1>10, <1>17

\* A token without extent that lies in some turn.
LEMMA SpokenAt ==
  ASSUME NEW token, token.start \in Nat, token.end = token.start,
         NEW list \in Seq(TurnRecords), Ordered(list), NEW fallback,
         \E k \in 1 .. Len(list) : list[k].start <= token.start /\ token.start <= list[k].end
  PROVE  LET speaker == SpeakerForToken(token, list, fallback) IN
         speaker \in Speakers /\ SpokenIn(token, list, speaker)
  <1> DEFINE N == Len(list)
             O(k) == Overlap(token, list[k])
             Lies(k) == list[k].start <= token.start /\ token.start <= list[k].end
             Found(b, i) == /\ b.overlap = 0
                            /\ (\E k \in 1 .. i : Lies(k)) => \E k \in 1 .. i : Lies(k) /\ b.speaker = list[k].speaker
  <1>1. PICK f : BestSteps(f, token, list, fallback)
    BY BestLoop
  <1>2. N \in Nat /\ DOMAIN list = 1 .. N
    BY LenProperties
  <1>3. \A k \in 1 .. N : list[k].start \in Nat /\ list[k].end \in Nat /\ list[k].speaker \in Speakers
    BY OrderedTurns
  <1>4. ASSUME NEW k \in 1 .. N  PROVE O(k) = 0
    <2>1. /\ O(k) \in Nat
          /\ O(k) > 0 <=> /\ token.start < token.end /\ list[k].start < list[k].end
                          /\ token.start < list[k].end /\ list[k].start < token.end
      BY <1>3, OverlapIs
    <2>2. ~(token.start < token.end)
      OBVIOUS
    <2>3. ~(O(k) > 0)
      BY <2>1, <2>2
    <2> HIDE DEF O
    <2> QED  BY <2>1, <2>3
  <1> DEFINE T == {i \in Nat : i <= N => Found(f[i], i)}
  <1>5. 0 \in T
    BY <1>1 DEF BestSteps
  <1>6. ASSUME NEW n \in Nat, n \in T  PROVE n + 1 \in T
    <2> SUFFICES ASSUME n + 1 <= N  PROVE Found(f[n + 1], n + 1)
      OBVIOUS
    <2>1. PICK i \in 1 .. N : i = n + 1 /\ i - 1 = n /\ n \in 0 .. N /\ i \in Nat /\ i \in 1 .. i
      BY <1>2
    <2>2. PICK x, y : f[n] = [overlap |-> x, speaker |-> y]
      BY <1>1, <2>1 DEF BestSteps, BestRecords
    <2>3. x = 0 /\ ((\E k \in 1 .. n : Lies(k)) => \E k \in 1 .. n : Lies(k) /\ y = list[k].speaker)
      BY <1>2, <1>6, <2>1, <2>2
    <2>4. f[i] = BestWith([overlap |-> 0, speaker |-> y], token, list[i])
      BY <1>1, <2>1, <2>2, <2>3 DEF BestSteps
    <2>5. \A k \in 1 .. i : k \in 1 .. n \/ k = i
      BY <2>1
    <2>6. \A k \in 1 .. n : k \in 1 .. i
      BY <2>1
    <2>7. Lies(i) <=> (2 * list[i].start <= token.start + token.end /\ token.start + token.end <= 2 * list[i].end)
      <3>1. PICK t \in Nat, us \in Nat, ue \in Nat :
              t = token.start /\ t = token.end /\ us = list[i].start /\ ue = list[i].end
        BY <1>3
      <3>2. us <= t <=> 2 * us <= t + t
        OBVIOUS
      <3>3. t <= ue <=> t + t <= 2 * ue
        OBVIOUS
      <3> QED  BY <3>1, <3>2, <3>3
    <2>8. f[i] = [overlap |-> 0, speaker |-> IF Lies(i) THEN list[i].speaker ELSE y]
      <3>1. [[overlap |-> 0, speaker |-> y] EXCEPT !.speaker = list[i].speaker] = [overlap |-> 0, speaker |-> list[i].speaker]
        OBVIOUS
      <3>2. O(i) = 0 /\ ~(O(i) > 0)
        BY <1>4
      <3> HIDE DEF Lies
      <3> QED  BY <2>4, <2>7, <3>1, <3>2 DEF BestWith
    <2> HIDE DEF Lies
    <2>9. Found(f[i], i)
      BY <2>1, <2>3, <2>5, <2>6, <2>8
    <2> QED  BY <2>1, <2>9
  <1> HIDE DEF T
  <1>7. N \in T
    BY <1>2, <1>5, <1>6, Induct
  <1>8. Found(f[N], N)
    BY <1>2, <1>7 DEF T
  <1>9. PICK k \in 1 .. N : Lies(k) /\ f[N].speaker = list[k].speaker
    BY <1>8
  <1>10. SpeakerForToken(token, list, fallback) = f[N].speaker
    BY <1>1 DEF BestSteps
  <1>11. ~ \E j \in DOMAIN list : [l \in DOMAIN list |-> O(l)][j] > 0
    BY <1>2, <1>4
  <1>12. SpokenIn(token, list, f[N].speaker)
    BY <1>2, <1>9, <1>11 DEF SpokenIn
  <1> QED  BY <1>3, <1>9, <1>10, <1>12

\* A token within a region of speech: all of the region is given to somebody.
LEMMA TokenSpoken ==
  ASSUME TurnsInv, ~MoreChunks, NEW r \in DOMAIN regions, regions[r].start < regions[r].end,
         NEW token, token.start \in Nat, token.end \in Nat, 2 * regions[r].start <= token.start,
         token.start <= token.end, token.end <= 2 * regions[r].end, NEW fallback
  PROVE  LET smooth == SmoothTurns(turns)
             speaker == SpeakerForToken(token, smooth, fallback) IN
         /\ speaker \in Speakers
         /\ SpokenIn(token, smooth, speaker)
         /\ turns # <<>>
  <1> DEFINE smooth == SmoothTurns(turns)
  <1>1. PICK s \in Nat, e \in Nat, t \in Nat, u \in Nat :
          s = regions[r].start /\ e = regions[r].end /\ t = token.start /\ u = token.end
    BY RegionsType DEF TurnsInv
  <1>2. s < e /\ 2 * s <= t /\ t <= u /\ u <= 2 * e
    BY <1>1
  <1>3. PICK x \in Nat : 2 * s <= x /\ x < 2 * e /\ (x = t \/ (t = 2 * e /\ x + 1 = t))
    <2>1. CASE t < 2 * e
      BY <1>2, <2>1
    <2>2. CASE t = 2 * e
      <3>1. t - 1 \in Nat /\ 2 * s <= t - 1 /\ t - 1 < 2 * e /\ t - 1 + 1 = t
        BY <1>2, <2>2
      <3> QED  BY <2>2, <3>1
    <2> QED  BY <1>2, <2>1, <2>2
  <1>4. turns \in Seq(TurnRecords) /\ Ordered(turns)
    BY DEF TurnsInv, TurnsTypeOK, MergeInv
  <1>5. smooth \in Seq(TurnRecords) /\ Ordered(smooth) /\ (Covers(smooth, x) <=> Covers(turns, x))
    BY <1>4, SmoothInOrder
  <1>6. Covers(labeled, x)
    <2>1. Chunked(x)
      BY <1>1, <1>3, AllChunked DEF TurnsInv
    <2> QED  BY <2>1 DEF TurnsInv, CoverInv
  <1>7. Covers(turns, x)
    <2>1. Hears(labeled, x) # {}
      BY <1>6 DEF Covers, Hears
    <2>2. Given(labeled, turns, x)
      BY <2>1 DEF TurnsInv, NearestInv, AllGiven
    <2> QED  BY <2>2 DEF Given, Speaks, Covers
  <1>8. turns # <<>>
    <2>1. Covers(turns, x) => DOMAIN turns # {}
      BY DEF Covers
    <2> QED  BY <1>4, <1>7, <2>1, EmptySeq
  <1> HIDE DEF smooth
  <1>9. PICK k \in 1 .. Len(smooth) : smooth[k].start <= x /\ x < smooth[k].end
    BY <1>5, <1>7, LenProperties DEF Covers, During
  <1>10. smooth[k].start \in Nat /\ smooth[k].end \in Nat
    BY <1>5, OrderedTurns
  <1>11. CASE t < u
    <2>1. x = t
      BY <1>2, <1>3, <1>11
    <2>2. Overlap(token, smooth[k]) > 0
      <3>1. token.start < token.end /\ smooth[k].start < token.end /\ token.start < smooth[k].end
        BY <1>1, <1>9, <1>10, <1>11, <2>1
      <3>2. smooth[k].start < smooth[k].end
        BY <1>9, <1>10
      <3> QED  BY <1>10, <3>1, <3>2, OverlapIs
    <2>3. token.start < token.end
      BY <1>1, <1>11
    <2> QED  BY <1>5, <1>8, <2>2, <2>3, SpokenTimed DEF smooth
  <1>12. CASE t = u
    <2>1. smooth[k].start <= token.start /\ token.start <= smooth[k].end
      BY <1>1, <1>3, <1>9, <1>10
    <2>2. token.end = token.start
      BY <1>1, <1>12
    <2> QED  BY <1>5, <1>8, <2>1, <2>2, SpokenAt DEF smooth
  <1> QED  BY <1>2, <1>11, <1>12

-----------------------------------------------------------------------------
(* Appending to the transcript *)

LEMMA StripTypes ==
  ASSUME NEW C, NEW s \in Seq(C)
  PROVE  StripLeft(s) \in Seq(C) /\ Strip(s) \in Seq(C)
  <1>1. ASSUME NEW string \in Seq(C)  PROVE StripLeft(string) \in Seq(C)
    <2> DEFINE inked == {i \in DOMAIN string : ~IsSpace(string[i])}
               first == CHOOSE i \in inked : \A j \in inked : i <= j
    <2>1. CASE inked = {}
      BY <2>1 DEF StripLeft
    <2>2. CASE inked # {}
      <3>1. inked \subseteq 1 .. Len(string) /\ inked \subseteq Nat
        BY LenProperties
      <3>2. StripLeft(string) = SubSeq(string, first, Len(string))
        BY <2>2 DEF StripLeft
      <3> HIDE DEF inked
      <3>3. \E i \in inked : \A j \in inked : i <= j
        BY <2>2, <3>1, Least
      <3>4. first \in 1 .. Len(string)
        BY <3>1, <3>3
      <3> HIDE DEF first
      <3>5. SubSeq(string, first, Len(string)) \in Seq(C)
        BY <3>4
      <3> QED  BY <3>2, <3>5
    <2> QED  BY <2>1, <2>2
  <1>2. ASSUME NEW string \in Seq(C)  PROVE Reverse(string) \in Seq(C)
    BY DEF Reverse
  <1> QED  BY <1>1, <1>2 DEF Strip

\* There is a longest overlap, the empty one if no other.
LEMMA LongestOverlap ==
  ASSUME NEW C, NEW output \in Seq(C), NEW next \in Seq(C)
  PROVE  LET overlaps == Overlaps(output, next)
             overlap == CHOOSE n \in overlaps : \A k \in overlaps : k <= n IN
         overlap \in overlaps /\ overlap \in 0 .. Len(next)
  <1> DEFINE overlaps == Overlaps(output, next)
             overlap == CHOOSE n \in overlaps : \A k \in overlaps : k <= n
             m == Lesser(Lesser(Len(output), Len(next)), MaxOverlap)
             short == {k \in Nat : m - k \in overlaps}
  <1>1. Len(output) \in Nat /\ Len(next) \in Nat
    BY LenProperties
  <1>2. m \in 0 .. Len(next)
    BY <1>1, TextAssumption DEF Lesser
  <1> HIDE DEF m
  <1>3. overlaps \subseteq 0 .. m
    BY DEF Overlaps, m
  <1>4. 0 \in overlaps
    <2>1. SubSeq(output, Len(output) - 0 + 1, Len(output)) = SubSeq(next, 1, 0)
      BY <1>1
    <2>2. 0 \in 0 .. m
      BY <1>2
    <2> QED  BY <2>1, <2>2 DEF Overlaps, m
  <1> HIDE DEF overlaps
  <1>5. m \in short
    BY <1>2, <1>4
  <1>6. PICK k \in short : \A j \in short : k <= j
    BY <1>5, Least
  <1>7. PICK n \in overlaps : n = m - k
    BY <1>6
  <1>8. ASSUME NEW l \in overlaps  PROVE l <= n
    <2>1. l \in 0 .. m
      BY <1>3
    <2>2. m - l \in Nat /\ m - (m - l) = l
      BY <1>2, <2>1
    <2>3. m - l \in short
      BY <2>2
    <2>4. k \in Nat /\ k <= m - l
      BY <1>6, <2>3
    <2> QED  BY <1>1, <1>2, <1>7, <2>1, <2>4
  <1>9. overlap \in overlaps
    <2>1. \E l \in overlaps : \A j \in overlaps : j <= l
      BY <1>7, <1>8
    <2> QED  BY <2>1
  <1> HIDE DEF overlap
  <1>10. overlap \in 0 .. Len(next)
    BY <1>1, <1>2, <1>3, <1>9
  <1> QED  BY <1>9, <1>10 DEF overlaps, overlap

LEMMA AppendTypes ==
  ASSUME NEW C, Break \in C, NEW output \in Seq(C), NEW next \in Seq(C)
  PROVE  AppendWithoutOverlap(output, next) \in Seq(C)
  <1> DEFINE stripped == Strip(next)
             overlaps == Overlaps(output, stripped)
             overlap == CHOOSE n \in overlaps : \A k \in overlaps : k <= n
             cut == SubSeq(stripped, overlap + 1, Len(stripped))
             remainder == StripLeft(cut)
             between == IF overlap > 0 THEN <<>> ELSE <<Break>>
  <1>1. stripped \in Seq(C)
    BY StripTypes
  <1> HIDE DEF stripped
  <1>2. overlap \in 0 .. Len(stripped)
    BY <1>1, LongestOverlap
  <1> HIDE DEF overlap, overlaps
  <1>3. cut \in Seq(C)
    BY <1>1, <1>2
  <1> HIDE DEF cut
  <1>4. remainder \in Seq(C)
    BY <1>3, StripTypes
  <1> HIDE DEF remainder
  <1>5. between \in Seq(C)
    <2>1. <<>> \in Seq(C) /\ <<Break>> \in Seq(C)
      OBVIOUS
    <2> QED  BY <2>1
  <1> HIDE DEF between
  <1>6. output \o between \o remainder \in Seq(C)
    BY <1>4, <1>5
  <1>7. AppendWithoutOverlap(output, next) =
          IF remainder = <<>> THEN output
          ELSE IF output = <<>> THEN stripped
          ELSE output \o between \o remainder
    BY DEF AppendWithoutOverlap, remainder, between, cut, overlap, overlaps, stripped
  <1> QED  BY <1>1, <1>6, <1>7

-----------------------------------------------------------------------------
(* What Compact does to joined and stripped texts *)

LEMMA Halved ==
  ASSUME NEW S, NEW s \in Seq(S), NEW i \in 0 .. Len(s)
  PROVE  /\ SubSeq(s, 1, i) \in Seq(S) /\ SubSeq(s, i + 1, Len(s)) \in Seq(S)
         /\ s = SubSeq(s, 1, i) \o SubSeq(s, i + 1, Len(s))
         /\ Len(SubSeq(s, 1, i)) = i /\ \A j \in 1 .. i : SubSeq(s, 1, i)[j] = s[j]
  <1>1. SubSeq(s, 1, i) \in Seq(S) /\ Len(SubSeq(s, 1, i)) = i /\ \A j \in 1 .. i : SubSeq(s, 1, i)[j] = s[j]
    BY FirstOnes
  <1>2. SubSeq(s, i + 1, Len(s)) \in Seq(S)
    OBVIOUS
  <1>3. SubSeq(s, 1, i) \o SubSeq(s, i + 1, Len(s)) = s
    <2>1. PICK m \in 1 .. Len(s) + 1, n \in i .. Len(s) : m = 1 /\ n = Len(s) /\ i \in m - 1 .. Len(s)
      BY LenProperties
    <2>2. SubSeq(s, m, i) \o SubSeq(s, i + 1, n) = SubSeq(s, m, n)
      BY <2>1, ConcatAdjacentSubSeq
    <2> QED  BY <2>1, <2>2, FirstOnes
  <1> QED  BY <1>1, <1>2, <1>3

Texts(S, s, t, u) == s \in Seq(S) /\ t \in Seq(S) /\ u \in Seq(S)

LEMMA Regrouped ==
  ASSUME NEW S, NEW s, NEW t, NEW u, Texts(S, s, t, u)
  PROVE  (s \o t) \o u = s \o (t \o u) /\ s \o t \in Seq(S) /\ t \o u \in Seq(S) /\ s \o (t \o u) \in Seq(S)
  <1>1. s \in Seq(S) /\ t \in Seq(S) /\ u \in Seq(S)
    BY DEF Texts
  <1>2. s \o t \in Seq(S) /\ t \o u \in Seq(S)
    BY <1>1, ConcatProperties
  <1>3. s \o (t \o u) \in Seq(S)
    BY <1>1, <1>2, ConcatProperties
  <1>4. (s \o t) \o u = s \o (t \o u)
    BY <1>1, ConcatAssociative
  <1> QED  BY <1>2, <1>3, <1>4

LEMMA CompactConcat ==
  ASSUME NEW S, NEW s \in Seq(S), NEW t \in Seq(S)
  PROVE  /\ s \o t \in Seq(S)
         /\ Compact(s) \in Seq(S) /\ Compact(t) \in Seq(S)
         /\ Compact(s \o t) = Compact(s) \o Compact(t)
  <1> DEFINE N == Len(t)
             p(i) == SubSeq(t, 1, i)
             T == {i \in Nat : i <= N => Compact(s \o p(i)) = Compact(s) \o Compact(p(i))}
  <1>1. N \in Nat /\ s \o t \in Seq(S)
    BY LenProperties
  <1>2. Compact(s) \in Seq(S) /\ Compact(t) \in Seq(S)
    BY CompactNext
  <1>3. 0 \in T
    <2>1. PICK none \in Seq(S) : none = <<>>
      BY EmptySeq
    <2>2. p(0) = none
      BY <1>1, <2>1
    <2>3. s \o none = s /\ Compact(s) \o none = Compact(s)
      BY <1>2, <2>1, ConcatEmptySeq
    <2>4. Compact(none) = none
      BY <2>1, CompactEmpty
    <2>5. Compact(s \o p(0)) = Compact(s) \o Compact(p(0))
      BY <2>2, <2>3, <2>4
    <2> QED  BY <2>5
  <1>4. ASSUME NEW n \in Nat, n \in T  PROVE n + 1 \in T
    <2> SUFFICES ASSUME n + 1 <= N
                 PROVE  Compact(s \o p(n + 1)) = Compact(s) \o Compact(p(n + 1))
      OBVIOUS
    <2>1. PICK i \in 1 .. N : i = n + 1 /\ i - 1 = n
      BY <1>1
    <2>2. PICK q \in Seq(S) : q = p(n) /\ p(i) = Append(q, t[i]) /\ t[i] \in S
      <3>1. p(n) \in Seq(S) /\ p(i) = Append(p(n), t[i]) /\ t[i] \in S
        BY <2>1
      <3> QED  BY <3>1
    <2>3. PICK r \in Seq(S) : r = s \o q
      BY ConcatProperties
    <2>4. s \o Append(q, t[i]) = Append(r, t[i])
      BY <2>2, <2>3
    <2>5. Compact(r) = Compact(s) \o Compact(q)
      BY <1>1, <1>4, <2>1, <2>2, <2>3
    <2> HIDE DEF p
    <2>6. /\ Compact(Append(r, t[i])) = IF IsSpace(t[i]) THEN Compact(r) ELSE Append(Compact(r), t[i])
          /\ Compact(Append(q, t[i])) = IF IsSpace(t[i]) THEN Compact(q) ELSE Append(Compact(q), t[i])
      BY <2>2, CompactAppend
    <2>7. PICK a \in Seq(S), b \in Seq(S) : a = Compact(s) /\ b = Compact(q)
      BY <1>2, CompactNext
    <2>8. Append(a \o b, t[i]) = a \o Append(b, t[i])
      <3>1. <<t[i]>> \in Seq(S)
        BY <2>2
      <3>2. PICK one \in Seq(S) : one = <<t[i]>>
        BY <3>1
      <3>3. Texts(S, a, b, one)
        BY DEF Texts
      <3>4. (a \o b) \o one = a \o (b \o one) /\ a \o b \in Seq(S)
        BY <3>3, Regrouped
      <3>5. Append(a \o b, t[i]) = (a \o b) \o one /\ Append(b, t[i]) = b \o one
        BY <2>2, <3>2, <3>4, AppendIsConcat
      <3> QED  BY <3>4, <3>5
    <2>9. Compact(s \o p(i)) = Compact(s) \o Compact(p(i))
      BY <2>2, <2>4, <2>5, <2>6, <2>7, <2>8
    <2> QED  BY <2>1, <2>9
  <1> HIDE DEF T, p
  <1>5. N \in T
    BY <1>1, <1>3, <1>4, Induct
  <1>6. Compact(s \o p(N)) = Compact(s) \o Compact(p(N))
    BY <1>1, <1>5 DEF T
  <1>7. p(N) = t
    BY FirstOnes DEF p
  <1> QED  BY <1>1, <1>2, <1>6, <1>7

\* The letters of two texts with a third between them that has none.
SpacedLetters(S, s, t, u) ==
  LET joined == (s \o t) \o u IN
  /\ joined = s \o (t \o u) /\ t \o u \in Seq(S) /\ joined \in Seq(S)
  /\ Compact(joined) = Compact(s) \o Compact(u)

LEMMA LettersJoined ==
  ASSUME NEW S, NEW s, NEW t, NEW u, Texts(S, s, t, u), Compact(t) = <<>>
  PROVE  SpacedLetters(S, s, t, u)
  <1>1. s \in Seq(S) /\ t \in Seq(S) /\ u \in Seq(S)
    BY DEF Texts
  <1>2. /\ (s \o t) \o u = s \o (t \o u) /\ s \o t \in Seq(S)
        /\ t \o u \in Seq(S) /\ s \o (t \o u) \in Seq(S)
    BY Regrouped
  <1>3. Compact(s \o t) = Compact(s) \o Compact(t) /\ Compact(s) \in Seq(S)
    BY <1>1, CompactConcat
  <1>4. Compact(s \o t) = Compact(s)
    BY <1>3, ConcatEmptySeq
  <1>5. Compact((s \o t) \o u) = Compact(s \o t) \o Compact(u)
    <2>1. PICK st \in Seq(S) : st = s \o t
      BY <1>2
    <2>2. Compact(st \o u) = Compact(st) \o Compact(u)
      BY <1>1, CompactConcat
    <2> QED  BY <2>1, <2>2
  <1> QED  BY <1>2, <1>4, <1>5 DEF SpacedLetters

\* Two texts that share a middle.
SharedLetters(S, s, t, u) ==
  /\ Compact(s) \in Seq(S)
  /\ Compact(s \o t) \o Compact(u) = Compact(s) \o Compact(t \o u)

LEMMA LettersShared ==
  ASSUME NEW S, NEW s, NEW t, NEW u, Texts(S, s, t, u)
  PROVE  SharedLetters(S, s, t, u)
  <1>1. s \in Seq(S) /\ t \in Seq(S) /\ u \in Seq(S)
    BY DEF Texts
  <1>2. /\ Compact(s \o t) = Compact(s) \o Compact(t) /\ Compact(t \o u) = Compact(t) \o Compact(u)
        /\ Compact(s) \in Seq(S) /\ Compact(t) \in Seq(S) /\ Compact(u) \in Seq(S)
    BY <1>1, CompactConcat
  <1>3. (Compact(s) \o Compact(t)) \o Compact(u) = Compact(s) \o (Compact(t) \o Compact(u))
    <2>1. Texts(S, Compact(s), Compact(t), Compact(u))
      BY <1>2 DEF Texts
    <2> QED  BY <2>1, Regrouped
  <1> QED  BY <1>2, <1>3 DEF SharedLetters

LEMMA CompactSpaces ==
  ASSUME NEW S, NEW s \in Seq(S), \A i \in 1 .. Len(s) : IsSpace(s[i])
  PROVE  Compact(s) = <<>>
  <1> DEFINE T == {i \in Nat : i <= Len(s) => Compact(SubSeq(s, 1, i)) = <<>>}
  <1>1. 0 \in T
    BY CompactNext
  <1>2. ASSUME NEW n \in Nat, n \in T  PROVE n + 1 \in T
    <2> SUFFICES ASSUME n + 1 <= Len(s)  PROVE Compact(SubSeq(s, 1, n + 1)) = <<>>
      OBVIOUS
    <2>1. PICK i \in 1 .. Len(s) : i = n + 1 /\ i - 1 = n
      BY LenProperties
    <2>2. Compact(SubSeq(s, 1, i - 1)) = <<>>
      BY <1>2, <2>1, LenProperties
    <2>3. Compact(SubSeq(s, 1, i)) = Compact(SubSeq(s, 1, i - 1))
      BY CompactNext
    <2> QED  BY <2>1, <2>2, <2>3
  <1> HIDE DEF T
  <1>3. Len(s) \in T
    BY <1>1, <1>2, Induct, LenProperties
  <1>4. Compact(SubSeq(s, 1, Len(s))) = <<>>
    BY <1>3, LenProperties DEF T
  <1> QED  BY <1>4, FirstOnes

\* Stripping a text leaves its letters.
LEMMA CompactStripLeft ==
  ASSUME NEW S, NEW s \in Seq(S)
  PROVE  StripLeft(s) \in Seq(S) /\ Compact(StripLeft(s)) = Compact(s)
  <1> DEFINE inked == {i \in DOMAIN s : ~IsSpace(s[i])}
             first == CHOOSE i \in inked : \A j \in inked : i <= j
  <1>1. StripLeft(s) \in Seq(S)
    BY StripTypes
  <1>2. Len(s) \in Nat /\ DOMAIN s = 1 .. Len(s)
    BY LenProperties
  <1>3. CASE inked = {}
    <2>1. \A i \in 1 .. Len(s) : IsSpace(s[i])
      BY <1>2, <1>3
    <2>2. Compact(s) = <<>>
      BY <2>1, CompactSpaces
    <2>3. StripLeft(s) = <<>>
      BY <1>3 DEF StripLeft
    <2> QED  BY <1>1, <2>2, <2>3, CompactEmpty
  <1>4. CASE inked # {}
    <2>1. inked \subseteq Nat /\ inked \subseteq 1 .. Len(s) /\ \A i \in 1 .. Len(s) : i \notin inked => IsSpace(s[i])
      BY <1>2
    <2>2. StripLeft(s) = SubSeq(s, first, Len(s))
      BY <1>4 DEF StripLeft
    <2> HIDE DEF inked
    <2>3. \E i \in inked : \A j \in inked : i <= j
      BY <1>4, <2>1, Least
    <2>4. first \in inked /\ \A j \in inked : first <= j
      BY <2>3
    <2> HIDE DEF first
    <2>5. PICK i \in 0 .. Len(s) : i + 1 = first
      <3>1. first \in 1 .. Len(s)
        BY <2>1, <2>4
      <3>2. first - 1 \in 0 .. Len(s) /\ first - 1 + 1 = first
        BY <1>2, <3>1
      <3> QED  BY <3>2
    <2>6. PICK a \in Seq(S), b \in Seq(S) :
            /\ a = SubSeq(s, 1, i) /\ b = SubSeq(s, first, Len(s)) /\ s = a \o b
            /\ Len(a) = i /\ \A j \in 1 .. i : a[j] = s[j]
      BY <2>5, Halved
    <2>7. \A j \in 1 .. Len(a) : IsSpace(a[j])
      <3> SUFFICES ASSUME NEW j \in 1 .. i  PROVE IsSpace(s[j])
        BY <2>6
      <3>1. j \in 1 .. Len(s) /\ ~(first <= j)
        BY <1>2, <2>5
      <3> QED  BY <2>1, <2>4, <3>1
    <2>8. Compact(a) = <<>>
      BY <2>7, CompactSpaces
    <2>9. Compact(s) = Compact(a) \o Compact(b) /\ Compact(b) \in Seq(S)
      <3>1. Compact(a \o b) = Compact(a) \o Compact(b) /\ Compact(b) \in Seq(S)
        BY CompactConcat
      <3> QED  BY <2>6, <3>1
    <2>10. Compact(s) = Compact(b)
      BY <2>8, <2>9, ConcatEmptySeq
    <2> QED  BY <1>1, <2>2, <2>6, <2>10
  <1> QED  BY <1>3, <1>4

LEMMA Reversed ==
  ASSUME NEW S, NEW s \in Seq(S)
  PROVE  /\ Reverse(s) \in Seq(S) /\ Len(Reverse(s)) = Len(s) /\ Reverse(Reverse(s)) = s
         /\ \A c \in S : Reverse(Append(s, c)) = <<c>> \o Reverse(s)
  <1>1. /\ Reverse(s) \in Seq(S) /\ Len(Reverse(s)) = Len(s) /\ Len(s) \in Nat
        /\ \A i \in 1 .. Len(s) : Reverse(s)[i] = s[Len(s) - i + 1]
    BY DEF Reverse
  <1>2. PICK r \in Seq(S) : r = Reverse(s)
    BY <1>1
  <1>3. Reverse(r) = s
    <2>1. /\ Reverse(r) \in Seq(S) /\ Len(Reverse(r)) = Len(r)
          /\ \A i \in 1 .. Len(r) : Reverse(r)[i] = r[Len(r) - i + 1]
      BY DEF Reverse
    <2>2. ASSUME NEW i \in 1 .. Len(s)  PROVE Reverse(r)[i] = s[i]
      <3>1. PICK j \in 1 .. Len(s) : j = Len(s) - i + 1 /\ Len(s) - j + 1 = i
        BY <1>1
      <3>2. r[j] = s[i]
        BY <1>1, <1>2, <3>1
      <3> QED  BY <1>1, <1>2, <2>1, <3>1, <3>2
    <2> QED  BY <1>1, <1>2, <2>1, <2>2, SeqEqual
  <1>4. ASSUME NEW c \in S  PROVE Reverse(Append(s, c)) = <<c>> \o r
    <2>1. PICK t \in Seq(S) : t = Append(s, c) /\ Len(t) = Len(s) + 1
      <3>1. Append(s, c) \in Seq(S) /\ Len(Append(s, c)) = Len(s) + 1
        OBVIOUS
      <3> QED  BY <3>1
    <2>2. t[Len(s) + 1] = c /\ \A i \in 1 .. Len(s) : t[i] = s[i]
      BY <1>1, <2>1
    <2>3. /\ Reverse(t) \in Seq(S) /\ Len(Reverse(t)) = Len(s) + 1
          /\ \A i \in 1 .. Len(s) + 1 : Reverse(t)[i] = t[Len(s) + 1 - i + 1]
      BY <1>1, <2>1 DEF Reverse
    <2>4. /\ <<c>> \o r \in Seq(S) /\ Len(<<c>> \o r) = Len(s) + 1
          /\ \A i \in 1 .. Len(s) + 1 : (<<c>> \o r)[i] = IF i = 1 THEN c ELSE r[i - 1]
      <3>1. <<c>> \in Seq(S) /\ Len(<<c>>) = 1 /\ <<c>>[1] = c
        OBVIOUS
      <3>2. PICK one \in Seq(S) : one = <<c>> /\ Len(one) = 1 /\ one[1] = c
        BY <3>1
      <3>3. /\ one \o r \in Seq(S) /\ Len(one \o r) = 1 + Len(r)
            /\ \A i \in 1 .. 1 + Len(r) : (one \o r)[i] = IF i <= 1 THEN one[i] ELSE r[i - 1]
        BY <3>2, ConcatProperties
      <3> QED  BY <1>1, <1>2, <3>2, <3>3
    <2>5. ASSUME NEW i \in 1 .. Len(s) + 1  PROVE Reverse(t)[i] = (<<c>> \o r)[i]
      <3>1. CASE i = 1
        BY <1>1, <2>2, <2>3, <2>4, <3>1
      <3>2. CASE i # 1
        <4>1. PICK j \in 1 .. Len(s) : j = i - 1 /\ Len(s) + 1 - i + 1 = Len(s) - j + 1
          BY <1>1, <3>2
        <4>2. PICK k \in 1 .. Len(s) : k = Len(s) - j + 1
          BY <1>1
        <4>3. r[j] = s[k] /\ Reverse(t)[i] = t[k] /\ t[k] = s[k]
          BY <1>1, <1>2, <2>2, <2>3, <4>1, <4>2
        <4> QED  BY <2>4, <3>2, <4>1, <4>3
      <3> QED  BY <3>1, <3>2
    <2>6. Reverse(t) = <<c>> \o r
      <3>1. PICK x \in Seq(S), y \in Seq(S) : x = Reverse(t) /\ y = <<c>> \o r
        BY <2>3, <2>4
      <3>2. Len(x) = Len(y) /\ \A i \in 1 .. Len(x) : x[i] = y[i]
        BY <2>3, <2>4, <2>5, <3>1
      <3>3. x = y
        BY <3>2, SeqEqual
      <3> QED  BY <3>1, <3>3
    <2> QED  BY <2>1, <2>6
  <1> QED  BY <1>1, <1>2, <1>3, <1>4

LEMMA CompactReverse ==
  ASSUME NEW S, NEW s \in Seq(S)
  PROVE  Compact(Reverse(s)) = Reverse(Compact(s))
  <1> DEFINE p(i) == SubSeq(s, 1, i)
             T == {i \in Nat : i <= Len(s) => Compact(Reverse(p(i))) = Reverse(Compact(p(i)))}
  <1>1. 0 \in T
    <2>1. PICK none \in Seq(S) : none = <<>>
      BY EmptySeq
    <2>2. p(0) = none
      BY <2>1
    <2>3. Reverse(none) = none
      <3>1. Reverse(none) \in Seq(S) /\ Len(Reverse(none)) = Len(none)
        BY Reversed
      <3>2. Len(Reverse(none)) = 0
        BY <2>1, <3>1, EmptySeq
      <3> QED  BY <2>1, <3>1, <3>2, EmptySeq
    <2>4. Compact(none) = none
      BY <2>1, CompactEmpty
    <2> QED  BY <2>2, <2>3, <2>4
  <1>2. ASSUME NEW n \in Nat, n \in T  PROVE n + 1 \in T
    <2> SUFFICES ASSUME n + 1 <= Len(s)
                 PROVE  Compact(Reverse(p(n + 1))) = Reverse(Compact(p(n + 1)))
      OBVIOUS
    <2>1. PICK i \in 1 .. Len(s) : i = n + 1 /\ n <= Len(s)
      BY LenProperties
    <2>2. PICK q \in Seq(S), c \in S : q = p(n) /\ c = s[i] /\ p(i) = Append(q, c)
      <3>1. p(n) \in Seq(S) /\ p(i) = Append(p(n), s[i]) /\ s[i] \in S
        BY <2>1
      <3> QED  BY <3>1
    <2>3. Compact(Reverse(q)) = Reverse(Compact(q))
      BY <1>2, <2>1, <2>2
    <2> HIDE DEF p
    <2>4. PICK k \in Seq(S), r \in Seq(S) : k = Compact(q) /\ r = Reverse(q)
      BY CompactNext, Reversed
    <2>5. PICK one \in Seq(S) : one = <<c>>
      <3>1. <<c>> \in Seq(S)
        OBVIOUS
      <3> QED  BY <3>1
    <2>6. Reverse(Append(q, c)) = one \o r /\ Reverse(Append(k, c)) = one \o Reverse(k)
      BY <2>4, <2>5, Reversed
    <2>7. Compact(one \o r) = Compact(one) \o Compact(r)
      BY CompactConcat
    <2>8. Compact(Append(q, c)) = IF IsSpace(c) THEN k ELSE Append(k, c)
      BY <2>4, CompactAppend
    <2>9. PICK rk \in Seq(S) : rk = Reverse(k) /\ Compact(r) = rk
      BY <2>3, <2>4, Reversed
    <2>10. PICK none \in Seq(S) : none = <<>>
      BY EmptySeq
    <2>11. Append(none, c) = one
      BY <2>5, <2>10
    <2>12. Compact(one) = IF IsSpace(c) THEN none ELSE one
      <3>1. Compact(Append(none, c)) = IF IsSpace(c) THEN Compact(none) ELSE Append(Compact(none), c)
        BY CompactAppend
      <3>2. Compact(none) = none
        BY <2>10, CompactEmpty
      <3> QED  BY <2>11, <3>1, <3>2
    <2>13. CASE IsSpace(c)
      <3>1. Compact(one) = none
        BY <2>12, <2>13
      <3>2. Compact(Append(q, c)) = k
        BY <2>8, <2>13
      <3>3. none \o rk = rk
        BY <2>10, ConcatEmptySeq
      <3>4. Compact(Reverse(Append(q, c))) = rk
        BY <2>6, <2>7, <2>9, <3>1, <3>3
      <3> QED  BY <2>1, <2>2, <2>9, <3>2, <3>4
    <2>14. CASE ~IsSpace(c)
      <3>1. Compact(one) = one
        BY <2>12, <2>14
      <3>2. Compact(Append(q, c)) = Append(k, c)
        BY <2>8, <2>14
      <3>3. Compact(Reverse(Append(q, c))) = one \o rk
        BY <2>6, <2>7, <2>9, <3>1
      <3>4. Reverse(Append(k, c)) = one \o rk
        BY <2>6, <2>9
      <3> QED  BY <2>1, <2>2, <3>2, <3>3, <3>4
    <2> QED  BY <2>13, <2>14
  <1> HIDE DEF T, p
  <1>3. Len(s) \in T
    BY <1>1, <1>2, Induct, LenProperties
  <1>4. Compact(Reverse(p(Len(s)))) = Reverse(Compact(p(Len(s))))
    BY <1>3, LenProperties DEF T
  <1>5. p(Len(s)) = s
    BY FirstOnes DEF p
  <1> QED  BY <1>4, <1>5

LEMMA CompactStrip ==
  ASSUME NEW S, NEW s \in Seq(S)
  PROVE  Strip(s) \in Seq(S) /\ Compact(Strip(s)) = Compact(s)
  <1>1. PICK a \in Seq(S) : a = StripLeft(s) /\ Compact(a) = Compact(s)
    BY CompactStripLeft
  <1>2. PICK b \in Seq(S) : b = Reverse(a) /\ Compact(b) = Reverse(Compact(a))
    BY Reversed, CompactReverse
  <1>3. PICK c \in Seq(S) : c = StripLeft(b) /\ Compact(c) = Compact(b)
    BY CompactStripLeft
  <1>4. PICK d \in Seq(S) : d = Reverse(c) /\ Compact(d) = Reverse(Compact(c))
    BY Reversed, CompactReverse
  <1>5. PICK k \in Seq(S) : k = Compact(a)
    BY CompactNext
  <1>6. Reverse(Reverse(k)) = k
    BY Reversed
  <1>7. Strip(s) = d
    BY <1>1, <1>2, <1>3, <1>4 DEF Strip
  <1> QED  BY <1>1, <1>2, <1>3, <1>4, <1>5, <1>6, <1>7

-----------------------------------------------------------------------------
(* What a piece leaves in the transcript *)

\* One text ends with the letters of another.
EndsWith(output, next, C) == \E before \in Seq(C) : Compact(output) = before \o Compact(next)

\* One text is the other and more.
Extends(output, before, C) == \E more \in Seq(C) : output = before \o more

\* Whatever is taken for a repetition, the text begins as before and ends with
\* the letters of what was appended.
LEMMA AppendedIsRead ==
  ASSUME NEW C, Break \in C, NEW output \in Seq(C), NEW next \in Seq(C)
  PROVE  LET new == AppendWithoutOverlap(output, next) IN
         new \in Seq(C) /\ Extends(new, output, C) /\ EndsWith(new, next, C)
  <1> DEFINE stripped == Strip(next)
             overlaps == Overlaps(output, stripped)
             overlap == CHOOSE n \in overlaps : \A k \in overlaps : k <= n
             remainder == StripLeft(SubSeq(stripped, overlap + 1, Len(stripped)))
             between == IF overlap > 0 THEN <<>> ELSE <<Break>>
             new == AppendWithoutOverlap(output, next)
  <1>1. PICK s \in Seq(C) : s = stripped /\ Compact(s) = Compact(next)
    BY CompactStrip
  <1>2. PICK n \in Nat : /\ n = overlap /\ n \in 0 .. Len(s) /\ n \in 0 .. Len(output)
                         /\ SubSeq(output, Len(output) - n + 1, Len(output)) = SubSeq(s, 1, n)
    <2>1. overlap \in Overlaps(output, s) /\ overlap \in 0 .. Len(s)
      BY <1>1, LongestOverlap
    <2>2. overlap \in Nat /\ overlap <= Len(output)
      <3>1. overlap \in 0 .. Lesser(Lesser(Len(output), Len(s)), MaxOverlap)
        BY <2>1 DEF Overlaps
      <3> HIDE DEF overlap
      <3>2. Len(output) \in Nat /\ Len(s) \in Nat /\ MaxOverlap \in Nat
        BY TextAssumption, LenProperties
      <3> QED  BY <3>1, <3>2 DEF Lesser
    <2>3. SubSeq(output, Len(output) - overlap + 1, Len(output)) = SubSeq(s, 1, overlap)
      BY <2>1 DEF Overlaps
    <2> HIDE DEF overlap
    <2> QED  BY <2>1, <2>2, <2>3, LenProperties
  <1>3. new = IF remainder = <<>> THEN output
              ELSE IF output = <<>> THEN stripped
              ELSE output \o between \o remainder
    BY DEF AppendWithoutOverlap
  <1>4. PICK common \in Seq(C), rest \in Seq(C) :
          common = SubSeq(s, 1, n) /\ rest = SubSeq(s, n + 1, Len(s)) /\ s = common \o rest
    <2>1. /\ SubSeq(s, 1, n) \in Seq(C) /\ SubSeq(s, n + 1, Len(s)) \in Seq(C)
          /\ s = SubSeq(s, 1, n) \o SubSeq(s, n + 1, Len(s))
      BY <1>2, Halved
    <2> QED  BY <2>1
  <1>5. PICK front \in Seq(C) : output = front \o common
    <2>1. PICK i \in 0 .. Len(output) : i = Len(output) - n
      <3>1. Len(output) - n \in 0 .. Len(output)
        BY <1>2, LenProperties
      <3> QED  BY <3>1
    <2>2. SubSeq(output, 1, i) \in Seq(C) /\ output = SubSeq(output, 1, i) \o SubSeq(output, i + 1, Len(output))
      BY Halved
    <2> QED  BY <1>2, <1>4, <2>1, <2>2
  <1>6. PICK r \in Seq(C) : r = remainder /\ Compact(r) = Compact(rest)
    <2>1. remainder = StripLeft(rest)
      BY <1>1, <1>2, <1>4
    <2> HIDE DEF remainder
    <2> QED  BY <2>1, CompactStripLeft
  <1>7. PICK none \in Seq(C) : none = <<>> /\ Compact(none) = none
    BY EmptySeq, CompactEmpty
  <1>8. PICK b \in Seq(C) : b = between /\ Compact(b) = none
    <2>1. PICK one \in Seq(C) : one = <<Break>> /\ Compact(one) = none
      <3>1. <<Break>> \in Seq(C) /\ Append(none, Break) = <<Break>>
        BY <1>7
      <3>2. IsSpace(Break)
        BY DEF IsSpace
      <3>3. Compact(Append(none, Break)) = none
        BY <1>7, <3>2, CompactAppend
      <3> QED  BY <3>1, <3>3
    <2> HIDE DEF overlap
    <2>2. between = none \/ between = one
      BY <1>7, <2>1
    <2> HIDE DEF between
    <2> QED  BY <1>7, <2>1, <2>2
  <1> HIDE DEF stripped, overlaps, overlap, remainder, between, new
  <1>9. Compact(front) \in Seq(C) /\ Compact(output) \o Compact(rest) = Compact(front) \o Compact(next)
    <2>1. /\ Compact(front) \in Seq(C)
          /\ Compact(front \o common) \o Compact(rest) = Compact(front) \o Compact(common \o rest)
      <3>1. Texts(C, front, common, rest)
        BY DEF Texts
      <3>2. SharedLetters(C, front, common, rest)
        BY <3>1, LettersShared
      <3> QED  BY <3>2 DEF SharedLetters
    <2> QED  BY <1>1, <1>4, <1>5, <2>1
  <1>10. Compact(output) \in Seq(C) /\ Compact(next) \in Seq(C)
    BY CompactNext
  <1>11. CASE r = none
    <2>1. new = output
      BY <1>3, <1>6, <1>7, <1>11
    <2>2. output \o none = output /\ Compact(output) \o none = Compact(output)
      BY <1>7, <1>10, ConcatEmptySeq
    <2>3. Compact(rest) = none
      BY <1>6, <1>7, <1>11
    <2>4. Compact(output) = Compact(front) \o Compact(next)
      BY <1>9, <2>2, <2>3
    <2> QED  BY <1>9, <2>1, <2>2, <2>4 DEF Extends, EndsWith, new
  <1>12. CASE r # none /\ output = none
    <2>1. new = s
      BY <1>1, <1>3, <1>6, <1>7, <1>12
    <2>2. none \o s = s /\ none \o Compact(next) = Compact(next)
      BY <1>7, <1>10, ConcatEmptySeq
    <2>3. Compact(new) = none \o Compact(next)
      BY <1>1, <2>1, <2>2
    <2> QED  BY <1>12, <2>1, <2>2, <2>3 DEF Extends, EndsWith, new
  <1>13. CASE r # none /\ output # none
    <2>1. new = (output \o b) \o r
      BY <1>3, <1>6, <1>7, <1>8, <1>13
    <2>2. /\ (output \o b) \o r = output \o (b \o r) /\ b \o r \in Seq(C) /\ (output \o b) \o r \in Seq(C)
          /\ Compact((output \o b) \o r) = Compact(output) \o Compact(r)
      <3>1. Texts(C, output, b, r) /\ Compact(b) = <<>>
        BY <1>7, <1>8 DEF Texts
      <3>2. SpacedLetters(C, output, b, r)
        BY <3>1, LettersJoined
      <3> QED  BY <3>2 DEF SpacedLetters
    <2>3. Compact(new) = Compact(front) \o Compact(next)
      BY <1>6, <1>9, <2>1, <2>2
    <2> QED  BY <1>9, <2>1, <2>2, <2>3 DEF Extends, EndsWith, new
  <1> QED  BY <1>11, <1>12, <1>13

\* The loop of CloseSegment over the pieces of the segment.
JoinedSteps(f, C, before, string, pieces) ==
  /\ \A k \in 0 .. Len(pieces) : f[k] \in Seq(C)
  /\ f[0] = before
  /\ \A k \in 1 .. Len(pieces) : f[k] = AppendWithoutOverlap(f[k - 1], TextOf(string, pieces[k]))

LEMMA JoinedLoop ==
  ASSUME NEW C, Break \in C, NEW before \in Seq(C), NEW string, NEW pieces, Len(pieces) \in Nat,
         \A k \in 1 .. Len(pieces) : TextOf(string, pieces[k]) \in Seq(C)
  PROVE  LET joined == CHOOSE f :
               f = [k \in 0 .. Len(pieces) |->
                     IF k = 0 THEN before ELSE AppendWithoutOverlap(f[k - 1], TextOf(string, pieces[k]))] IN
         JoinedSteps(joined, C, before, string, pieces)
  <1> DEFINE N == Len(pieces)
             V == Seq(C)
             with(o, k) == AppendWithoutOverlap(o, TextOf(string, pieces[k]))
             step == [k \in 1 .. N |-> [o \in V |-> with(o, k)]]
             Def(f) == f = [k \in 0 .. N |-> IF k = 0 THEN before ELSE with(f[k - 1], k)]
  <1>1. \A k \in 1 .. N, o \in V : with(o, k) \in V
    BY AppendTypes
  <1> HIDE DEF with
  <1>2. step \in [1 .. N -> [V -> V]]
    BY <1>1
  <1>3. \A k \in 1 .. N, o \in V : step[k][o] = with(o, k)
    OBVIOUS
  <1> HIDE DEF step
  <1>4. PICK g : Steps(g, V, before, N, step)
    <2> HIDE DEF V, N
    <2> QED  BY <1>2, Loops DEF V, N
  <1>5. /\ g = [k \in 0 .. N |-> g[k]] /\ \A k \in 0 .. N : g[k] \in V
        /\ g[0] = before /\ \A k \in 1 .. N : g[k] = step[k][g[k - 1]]
    BY <1>4 DEF Steps
  <1>6. \A k \in 1 .. N : g[k] = with(g[k - 1], k)
    <2>1. \A k \in 1 .. N : k - 1 \in 0 .. N
      OBVIOUS
    <2> QED  BY <1>3, <1>5, <2>1
  <1>7. Def(g)
    <2>1. \A k \in 0 .. N : g[k] = IF k = 0 THEN before ELSE with(g[k - 1], k)
      <3> SUFFICES ASSUME NEW k \in 0 .. N  PROVE g[k] = IF k = 0 THEN before ELSE with(g[k - 1], k)
        OBVIOUS
      <3>1. k = 0 \/ (k # 0 /\ k \in 1 .. N)
        OBVIOUS
      <3> QED  BY <1>5, <1>6, <3>1
    <2> QED  BY <1>5, <2>1
  <1> DEFINE f == CHOOSE f : Def(f)
  <1>8. Def(f)
    BY <1>7
  <1>9. f = CHOOSE h :
              h = [k \in 0 .. Len(pieces) |->
                    IF k = 0 THEN before ELSE AppendWithoutOverlap(h[k - 1], TextOf(string, pieces[k]))]
    BY DEF with
  <1> HIDE DEF f
  <1>10. f[0] = before /\ \A k \in 1 .. N : f[k] = with(f[k - 1], k)
    <2>1. \A k \in 0 .. N : f[k] = IF k = 0 THEN before ELSE with(f[k - 1], k)
      BY <1>8
    <2> QED  BY <2>1
  <1> HIDE DEF Def
  <1> DEFINE T == {k \in Nat : k <= N => f[k] \in V}
  <1>11. 0 \in T
    BY <1>10
  <1>12. ASSUME NEW k \in Nat, k \in T  PROVE k + 1 \in T
    <2> SUFFICES ASSUME k + 1 <= N  PROVE f[k + 1] \in V
      OBVIOUS
    <2>1. PICK j \in 1 .. N : j = k + 1 /\ j - 1 = k
      OBVIOUS
    <2>2. f[j - 1] \in V
      BY <1>12, <2>1
    <2> QED  BY <1>1, <1>10, <2>1, <2>2
  <1> HIDE DEF T
  <1>13. \A k \in 0 .. N : f[k] \in V
    <2>1. Nat \subseteq T
      BY <1>11, <1>12, Induct
    <2>2. \A k \in 0 .. N : k \in Nat
      OBVIOUS
    <2> QED  BY <2>1, <2>2 DEF T
  <1>14. JoinedSteps(f, C, before, string, pieces)
    BY <1>10, <1>13 DEF JoinedSteps, with
  <1> QED  BY <1>9, <1>14

\* A text holds the letters of another.
Holds(output, next, C) ==
  \E before \in Seq(C), after \in Seq(C) : Compact(output) = (before \o Compact(next)) \o after

LEMMA ExtendsTwice ==
  ASSUME NEW C, NEW a \in Seq(C), NEW b, NEW c, Extends(b, a, C), Extends(c, b, C)
  PROVE  Extends(c, a, C)
  <1>1. PICK x \in Seq(C) : b = a \o x
    BY DEF Extends
  <1>2. PICK y \in Seq(C) : c = b \o y
    BY DEF Extends
  <1>3. Texts(C, a, x, y)
    BY DEF Texts
  <1>4. (a \o x) \o y = a \o (x \o y) /\ x \o y \in Seq(C)
    BY <1>3, Regrouped
  <1> QED  BY <1>1, <1>2, <1>4 DEF Extends

LEMMA ExtendsHolds ==
  ASSUME NEW C, NEW b \in Seq(C), NEW c, NEW next, EndsWith(b, next, C), Extends(c, b, C)
  PROVE  Holds(c, next, C)
  <1>1. PICK before \in Seq(C) : Compact(b) = before \o Compact(next)
    BY DEF EndsWith
  <1>2. PICK y \in Seq(C) : c = b \o y
    BY DEF Extends
  <1>3. Compact(b \o y) = Compact(b) \o Compact(y) /\ Compact(y) \in Seq(C)
    BY CompactConcat
  <1>4. Compact(c) = (before \o Compact(next)) \o Compact(y)
    BY <1>1, <1>2, <1>3
  <1> QED  BY <1>3, <1>4 DEF Holds

\* Joining pieces to a text extends it, and each can be read in the result.
LEMMA JoinedHolds ==
  ASSUME NEW C, Break \in C, NEW f, NEW before, NEW string, NEW pieces, Len(pieces) \in Nat,
         \A k \in 1 .. Len(pieces) : TextOf(string, pieces[k]) \in Seq(C),
         JoinedSteps(f, C, before, string, pieces)
  PROVE  /\ Extends(f[Len(pieces)], before, C)
         /\ \A k \in 1 .. Len(pieces) : Holds(f[Len(pieces)], TextOf(string, pieces[k]), C)
  <1> DEFINE N == Len(pieces)
  <1>1. ASSUME NEW k \in 1 .. N
        PROVE  /\ f[k - 1] \in Seq(C) /\ f[k] \in Seq(C)
               /\ Extends(f[k], f[k - 1], C) /\ EndsWith(f[k], TextOf(string, pieces[k]), C)
    <2>1. k - 1 \in 0 .. N /\ k \in 0 .. N
      OBVIOUS
    <2>2. PICK o \in Seq(C), next \in Seq(C) :
            o = f[k - 1] /\ next = TextOf(string, pieces[k]) /\ f[k] = AppendWithoutOverlap(o, next)
      BY <2>1 DEF JoinedSteps
    <2>3. LET new == AppendWithoutOverlap(o, next) IN
          new \in Seq(C) /\ Extends(new, o, C) /\ EndsWith(new, next, C)
      BY AppendedIsRead
    <2> QED  BY <2>2, <2>3
  <1>2. ASSUME NEW k \in 0 .. N  PROVE Extends(f[N], f[k], C)
    <2> DEFINE T == {d \in Nat : k + d <= N => Extends(f[k + d], f[k], C)}
    <2>1. f[k] \in Seq(C)
      BY DEF JoinedSteps
    <2>2. 0 \in T
      <3>1. PICK none \in Seq(C) : none = <<>>
        BY EmptySeq
      <3>2. f[k] \o none = f[k]
        BY <2>1, <3>1, ConcatEmptySeq
      <3>3. Extends(f[k], f[k], C)
        BY <3>2 DEF Extends
      <3>4. f[k + 0] = f[k]
        OBVIOUS
      <3>5. Extends(f[k + 0], f[k], C)
        BY <3>3, <3>4
      <3> QED  BY <3>5
    <2>3. ASSUME NEW d \in Nat, d \in T  PROVE d + 1 \in T
      <3> SUFFICES ASSUME k + (d + 1) <= N  PROVE Extends(f[k + (d + 1)], f[k], C)
        OBVIOUS
      <3>1. PICK j \in 1 .. N : j = k + (d + 1) /\ j - 1 = k + d
        OBVIOUS
      <3>2. Extends(f[j - 1], f[k], C)
        BY <2>3, <3>1
      <3>3. Extends(f[j], f[j - 1], C)
        BY <1>1
      <3>4. Extends(f[j], f[k], C)
        BY <2>1, <3>2, <3>3, ExtendsTwice
      <3> QED  BY <3>1, <3>4
    <2> HIDE DEF T
    <2>4. PICK d \in Nat : k + d = N
      <3>1. N - k \in Nat /\ k + (N - k) = N
        OBVIOUS
      <3> QED  BY <3>1
    <2>5. d \in T
      BY <2>2, <2>3, Induct
    <2> QED  BY <2>4, <2>5 DEF T
  <1>3. Extends(f[N], before, C)
    <2>1. PICK z \in 0 .. N : z = 0
      OBVIOUS
    <2>2. f[z] = before
      BY <2>1 DEF JoinedSteps
    <2>3. Extends(f[N], f[z], C)
      BY <1>2
    <2> QED  BY <2>2, <2>3
  <1>4. ASSUME NEW k \in 1 .. N  PROVE Holds(f[N], TextOf(string, pieces[k]), C)
    <2>1. k \in 0 .. N
      OBVIOUS
    <2>2. Extends(f[N], f[k], C)
      BY <1>2, <2>1
    <2> QED  BY <1>1, <2>2, ExtendsHolds
  <1> QED  BY <1>3, <1>4

-----------------------------------------------------------------------------
(* The invariant of a transcript *)

RegionsInv == \A i \in DOMAIN regions : regions[i].start < regions[i].end

\* Words are heard in a region once all chunks have been labelled.
WordsInv ==
  /\ words # <<>> => ~MoreChunks /\ worded + 1 \in DOMAIN regions /\ Compact(words) # <<>>
  /\ said + Len(Compact(words)) <= MaxLetters

\* A token has one letter and lies in the region; unless some letter is
\* untimed, the tokens are the letters.
TokensInv ==
  /\ Len(tokens) <= Len(Compact(words))
  /\ Len(tokens) = Len(Compact(words)) =>
       \A i \in 1 .. Len(tokens) : tokens[i].text = <<Compact(words)[i]>>
  /\ \A i \in 1 .. Len(tokens) :
       /\ Len(tokens[i].text) = 1
       /\ 2 * regions[worded + 1].start <= tokens[i].start
       /\ tokens[i].start <= tokens[i].end
       /\ tokens[i].end <= 2 * regions[worded + 1].end

TextInv == TurnsInv /\ TypeOK /\ RegionsInv /\ WordsInv /\ TokensInv

TokenFields ==
  \A i \in 1 .. Len(tokens) :
    tokens[i].start \in Nat /\ tokens[i].end \in Nat /\ tokens[i].text \in Seq(Letters)

LEMMA TokenTypes ==
  ASSUME TypeOK
  PROVE  Len(tokens) \in Nat /\ DOMAIN tokens = 1 .. Len(tokens) /\ TokenFields
  <1>1. tokens \in Seq(Tokens)
    BY DEF TypeOK
  <1>2. \A token \in Tokens : token.start \in Nat /\ token.end \in Nat /\ token.text \in Seq(Letters)
    BY DEF Tokens
  <1> HIDE DEF Tokens
  <1> QED  BY <1>1, <1>2, LenProperties, ElementOfSeq DEF TokenFields

\* What is said of the pieces of a segment.
Reproduces(pieces) ==
  /\ Len(pieces) \in Nat /\ DOMAIN pieces = 1 .. Len(pieces)
  /\ Adjacent(pieces, Len(words))
  /\ FlattenSeq([k \in DOMAIN pieces |-> TextOf(words, pieces[k])]) = words
  /\ Len(tokens) = Len(Compact(words)) =>
       \A i \in DOMAIN tokens :
         \E k \in DOMAIN pieces :
           /\ LetterCount(words, pieces[k].start) < i /\ i <= LetterCount(words, pieces[k].end)
           /\ SpokenIn(tokens[i], SmoothTurns(turns), pieces[k].speaker)

\* A letter for each token: the segment is split; otherwise it is not.
LEMMA Refined ==
  ASSUME TextInv, words # <<>>, NEW fallback
  PROVE  Reproduces(Refine(words, tokens, fallback))
  <1> DEFINE N == Len(tokens)
             C == Letters \cup {Blank}
             smooth == SmoothTurns(turns)
             speaker(i) == SpeakerForToken(tokens[i], smooth, fallback)
             speakers == [i \in DOMAIN tokens |-> SpeakerForToken(tokens[i], smooth, fallback)]
             flat == FlattenSeq([i \in DOMAIN tokens |-> tokens[i].text])
             r == worded + 1
  <1>1. N \in Nat /\ DOMAIN tokens = 1 .. N /\ TokenFields
    BY TokenTypes DEF TextInv
  <1>2. words \in Seq(C)
    BY DEF TextInv, TypeOK
  <1>3. ~MoreChunks /\ r \in DOMAIN regions /\ regions[r].start < regions[r].end /\ Compact(words) # <<>>
    BY DEF TextInv, WordsInv, RegionsInv
  <1>4. ASSUME NEW i \in 1 .. N
        PROVE  /\ speaker(i) \in Speakers /\ speakers[i] = speaker(i)
               /\ SpokenIn(tokens[i], smooth, speakers[i]) /\ turns # <<>>
    <2>1. /\ tokens[i].start \in Nat /\ tokens[i].end \in Nat
          /\ 2 * regions[r].start <= tokens[i].start /\ tokens[i].start <= tokens[i].end
          /\ tokens[i].end <= 2 * regions[r].end
      BY <1>1 DEF TokenFields, TextInv, TokensInv
    <2> HIDE DEF r
    <2>2. speaker(i) \in Speakers /\ SpokenIn(tokens[i], smooth, speaker(i)) /\ turns # <<>>
      BY <1>3, <2>1, TokenSpoken DEF TextInv
    <2>3. speakers[i] = speaker(i)
      BY <1>1
    <2> HIDE DEF speaker, speakers, smooth
    <2> QED  BY <2>2, <2>3
  <1> HIDE DEF speaker
  <1>5. PICK c \in Seq(C) : c = Compact(words) /\ Len(c) \in Nat /\ Len(c) # 0 /\ c = [i \in 1 .. Len(c) |-> c[i]]
    <2>1. PICK c \in Seq(C) : c = Compact(words)
      BY <1>2, CompactNext
    <2>2. Len(c) \in Nat /\ (Len(c) = 0 => c = <<>>) /\ c = [i \in 1 .. Len(c) |-> c[i]]
      OBVIOUS
    <2> QED  BY <1>3, <2>1, <2>2
  <1>6. /\ \A i \in 1 .. N : Cumulative(tokens, i) = i
        /\ flat \in Seq(Letters) /\ Len(flat) = N /\ \A i \in 1 .. N : flat[i] = tokens[i].text[1]
    <2>1. \A i \in 1 .. N : tokens[i].text \in Seq(Letters) /\ Len(tokens[i].text) = 1
      BY <1>1 DEF TokenFields, TextInv, TokensInv
    <2> QED  BY <1>1, <2>1, OneLetterEach
  <1> HIDE DEF flat
  <1>7. Refine(words, tokens, fallback) =
          IF Splits(words, tokens, speakers)
            THEN Pieces(words, tokens, speakers)
            ELSE <<[start |-> 0, end |-> Len(words), speaker |-> fallback]>>
    BY DEF Refine
  <1> HIDE DEF speakers, smooth
  <1>8. CASE N = Len(c)
    <2> DEFINE pieces == Pieces(words, tokens, speakers)
    <2>1. \A i \in 1 .. N : tokens[i].text = <<c[i]>>
      BY <1>5, <1>8 DEF TextInv, TokensInv
    <2>2. \A i \in 1 .. N : flat[i] = c[i]
      BY <1>6, <2>1
    <2>3. flat = c
      <3>1. PICK d \in Seq(Letters) : d = flat /\ Len(d) = Len(c) /\ \A i \in 1 .. Len(d) : d[i] = c[i]
        BY <1>6, <1>8, <2>2
      <3>2. d = [i \in 1 .. Len(d) |-> d[i]]
        OBVIOUS
      <3> QED  BY <1>5, <3>1, <3>2
    <2>4. tokens # <<>> /\ turns # <<>>
      <3>1. 1 \in 1 .. N
        BY <1>5, <1>8
      <3>2. turns # <<>>
        BY <1>4, <3>1
      <3>3. tokens = <<>> => N = 0
        OBVIOUS
      <3> QED  BY <1>5, <1>8, <3>2, <3>3
    <2>5. \A i \in 1 .. N : speakers[i] \in Speakers /\ speakers[i] # NoSpeaker
      BY <1>4, TurnsAssumption
    <2>6. Splits(words, tokens, speakers)
      BY <1>1, <1>5, <2>3, <2>4, <2>5 DEF Splits, flat
    <2>7. Refine(words, tokens, fallback) = pieces
      BY <1>7, <2>6
    <2>8. /\ pieces \in Seq(PieceRecords(Speakers))
          /\ Adjacent(pieces, Len(words))
          /\ FlattenSeq([k \in DOMAIN pieces |-> TextOf(words, pieces[k])]) = words
          /\ \A i \in 1 .. N : InPieceOf(pieces, words, i, speakers[i])
      BY <1>2, <1>5, <1>6, <1>8, <2>4, <2>5, PiecesCut
    <2> HIDE DEF pieces
    <2>9. Len(pieces) \in Nat /\ DOMAIN pieces = 1 .. Len(pieces)
      BY <2>8, LenProperties
    <2>10. ASSUME NEW i \in DOMAIN tokens
           PROVE  \E k \in DOMAIN pieces :
                    /\ LetterCount(words, pieces[k].start) < i /\ i <= LetterCount(words, pieces[k].end)
                    /\ SpokenIn(tokens[i], smooth, pieces[k].speaker)
      <3>1. i \in 1 .. N
        BY <1>1
      <3>2. PICK k \in 1 .. Len(pieces) :
              /\ LetterCount(words, pieces[k].start) < i /\ i <= LetterCount(words, pieces[k].end)
              /\ pieces[k].speaker = speakers[i]
        BY <2>8, <3>1 DEF InPieceOf
      <3> QED  BY <1>4, <2>9, <3>1, <3>2
    <2>11. Reproduces(pieces)
      BY <2>8, <2>9, <2>10 DEF Reproduces, smooth
    <2> QED  BY <2>7, <2>11
  <1>9. CASE N # Len(c)
    <2> DEFINE pieces == <<[start |-> 0, end |-> Len(words), speaker |-> fallback]>>
    <2>1. ~Splits(words, tokens, speakers)
      BY <1>1, <1>5, <1>6, <1>9 DEF Splits, flat
    <2>2. Refine(words, tokens, fallback) = pieces
      BY <1>7, <2>1
    <2>3. /\ Len(pieces) = 1 /\ DOMAIN pieces = 1 .. 1
          /\ Adjacent(pieces, Len(words))
          /\ FlattenSeq([k \in DOMAIN pieces |-> TextOf(words, pieces[k])]) = words
      BY <1>2, WholePiece
    <2> HIDE DEF pieces
    <2>4. Reproduces(pieces)
      BY <1>5, <1>9, <2>3 DEF Reproduces
    <2> QED  BY <2>2, <2>4
  <1> QED  BY <1>8, <1>9

-----------------------------------------------------------------------------
(* One step of the transcript *)

LEMMA InitText == Init => TextInv
  <1> SUFFICES ASSUME Init  PROVE TextInv
    OBVIOUS
  <1>1. TurnsInv
    BY InitTurns DEF Init
  <1>2. regions = <<>> /\ worded = 0 /\ words = <<>> /\ tokens = <<>> /\ text = <<>> /\ said = 0
    BY DEF Init, TurnsInit
  <1>3. TypeOK
    BY <1>1, <1>2, TextAssumption DEF TypeOK, TurnsInv
  <1>4. Len(Compact(words)) = 0 /\ Len(tokens) = 0
    BY <1>2, CompactEmpty
  <1>5. RegionsInv /\ WordsInv /\ TokensInv
    BY <1>2, <1>4, TextAssumption DEF RegionsInv, WordsInv, TokensInv
  <1> QED  BY <1>1, <1>3, <1>5 DEF TextInv

\* What a window keeps while its segments are worded.
LEMMA TurnsKept ==
  ASSUME TurnsInv, RegionsInv, UNCHANGED turnVars
  PROVE  /\ TurnsInv' /\ RegionsInv' /\ regions' = regions /\ (MoreChunks' <=> MoreChunks)
  <1>1. /\ regions' = regions /\ candidate' = candidate /\ lastEnd' = lastEnd
        /\ labeled' = labeled /\ turns' = turns
    BY DEF turnVars
  <1>2. TurnsTypeOK' /\ LatestInv' /\ MergeInv'
    BY <1>1 DEF TurnsInv, TurnsTypeOK, LatestInv, MergeInv, Ordered
  <1>3. LoopInv'
    BY <1>1 DEF TurnsInv, LoopInv, Region, RegionLength
  <1>4. NearestInv'
    BY <1>1 DEF TurnsInv, NearestInv, AllGiven, Given, Nearest, Hears, Speaks
  <1>5. CoverInv'
    BY <1>1 DEF TurnsInv, CoverInv, Covers, Chunked, Reached, Region
  <1>6. RegionsInv'
    BY <1>1 DEF RegionsInv
  <1>7. MoreChunks' <=> MoreChunks
    BY <1>1 DEF MoreChunks, ChunkEnd, Region, RegionLength
  <1> QED  BY <1>1, <1>2, <1>3, <1>4, <1>5, <1>6, <1>7 DEF TurnsInv

LEMMA StepCut ==
  ASSUME TextInv, Cut
  PROVE  TextInv'
  <1>1. worded' = 0 /\ words = <<>> /\ words' = <<>> /\ tokens' = tokens /\ text' = text /\ said' = said /\ worded = 0
    BY DEF Cut, textVars
  <1>2. TurnsInv'
    BY StepOpenRegion, StepLabelChunk DEF Cut, TurnsNext, TextInv
  <1>3. Len(Compact(words)) = 0 /\ Len(tokens) = 0 /\ tokens = <<>>
    <2>1. Len(Compact(words)) = 0
      BY <1>1, CompactEmpty
    <2>2. Len(tokens) \in Nat /\ tokens \in Seq(Tokens)
      BY TokenTypes DEF TextInv, TypeOK
    <2>3. Len(tokens) = 0
      BY <2>1, <2>2 DEF TextInv, TokensInv
    <2> QED  BY <2>1, <2>2, <2>3, EmptySeq
  <1>4. TypeOK'
    <2>1. TurnsTypeOK' /\ (Len(regions) \in Nat)'
      BY <1>2, LenProperties DEF TurnsInv, TurnsTypeOK
    <2> QED  BY <1>1, <2>1 DEF TextInv, TypeOK
  <1>5. RegionsInv'
    <2>1. CASE \E speaker \in Speakers : LabelChunk(speaker)
      BY <2>1 DEF LabelChunk, TextInv, RegionsInv
    <2>2. CASE \E gap \in Gaps, length \in Lengths : OpenRegion(gap, length)
      <3>1. PICK gap \in Gaps, length \in Lengths :
              regions' = Append(regions, [start |-> Region.end + gap, end |-> Region.end + gap + length])
        BY <2>2 DEF OpenRegion
      <3>2. gap \in Nat /\ length \in Nat /\ length # 0 /\ Region.end \in Nat
        BY RegionType, TurnsAssumption DEF TextInv, TurnsInv
      <3>3. PICK e \in [start : Nat, end : Nat] :
              e = [start |-> Region.end + gap, end |-> Region.end + gap + length]
        <4>1. [start |-> Region.end + gap, end |-> Region.end + gap + length] \in [start : Nat, end : Nat]
          BY <3>2
        <4> QED  BY <4>1
      <3>4. e.start < e.end
        BY <3>2, <3>3
      <3>5. regions \in Seq([start : Nat, end : Nat])
        BY DEF TextInv, TurnsInv, TurnsTypeOK
      <3>6. /\ DOMAIN Append(regions, e) = 1 .. Len(regions) + 1 /\ DOMAIN regions = 1 .. Len(regions)
            /\ \A i \in 1 .. Len(regions) : Append(regions, e)[i] = regions[i]
            /\ Append(regions, e)[Len(regions) + 1] = e
            /\ Len(regions) \in Nat
        BY <3>5, AppendProperties, LenProperties
      <3>7. \A i \in 1 .. Len(regions) + 1 : i \in 1 .. Len(regions) \/ i = Len(regions) + 1
        BY <3>6
      <3>8. \A i \in 1 .. Len(regions) + 1 : Append(regions, e)[i].start < Append(regions, e)[i].end
        BY <3>4, <3>6, <3>7 DEF TextInv, RegionsInv
      <3> QED  BY <3>1, <3>3, <3>6, <3>8 DEF RegionsInv
    <2> QED  BY <2>1, <2>2 DEF Cut, TurnsNext
  <1>6. WordsInv' /\ TokensInv'
    BY <1>1, <1>3 DEF TextInv, WordsInv, TokensInv
  <1> QED  BY <1>2, <1>4, <1>5, <1>6 DEF TextInv

\* A letter more.
LEMMA Heard ==
  ASSUME TextInv, NEW letter \in Letters, NEW spaced \in BOOLEAN, Hear(letter, spaced)
  PROVE  /\ words' \in Seq(Letters \cup {Blank}) /\ words' # <<>>
         /\ Compact(words') = Append(Compact(words), letter)
         /\ Compact(words) \in Seq(Letters \cup {Blank})
         /\ WordsInv' /\ TurnsInv' /\ RegionsInv' /\ regions' = regions /\ worded' = worded
         /\ worded + 1 \in DOMAIN regions
  <1> DEFINE C == Letters \cup {Blank}
             between == IF spaced /\ words # <<>> THEN <<Blank>> ELSE <<>>
             before == words \o between
  <1>1. words \in Seq(C) /\ letter \in C /\ Blank \in C
    BY DEF TextInv, TypeOK
  <1>2. words' = before \o <<letter>>
    BY DEF Hear
  <1>3. IsSpace(Blank) /\ ~IsSpace(letter)
    BY TextAssumption DEF IsSpace
  <1>4. before = Append(words, Blank) \/ before = words
    <2>1. words \o <<Blank>> = Append(words, Blank) /\ words \o <<>> = words
      BY <1>1
    <2> QED  BY <2>1
  <1> HIDE DEF before
  <1>5. before \in Seq(C) /\ Compact(before) = Compact(words)
    <2>1. Append(words, Blank) \in Seq(C) /\ Compact(Append(words, Blank)) = Compact(words)
      BY <1>1, <1>3, CompactAppend
    <2> QED  BY <1>1, <1>4, <2>1
  <1>6. before \o <<letter>> = Append(before, letter) /\ Append(before, letter) # <<>>
    BY <1>1, <1>5
  <1>7. /\ Append(before, letter) \in Seq(C)
        /\ Compact(Append(before, letter)) = Append(Compact(words), letter)
    <2>1. /\ Append(before, letter) \in Seq(C)
          /\ Compact(Append(before, letter)) = Append(Compact(before), letter)
      BY <1>1, <1>3, <1>5, CompactAppend
    <2> QED  BY <1>5, <2>1
  <1>8. words' = Append(before, letter) /\ words' \in Seq(C) /\ words' # <<>>
    BY <1>2, <1>6, <1>7
  <1>9. Compact(words') = Append(Compact(words), letter)
    BY <1>7, <1>8
  <1>10. PICK c \in Seq(C) : c = Compact(words)
    BY <1>1, CompactNext
  <1>11. Len(Append(c, letter)) = Len(c) + 1 /\ Append(c, letter) # <<>> /\ Len(c) \in Nat
    BY <1>1, <1>10
  <1>12. ~MoreChunks /\ worded < Len(regions) /\ said + Len(c) < MaxLetters
    BY <1>10 DEF Hear, Wording
  <1>13. UNCHANGED turnVars /\ worded' = worded /\ said' = said
    BY DEF Hear
  <1>14. TurnsInv' /\ RegionsInv' /\ regions' = regions /\ (MoreChunks' <=> MoreChunks)
    BY <1>13, TurnsKept DEF TextInv
  <1>15. worded + 1 \in DOMAIN regions
    <2>1. worded \in 0 .. Len(regions) /\ Len(regions) \in Nat /\ DOMAIN regions = 1 .. Len(regions)
      BY RegionsType DEF TextInv, TypeOK
    <2> QED  BY <1>12, <2>1
  <1>16. said + Len(Append(c, letter)) <= MaxLetters
    <2>1. said \in Nat /\ MaxLetters \in Nat
      BY TextAssumption DEF TextInv, TypeOK
    <2> QED  BY <1>11, <1>12, <2>1
  <1>17. WordsInv'
    <2>1. Compact(words') = Append(c, letter)
      BY <1>9, <1>10
    <2>2. (said + Len(Compact(words)) <= MaxLetters)'
      BY <1>13, <1>16, <2>1
    <2>3. (~MoreChunks /\ worded + 1 \in DOMAIN regions /\ Compact(words) # <<>>)'
      BY <1>11, <1>12, <1>13, <1>14, <1>15, <2>1
    <2> QED  BY <2>2, <2>3 DEF WordsInv
  <1> QED  BY <1>8, <1>9, <1>10, <1>13, <1>14, <1>15, <1>17

LEMMA StepHearToken ==
  ASSUME TextInv, NEW letter \in Letters, NEW spaced \in BOOLEAN, NEW pause \in Pauses, NEW length \in TokenLengths,
         HearToken(letter, spaced, pause, length)
  PROVE  TextInv'
  <1> DEFINE region == regions[worded + 1]
             start == (IF tokens = <<>> THEN 2 * region.start ELSE Last(tokens).end) + pause
             token == [start |-> start, end |-> start + length, text |-> <<letter>>]
             n == Len(tokens)
  <1>1. Hear(letter, spaced) /\ start + length <= 2 * region.end /\ tokens' = Append(tokens, token)
    BY DEF HearToken
  <1>2. /\ words' \in Seq(Letters \cup {Blank}) /\ Compact(words') = Append(Compact(words), letter)
        /\ WordsInv' /\ TurnsInv' /\ RegionsInv' /\ regions' = regions /\ worded' = worded
        /\ worded + 1 \in DOMAIN regions
    BY <1>1, Heard
  <1>3. PICK c \in Seq(Letters \cup {Blank}) : c = Compact(words) /\ Len(c) \in Nat
    BY <1>1, Heard, LenProperties
  <1>4. Compact(words') = Append(c, letter)
    BY <1>2, <1>3
  <1>5. /\ Len(Append(c, letter)) = Len(c) + 1 /\ Append(c, letter)[Len(c) + 1] = letter
        /\ \A i \in 1 .. Len(c) : Append(c, letter)[i] = c[i]
    BY <1>3
  <1>6. n \in Nat /\ DOMAIN tokens = 1 .. n /\ TokenFields /\ tokens \in Seq(Tokens)
    BY TokenTypes DEF TextInv, TypeOK
  <1>7. region.start \in Nat /\ region.end \in Nat
    BY <1>2, RegionsType DEF TextInv, TurnsInv
  <1>8. start \in Nat /\ 2 * region.start <= start
    <2>1. CASE tokens = <<>>
      BY <1>7, <2>1, TextAssumption
    <2>2. CASE tokens # <<>>
      <3>1. n \in 1 .. n /\ Last(tokens) = tokens[n]
        BY <1>6, <2>2, EmptySeq DEF Last
      <3>2. tokens[n].start \in Nat /\ tokens[n].end \in Nat
        BY <1>6, <3>1 DEF TokenFields
      <3>3. 2 * region.start <= tokens[n].start /\ tokens[n].start <= tokens[n].end
        BY <3>1 DEF TextInv, TokensInv
      <3>4. PICK a \in Nat, b \in Nat, d \in Nat, g \in Nat :
              a = region.start /\ b = tokens[n].start /\ d = tokens[n].end /\ g = pause
        BY <1>7, <3>2, TextAssumption
      <3>5. 2 * a <= b /\ b <= d
        BY <3>3, <3>4
      <3>6. start = d + g
        BY <2>2, <3>1, <3>4
      <3>7. region.start = a
        BY <3>4
      <3> HIDE DEF start, region
      <3>8. d + g \in Nat /\ 2 * a <= d + g
        BY <3>5
      <3> QED  BY <3>6, <3>7, <3>8
    <2> QED  BY <2>1, <2>2
  <1> HIDE DEF start
  <1>9. length \in Nat /\ start + length \in Nat /\ start <= start + length
    BY <1>8, TextAssumption
  <1>10. <<letter>> \in Seq(Letters) /\ Len(<<letter>>) = 1
    OBVIOUS
  <1>11. token \in Tokens
    BY <1>8, <1>9, <1>10 DEF Tokens
  <1>12. token.start = start /\ token.end = start + length /\ token.text = <<letter>>
    OBVIOUS
  <1> HIDE DEF token, region
  <1>13. /\ Append(tokens, token) \in Seq(Tokens)
         /\ Len(Append(tokens, token)) = n + 1
         /\ \A i \in 1 .. n : Append(tokens, token)[i] = tokens[i]
         /\ Append(tokens, token)[n + 1] = token
    BY <1>6, <1>11, AppendProperties
  <1>14. PICK new \in Seq(Tokens) : new = Append(tokens, token)
    BY <1>13
  <1>15. Len(new) = n + 1 /\ (\A i \in 1 .. n : new[i] = tokens[i]) /\ new[n + 1] = token
    BY <1>13, <1>14
  <1>16. \A i \in 1 .. n + 1 : i \in 1 .. n \/ i = n + 1
    BY <1>6
  <1>17. n <= Len(c)
    BY <1>3 DEF TextInv, TokensInv
  <1>18. ASSUME n + 1 = Len(c) + 1, NEW i \in 1 .. n + 1  PROVE new[i].text = <<Append(c, letter)[i]>>
    <2>1. n = Len(c)
      BY <1>3, <1>6, <1>18
    <2>2. CASE i \in 1 .. n
      <3>1. tokens[i].text = <<c[i]>>
        BY <1>3, <2>1, <2>2 DEF TextInv, TokensInv
      <3> QED  BY <1>5, <1>15, <2>1, <2>2, <3>1
    <2>3. CASE i = n + 1
      BY <1>5, <1>12, <1>15, <2>1, <2>3
    <2> QED  BY <1>16, <2>2, <2>3
  <1>19. ASSUME NEW i \in 1 .. n + 1
         PROVE  /\ Len(new[i].text) = 1
                /\ 2 * region.start <= new[i].start
                /\ new[i].start <= new[i].end
                /\ new[i].end <= 2 * region.end
    <2>1. CASE i \in 1 .. n
      BY <1>15, <2>1 DEF TextInv, TokensInv, region
    <2>2. CASE i = n + 1
      BY <1>1, <1>8, <1>9, <1>10, <1>12, <1>15, <2>2
    <2> QED  BY <1>16, <2>1, <2>2
  <1>20. TokensInv'
    <2>1. tokens' = new /\ Compact(words') = Append(c, letter) /\ regions'[worded' + 1] = region
      BY <1>1, <1>2, <1>4, <1>14 DEF region
    <2>2. Len(new) <= Len(Append(c, letter))
      BY <1>3, <1>5, <1>6, <1>15, <1>17
    <2>3. Len(new) = Len(Append(c, letter)) =>
            \A i \in 1 .. Len(new) : new[i].text = <<Append(c, letter)[i]>>
      BY <1>5, <1>15, <1>18
    <2>4. \A i \in 1 .. Len(new) :
            /\ Len(new[i].text) = 1
            /\ 2 * region.start <= new[i].start
            /\ new[i].start <= new[i].end
            /\ new[i].end <= 2 * region.end
      BY <1>15, <1>19
    <2> QED  BY <2>1, <2>2, <2>3, <2>4 DEF TokensInv
  <1>21. TypeOK'
    <2>1. tokens' = new /\ text' = text /\ said' = said
      BY <1>1, <1>14 DEF Hear
    <2>2. TurnsTypeOK'
      BY <1>2 DEF TurnsInv
    <2> QED  BY <1>2, <1>14, <2>1, <2>2 DEF TextInv, TypeOK
  <1> QED  BY <1>2, <1>20, <1>21 DEF TextInv

LEMMA StepHearUntimed ==
  ASSUME TextInv, NEW letter \in Letters, NEW spaced \in BOOLEAN, HearUntimed(letter, spaced)
  PROVE  TextInv'
  <1>1. Hear(letter, spaced) /\ tokens' = tokens /\ text' = text /\ said' = said
    BY DEF HearUntimed, Hear
  <1>2. /\ words' \in Seq(Letters \cup {Blank}) /\ Compact(words') = Append(Compact(words), letter)
        /\ WordsInv' /\ TurnsInv' /\ RegionsInv' /\ regions' = regions /\ worded' = worded
    BY <1>1, Heard
  <1>3. PICK c \in Seq(Letters \cup {Blank}) : c = Compact(words) /\ Len(c) \in Nat
    BY <1>1, Heard, LenProperties
  <1>4. Compact(words') = Append(c, letter) /\ Len(Append(c, letter)) = Len(c) + 1
    BY <1>2, <1>3
  <1>5. Len(tokens) \in Nat /\ Len(tokens) <= Len(c)
    BY <1>3, TokenTypes DEF TextInv, TokensInv
  <1>6. Len(tokens) < Len(Append(c, letter)) /\ Len(tokens) # Len(Append(c, letter))
    BY <1>3, <1>4, <1>5
  <1>7. TokensInv'
    <2>1. Len(tokens) <= Len(Append(c, letter))
      BY <1>3, <1>4, <1>5
    <2> QED  BY <1>1, <1>2, <1>4, <1>6, <2>1 DEF TextInv, TokensInv
  <1>8. TypeOK'
    BY <1>1, <1>2 DEF TextInv, TurnsInv, TypeOK
  <1> QED  BY <1>2, <1>7, <1>8 DEF TextInv

\* What a segment adds to the text.
Characters == Letters \cup {Blank, Break}

LEMMA SegmentJoined ==
  ASSUME TextInv, NEW fallback, CloseSegment(fallback)
  PROVE  LET pieces == IF words = <<>> THEN <<>> ELSE Refine(words, tokens, fallback) IN
         /\ text' \in Seq(Characters)
         /\ Extends(text', text, Characters)
         /\ \A k \in 1 .. Len(pieces) : Holds(text', TextOf(words, pieces[k]), Characters)
  <1> DEFINE C == Characters
             pieces == IF words = <<>> THEN <<>> ELSE Refine(words, tokens, fallback)
             joined == CHOOSE f :
               f = [k \in 0 .. Len(pieces) |->
                     IF k = 0 THEN text ELSE AppendWithoutOverlap(f[k - 1], TextOf(words, pieces[k]))]
  <1>1. text' = joined[Len(pieces)]
    BY DEF CloseSegment
  <1> HIDE DEF joined
  <1>2. words \in Seq(C) /\ text \in Seq(C) /\ Break \in C
    <2>1. words \in Seq(Letters \cup {Blank}) /\ text \in Seq(C)
      BY DEF TextInv, TypeOK, Characters
    <2>2. Letters \cup {Blank} \subseteq C /\ Break \in C
      BY DEF Characters
    <2> HIDE DEF C
    <2> QED  BY <2>1, <2>2
  <1>3. Len(pieces) \in Nat /\ \A k \in 1 .. Len(pieces) : TextOf(words, pieces[k]) \in Seq(C)
    <2>1. CASE words = <<>>
      BY <2>1
    <2>2. CASE words # <<>>
      <3>1. Reproduces(pieces)
        BY <2>2, Refined
      <3> HIDE DEF pieces, C
      <3>2. ASSUME NEW k \in 1 .. Len(pieces)  PROVE TextOf(words, pieces[k]) \in Seq(C)
        <4>1. pieces[k].start \in Nat /\ pieces[k].end \in 0 .. Len(words)
          BY <3>1 DEF Reproduces, Adjacent
        <4>2. SubSeq(words, pieces[k].start + 1, pieces[k].end) \in Seq(C)
          BY <1>2, <4>1
        <4> QED  BY <4>2 DEF TextOf
      <3> QED  BY <3>1, <3>2 DEF Reproduces
    <2> QED  BY <2>1, <2>2
  <1> HIDE DEF pieces, C
  <1>4. JoinedSteps(joined, C, text, words, pieces)
    BY <1>2, <1>3, JoinedLoop DEF joined
  <1>5. text' \in Seq(C)
    BY <1>1, <1>3, <1>4 DEF JoinedSteps
  <1>6. /\ Extends(text', text, C)
        /\ \A k \in 1 .. Len(pieces) : Holds(text', TextOf(words, pieces[k]), C)
    BY <1>1, <1>2, <1>3, <1>4, JoinedHolds
  <1> QED  BY <1>5, <1>6 DEF pieces, C

LEMMA StepCloseSegment ==
  ASSUME TextInv, NEW fallback, CloseSegment(fallback)
  PROVE  TextInv'
  <1>1. /\ Wording /\ worded' = worded + 1 /\ words' = <<>> /\ tokens' = <<>>
        /\ said' = said + Len(Compact(words)) /\ UNCHANGED turnVars
    BY DEF CloseSegment
  <1>2. text' \in Seq(Characters)
    BY SegmentJoined
  <1>3. TurnsInv' /\ RegionsInv' /\ regions' = regions
    BY <1>1, TurnsKept DEF TextInv
  <1>4. PICK c : c = Compact(words) /\ Len(c) \in Nat
    <2>1. Compact(words) \in Seq(Letters \cup {Blank})
      BY CompactNext DEF TextInv, TypeOK
    <2> QED  BY <2>1, LenProperties
  <1>5. said + Len(c) \in 0 .. MaxLetters
    BY <1>4, TextAssumption DEF TextInv, TypeOK, WordsInv
  <1>6. worded + 1 \in 0 .. Len(regions)
    BY <1>1, RegionsType DEF TextInv, TypeOK, TurnsInv, Wording
  <1>7. TypeOK'
    <2>1. TurnsTypeOK'
      BY <1>3 DEF TurnsInv
    <2>2. worded' \in 0 .. Len(regions') /\ said' \in 0 .. MaxLetters
      BY <1>1, <1>3, <1>4, <1>5, <1>6
    <2>3. <<>> \in Seq(Letters \cup {Blank}) /\ <<>> \in Seq(Tokens)
      BY EmptySeq
    <2> QED  BY <1>1, <1>2, <2>1, <2>2, <2>3 DEF TypeOK, Characters
  <1>8. Len(Compact(words')) = 0 /\ Len(tokens') = 0
    BY <1>1, CompactEmpty
  <1>9. WordsInv' /\ TokensInv'
    BY <1>1, <1>4, <1>5, <1>8 DEF WordsInv, TokensInv
  <1> QED  BY <1>3, <1>7, <1>9 DEF TextInv

LEMMA TextInductive == Spec => []TextInv
  <1>1. ASSUME TextInv, [Next]_vars  PROVE TextInv'
    <2>1. CASE Cut
      BY <1>1, <2>1, StepCut
    <2>2. ASSUME NEW letter \in Letters, NEW spaced \in BOOLEAN, HearUntimed(letter, spaced)  PROVE TextInv'
      BY <1>1, <2>2, StepHearUntimed
    <2>3. ASSUME NEW letter \in Letters, NEW spaced \in BOOLEAN, NEW pause \in Pauses, NEW length \in TokenLengths,
                 HearToken(letter, spaced, pause, length)
          PROVE  TextInv'
      BY <1>1, <2>3, StepHearToken
    <2>4. ASSUME NEW fallback \in Speakers \cup {NoSpeaker}, CloseSegment(fallback)  PROVE TextInv'
      BY <1>1, <2>4, StepCloseSegment
    <2>5. CASE UNCHANGED vars
      <3>1. /\ UNCHANGED turnVars /\ worded' = worded /\ words' = words /\ tokens' = tokens
            /\ text' = text /\ said' = said
        BY <2>5 DEF vars, textVars
      <3>2. TurnsInv' /\ RegionsInv' /\ regions' = regions /\ (MoreChunks' <=> MoreChunks)
        BY <1>1, <3>1, TurnsKept DEF TextInv
      <3>3. TypeOK'
        BY <1>1, <3>1, <3>2 DEF TextInv, TypeOK, TurnsInv
      <3>4. WordsInv' /\ TokensInv'
        BY <1>1, <3>1, <3>2 DEF TextInv, WordsInv, TokensInv
      <3> QED  BY <3>2, <3>3, <3>4 DEF TextInv
    <2> QED  BY <1>1, <2>1, <2>2, <2>3, <2>4, <2>5 DEF Next
  <1> QED  BY InitText, <1>1, PTL DEF Spec

-----------------------------------------------------------------------------
(* Theorems about the transcript *)

\* Texts are made of characters, tokens are aligned and the letters are
\* counted, for any letters, pauses and lengths of tokens.
THEOREM TextTypeCorrect == Spec => []TypeOK
  <1>1. TextInv => TypeOK
    BY DEF TextInv
  <1> QED  BY TextInductive, <1>1, PTL

\* Cutting a segment at its tokens neither loses, repeats nor moves a character
\* and gives each letter to the speaker its token was spoken by, for segments
\* and turns of any length (_split_segment, _surface_index_for_count,
\* _speaker_for_token).
THEOREM SegmentsReproduced == Spec => []PiecesReproduce
  <1>1. ASSUME TextInv  PROVE PiecesReproduce
    BY <1>1, Refined DEF PiecesReproduce, Reproduces
  <1> QED  BY TextInductive, <1>1, PTL

\* What is in the transcript stays where it is: a segment is appended to it
\* (_append_without_overlap).
THEOREM TextStays == Spec => [][Extends(text', text, Characters)]_vars
  <1>1. ASSUME TextInv, [Next]_vars  PROVE Extends(text', text, Characters) \/ UNCHANGED vars
    <2>1. ASSUME NEW fallback \in Speakers \cup {NoSpeaker}, CloseSegment(fallback)
          PROVE  Extends(text', text, Characters)
      BY <1>1, <2>1, SegmentJoined
    <2>2. CASE text' = text
      <3>1. PICK none \in Seq(Characters) : none = <<>>
        BY EmptySeq
      <3>2. text \in Seq(Characters)
        BY <1>1 DEF TextInv, TypeOK, Characters
      <3>3. text' = text \o none
        BY <2>2, <3>1, <3>2, ConcatEmptySeq
      <3> QED  BY <3>3 DEF Extends
    <2>3. \/ \E fallback \in Speakers \cup {NoSpeaker} : CloseSegment(fallback)
          \/ text' = text
          \/ UNCHANGED vars
      BY <1>1 DEF Next, Cut, HearUntimed, HearToken, Hear, textVars
    <2> QED  BY <2>1, <2>2, <2>3
  <1> QED  BY TextInductive, <1>1, PTL DEF Spec

\* Once a segment is in the transcript, the letters of each of its pieces can
\* be read there one after another.
SegmentIsRead ==
  \A fallback \in Speakers \cup {NoSpeaker} :
    CloseSegment(fallback) /\ words # <<>> =>
      LET pieces == Refine(words, tokens, fallback) IN
      \A k \in DOMAIN pieces : Holds(text', TextOf(words, pieces[k]), Characters)

\* Whatever is taken for a repetition, every piece of every segment can be read
\* in the transcript (_split_segment, _append_without_overlap).
THEOREM PiecesAreRead == Spec => [][SegmentIsRead]_vars
  <1>1. ASSUME TextInv, [Next]_vars  PROVE SegmentIsRead
    <2> SUFFICES ASSUME NEW fallback \in Speakers \cup {NoSpeaker}, CloseSegment(fallback), words # <<>>
                 PROVE  LET pieces == Refine(words, tokens, fallback) IN
                        \A k \in DOMAIN pieces : Holds(text', TextOf(words, pieces[k]), Characters)
      BY DEF SegmentIsRead
    <2> DEFINE pieces == Refine(words, tokens, fallback)
    <2>1. \A k \in 1 .. Len(pieces) : Holds(text', TextOf(words, pieces[k]), Characters)
      BY <1>1, SegmentJoined
    <2>2. DOMAIN pieces = 1 .. Len(pieces)
      BY <1>1, Refined DEF Reproduces
    <2> QED  BY <2>1, <2>2
  <1> QED  BY TextInductive, <1>1, PTL DEF Spec

\* Refining and appending segments leaves the turns of the window as the
\* chunks made them (refine_segments_with_turns reads the turns).
THEOREM WordingKeepsTurns == Spec => TurnsSpec
  <1>1. Init => TurnsInit
    BY DEF Init
  <1>2. ASSUME [Next]_vars  PROVE [TurnsNext]_turnVars
    BY <1>2 DEF Next, vars, Cut, HearUntimed, HearToken, Hear, CloseSegment
  <1> QED  BY <1>1, <1>2, PTL DEF Spec, TurnsSpec
=============================================================================
