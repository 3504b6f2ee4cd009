------------------------- MODULE AudioRequestsProofs -------------------------
(***************************************************************************)
(* Theorems about AudioRequests, for any number of files, any durations    *)
(* and any limits.                                                         *)
(***************************************************************************)
EXTENDS AudioRequests, FiniteSetTheorems, SequenceTheorems, WellFoundedInduction, TLAPS

-----------------------------------------------------------------------------
(* The files of a request                                                  *)

Known == {paths[i] : i \in DOMAIN paths}

\* Until the handler removes them it knows every file, the one that is being
\* copied excepted, and none twice.
PathsInv ==
  /\ paths \in Seq(Nat)
  /\ \A i, j \in DOMAIN paths : paths[i] = paths[j] => i = j
  /\ At("waiting") => paths = <<>>
  /\ pc \notin {"cleanup", "ended"} => \A i \in DOMAIN paths : paths[i] = i

FilesInv ==
  mishap = "none" =>
    /\ pc \notin {"copy", "ended"} => temp = Known
    /\ At("copy") => temp = Known \cup {Upcoming}
    /\ At("ended") => temp = {}

Inv == PathsInv /\ FilesInv

LEMMA InitKeeps == Init => Inv
  BY DEF Init, Inv, PathsInv, FilesInv, Known, At

\* What does not touch the files may go anywhere but to a copy or to the end.
LEMMA ElsewhereKeeps ==
  ASSUME Inv, pc \notin {"copy", "cleanup", "ended"}, pc' \notin {"waiting", "copy", "ended"},
         UNCHANGED <<paths, temp, mishap>>
  PROVE  Inv'
  BY DEF Inv, PathsInv, FilesInv, Known, At

LEMMA ReceiveKeeps ==
  ASSUME Inv, NEW e, NEW n, Receive(e, n)
  PROVE  Inv'
  BY DEF Inv, PathsInv, FilesInv, Known, At, Receive, Goto, work

LEMMA NextKeeps ==
  ASSUME Inv, [Next]_vars
  PROVE  Inv'
  <1>1. ASSUME NEW e, NEW n, Receive(e, n)
        PROVE  Inv'
    BY <1>1, ReceiveKeeps
  <1>2. CASE Create
    BY <1>2 DEF Create, Inv, PathsInv, FilesInv, Known, At, Goto, Upcoming
  <1>3. CASE Copied
    BY <1>3 DEF Copied, Inv, PathsInv, FilesInv, Known, At, Goto, Upcoming
  <1>11. CASE CloseFails
    BY <1>11 DEF CloseFails, Inv, PathsInv, FilesInv, Known, At, Goto, Upcoming
  <1>4. CASE CopyFails
    BY <1>4 DEF CopyFails, Inv, PathsInv, FilesInv, Known, At, Goto, Upcoming
  <1>5. CASE CopyCancelled
    BY <1>5 DEF CopyCancelled, Inv, PathsInv, FilesInv, Known, At, Goto, Upcoming
  <1>6. CASE Validate \/ Refuse \/ Infer \/ Cluster \/ Analyze
    BY <1>6, ElsewhereKeeps DEF Validate, Refuse, Infer, Cluster, Analyze, At, Goto
  <1>7. ASSUME NEW similar, Compare(similar)
        PROVE  Inv'
    BY <1>7, ElsewhereKeeps DEF Compare, At
  <1>8. CASE RemoveFile
    <2>1. CASE temp' = temp \ {Head(paths)} /\ paths' = Tail(paths) /\ UNCHANGED <<pc, mishap>>
      <3>1. paths \in Seq(Nat) /\ paths # <<>> /\ pc = "cleanup" /\ pc' = "cleanup"
        BY <1>8, <2>1 DEF RemoveFile, Inv, PathsInv, At
      <3>2. /\ paths' \in Seq(Nat) /\ DOMAIN paths = 1..Len(paths) /\ Len(paths) > 0
            /\ DOMAIN paths' = 1..(Len(paths) - 1)
            /\ \A i \in DOMAIN paths' : i + 1 \in DOMAIN paths /\ paths'[i] = paths[i + 1]
            /\ Head(paths) = paths[1]
        BY <2>1, <3>1
      <3>3. PathsInv'
        BY <1>8, <3>1, <3>2 DEF Inv, PathsInv, At
      <3>4. Known' = Known \ {Head(paths)}
        <4>1. ASSUME NEW i \in DOMAIN paths'
              PROVE  paths'[i] \in Known \ {Head(paths)}
          <5>1. i + 1 \in DOMAIN paths /\ 1 \in DOMAIN paths /\ i + 1 # 1
            BY <3>2
          <5>2. paths[i + 1] # paths[1]
            BY <5>1 DEF Inv, PathsInv
          <5> QED  BY <3>2, <5>1, <5>2 DEF Known
        <4>2. ASSUME NEW i \in DOMAIN paths, paths[i] # Head(paths)
              PROVE  paths[i] \in Known'
          <5>1. i - 1 \in DOMAIN paths' /\ paths'[i - 1] = paths[i]
            BY <3>2, <4>2
          <5> QED  BY <5>1 DEF Known
        <4> QED  BY <4>1, <4>2 DEF Known
      <3>5. FilesInv'
        BY <2>1, <3>1, <3>4 DEF Inv, FilesInv, At
      <3> QED  BY <3>3, <3>5 DEF Inv
    <2>2. CASE mishap' = "undeletable" /\ Goto("ended") /\ UNCHANGED <<temp, paths>>
      BY <1>8, <2>2 DEF RemoveFile, Inv, PathsInv, FilesInv, Known, At, Goto
    <2> QED  BY <1>8, <2>1, <2>2 DEF RemoveFile
  <1>9. CASE Respond
    BY <1>9 DEF Respond, Inv, PathsInv, FilesInv, Known, At, Goto
  <1>10. CASE UNCHANGED vars
    BY <1>10 DEF vars, Inv, PathsInv, FilesInv, Known, At, Upcoming
  <1> QED  BY <1>1, <1>2, <1>3, <1>4, <1>5, <1>6, <1>7, <1>8, <1>9, <1>10, <1>11 DEF Next

\* NothingLeft: whatever is refused, fails or is cancelled, and wherever, when
\* the handler has ended no temporary file is left, but for one that could not
\* be removed, whose upload could not be closed, or that was being copied when
\* the server was stopped by force.
THEOREM NoneLeft == Spec => []NothingLeft
  <1>1. Inv => NothingLeft
    BY DEF Inv, FilesInv, NothingLeft
  <1> QED  BY <1>1, InitKeeps, NextKeeps, PTL DEF Spec

-----------------------------------------------------------------------------
(* Natural numbers *)

LEMMA LeastNumber ==
  ASSUME NEW T, T \subseteq Nat, T # {}
  PROVE  \E x \in T : \A y \in T : x <= y
  <1>1. IsWellFoundedOn(OpToRel(<, Nat), Nat)
    BY NatLessThanWellFounded
  <1>2. PICK x \in T : \A y \in T : ~ (<<y, x>> \in OpToRel(<, Nat))
    BY <1>1, WFMin
  <1>3. ASSUME NEW y \in T  PROVE x <= y
    <2>1. ~ (<<y, x>> \in {ss \in Nat \X Nat : ss[1] < ss[2]})
      BY <1>2 DEF OpToRel
    <2> QED  BY <2>1
  <1> QED  BY <1>3

LEMMA MinIs ==
  ASSUME NEW T, T \subseteq Nat, T # {}
  PROVE  Min(T) \in T /\ \A y \in T : Min(T) <= y
  BY LeastNumber DEF Min

\* A set that has 0, and n + 1 with n, has every number.
LEMMA Induct ==
  ASSUME NEW T, 0 \in T, \A n \in Nat : n \in T => n + 1 \in T
  PROVE  Nat \subseteq T
  <1> SUFFICES ASSUME Nat \ T # {}  PROVE FALSE
    OBVIOUS
  <1>1. PICK x \in Nat \ T : \A y \in Nat \ T : x <= y
    BY LeastNumber
  <1>2. x - 1 \in Nat /\ x - 1 \in T /\ x - 1 + 1 = x
    BY <1>1
  <1> QED  BY <1>1, <1>2

-----------------------------------------------------------------------------
(* The windows of a clip *)

Clips == {clip \in Nat : 120 <= clip}

\* n windows: the last but one ends before the clip does, and the last would
\* end with it or after it.
Fits(clip, n) == n \in Nat /\ 3 <= n /\ 30 * n < clip /\ clip <= 30 * n + 30

LEMMA WindowsAre ==
  ASSUME NEW clip \in Clips
  PROVE  \E n \in Nat : Fits(clip, n) /\ WindowsOf(clip) = 0 .. n - 1
  <1> DEFINE n == (clip - 1) \div 30
  <1>1. clip \in Nat /\ 120 <= clip
    BY DEF Clips
  <1>2. n \in Int /\ 30 * n <= clip - 1 /\ clip - 1 < 30 * n + 30
    BY <1>1
  <1> HIDE DEF n
  <1>3. Fits(clip, n)
    BY <1>1, <1>2 DEF Fits
  <1>4. clip \div 30 \in Int /\ 30 * (clip \div 30) <= clip /\ clip < 30 * (clip \div 30) + 30
    BY <1>1
  <1>5. ASSUME NEW k \in Int
        PROVE  k \in WindowsOf(clip) <=> k \in 0 .. n - 1
    <2>1. k \in WindowsOf(clip) <=>
            0 <= k /\ k <= clip \div 30 /\ (k = 0 \/ (30 * (k - 1) + 60 < clip))
      BY <1>1, <1>4 DEF WindowsOf, WindowEnd, Least, ChunkShift, ChunkTime
    <2> QED  BY <1>1, <1>2, <1>3, <1>4, <2>1 DEF Fits
  <1>6. WindowsOf(clip) = 0 .. n - 1
    <2>1. WindowsOf(clip) \subseteq Int
      BY DEF WindowsOf
    <2>2. 0 .. n - 1 \subseteq Int
      BY <1>2
    <2> HIDE DEF n
    <2>3. \A k : k \in WindowsOf(clip) <=> k \in 0 .. n - 1
      BY <1>5, <2>1, <2>2
    <2> QED  BY <2>3
  <1> QED  BY <1>3, <1>6 DEF Fits

\* Every window but the last is a whole one; the last is moved back.
LEMMA WindowIs ==
  ASSUME NEW clip \in Clips, NEW n, Fits(clip, n), NEW k \in 0 .. n - 1
  PROVE  /\ k < n - 1 => WindowStart(k, clip) = 30 * k /\ WindowEnd(k, clip) = 30 * k + 60
         /\ k = n - 1 => WindowStart(k, clip) = clip - 60 /\ WindowEnd(k, clip) = clip
  BY DEF Clips, Fits, WindowStart, WindowEnd, Least, Most, ChunkShift, ChunkTime

\* Where the turns may begin.
LEMMA BeginIs ==
  ASSUME NEW clip \in Clips, NEW n, Fits(clip, n), NEW k \in 0 .. n - 1
  PROVE  /\ Begin(k, clip) \in Nat
         /\ k = 0 => Begin(k, clip) = 0
         /\ 0 < k /\ k < n - 1 => Begin(k, clip) = 30 * k + 15
         /\ k = n - 1 => /\ 30 * n - 30 <= Begin(k, clip) /\ Begin(k, clip) <= 30 * n - 15
                         /\ clip - 60 <= Begin(k, clip) /\ Begin(k, clip) + 31 <= clip
  <1>1. clip \in Nat /\ n \in Nat /\ 3 <= n /\ 30 * n < clip /\ clip <= 30 * n + 30 /\ k \in Nat
    BY DEF Clips, Fits
  <1>2. CASE k = 0
    BY <1>1, <1>2 DEF Begin
  <1>3. CASE 0 < k /\ k < n - 1
    <2>1. WindowEnd(k - 1, clip) = 30 * k + 30 /\ WindowStart(k, clip) = 30 * k
      BY <1>1, <1>3, WindowIs
    <2>2. Begin(k, clip) = (30 * k + 30 + 30 * k) \div 2
      BY <1>3, <2>1 DEF Begin
    <2> QED  BY <1>1, <1>3, <2>2
  <1>4. CASE k = n - 1
    <2>1. WindowEnd(k - 1, clip) = 30 * n /\ WindowStart(k, clip) = clip - 60
      BY <1>1, <1>4, WindowIs
    <2>2. Begin(k, clip) = (30 * n + (clip - 60)) \div 2
      BY <1>1, <1>4, <2>1 DEF Begin
    <2> QED  BY <1>1, <1>4, <2>2
  <1> QED  BY <1>1, <1>2, <1>3, <1>4

LEMMA BeginAscends ==
  ASSUME NEW clip \in Clips, NEW n, Fits(clip, n), NEW j \in 0 .. n - 1, NEW k \in 0 .. n - 1, j < k
  PROVE  /\ Begin(j, clip) + 15 <= Begin(k, clip)
         /\ ~(j = n - 2 /\ k = n - 1) => Begin(j, clip) + 30 <= Begin(k, clip)
         /\ Begin(k, clip) + 31 <= clip
  <1>1. clip \in Nat /\ n \in Nat /\ 3 <= n /\ 30 * n < clip /\ clip <= 30 * n + 30
        /\ j \in Nat /\ k \in Nat
    BY DEF Clips, Fits
  <1>2. /\ j = 0 => Begin(j, clip) = 0
        /\ 0 < j => Begin(j, clip) = 30 * j + 15
    BY <1>1, BeginIs
  <1>3. /\ k < n - 1 => Begin(k, clip) = 30 * k + 15
        /\ k = n - 1 => 30 * n - 30 <= Begin(k, clip) /\ Begin(k, clip) + 31 <= clip
        /\ Begin(k, clip) \in Nat
    BY <1>1, BeginIs
  <1> QED  BY <1>1, <1>2, <1>3

-----------------------------------------------------------------------------
(* The smoothed labels of n windows                                        *)

Labels(n) == [0 .. n - 1 -> BOOLEAN]

Stays(heard, clip, k) ==
  LET starts == Starts(heard)
  IN End(starts, k, clip) - Begin(k, clip) >= ShortTurn \/ starts = {0}

\* The label of window k, after that of window k - 1.
Smoothed(heard, clip, before, k) ==
  IF k \in Starts(heard) /\ Stays(heard, clip, k) THEN heard[k]
  ELSE IF k = 0 THEN heard[Min(Later(Starts(heard), 0))] ELSE before

SmoothsFirst(label, heard, clip, n) ==
  label = [k \in 0 .. n |-> Smoothed(heard, clip, label[k - 1], k)]

LEMMA SmoothShortTurnsIs ==
  ASSUME NEW n \in Nat, NEW heard \in Labels(n + 1), NEW clip
  PROVE  /\ SmoothShortTurns(heard, clip) = [k \in 0 .. n |-> SmoothShortTurns(heard, clip)[k]]
         /\ \A k \in 0 .. n :
              SmoothShortTurns(heard, clip)[k]
                = Smoothed(heard, clip, SmoothShortTurns(heard, clip)[k - 1], k)
  <1> DEFINE T == {i \in Nat : \E m : SmoothsFirst(m, heard, clip, i)}
  <1>1. 0 \in T
    <2> DEFINE m == [k \in 0 .. 0 |-> Smoothed(heard, clip, FALSE, k)]
    <2>1. ASSUME NEW b, NEW c
          PROVE  Smoothed(heard, clip, b, 0) = Smoothed(heard, clip, c, 0)
      BY DEF Smoothed
    <2>2. \A k \in 0 .. 0 : m[k] = Smoothed(heard, clip, m[k - 1], k)
      <3>1. m[0] = Smoothed(heard, clip, FALSE, 0)
        OBVIOUS
      <3> HIDE DEF m
      <3>2. m[0] = Smoothed(heard, clip, m[0 - 1], 0)
        BY <2>1, <3>1
      <3> QED  BY <3>2
    <2>3. SmoothsFirst(m, heard, clip, 0)
      BY <2>2 DEF SmoothsFirst
    <2> QED  BY <2>3
  <1>2. ASSUME NEW i \in Nat, i \in T  PROVE i + 1 \in T
    <2>1. PICK m : SmoothsFirst(m, heard, clip, i)
      BY <1>2
    <2> DEFINE g == [k \in 0 .. i + 1 |->
                       IF k <= i THEN m[k] ELSE Smoothed(heard, clip, m[i], k)]
    <2>2. \A k \in 0 .. i : m[k] = Smoothed(heard, clip, m[k - 1], k)
      BY <2>1 DEF SmoothsFirst
    <2>3. ASSUME NEW b, NEW c
          PROVE  Smoothed(heard, clip, b, 0) = Smoothed(heard, clip, c, 0)
      BY DEF Smoothed
    <2>4. \A k \in 0 .. i + 1 : g[k] = Smoothed(heard, clip, g[k - 1], k)
      <3>1. ASSUME NEW k \in 0 .. i + 1
            PROVE  g[k] = Smoothed(heard, clip, g[k - 1], k)
        <4>1. CASE k = 0
          BY <2>2, <2>3, <4>1
        <4>2. CASE 0 < k /\ k <= i
          BY <2>2, <4>2
        <4>3. CASE k = i + 1
          BY <4>3
        <4> QED  BY <4>1, <4>2, <4>3
      <3> QED  BY <3>1
    <2>5. SmoothsFirst(g, heard, clip, i + 1)
      BY <2>4 DEF SmoothsFirst
    <2> HIDE DEF g
    <2>6. \E h : SmoothsFirst(h, heard, clip, i + 1)
      BY <2>5
    <2> QED  BY <2>6
  <1> HIDE DEF T
  <1>3. n \in T
    BY <1>1, <1>2, Induct
  <1> DEFINE f == CHOOSE m : SmoothsFirst(m, heard, clip, n)
  <1>4. SmoothsFirst(f, heard, clip, n)
    BY <1>3 DEF T
  <1>5. DOMAIN heard = 0 .. n
    BY DEF Labels
  <1>6. SmoothShortTurns(heard, clip) = f
    BY <1>5 DEF SmoothShortTurns, SmoothsFirst, Smoothed, Stays
  <1> HIDE DEF f
  <1> QED  BY <1>4, <1>6 DEF SmoothsFirst

\* A turn from window k ends before window m, or with the clip.
TurnIs(label, clip, n, k, m) ==
  /\ m = n => Later(Starts(label), k) = {} /\ End(Starts(label), k, clip) = clip
  /\ m < n => /\ Later(Starts(label), k) # {} /\ m \in Starts(label)
              /\ End(Starts(label), k, clip) = Begin(m, clip)
  /\ \A j \in k .. m - 1 : label[j] = label[k]

LEMMA TurnEnds ==
  ASSUME NEW n \in Nat, NEW label \in Labels(n), NEW clip, NEW k \in Starts(label)
  PROVE  /\ k \in 0 .. n - 1
         /\ \E m \in k + 1 .. n : TurnIs(label, clip, n, k, m)
  <1> DEFINE later == Later(Starts(label), k)
  <1>1. DOMAIN label = 0 .. n - 1
    BY DEF Labels
  <1>2. Starts(label) \subseteq 0 .. n - 1 /\ later \subseteq k + 1 .. n - 1 /\ k \in 0 .. n - 1
    BY <1>1 DEF Starts, Later
  <1>3. PICK m \in k + 1 .. n :
          /\ m = n => later = {}
          /\ m < n => m \in later /\ Min(later) = m
          /\ \A j \in later : m <= j
    <2>1. CASE later = {}
      BY <1>2, <2>1
    <2>2. CASE later # {}
      <3>1. later \subseteq Nat
        BY <1>2
      <3>2. Min(later) \in later /\ \A y \in later : Min(later) <= y
        BY <2>2, <3>1, MinIs
      <3> QED  BY <1>2, <3>2
    <2> QED  BY <2>1, <2>2
  <1>4. \A j \in k .. m - 1 : label[j] = label[k]
    <2> DEFINE T == {i \in Nat : k + i < m => label[k + i] = label[k]}
    <2>1. 0 \in T
      BY <1>2
    <2>2. ASSUME NEW i \in Nat, i \in T  PROVE i + 1 \in T
      <3>1. CASE k + (i + 1) < m
        <4>1. k + (i + 1) \in 0 .. n - 1 /\ k + (i + 1) \notin later /\ k + (i + 1) > k
          BY <1>2, <1>3, <3>1
        <4>2. k + (i + 1) \notin Starts(label)
          BY <4>1 DEF Later
        <4>3. label[k + (i + 1)] = label[k + (i + 1) - 1]
          BY <1>1, <1>2, <4>1, <4>2 DEF Starts
        <4>4. k + (i + 1) - 1 = k + i /\ k + i < m
          BY <1>2, <3>1
        <4> QED  BY <2>2, <4>3, <4>4
      <3>2. CASE ~(k + (i + 1) < m)
        BY <3>2
      <3> QED  BY <3>1, <3>2
    <2> HIDE DEF T
    <2>3. Nat \subseteq T
      BY <2>1, <2>2, Induct
    <2>4. ASSUME NEW j \in k .. m - 1  PROVE label[j] = label[k]
      <3>1. j - k \in Nat /\ k + (j - k) = j /\ j < m
        BY <1>2
      <3>2. j - k \in T
        BY <2>3, <3>1
      <3> QED  BY <3>1, <3>2 DEF T
    <2> QED  BY <2>4
  <1>5. TurnIs(label, clip, n, k, m)
    <2>1. m = n => later = {} /\ End(Starts(label), k, clip) = clip
      BY <1>3 DEF End
    <2>2. m < n => later # {} /\ m \in Starts(label) /\ End(Starts(label), k, clip) = Begin(m, clip)
      <3>1. CASE m < n
        <4>1. later # {} /\ Min(later) = m
          BY <1>3, <3>1
        <4>2. m \in Starts(label)
          BY <1>3, <3>1 DEF Later
        <4>3. End(Starts(label), k, clip) = Begin(m, clip)
          BY <4>1 DEF End
        <4> QED  BY <4>1, <4>2, <4>3
      <3> QED  BY <3>1
    <2> QED  BY <1>4, <2>1, <2>2 DEF TurnIs
  <1> QED  BY <1>2, <1>5

\* Only the turn of the last window but one can be short.
LEMMA LongStays ==
  ASSUME NEW clip \in Clips, NEW n, Fits(clip, n), NEW heard \in Labels(n),
         NEW k \in Starts(heard), k # n - 2 \/ n - 1 \notin Starts(heard)
  PROVE  Stays(heard, clip, k)
  <1>1. n \in Nat /\ 3 <= n /\ 30 * n < clip /\ clip \in Nat
    BY DEF Fits, Clips
  <1>2. k \in 0 .. n - 1
    BY <1>1, TurnEnds
  <1>3. PICK m \in k + 1 .. n : TurnIs(heard, clip, n, k, m)
    BY <1>1, TurnEnds
  <1>4. Begin(k, clip) \in Nat /\ Begin(k, clip) + 31 <= clip
    <2>1. CASE k = n - 1
      BY <1>1, <1>2, <2>1, BeginIs
    <2>2. CASE k # n - 1
      <3>1. n - 1 \in 0 .. n - 1 /\ k < n - 1
        BY <1>1, <1>2, <2>2
      <3>2. Begin(k, clip) + 15 <= Begin(n - 1, clip) /\ Begin(n - 1, clip) + 31 <= clip
        BY <1>2, <3>1, BeginAscends
      <3>3. Begin(k, clip) \in Nat /\ Begin(n - 1, clip) \in Nat
        BY <1>2, <3>1, BeginIs
      <3> QED  BY <1>1, <3>2, <3>3
    <2> QED  BY <2>1, <2>2
  <1>5. CASE m = n
    BY <1>1, <1>3, <1>4, <1>5 DEF TurnIs, Stays, ShortTurn
  <1>6. CASE m < n
    <2>1. m \in Starts(heard) /\ End(Starts(heard), k, clip) = Begin(m, clip)
      BY <1>3, <1>6 DEF TurnIs
    <2>2. m \in 0 .. n - 1 /\ k < m /\ ~(k = n - 2 /\ m = n - 1)
      BY <1>1, <1>2, <1>6, <2>1
    <2>3. Begin(k, clip) + 30 <= Begin(m, clip) /\ Begin(m, clip) \in Nat
      BY <1>2, <2>2, BeginAscends, BeginIs
    <2> QED  BY <1>4, <2>1, <2>3 DEF Stays, ShortTurn
  <1> QED  BY <1>1, <1>2, <1>5, <1>6

\* Smoothing changes at most the label of the last window but one, between two
\* windows that agree against it.
LEMMA SmoothedIs ==
  ASSUME NEW clip \in Clips, NEW n, Fits(clip, n), NEW heard \in Labels(n)
  PROVE  LET label == SmoothShortTurns(heard, clip)
         IN /\ label \in Labels(n)
            /\ \A k \in 0 .. n - 1 : k # n - 2 => label[k] = heard[k]
            /\ label[n - 2] = heard[n - 2]
                 \/ (label[n - 2] = heard[n - 3] /\ label[n - 2] = heard[n - 1])
  <1> DEFINE label == SmoothShortTurns(heard, clip)
  <1>1. n \in Nat /\ 3 <= n /\ n - 1 \in Nat /\ n - 1 + 1 = n
    BY DEF Fits
  <1>2. /\ label = [k \in 0 .. n - 1 |-> label[k]]
        /\ \A k \in 0 .. n - 1 : label[k] = Smoothed(heard, clip, label[k - 1], k)
    BY <1>1, SmoothShortTurnsIs
  <1> HIDE DEF label
  <1>5. DOMAIN heard = 0 .. n - 1 /\ \A k \in 0 .. n - 1 : heard[k] \in BOOLEAN
    BY DEF Labels
  <1>6. ASSUME NEW k \in 0 .. n - 1, k \notin Starts(heard)
        PROVE  k # 0 /\ heard[k] = heard[k - 1] /\ label[k] = label[k - 1]
    <2>1. k # 0 /\ heard[k] = heard[k - 1]
      BY <1>5, <1>6 DEF Starts
    <2> QED  BY <1>2, <1>6, <2>1 DEF Smoothed
  <1>7. ASSUME NEW k \in Starts(heard), k # n - 2 \/ n - 1 \notin Starts(heard)
        PROVE  label[k] = heard[k]
    <2>1. k \in 0 .. n - 1
      BY <1>5 DEF Starts
    <2>2. Stays(heard, clip, k)
      BY <1>7, LongStays
    <2> QED  BY <1>2, <1>7, <2>1, <2>2 DEF Smoothed
  <1>8. \A k \in 0 .. n - 3 : label[k] = heard[k]
    <2> DEFINE T == {k \in Nat : k <= n - 3 => label[k] = heard[k]}
    <2>1. 0 \in T
      <3>1. 0 \in Starts(heard)
        BY <1>1, <1>5 DEF Starts
      <3>2. 0 # n - 2
        BY <1>1
      <3> QED  BY <1>7, <3>1, <3>2
    <2>2. ASSUME NEW i \in Nat, i \in T  PROVE i + 1 \in T
      <3>1. CASE i + 1 <= n - 3 /\ i + 1 \in Starts(heard)
        <4>1. i + 1 # n - 2
          BY <1>1, <3>1
        <4> QED  BY <1>7, <3>1, <4>1
      <3>2. CASE i + 1 <= n - 3 /\ i + 1 \notin Starts(heard)
        <4>1. i + 1 \in 0 .. n - 1 /\ i + 1 - 1 = i /\ i <= n - 3
          BY <1>1, <3>2
        <4>2. heard[i + 1] = heard[i] /\ label[i + 1] = label[i]
          BY <1>6, <3>2, <4>1
        <4> QED  BY <2>2, <4>1, <4>2
      <3>3. CASE ~(i + 1 <= n - 3)
        BY <3>3
      <3> QED  BY <3>1, <3>2, <3>3
    <2> HIDE DEF T
    <2>3. Nat \subseteq T
      BY <2>1, <2>2, Induct
    <2> QED  BY <1>1, <2>3 DEF T
  <1>9. /\ n - 3 \in 0 .. n - 3 /\ n - 2 \in 0 .. n - 1 /\ n - 1 \in 0 .. n - 1
        /\ n - 2 - 1 = n - 3 /\ n - 1 - 1 = n - 2 /\ n - 2 # 0 /\ n - 1 # 0 /\ n - 1 # n - 2
        /\ n - 3 \in 0 .. n - 1
    BY <1>1
  <1>10. label[n - 2] = heard[n - 2] \/ (label[n - 2] = heard[n - 3] /\ label[n - 2] = heard[n - 1])
    <2>1. CASE n - 2 \notin Starts(heard)
      BY <1>6, <1>8, <1>9, <2>1
    <2>2. CASE n - 2 \in Starts(heard) /\ n - 1 \notin Starts(heard)
      BY <1>7, <2>2
    <2>3. CASE n - 2 \in Starts(heard) /\ n - 1 \in Starts(heard)
      <3>1. heard[n - 2] # heard[n - 3] /\ heard[n - 1] # heard[n - 2]
        BY <1>9, <2>3 DEF Starts
      <3>2. heard[n - 1] = heard[n - 3]
        BY <1>5, <1>9, <3>1
      <3>3. label[n - 2] = heard[n - 2] \/ label[n - 2] = label[n - 3]
        BY <1>2, <1>9 DEF Smoothed
      <3> QED  BY <1>8, <1>9, <3>2, <3>3
    <2> QED  BY <2>1, <2>2, <2>3
  <1>11. label[n - 1] = heard[n - 1]
    <2>1. CASE n - 1 \in Starts(heard)
      BY <1>7, <1>9, <2>1
    <2>2. CASE n - 1 \notin Starts(heard)
      <3>1. heard[n - 1] = heard[n - 2] /\ label[n - 1] = label[n - 2]
        BY <1>6, <1>9, <2>2
      <3>2. label[n - 2] = heard[n - 2]
        BY <1>10, <3>1
      <3> QED  BY <3>1, <3>2
    <2> QED  BY <2>1, <2>2
  <1>12. \A k \in 0 .. n - 1 : k # n - 2 => label[k] = heard[k]
    BY <1>1, <1>8, <1>11
  <1>13. label \in Labels(n)
    <2>1. \A k \in 0 .. n - 1 : label[k] \in BOOLEAN
      BY <1>5, <1>9, <1>10, <1>12
    <2> QED  BY <1>2, <2>1 DEF Labels
  <1> QED  BY <1>10, <1>12, <1>13 DEF label

-----------------------------------------------------------------------------
(* What is left between the margins                                        *)

Heard(m) == [k \in 0 .. Len(m) - 1 |-> m[k + 1]]

LabelOf(m, clip) == SmoothShortTurns(Heard(m), clip)

\* What is left of the turn from window k on.
CleanOf(file, clip, label, k) ==
  LET start == Least(End(Starts(label), k, clip), Begin(k, clip) + Margin(k = 0))
  IN Turn(file, start,
          Most(start, End(Starts(label), k, clip) - Margin(Later(Starts(label), k) = {})),
          label[k])

Bound(clip, n, m) == IF m = n THEN clip ELSE Begin(m, clip)

\* r is what is left, and something is, of the turn of windows k .. m - 1.
RangeOf(r, file, clip, n, label, k, m) ==
  /\ k \in 0 .. n - 1 /\ m \in k + 1 .. n
  /\ k \in Starts(label) /\ TurnIs(label, clip, n, k, m)
  /\ r = CleanOf(file, clip, label, k)
  /\ r.file = file
  /\ r.start = Begin(k, clip) + Margin(k = 0)
  /\ r.end = Bound(clip, n, m) - Margin(m = n)
  /\ r.start < r.end
  /\ r.stable = label[k]

LEMMA RangeIs ==
  ASSUME NEW clip \in Clips, NEW n, Fits(clip, n), NEW match1 \in Seq(BOOLEAN), Len(match1) = n,
         NEW file, NEW r \in CleanTurns(file, clip, match1), Length(r) > 0
  PROVE  /\ LabelOf(match1, clip) \in Labels(n)
         /\ \E k, m : RangeOf(r, file, clip, n, LabelOf(match1, clip), k, m)
  <1> DEFINE label == LabelOf(match1, clip)
  <1>1. n \in Nat /\ 3 <= n /\ clip \in Nat
    BY DEF Fits, Clips
  <1>2. Heard(match1) \in Labels(n)
    BY <1>1 DEF Heard, Labels
  <1>3. label \in Labels(n)
    BY <1>2, SmoothedIs DEF LabelOf
  <1>4. PICK k \in Starts(label) : r = CleanOf(file, clip, label, k)
    BY DEF CleanTurns, CleanOf, LabelOf, Heard
  <1> HIDE DEF label
  <1>5. PICK m \in k + 1 .. n : TurnIs(label, clip, n, k, m)
    BY <1>1, <1>3, TurnEnds
  <1>6. k \in 0 .. n - 1
    BY <1>1, <1>3, TurnEnds
  <1> DEFINE end == End(Starts(label), k, clip)
             begin == Begin(k, clip)
  <1>7. begin \in Nat
    BY <1>6, BeginIs
  <1>8. end = Bound(clip, n, m) /\ (Later(Starts(label), k) = {} <=> m = n) /\ end \in Nat
    <2>1. CASE m = n
      BY <1>1, <1>5, <2>1 DEF TurnIs, Bound
    <2>2. CASE m # n
      <3>1. m < n /\ m \in 0 .. n - 1
        BY <1>1, <1>6, <2>2
      <3>2. Begin(m, clip) \in Nat
        BY <3>1, BeginIs
      <3> QED  BY <1>5, <2>2, <3>1, <3>2 DEF TurnIs, Bound
    <2> QED  BY <2>1, <2>2
  <1> DEFINE start == Least(end, begin + Margin(k = 0))
             last == Most(start, end - Margin(m = n))
  <1>9. r = Turn(file, start, last, label[k])
    BY <1>4, <1>8 DEF CleanOf
  <1>10. /\ r.file = file /\ r.start = start /\ r.end = last /\ r.stable = label[k]
         /\ last - start > 0
    BY <1>9 DEF Turn, Length
  <1>11. Margin(k = 0) \in {10, 20} /\ Margin(m = n) \in {10, 20}
    BY DEF Margin, EdgeMargin, BoundaryMargin
  <1> HIDE DEF end, begin
  <1>12. start = begin + Margin(k = 0) /\ last = end - Margin(m = n) /\ start < last
    BY <1>7, <1>8, <1>10, <1>11 DEF Least, Most
  <1> HIDE DEF start, last
  <1>13. RangeOf(r, file, clip, n, label, k, m)
    BY <1>4, <1>5, <1>6, <1>8, <1>10, <1>12 DEF RangeOf, begin
  <1> QED  BY <1>3, <1>13 DEF label

\* A moment of a turn is in one of the windows the turn is made of.
LEMMA WindowThere ==
  ASSUME NEW clip \in Clips, NEW n, Fits(clip, n), NEW k \in 0 .. n - 1, NEW m \in k + 1 .. n,
         NEW t \in Int, Begin(k, clip) <= t, t < Bound(clip, n, m)
  PROVE  \E w \in k .. m - 1 : Begin(w, clip) <= t /\ t < Bound(clip, n, w + 1)
  <1> DEFINE T == {w \in k .. m - 1 : t < Bound(clip, n, w + 1)}
  <1>1. n \in Nat /\ k \in Nat /\ m \in Nat /\ m - 1 + 1 = m
    BY DEF Fits
  <1>2. m - 1 \in T
    BY <1>1
  <1>3. T \subseteq Nat /\ T # {}
    BY <1>1, <1>2
  <1>4. PICK w \in T : \A y \in T : w <= y
    BY <1>3, LeastNumber
  <1>5. w \in k .. m - 1 /\ t < Bound(clip, n, w + 1)
    BY <1>4
  <1>6. CASE w = k
    BY <1>5, <1>6
  <1>7. CASE w # k
    <2>1. w - 1 \in k .. m - 1 /\ w - 1 + 1 = w /\ w # n /\ w \in 0 .. n - 1 /\ ~(w <= w - 1)
      BY <1>1, <1>5, <1>7
    <2>2. ~(t < Bound(clip, n, w))
      <3>1. w - 1 \notin T
        BY <1>4, <2>1
      <3> QED  BY <2>1, <3>1
    <2>3. Bound(clip, n, w) = Begin(w, clip) /\ Begin(w, clip) \in Nat
      BY <2>1, BeginIs DEF Bound
    <2>4. Begin(w, clip) <= t
      BY <2>2, <2>3
    <2> QED  BY <1>5, <2>4
  <1> QED  BY <1>6, <1>7

\* Each moment of a range of a matching turn is in a window that matches.
LEMMA RangeHeard ==
  ASSUME NEW clip \in Clips, NEW n, Fits(clip, n), NEW match1 \in Seq(BOOLEAN), Len(match1) = n,
         NEW file, NEW r, NEW k, NEW m, RangeOf(r, file, clip, n, LabelOf(match1, clip), k, m),
         r.stable, NEW t \in r.start .. r.end - 1
  PROVE  \E w \in 0 .. n - 1 :
           match1[w + 1] /\ WindowStart(w, clip) <= t /\ t < WindowEnd(w, clip)
  <1> DEFINE label == LabelOf(match1, clip)
             heard == Heard(match1)
  <1>1. /\ n \in Nat /\ 3 <= n /\ clip \in Nat /\ 30 * n < clip /\ clip <= 30 * n + 30
        /\ k \in 0 .. n - 1 /\ m \in k + 1 .. n
    BY DEF Fits, Clips, RangeOf
  <1>2. heard \in Labels(n) /\ \A w \in 0 .. n - 1 : heard[w] = match1[w + 1]
    BY <1>1 DEF Heard, Labels
  <1>3. /\ \A w \in 0 .. n - 1 : w # n - 2 => label[w] = heard[w]
        /\ label[n - 2] = heard[n - 2]
             \/ (label[n - 2] = heard[n - 3] /\ label[n - 2] = heard[n - 1])
    BY <1>2, SmoothedIs DEF LabelOf
  <1> HIDE DEF heard, label
  <1>4. \A w \in k .. m - 1 : label[w]
    BY DEF RangeOf, TurnIs, label
  <1>5. Begin(k, clip) \in Nat /\ Bound(clip, n, m) \in Nat
    <2>1. m # n => Begin(m, clip) \in Nat
      <3>1. m # n => m \in 0 .. n - 1
        BY <1>1
      <3> QED  BY <3>1, BeginIs
    <2> QED  BY <1>1, <2>1, BeginIs DEF Bound
  <1>6. t \in Int /\ Begin(k, clip) <= t /\ t < Bound(clip, n, m)
    <2>1. Margin(k = 0) \in {10, 20} /\ Margin(m = n) \in {10, 20}
      BY DEF Margin, EdgeMargin, BoundaryMargin
    <2>2. r.start = Begin(k, clip) + Margin(k = 0) /\ r.end = Bound(clip, n, m) - Margin(m = n)
      BY DEF RangeOf
    <2> QED  BY <1>5, <2>1, <2>2
  <1>7. PICK w \in k .. m - 1 : Begin(w, clip) <= t /\ t < Bound(clip, n, w + 1)
    BY <1>1, <1>6, WindowThere
  <1>8. w \in 0 .. n - 1 /\ label[w]
    BY <1>1, <1>4, <1>7
  <1>9. WindowStart(w, clip) <= t /\ t < WindowEnd(w, clip)
    <2>1. CASE w = n - 1
      <3>1. WindowStart(w, clip) = clip - 60 /\ WindowEnd(w, clip) = clip
        BY <1>8, <2>1, WindowIs
      <3>2. clip - 60 <= Begin(w, clip) /\ Begin(w, clip) \in Nat
        BY <1>8, <2>1, BeginIs
      <3>3. w + 1 = n /\ Bound(clip, n, w + 1) = clip
        BY <1>1, <2>1 DEF Bound
      <3> QED  BY <1>1, <1>6, <1>7, <3>1, <3>2, <3>3
    <2>2. CASE w < n - 1
      <3>1. WindowStart(w, clip) = 30 * w /\ WindowEnd(w, clip) = 30 * w + 60
        BY <1>8, <2>2, WindowIs
      <3>2. 30 * w <= Begin(w, clip)
        <4>1. w = 0 \/ (0 < w /\ w < n - 1)
          BY <1>1, <1>8, <2>2
        <4>2. (w = 0 => Begin(w, clip) = 0) /\ (0 < w /\ w < n - 1 => Begin(w, clip) = 30 * w + 15)
          BY <1>8, BeginIs
        <4> QED  BY <1>1, <1>8, <4>1, <4>2
      <3>3. w + 1 \in 0 .. n - 1 /\ 0 < w + 1 /\ w + 1 # n
        BY <1>1, <1>8, <2>2
      <3>4. Bound(clip, n, w + 1) = Begin(w + 1, clip) /\ Begin(w + 1, clip) \in Nat
        BY <3>3, BeginIs DEF Bound
      <3>5. Begin(w + 1, clip) <= 30 * (w + 1) + 15
        <4>1. CASE w + 1 = n - 1
          <5>1. Begin(n - 1, clip) <= 30 * n - 15
            BY <1>1, BeginIs
          <5> QED  BY <1>1, <3>4, <4>1, <5>1
        <4>2. CASE w + 1 # n - 1
          <5>1. w + 1 < n - 1
            BY <1>1, <3>3, <4>2
          <5>2. Begin(w + 1, clip) = 30 * (w + 1) + 15
            BY <3>3, <5>1, BeginIs
          <5> QED  BY <3>4, <5>2
        <4> QED  BY <4>1, <4>2
      <3>6. Begin(w, clip) \in Nat
        BY <1>8, BeginIs
      <3> QED  BY <1>6, <1>7, <1>8, <3>1, <3>2, <3>4, <3>5, <3>6
    <2> QED  BY <1>1, <1>8, <2>1, <2>2
  <1>10. CASE heard[w]
    BY <1>2, <1>8, <1>9, <1>10
  <1>11. CASE ~heard[w]
    <2>1. w = n - 2 /\ heard[n - 3] /\ heard[n - 1]
      BY <1>3, <1>8, <1>11
    <2>2. n - 3 \in 0 .. n - 1 /\ n - 1 \in 0 .. n - 1 /\ n - 3 < n - 1 /\ 0 < n - 2 /\ n - 2 < n - 1
          /\ n - 2 \in 0 .. n - 1
      BY <1>1
    <2>3. /\ WindowStart(n - 3, clip) = 30 * (n - 3) /\ WindowEnd(n - 3, clip) = 30 * (n - 3) + 60
          /\ WindowStart(n - 1, clip) = clip - 60 /\ WindowEnd(n - 1, clip) = clip
      BY <2>2, WindowIs
    <2>4. Begin(n - 2, clip) = 30 * (n - 2) + 15
      BY <2>2, BeginIs
    <2>5. WindowEnd(w, clip) = 30 * (n - 2) + 60
      BY <2>1, <2>2, WindowIs
    <2>6. match1[n - 3 + 1] /\ match1[n - 1 + 1]
      BY <1>2, <2>1, <2>2
    <2>7. CASE t < 30 * (n - 3) + 60
      <3>1. 30 * (n - 3) <= t
        BY <1>1, <1>6, <1>7, <2>1, <2>4
      <3> QED  BY <2>2, <2>3, <2>6, <2>7, <3>1
    <2>8. CASE ~(t < 30 * (n - 3) + 60)
      <3>1. clip - 60 <= t /\ t < clip
        BY <1>1, <1>6, <1>9, <2>5, <2>8
      <3> QED  BY <2>2, <2>3, <2>6, <3>1
    <2> QED  BY <2>7, <2>8
  <1> QED  BY <1>10, <1>11

\* No window that does not match reaches into such a range, but for the last two.
LEMMA RangeClear ==
  ASSUME NEW clip \in Clips, NEW n, Fits(clip, n), NEW match1 \in Seq(BOOLEAN), Len(match1) = n,
         NEW file, NEW r, NEW k, NEW m, RangeOf(r, file, clip, n, LabelOf(match1, clip), k, m),
         r.stable, NEW t \in r.start .. r.end - 1,
         NEW w \in 0 .. n - 3, ~match1[w + 1]
  PROVE  ~(WindowStart(w, clip) <= t /\ t < WindowEnd(w, clip))
  <1> DEFINE label == LabelOf(match1, clip)
             heard == Heard(match1)
  <1>1. /\ n \in Nat /\ 3 <= n /\ clip \in Nat /\ 30 * n < clip /\ clip <= 30 * n + 30
        /\ k \in 0 .. n - 1 /\ m \in k + 1 .. n
    BY DEF Fits, Clips, RangeOf
  <1>2. heard \in Labels(n) /\ heard[w] = match1[w + 1]
    BY <1>1 DEF Heard, Labels
  <1>3. label[w] = heard[w]
    <2>1. w \in 0 .. n - 1 /\ w # n - 2
      BY <1>1
    <2>2. \A j \in 0 .. n - 1 : j # n - 2 => label[j] = heard[j]
      BY <1>2, SmoothedIs DEF LabelOf
    <2> QED  BY <2>1, <2>2
  <1> HIDE DEF heard, label
  <1>4. \A j \in k .. m - 1 : label[j]
    BY DEF RangeOf, TurnIs, label
  <1>5. w < k \/ m <= w
    <2>1. ~label[w]
      BY <1>2, <1>3
    <2>2. w \notin k .. m - 1
      BY <1>4, <2>1
    <2> QED  BY <1>1, <2>2
  <1>6. WindowStart(w, clip) = 30 * w /\ WindowEnd(w, clip) = 30 * w + 60
    BY <1>1, WindowIs
  <1>7. /\ r.start = Begin(k, clip) + Margin(k = 0) /\ r.end = Bound(clip, n, m) - Margin(m = n)
    BY DEF RangeOf
  <1>8. CASE w < k
    <2>1. k # 0 /\ Margin(k = 0) = 20
      BY <1>1, <1>8 DEF Margin, BoundaryMargin
    <2>2. 30 * w + 45 <= Begin(k, clip) /\ Begin(k, clip) \in Nat
      <3>1. CASE k = n - 1
        BY <1>1, <3>1, BeginIs
      <3>2. CASE k # n - 1
        <4>1. 0 < k /\ k < n - 1
          BY <1>1, <2>1, <3>2
        <4>2. Begin(k, clip) = 30 * k + 15
          BY <1>1, <4>1, BeginIs
        <4> QED  BY <1>1, <1>8, <4>2
      <3> QED  BY <3>1, <3>2
    <2> QED  BY <1>6, <1>7, <2>1, <2>2
  <1>9. CASE m <= w
    <2>1. m # n /\ 0 < m /\ m < n - 1 /\ m \in 0 .. n - 1
      BY <1>1, <1>9
    <2>2. Margin(m = n) = 20 /\ Bound(clip, n, m) = 30 * m + 15
      BY <2>1, BeginIs DEF Margin, BoundaryMargin, Bound
    <2> QED  BY <1>1, <1>6, <1>7, <1>9, <2>1, <2>2
  <1> QED  BY <1>5, <1>8, <1>9

\* Two ranges of a clip do not touch.
LEMMA RangesApart ==
  ASSUME NEW clip \in Clips, NEW n, Fits(clip, n), NEW label \in Labels(n),
         NEW file, NEW r, NEW k1, NEW m1, RangeOf(r, file, clip, n, label, k1, m1),
         NEW s, NEW k2, NEW m2, RangeOf(s, file, clip, n, label, k2, m2), k1 < k2
  PROVE  r.end < s.start
  <1>1. /\ n \in Nat /\ k1 \in 0 .. n - 1 /\ m1 \in k1 + 1 .. n /\ k2 \in 0 .. n - 1
    BY DEF Fits, RangeOf
  <1>2. m1 <= k2
    <2>1. SUFFICES ASSUME k2 < m1  PROVE FALSE
      BY <1>1
    <2>2. k2 \in k1 .. m1 - 1 /\ k2 - 1 \in k1 .. m1 - 1 /\ k2 # 0
      BY <1>1, <2>1
    <2>3. label[k2] = label[k2 - 1]
      BY <2>2 DEF RangeOf, TurnIs
    <2> QED  BY <2>2, <2>3 DEF RangeOf, Starts
  <1>3. m1 # n /\ m1 \in 0 .. n - 1
    BY <1>1, <1>2
  <1>4. Begin(m1, clip) <= Begin(k2, clip) /\ Begin(m1, clip) \in Nat /\ Begin(k2, clip) \in Nat
    <2>1. CASE m1 = k2
      BY <1>1, <1>3, <2>1, BeginIs
    <2>2. CASE m1 < k2
      BY <1>1, <1>3, <2>2, BeginIs, BeginAscends
    <2> QED  BY <1>1, <1>2, <2>1, <2>2
  <1>5. Margin(m1 = n) \in {10, 20} /\ Margin(k2 = 0) \in {10, 20}
    BY DEF Margin, EdgeMargin, BoundaryMargin
  <1> QED  BY <1>3, <1>4, <1>5 DEF RangeOf, Bound

-----------------------------------------------------------------------------
(* The samples of a request                                                *)

Grouped ==
  /\ clips # <<>>
  /\ group \in [DOMAIN clips -> DOMAIN clips]
  /\ match \in [DOMAIN clips -> Seq(BOOLEAN)]

Analysed ==
  /\ Grouped
  /\ \A i \in DOMAIN clips : Compared(i)
  /\ analysis = Analysis(clips, group, match)

\* What was analysed stays as it was when it was analysed.
WorkInv ==
  /\ clips \in Seq(Durations)
  /\ At("infer") /\ endpoint = "analyze" => clips # <<>>
  /\ At("compare") => Grouped
  /\ analysis # NoAnalysis => pc \in {"cleanup", "ended"} /\ Analysed

LEMMA InitWork == Init => WorkInv
  BY DEF Init, WorkInv, At

LEMMA WorkStays ==
  ASSUME WorkInv, UNCHANGED work, pc' \notin {"infer", "compare"},
         analysis = NoAnalysis \/ pc' \in {"cleanup", "ended"}
  PROVE  WorkInv'
  BY DEF WorkInv, work, At, Analysed, Grouped, Compared

LEMMA NextWork ==
  ASSUME WorkInv, [Next]_vars
  PROVE  WorkInv'
  <1>1. ASSUME NEW e, NEW n, Receive(e, n)
        PROVE  WorkInv'
    <2>1. UNCHANGED work /\ analysis = NoAnalysis /\ pc' \in {"ended", "upload"}
      BY <1>1 DEF Receive, At, Goto, WorkInv
    <2> QED  BY <2>1, WorkStays
  <1>2. CASE Create \/ Copied \/ CloseFails \/ CopyFails \/ CopyCancelled \/ Infer \/ Refuse
    <2>1. UNCHANGED work /\ analysis = NoAnalysis /\ pc' \in {"copy", "validate", "cleanup"}
      BY <1>2 DEF Create, Copied, CloseFails, CopyFails, CopyCancelled, Infer, Refuse, At, Goto, WorkInv, work
    <2> QED  BY <2>1, WorkStays
  <1>3. CASE RemoveFile \/ Respond
    <2>1. UNCHANGED work /\ pc' \in {"cleanup", "ended"}
      BY <1>3 DEF RemoveFile, Respond, At, Goto
    <2> QED  BY <2>1, WorkStays
  <1>4. CASE Validate
    <2>1. /\ analysis' = NoAnalysis /\ analysis = NoAnalysis
          /\ pc' \in {"upload", "cleanup", "infer"} /\ UNCHANGED endpoint
      BY <1>4 DEF Validate, At, Goto, WorkInv
    <2>2. clips' \in Seq(Durations) /\ (endpoint = "analyze" => clips' # <<>>)
      <3>1. CASE endpoint = "analyze"
        <4>1. PICK d \in Durations : clips' = Append(clips, d)
          BY <1>4, <3>1 DEF Validate
        <4> QED  BY <4>1 DEF WorkInv
      <3>2. CASE endpoint # "analyze"
        BY <1>4, <3>2 DEF Validate, WorkInv
      <3> QED  BY <3>1, <3>2
    <2> QED  BY <2>1, <2>2 DEF WorkInv, At
  <1>5. CASE Cluster
    <2>1. /\ analysis' = NoAnalysis /\ pc' = "compare" /\ clips' = clips /\ clips # <<>>
          /\ group' \in [DOMAIN clips -> DOMAIN clips]
          /\ match' = [i \in DOMAIN clips |-> <<>>]
      BY <1>5 DEF Cluster, At, Goto, WorkInv
    <2>2. Grouped'
      <3>1. <<>> \in Seq(BOOLEAN)
        OBVIOUS
      <3> QED  BY <2>1, <3>1 DEF Grouped
    <2> QED  BY <2>1, <2>2 DEF WorkInv, At
  <1>6. ASSUME NEW similar \in BOOLEAN, Compare(similar)
        PROVE  WorkInv'
    <2>1. PICK i \in DOMAIN clips : match' = [match EXCEPT ![i] = Append(@, similar)]
      BY <1>6 DEF Compare
    <2>2. /\ analysis' = NoAnalysis /\ pc' = "compare" /\ UNCHANGED <<clips, group, endpoint>> /\ Grouped
      BY <1>6 DEF Compare, At, WorkInv
    <2>3. Grouped'
      <3>1. Append(match[i], similar) \in Seq(BOOLEAN)
        BY <2>2 DEF Grouped
      <3> QED  BY <2>1, <2>2, <3>1 DEF Grouped
    <2> QED  BY <2>2, <2>3 DEF WorkInv, At
  <1>7. CASE Analyze
    <2>1. /\ pc' = "cleanup" /\ UNCHANGED <<clips, group, match, endpoint>> /\ Grouped
          /\ \A i \in DOMAIN clips : Compared(i)
          /\ analysis' = Analysis(clips, group, match)
      BY <1>7 DEF Analyze, At, Goto, WorkInv
    <2>2. Analysed'
      BY <2>1 DEF Analysed, Grouped, Compared
    <2> QED  BY <2>1, <2>2 DEF WorkInv, At
  <1>8. CASE UNCHANGED vars
    BY <1>8 DEF vars, WorkInv, At, Analysed, Grouped, Compared
  <1> QED  BY <1>1, <1>2, <1>3, <1>4, <1>5, <1>6, <1>7, <1>8 DEF Next

LEMMA ClipIs ==
  ASSUME WorkInv, Analysed, NEW i \in DOMAIN clips
  PROVE  /\ clips[i] \in Clips /\ match[i] \in Seq(BOOLEAN)
         /\ \E n \in Nat : /\ Fits(clips[i], n) /\ Len(match[i]) = n
                           /\ WindowsOf(clips[i]) = 0 .. n - 1
  <1>1. clips[i] \in Durations /\ match[i] \in Seq(BOOLEAN)
    BY DEF WorkInv, Analysed, Grouped
  <1>2. clips[i] \in Clips
    <2>1. clips[i] \in 120 .. 480
      BY <1>1, RequestAssumption
    <2> QED  BY <2>1 DEF Clips
  <1>3. PICK n \in Nat : Fits(clips[i], n) /\ WindowsOf(clips[i]) = 0 .. n - 1
    BY <1>2, WindowsAre
  <1>4. Cardinality(0 .. n - 1) = n
    <2>1. 0 \in Int /\ n - 1 \in Int /\ ~(0 > n - 1) /\ n - 1 - 0 + 1 = n
      BY <1>3 DEF Fits
    <2> QED  BY <2>1, FS_Interval
  <1>5. Len(match[i]) = n
    BY <1>3, <1>4 DEF Analysed, Compared
  <1> QED  BY <1>1, <1>2, <1>3, <1>5

StableTurns ==
  {turn \in UNION {CleanTurns(i, clips[i], match[i]) : i \in Selected(clips, group)} :
     turn.stable /\ Length(turn) > 0}

LEMMA AcceptedIs ==
  ASSUME Analysed
  PROVE  /\ analysis.ranges \subseteq StableTurns
         /\ analysis.ranges # {} =>
              analysis.ranges = {turn \in StableTurns : Length(turn) >= MinCleanRange}
         /\ analysis.preview = Preview(IF StableTurns # {} THEN Longest(StableTurns)
                                       ELSE Fallback(clips, Selected(clips, group)))
  <1> DEFINE accepted == {turn \in StableTurns : Length(turn) >= MinCleanRange}
  <1>1. analysis.ranges = accepted \/ analysis.ranges = {}
    BY DEF Analysed, Analysis, StableTurns
  <1>2. analysis.preview = Preview(IF StableTurns # {} THEN Longest(StableTurns)
                                   ELSE Fallback(clips, Selected(clips, group)))
    BY DEF Analysed, Analysis, StableTurns
  <1> QED  BY <1>1, <1>2

\* A stable turn is a range of its clip.
LEMMA StableIs ==
  ASSUME WorkInv, Analysed, NEW r \in StableTurns
  PROVE  /\ r.file \in Selected(clips, group) /\ r.file \in DOMAIN clips /\ r.stable
         /\ \E n, k, m :
              /\ n \in Nat /\ Fits(clips[r.file], n) /\ Len(match[r.file]) = n
              /\ WindowsOf(clips[r.file]) = 0 .. n - 1
              /\ clips[r.file] \in Clips /\ match[r.file] \in Seq(BOOLEAN)
              /\ LabelOf(match[r.file], clips[r.file]) \in Labels(n)
              /\ RangeOf(r, r.file, clips[r.file], n, LabelOf(match[r.file], clips[r.file]), k, m)
  <1>1. PICK i \in Selected(clips, group) :
          r \in CleanTurns(i, clips[i], match[i]) /\ r.stable /\ Length(r) > 0
    BY DEF StableTurns
  <1>2. i \in DOMAIN clips
    BY DEF Selected
  <1>3. PICK c, h : c = clips[i] /\ h = match[i]
    OBVIOUS
  <1>4. PICK n \in Nat : Fits(c, n) /\ Len(h) = n /\ WindowsOf(c) = 0 .. n - 1
    BY <1>2, <1>3, ClipIs
  <1>5. c \in Clips /\ h \in Seq(BOOLEAN)
    BY <1>2, <1>3, ClipIs
  <1>6. PICK k, m : RangeOf(r, i, c, n, LabelOf(h, c), k, m)
    BY <1>1, <1>3, <1>4, <1>5, RangeIs
  <1>7. LabelOf(h, c) \in Labels(n)
    BY <1>1, <1>3, <1>4, <1>5, RangeIs
  <1>8. r.file = i
    BY <1>6 DEF RangeOf
  <1> QED  BY <1>1, <1>2, <1>3, <1>4, <1>5, <1>6, <1>7, <1>8

LEMMA StableApart ==
  ASSUME WorkInv, Analysed, NEW r \in StableTurns, NEW s \in StableTurns, r # s, r.file = s.file
  PROVE  r.end < s.start \/ s.end < r.start
  <1>1. PICK f, c, h : f = r.file /\ c = clips[f] /\ h = match[f]
    OBVIOUS
  <1>2. PICK n, k1, m1 :
          /\ n \in Nat /\ Fits(c, n) /\ Len(h) = n /\ c \in Clips /\ LabelOf(h, c) \in Labels(n)
          /\ RangeOf(r, f, c, n, LabelOf(h, c), k1, m1)
    BY <1>1, StableIs
  <1>3. PICK n2, k2, m2 :
          Len(h) = n2 /\ RangeOf(s, f, c, n2, LabelOf(h, c), k2, m2)
    BY <1>1, StableIs
  <1>4. n2 = n
    BY <1>2, <1>3
  <1>5. k1 # k2
    BY <1>2, <1>3 DEF RangeOf
  <1>6. k1 \in Int /\ k2 \in Int
    BY <1>2, <1>3 DEF RangeOf
  <1>7. CASE k1 < k2
    BY <1>2, <1>3, <1>4, <1>7, RangesApart
  <1>8. CASE k2 < k1
    BY <1>2, <1>3, <1>4, <1>8, RangesApart
  <1> QED  BY <1>5, <1>6, <1>7, <1>8

LEMMA StableRanges ==
  ASSUME WorkInv
  PROVE  EnrolledIsStable
  <1>1. CASE analysis = NoAnalysis
    BY <1>1 DEF EnrolledIsStable, NoAnalysis
  <1>2. CASE analysis # NoAnalysis
    <2>1. Analysed
      BY <1>2 DEF WorkInv
    <2>2. analysis.ranges \subseteq StableTurns
      BY <2>1, AcceptedIs
    <2>3. ASSUME NEW r \in analysis.ranges, NEW t \in r.start .. r.end - 1
          PROVE  /\ \E w \in WindowsOf(clips[r.file]) :
                      /\ match[r.file][w + 1]
                      /\ WindowStart(w, clips[r.file]) <= t /\ t < WindowEnd(w, clips[r.file])
                 /\ \A w \in WindowsOf(clips[r.file]) :
                      ~match[r.file][w + 1] /\ w + 2 \in WindowsOf(clips[r.file])
                        => ~(WindowStart(w, clips[r.file]) <= t /\ t < WindowEnd(w, clips[r.file]))
      <3>1. PICK f, c, h : f = r.file /\ c = clips[f] /\ h = match[f]
        OBVIOUS
      <3>2. PICK n, k, m :
              /\ n \in Nat /\ Fits(c, n) /\ Len(h) = n /\ WindowsOf(c) = 0 .. n - 1
              /\ c \in Clips /\ h \in Seq(BOOLEAN) /\ RangeOf(r, f, c, n, LabelOf(h, c), k, m)
        BY <2>1, <2>2, <3>1, StableIs
      <3>3. r.stable
        BY <2>1, <2>2, StableIs
      <3>4. \E w \in 0 .. n - 1 : h[w + 1] /\ WindowStart(w, c) <= t /\ t < WindowEnd(w, c)
        BY <3>2, <3>3, RangeHeard
      <3>5. ASSUME NEW w \in 0 .. n - 1, ~h[w + 1], w + 2 \in 0 .. n - 1
            PROVE  ~(WindowStart(w, c) <= t /\ t < WindowEnd(w, c))
        <4>1. w \in 0 .. n - 3
          BY <3>2, <3>5
        <4> QED  BY <3>2, <3>3, <3>5, <4>1, RangeClear
      <3> QED  BY <3>1, <3>2, <3>4, <3>5
    <2>4. ASSUME NEW r \in analysis.ranges, NEW s \in analysis.ranges, r # s, r.file = s.file
          PROVE  r.end < s.start \/ s.end < r.start
      BY <2>1, <2>2, <2>4, StableApart
    <2> QED  BY <2>3, <2>4 DEF EnrolledIsStable
  <1> QED  BY <1>1, <1>2

\* EnrolledIsStable: whatever windows of whatever clips match, of what is
\* enrolled each moment was heard by a window that matches, and by no window
\* that does not, but for the last two of a clip; and no audio is enrolled twice.
THEOREM StableIsEnrolled == Spec => []EnrolledIsStable
  BY InitWork, NextWork, StableRanges, PTL DEF Spec

-----------------------------------------------------------------------------
(* The preview                                                             *)

\* Turns of which none is longer than bound, and no two begin together.
Apart(turns, bound) ==
  /\ \A r \in turns : r.file \in Nat /\ r.start \in Nat /\ r.end \in Nat
                      /\ r.start <= r.end /\ Length(r) <= bound
  /\ \A r, s \in turns : r # s => r.file # s.file \/ r.start # s.start

LEMMA LongestIs ==
  ASSUME NEW turns, NEW bound \in Nat, turns # {}, Apart(turns, bound)
  PROVE  /\ Longest(turns) \in turns
         /\ \A s \in turns : Length(s) <= Length(Longest(turns))
  <1> DEFINE best(r) == \A s \in turns \ {r} :
                          Length(s) < Length(r) \/ (Length(s) = Length(r) /\ Before(r, s))
  <1>1. \A r \in turns : Length(r) \in Nat /\ Length(r) <= bound /\ r.file \in Nat /\ r.start \in Nat
    BY DEF Apart, Length
  <1>2. PICK a \in turns : \A s \in turns : Length(s) <= Length(a)
    <2> DEFINE T == {bound - Length(s) : s \in turns}
    <2>1. T \subseteq Nat /\ T # {}
      BY <1>1
    <2>2. PICK x \in T : \A y \in T : x <= y
      BY <2>1, LeastNumber
    <2>3. PICK a \in turns : x = bound - Length(a)
      BY <2>2
    <2>4. \A s \in turns : bound - Length(a) <= bound - Length(s)
      BY <2>2, <2>3
    <2> QED  BY <1>1, <2>3, <2>4
  <1> DEFINE longest == {s \in turns : Length(s) = Length(a)}
  <1>3. PICK b \in longest : \A s \in longest : b.file <= s.file
    <2> DEFINE T == {s.file : s \in longest}
    <2>1. T \subseteq Nat /\ T # {}
      BY <1>1
    <2>2. PICK x \in T : \A y \in T : x <= y
      BY <2>1, LeastNumber
    <2> QED  BY <2>2
  <1> DEFINE first == {s \in longest : s.file = b.file}
  <1>4. PICK c \in first : \A s \in first : c.start <= s.start
    <2> DEFINE T == {s.start : s \in first}
    <2>1. T \subseteq Nat /\ T # {}
      BY <1>1
    <2>2. PICK x \in T : \A y \in T : x <= y
      BY <2>1, LeastNumber
    <2> QED  BY <2>2
  <1>5. c \in turns /\ best(c)
    <2>1. c \in turns /\ Length(c) = Length(a) /\ c.file = b.file
      BY <1>4
    <2>2. ASSUME NEW s \in turns \ {c}
          PROVE  Length(s) < Length(c) \/ (Length(s) = Length(c) /\ Before(c, s))
      <3>1. CASE Length(s) # Length(a)
        BY <1>1, <1>2, <2>1, <3>1
      <3>2. CASE Length(s) = Length(a) /\ s.file # b.file
        <4>1. b.file <= s.file
          BY <1>3, <3>2
        <4> QED  BY <1>1, <1>3, <2>1, <3>2, <4>1 DEF Before
      <3>3. CASE Length(s) = Length(a) /\ s.file = b.file
        <4>1. c.start <= s.start
          BY <1>4, <3>3
        <4>2. c.start # s.start
          BY <2>1, <3>3 DEF Apart
        <4> QED  BY <1>1, <2>1, <3>3, <4>1, <4>2 DEF Before
      <3> QED  BY <3>1, <3>2, <3>3
    <2> QED  BY <2>1, <2>2
  <1> HIDE DEF longest, first
  <1>6. Longest(turns) \in turns /\ best(Longest(turns))
    BY <1>5 DEF Longest
  <1>7. ASSUME NEW s \in turns
        PROVE  Length(s) <= Length(Longest(turns))
    BY <1>1, <1>6
  <1> QED  BY <1>6, <1>7

-----------------------------------------------------------------------------
(* The dominant group                                                      *)

Term(cl, gr, g, i) == IF gr[i] = g THEN cl[i] ELSE 0

SumsFirst(f, cl, gr, g, n) ==
  f = [i \in 0 .. n |-> IF i = 0 THEN 0 ELSE f[i - 1] + Term(cl, gr, g, i)]

AudioOf(cl, gr, g) ==
  LET sum[i \in 0 .. Len(cl)] == IF i = 0 THEN 0 ELSE sum[i - 1] + Term(cl, gr, g, i)
  IN sum[Len(cl)]

LEMMA AudioIsNumber ==
  ASSUME NEW cl \in Seq(Nat), NEW gr, NEW g
  PROVE  AudioOf(cl, gr, g) \in Nat
  <1> DEFINE N == Len(cl)
             T == {n \in Nat : \E f : SumsFirst(f, cl, gr, g, n)}
  <1>1. 0 \in T
    <2>1. SumsFirst([i \in 0 .. 0 |-> 0], cl, gr, g, 0)
      BY DEF SumsFirst
    <2> QED  BY <2>1
  <1>2. ASSUME NEW n \in Nat, n \in T  PROVE n + 1 \in T
    <2>1. PICK f : SumsFirst(f, cl, gr, g, n)
      BY <1>2
    <2> DEFINE h == [i \in 0 .. n + 1 |-> IF i <= n THEN f[i] ELSE f[n] + Term(cl, gr, g, i)]
    <2>2. \A i \in 0 .. n : f[i] = IF i = 0 THEN 0 ELSE f[i - 1] + Term(cl, gr, g, i)
      BY <2>1 DEF SumsFirst
    <2>3. \A i \in 0 .. n + 1 : h[i] = IF i = 0 THEN 0 ELSE h[i - 1] + Term(cl, gr, g, i)
      BY <2>2
    <2>4. SumsFirst(h, cl, gr, g, n + 1)
      BY <2>3 DEF SumsFirst
    <2> HIDE DEF h
    <2>5. \E e : SumsFirst(e, cl, gr, g, n + 1)
      BY <2>4
    <2> QED  BY <2>5
  <1> HIDE DEF T
  <1>3. N \in Nat
    OBVIOUS
  <1>4. N \in T
    BY <1>1, <1>2, <1>3, Induct
  <1> DEFINE sum == CHOOSE f : SumsFirst(f, cl, gr, g, N)
  <1>5. SumsFirst(sum, cl, gr, g, N)
    BY <1>4 DEF T
  <1>6. AudioOf(cl, gr, g) = sum[N]
    BY DEF AudioOf, SumsFirst
  <1> HIDE DEF sum
  <1>7. \A i \in 1 .. N : Term(cl, gr, g, i) \in Nat
    BY DEF Term
  <1>8. \A i \in 0 .. N : sum[i] = IF i = 0 THEN 0 ELSE sum[i - 1] + Term(cl, gr, g, i)
    BY <1>5 DEF SumsFirst
  <1> DEFINE U == {n \in Nat : n <= N => sum[n] \in Nat}
  <1>9. 0 \in U
    BY <1>8
  <1>10. ASSUME NEW n \in Nat, n \in U  PROVE n + 1 \in U
    <2>1. CASE n + 1 <= N
      <3>1. n + 1 \in 1 .. N /\ n + 1 \in 0 .. N /\ n + 1 # 0 /\ n + 1 - 1 = n
        BY <1>3, <2>1
      <3>2. sum[n + 1] = sum[n] + Term(cl, gr, g, n + 1)
        BY <1>8, <3>1
      <3> QED  BY <1>7, <1>10, <3>1, <3>2
    <2>2. CASE ~(n + 1 <= N)
      BY <2>2
    <2> QED  BY <2>1, <2>2
  <1> HIDE DEF U
  <1>11. N \in U
    BY <1>3, <1>9, <1>10, Induct
  <1> QED  BY <1>3, <1>6, <1>11 DEF U

RankOf(cl, gr, g) == <<AudioOf(cl, gr, g), Cardinality({i \in DOMAIN cl : gr[i] = g}), -g>>

Above(r, s) == \E j \in 1..3 : r[j] > s[j] /\ \A i \in 1..(j - 1) : r[i] = s[i]

LEMMA AboveIs ==
  ASSUME NEW a \in Int, NEW b \in Int, NEW c \in Int, NEW x \in Int, NEW y \in Int, NEW z \in Int
  PROVE  Above(<<a, b, c>>, <<x, y, z>>) <=> a > x \/ (a = x /\ b > y) \/ (a = x /\ b = y /\ c > z)
  <1> DEFINE r == <<a, b, c>>
             s == <<x, y, z>>
             wins(j) == r[j] > s[j] /\ \A i \in 1..(j - 1) : r[i] = s[i]
  <1>1. Above(r, s) <=> wins(1) \/ wins(2) \/ wins(3)
    <2>1. \A j : j \in 1..3 <=> j = 1 \/ j = 2 \/ j = 3
      OBVIOUS
    <2>2. Above(r, s) <=> \E j \in 1..3 : wins(j)
      BY DEF Above
    <2> HIDE DEF wins
    <2> QED  BY <2>1, <2>2
  <1>2. wins(1) <=> a > x
    OBVIOUS
  <1>3. wins(2) <=> a = x /\ b > y
    <2>1. \A i : i \in 1..(2 - 1) <=> i = 1
      OBVIOUS
    <2> QED  BY <2>1
  <1>4. wins(3) <=> a = x /\ b = y /\ c > z
    <2>1. \A i : i \in 1..(3 - 1) <=> i = 1 \/ i = 2
      OBVIOUS
    <2> QED  BY <2>1
  <1> HIDE DEF wins
  <1> QED  BY <1>1, <1>2, <1>3, <1>4

LEMMA DominantIs ==
  ASSUME NEW cl \in Seq(Nat), cl # <<>>, NEW gr \in [DOMAIN cl -> DOMAIN cl]
  PROVE  DominantGroup(cl, gr) \in {gr[i] : i \in DOMAIN cl}
  <1> DEFINE N == Len(cl)
             groups == {gr[i] : i \in DOMAIN cl}
             A(g) == AudioOf(cl, gr, g)
             C(g) == Cardinality({i \in DOMAIN cl : gr[i] = g})
             over(g, h) == Above(RankOf(cl, gr, g), RankOf(cl, gr, h))
  <1>1. N \in Nat /\ N > 0 /\ DOMAIN cl = 1 .. N
    OBVIOUS
  <1>2. \A g : A(g) \in Int
    BY AudioIsNumber
  <1>3. ASSUME NEW g  PROVE C(g) \in Int
    <2>1. IsFiniteSet(DOMAIN cl)
      BY <1>1, FS_Interval
    <2>2. IsFiniteSet({i \in DOMAIN cl : gr[i] = g})
      BY <2>1, FS_Subset
    <2> QED  BY <2>2, FS_CardinalityType
  <1>4. \A i \in 1 .. N : gr[i] \in Int
    BY <1>1
  <1>5. ASSUME NEW g \in Int, NEW h \in Int
        PROVE  over(g, h) <=> \/ A(g) > A(h)
                              \/ A(g) = A(h) /\ C(g) > C(h)
                              \/ A(g) = A(h) /\ C(g) = C(h) /\ -g > -h
    <2>1. -g \in Int /\ -h \in Int
      OBVIOUS
    <2>2. over(g, h) <=> Above(<<A(g), C(g), -g>>, <<A(h), C(h), -h>>)
      BY DEF RankOf
    <2>3. PICK a, b, c, x, y, z : /\ a = A(g) /\ b = C(g) /\ c = -g
                                  /\ x = A(h) /\ y = C(h) /\ z = -h
      OBVIOUS
    <2>4. a \in Int /\ b \in Int /\ c \in Int /\ x \in Int /\ y \in Int /\ z \in Int
      BY <1>2, <1>3, <2>1, <2>3
    <2>5. over(g, h) <=> Above(<<a, b, c>>, <<x, y, z>>)
      BY <2>2, <2>3
    <2> HIDE DEF over, A, C
    <2>6. Above(<<a, b, c>>, <<x, y, z>>) <=> a > x \/ (a = x /\ b > y) \/ (a = x /\ b = y /\ c > z)
      BY <2>4, AboveIs
    <2> QED  BY <2>3, <2>5, <2>6
  <1> HIDE DEF A, C, over
  <1>6. ASSUME NEW g \in Int, NEW h \in Int
        PROVE  g = h \/ over(g, h) \/ over(h, g)
    <2>1. A(g) \in Int /\ A(h) \in Int /\ C(g) \in Int /\ C(h) \in Int
      BY <1>2, <1>3
    <2>2. over(g, h) <=> A(g) > A(h) \/ (A(g) = A(h) /\ C(g) > C(h)) \/ (A(g) = A(h) /\ C(g) = C(h) /\ -g > -h)
      BY <1>5
    <2>3. over(h, g) <=> A(h) > A(g) \/ (A(h) = A(g) /\ C(h) > C(g)) \/ (A(h) = A(g) /\ C(h) = C(g) /\ -h > -g)
      BY <1>5
    <2> QED  BY <2>1, <2>2, <2>3
  <1>7. ASSUME NEW f \in Int, NEW g \in Int, NEW h \in Int, over(f, g), over(g, h)
        PROVE  over(f, h)
    <2>1. /\ A(f) > A(g) \/ (A(f) = A(g) /\ C(f) > C(g)) \/ (A(f) = A(g) /\ C(f) = C(g) /\ -f > -g)
          /\ A(g) > A(h) \/ (A(g) = A(h) /\ C(g) > C(h)) \/ (A(g) = A(h) /\ C(g) = C(h) /\ -g > -h)
      BY <1>5, <1>7
    <2>2. A(f) > A(h) \/ (A(f) = A(h) /\ C(f) > C(h)) \/ (A(f) = A(h) /\ C(f) = C(h) /\ -f > -h)
      BY <1>2, <1>3, <2>1
    <2> QED  BY <1>5, <2>2
  <1> DEFINE leads(i, n) == \A j \in 1 .. n : gr[j] = gr[i] \/ over(gr[i], gr[j])
             T == {n \in Nat : 0 < n /\ n <= N => \E i \in 1 .. n : leads(i, n)}
  <1>8. 0 \in T
    OBVIOUS
  <1>9. ASSUME NEW n \in Nat, n \in T  PROVE n + 1 \in T
    <2>1. CASE n = 0
      <3>1. leads(1, 1)
        OBVIOUS
      <3> QED  BY <2>1, <3>1
    <2>2. CASE ~(n + 1 <= N)
      BY <2>2
    <2>3. CASE 0 < n /\ n + 1 <= N
      <3>1. PICK i \in 1 .. n : leads(i, n)
        BY <1>1, <1>9, <2>3
      <3>2. i \in 1 .. N /\ n + 1 \in 1 .. N /\ 1 .. n + 1 = (1 .. n) \cup {n + 1} /\ 1 .. n \subseteq 1 .. N
        BY <1>1, <2>3
      <3>3. gr[i] \in Int /\ gr[n + 1] \in Int
        BY <1>4, <3>2
      <3>4. CASE gr[n + 1] = gr[i] \/ over(gr[i], gr[n + 1])
        <4>1. leads(i, n + 1)
          BY <3>1, <3>2, <3>4
        <4> QED  BY <3>2, <4>1
      <3>5. CASE over(gr[n + 1], gr[i])
        <4>1. ASSUME NEW j \in 1 .. n
              PROVE  gr[j] = gr[n + 1] \/ over(gr[n + 1], gr[j])
          <5>1. gr[j] \in Int
            BY <1>4, <3>2
          <5>2. gr[j] = gr[i] \/ over(gr[i], gr[j])
            BY <3>1
          <5> QED  BY <1>7, <3>3, <3>5, <5>1, <5>2
        <4>2. leads(n + 1, n + 1)
          BY <3>2, <4>1
        <4> QED  BY <2>3, <4>2
      <3> QED  BY <1>6, <3>3, <3>4, <3>5
    <2> QED  BY <2>1, <2>2, <2>3
  <1> HIDE DEF T
  <1>10. N \in T
    BY <1>1, <1>8, <1>9, Induct
  <1>11. PICK i \in 1 .. N : leads(i, N)
    BY <1>1, <1>10 DEF T
  <1>12. gr[i] \in groups /\ \A h \in groups \ {gr[i]} : over(gr[i], h)
    BY <1>1, <1>11
  <1>13. DominantGroup(cl, gr) = CHOOSE g \in groups : \A h \in groups \ {g} : over(g, h)
    BY DEF DominantGroup, over, RankOf, AudioOf, Term, Above
  <1> HIDE DEF groups
  <1>14. DominantGroup(cl, gr) \in groups
    BY <1>12, <1>13
  <1> QED  BY <1>14 DEF groups

-----------------------------------------------------------------------------
(* What is listened to *)

LEMMA StableBounds ==
  ASSUME WorkInv, Analysed, NEW r \in StableTurns
  PROVE  /\ r = Turn(r.file, r.start, r.end, r.stable)
         /\ r.file \in Nat /\ r.start \in Nat /\ r.end \in Nat
         /\ r.start < r.end /\ r.end <= clips[r.file] /\ r.end <= 480
  <1>1. PICK f, c, h : f = r.file /\ c = clips[f] /\ h = match[f]
    OBVIOUS
  <1>2. f \in DOMAIN clips
    BY <1>1, StableIs
  <1>3. c \in 120 .. 480 /\ f \in Nat
    <2>1. clips \in Seq(Durations) /\ f \in DOMAIN clips
      BY <1>2 DEF WorkInv
    <2>2. clips[f] \in Durations /\ f \in Nat
      BY <2>1
    <2>3. \A d \in Durations : d \in 120 .. 480
      BY RequestAssumption
    <2> QED  BY <1>1, <2>2, <2>3
  <1>4. PICK n, k, m : n \in Nat /\ Fits(c, n) /\ c \in Clips /\ RangeOf(r, f, c, n, LabelOf(h, c), k, m)
    BY <1>1, StableIs
  <1>5. /\ k \in 0 .. n - 1 /\ m \in k + 1 .. n
        /\ r = CleanOf(f, c, LabelOf(h, c), k)
        /\ r.start = Begin(k, c) + Margin(k = 0)
        /\ r.end = Bound(c, n, m) - Margin(m = n)
        /\ r.start < r.end
    BY <1>4 DEF RangeOf
  <1>6. Begin(k, c) \in Nat
    BY <1>4, <1>5, BeginIs
  <1>7. Bound(c, n, m) \in Nat /\ Bound(c, n, m) <= c
    <2>1. CASE m = n
      BY <1>3, <2>1 DEF Bound
    <2>2. CASE m # n
      <3>1. m \in 0 .. n - 1 /\ 0 \in 0 .. n - 1 /\ 0 < m
        BY <1>4, <1>5, <2>2
      <3>2. Begin(m, c) \in Nat /\ Begin(m, c) + 31 <= c
        BY <1>4, <3>1, BeginIs, BeginAscends
      <3> QED  BY <1>3, <2>2, <3>2 DEF Bound
    <2> QED  BY <2>1, <2>2
  <1>8. Margin(k = 0) \in {10, 20} /\ Margin(m = n) \in {10, 20}
    BY DEF Margin, EdgeMargin, BoundaryMargin
  <1>9. r.start \in Nat /\ r.end \in Nat /\ r.end <= c /\ r.end <= 480
    BY <1>3, <1>5, <1>6, <1>7, <1>8
  <1>10. r = Turn(r.file, r.start, r.end, r.stable)
    BY <1>5 DEF CleanOf, Turn
  <1> QED  BY <1>1, <1>3, <1>5, <1>9, <1>10

LEMMA StableIsApart ==
  ASSUME WorkInv, Analysed
  PROVE  Apart(StableTurns, 480)
  <1>1. ASSUME NEW r \in StableTurns
        PROVE  /\ r.file \in Nat /\ r.start \in Nat /\ r.end \in Nat
               /\ r.start <= r.end /\ Length(r) <= 480
    BY StableBounds DEF Length
  <1>2. ASSUME NEW r \in StableTurns, NEW s \in StableTurns, r # s, r.file = s.file
        PROVE  r.start # s.start
    <2>1. r.end < s.start \/ s.end < r.start
      BY <1>2, StableApart
    <2>2. /\ r.start \in Nat /\ r.end \in Nat /\ r.start < r.end
          /\ s.start \in Nat /\ s.end \in Nat /\ s.start < s.end
      BY StableBounds
    <2> QED  BY <2>1, <2>2
  <1> QED  BY <1>1, <1>2 DEF Apart

\* A turn within its clip is still within it when it is cut for the preview.
LEMMA PreviewIs ==
  ASSUME NEW f, NEW a \in Nat, NEW b \in Nat, NEW stable, a < b
  PROVE  LET p == Preview(Turn(f, a, b, stable))
         IN /\ p.file = f /\ p.start = a
            /\ p.end \in Nat /\ a < p.end /\ p.end <= b /\ Length(p) <= MaxPreview
  <1>1. Preview(Turn(f, a, b, stable))
          = [file |-> f, start |-> a, end |-> Least(b, a + MaxPreview), stable |-> stable]
    BY DEF Preview, Turn
  <1>2. Least(b, a + MaxPreview) \in Nat /\ a < Least(b, a + MaxPreview)
        /\ Least(b, a + MaxPreview) <= b /\ Least(b, a + MaxPreview) - a <= MaxPreview
    BY DEF Least, MaxPreview
  <1> QED  BY <1>1, <1>2 DEF Length

LEMMA SelectedIs ==
  ASSUME WorkInv, Analysed
  PROVE  /\ Selected(clips, group) # {} /\ Selected(clips, group) \subseteq DOMAIN clips
         /\ \A i \in DOMAIN clips : i \in Nat /\ clips[i] \in 120 .. 480
  <1>1. /\ clips \in Seq(Durations) /\ clips # <<>>
        /\ group \in [DOMAIN clips -> DOMAIN clips]
    BY DEF WorkInv, Analysed, Grouped
  <1>2. Durations \subseteq 120 .. 480
    BY RequestAssumption
  <1>3. ASSUME NEW i \in DOMAIN clips
        PROVE  i \in Nat /\ clips[i] \in 120 .. 480
    <2>1. i \in Nat /\ clips[i] \in Durations
      BY <1>1
    <2> QED  BY <1>2, <2>1
  <1>5. clips \in Seq(Nat)
    <2>1. Durations \subseteq Nat
      BY <1>2
    <2> QED  BY <1>1, <2>1, SeqMonotonic
  <1>4. DominantGroup(clips, group) \in {group[i] : i \in DOMAIN clips}
    BY <1>1, <1>5, DominantIs
  <1> QED  BY <1>3, <1>4 DEF Selected

LEMMA FallbackIs ==
  ASSUME WorkInv, Analysed
  PROVE  \E i \in Selected(clips, group) :
           Fallback(clips, Selected(clips, group)) = Turn(i, 10, clips[i] - 10, FALSE)
  <1> DEFINE selected == Selected(clips, group)
             whole == {Turn(i, 0, clips[i], FALSE) : i \in selected}
  <1>1. /\ selected # {} /\ selected \subseteq DOMAIN clips
        /\ \A i \in selected : i \in Nat /\ clips[i] \in 120 .. 480
    BY SelectedIs
  <1> HIDE DEF selected
  <1>2. Apart(whole, 480)
    <2>1. ASSUME NEW r \in whole
          PROVE  \E i \in selected : /\ r.file = i /\ r.start = 0 /\ r.end = clips[i]
                                     /\ r = Turn(i, 0, clips[i], FALSE)
      BY <2>1 DEF Turn
    <2> HIDE DEF whole
    <2>2. ASSUME NEW r \in whole
          PROVE  /\ r.file \in Nat /\ r.start \in Nat /\ r.end \in Nat
                 /\ r.start <= r.end /\ Length(r) <= 480
      <3>1. PICK i \in selected : r.file = i /\ r.start = 0 /\ r.end = clips[i]
        BY <2>1
      <3>2. i \in Nat /\ clips[i] \in 120 .. 480
        BY <1>1
      <3> QED  BY <3>1, <3>2 DEF Length
    <2>3. ASSUME NEW r \in whole, NEW s \in whole, r # s
          PROVE  r.file # s.file \/ r.start # s.start
      BY <2>1, <2>3
    <2> QED  BY <2>2, <2>3 DEF Apart
  <1>3. whole # {}
    BY <1>1
  <1>4. Longest(whole) \in whole
    <2> HIDE DEF whole
    <2> QED  BY <1>2, <1>3, LongestIs
  <1>5. PICK i \in selected : Longest(whole) = Turn(i, 0, clips[i], FALSE)
    BY <1>4
  <1>6. Longest(whole).file = i
    BY <1>5 DEF Turn
  <1>7. Fallback(clips, selected)
          = Turn(i, Least(EdgeMargin, clips[i]),
                 Most(Least(EdgeMargin, clips[i]), clips[i] - EdgeMargin), FALSE)
    BY <1>6 DEF Fallback
  <1>8. clips[i] \in 120 .. 480
    BY <1>1, <1>5
  <1>9. Least(EdgeMargin, clips[i]) = 10
    BY <1>8 DEF EdgeMargin, Least
  <1>10. Most(10, clips[i] - EdgeMargin) = clips[i] - 10
    BY <1>8 DEF EdgeMargin, Most
  <1>11. Fallback(clips, selected) = Turn(i, 10, clips[i] - 10, FALSE)
    BY <1>7, <1>9, <1>10
  <1> QED  BY <1>11 DEF selected

LEMMA PreviewStable ==
  ASSUME WorkInv
  PROVE  PreviewIsEnrolled
  <1> SUFFICES ASSUME analysis # NoAnalysis  PROVE PreviewIsEnrolled
    BY DEF PreviewIsEnrolled
  <1>1. Analysed
    BY DEF WorkInv
  <1>2. CASE StableTurns # {}
    <2>1. PICK source : source = Longest(StableTurns)
      OBVIOUS
    <2>2. source \in StableTurns /\ \A s \in StableTurns : Length(s) <= Length(source)
      BY <1>1, <1>2, <2>1, StableIsApart, LongestIs
    <2>3. /\ source = Turn(source.file, source.start, source.end, source.stable)
          /\ source.start \in Nat /\ source.end \in Nat
          /\ source.start < source.end /\ source.end <= clips[source.file]
      BY <1>1, <2>2, StableBounds
    <2>4. analysis.preview = Preview(source)
      BY <1>1, <1>2, <2>1, AcceptedIs
    <2>5. PICK f, a, b, stable : f = source.file /\ a = source.start /\ b = source.end /\ stable = source.stable
      OBVIOUS
    <2>6. analysis.preview = Preview(Turn(f, a, b, stable)) /\ a \in Nat /\ b \in Nat /\ a < b
      BY <2>3, <2>4, <2>5
    <2>7. LET p == analysis.preview
          IN /\ p.file = f /\ p.start = a
             /\ p.end \in Nat /\ a < p.end /\ p.end <= b /\ Length(p) <= MaxPreview
      BY <2>6, PreviewIs
    <2>8. f \in Selected(clips, group) /\ clips[f] \in Nat
      <3>1. f \in Selected(clips, group) /\ f \in DOMAIN clips
        BY <1>1, <2>2, <2>5, StableIs
      <3>2. clips[f] \in 120 .. 480
        BY <1>1, <3>1, SelectedIs
      <3> QED  BY <3>1, <3>2
    <2>9. analysis.ranges # {} => source \in analysis.ranges
      <3> SUFFICES ASSUME analysis.ranges # {}  PROVE source \in analysis.ranges
        OBVIOUS
      <3>1. analysis.ranges = {turn \in StableTurns : Length(turn) >= MinCleanRange}
        BY <1>1, AcceptedIs
      <3>2. PICK s \in StableTurns : Length(s) >= MinCleanRange
        BY <3>1
      <3>3. Length(s) \in Int /\ Length(source) \in Int
        BY <1>1, <2>2, StableBounds DEF Length
      <3>4. Length(source) >= MinCleanRange
        BY <2>2, <3>2, <3>3 DEF MinCleanRange
      <3> QED  BY <2>2, <3>1, <3>4
    <2> QED  BY <2>3, <2>5, <2>6, <2>7, <2>8, <2>9 DEF PreviewIsEnrolled
  <1>3. CASE StableTurns = {}
    <2>1. PICK i \in Selected(clips, group) :
            Fallback(clips, Selected(clips, group)) = Turn(i, 10, clips[i] - 10, FALSE)
      BY <1>1, FallbackIs
    <2>2. PICK b : b = clips[i] - 10
      OBVIOUS
    <2>3. clips[i] \in 120 .. 480 /\ b \in Nat /\ 10 < b /\ b <= clips[i]
      BY <1>1, <2>1, <2>2, SelectedIs
    <2>4. analysis.preview = Preview(Turn(i, 10, b, FALSE))
      BY <1>1, <1>3, <2>1, <2>2, AcceptedIs
    <2>5. LET p == analysis.preview
          IN /\ p.file = i /\ p.start = 10
             /\ p.end \in Nat /\ 10 < p.end /\ p.end <= b /\ Length(p) <= MaxPreview
      <3>1. PICK ten, no : ten = 10 /\ no = FALSE
        OBVIOUS
      <3>2. ten \in Nat /\ ten < b /\ b \in Nat /\ analysis.preview = Preview(Turn(i, ten, b, no))
        BY <2>3, <2>4, <3>1
      <3>3. LET p == analysis.preview
            IN /\ p.file = i /\ p.start = ten
               /\ p.end \in Nat /\ ten < p.end /\ p.end <= b /\ Length(p) <= MaxPreview
        BY <3>2, PreviewIs
      <3> QED  BY <3>1, <3>3
    <2>6. analysis.ranges = {}
      BY <1>1, <1>3, AcceptedIs
    <2> QED  BY <2>3, <2>5, <2>6 DEF PreviewIsEnrolled
  <1> QED  BY <1>2, <1>3

\* PreviewIsEnrolled: whatever was analysed, the preview is a playable part of
\* one clip of the dominant group, and of what is enrolled if anything is.
THEOREM PreviewEnrolled == Spec => []PreviewIsEnrolled
  BY InitWork, NextWork, PreviewStable, PTL DEF Spec
=============================================================================
