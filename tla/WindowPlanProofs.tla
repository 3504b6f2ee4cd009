-------------------------- MODULE WindowPlanProofs --------------------------
(***************************************************************************)
(* The geometry of WindowPlan, for every window, overlap and length.       *)
(***************************************************************************)
EXTENDS WindowPlan, TLAPS

\* The geometries that Settings.validate() lets pass.
Cuts(g) == g.window \in Nat \ {0} /\ g.overlap \in Nat /\ g.overlap < g.window

\* The windows as they are planned.
Planned(g, d) == [i \in Indices(g, d) |-> Window(g, i, d)]

\* Integer division by a positive number, as the inequalities that define it.
LEMMA Division ==
  ASSUME NEW a \in Int, NEW b \in Int, b > 0
  PROVE  /\ a \div b \in Int
         /\ b * (a \div b) <= a
         /\ a < b * (a \div b) + b
  OBVIOUS

\* Multiplication by a positive number keeps the order.
LEMMA Monotone ==
  ASSUME NEW a \in Int, NEW b \in Int, NEW c \in Int, c > 0, a <= b
  PROVE  a * c <= b * c
  OBVIOUS

\* A stride never stands still and never skips audio.
LEMMA StrideBounds ==
  ASSUME NEW g, Cuts(g)
  PROVE  Stride(g) \in Int /\ Stride(g) > 0 /\ Stride(g) <= g.window /\ g.window \in Nat \ {0}
  BY DEF Stride, Cuts

\* The last of the windows _window_count plans starts inside the recording
\* and reaches its end, and the one before it does not.
THEOREM CountBounds ==
  ASSUME NEW g, Cuts(g), NEW d \in Nat \ {0}
  PROVE  /\ WindowCount(g, d) \in Nat \ {0}
         /\ WindowStart(g, WindowCount(g, d) - 1) < d
         /\ WindowStart(g, WindowCount(g, d) - 1) + g.window >= d
         /\ WindowCount(g, d) > 1 =>
              WindowStart(g, WindowCount(g, d) - 2) + g.window < d
  <1> DEFINE s == Stride(g)
             W == g.window
             q == (d - W + s - 1) \div s
  <1>1. s \in Int /\ s > 0 /\ s <= W /\ W \in Nat \ {0}
    BY StrideBounds
  <1>2. CASE d <= W
    <2>1. WindowCount(g, d) = 1
      BY <1>2 DEF WindowCount
    <2>2. WindowStart(g, 0) = 0
      BY <1>1 DEF WindowStart
    <2> QED  BY <2>1, <2>2, <1>1, <1>2
  <1>3. CASE d > W
    <2>1. WindowCount(g, d) = 1 + q
      BY <1>1, <1>3 DEF WindowCount, CeilDiv
    <2>2. q \in Int /\ s * q <= d - W + s - 1 /\ d - W + s - 1 < s * q + s
      <3> HIDE DEF s, W
      <3>1. d - W + s - 1 \in Int
        BY <1>1
      <3> QED  BY <3>1, <1>1, Division
    <2>3. q >= 1
      <3> HIDE DEF q, s, W
      <3>1. SUFFICES ASSUME q <= 0 PROVE FALSE
        BY <2>2
      <3>2. q * s <= 0 * s
        BY <3>1, <2>2, <1>1, Monotone
      <3> QED  BY <3>2, <2>2, <1>1, <1>3
    <2>4. WindowStart(g, q) = s * q /\ WindowStart(g, q - 1) = s * q - s
      <3> HIDE DEF q
      <3> QED  BY <2>2, <1>1 DEF WindowStart
    <2> HIDE DEF q, s, W
    <2>5. WindowCount(g, d) \in Nat \ {0}
      BY <2>1, <2>2, <2>3
    <2>6. WindowCount(g, d) - 1 = q /\ WindowCount(g, d) - 2 = q - 1
      BY <2>1, <2>2
    <2>7. WindowStart(g, q) < d /\ WindowStart(g, q) + W >= d /\ WindowStart(g, q - 1) + W < d
      BY <2>2, <2>4, <1>1
    <2> QED  BY <2>5, <2>6, <2>7 DEF W
  <1> QED  BY <1>1, <1>2, <1>3

\* The window starts are in the order of the indices, and two consecutive
\* ones are a stride apart.
LEMMA StartsAscend ==
  ASSUME NEW g, Cuts(g), NEW i \in Int, NEW k \in Int
  PROVE  /\ WindowStart(g, i) \in Int
         /\ WindowStart(g, i + 1) = WindowStart(g, i) + Stride(g)
         /\ i <= k => WindowStart(g, i) <= WindowStart(g, k)
  BY StrideBounds, Monotone DEF WindowStart

\* Within the plan every window but the last is a whole one, so the
\* boundaries ascend by twice the stride.
LEMMA BoundariesAscend ==
  ASSUME NEW g, Cuts(g), NEW d \in Nat \ {0}, NEW i \in 1 .. WindowCount(g, d) - 1
  PROVE  /\ Boundary(Planned(g, d), i) = 2 * WindowStart(g, i) - Stride(g) + g.window
         /\ Boundary(Planned(g, d), i) = WindowEnd(g, i - 1, d) + WindowStart(g, i)
         /\ WindowStart(g, i) \in Int /\ WindowEnd(g, i - 1, d) \in Int
         /\ WindowStart(g, i) <= WindowEnd(g, i - 1, d)
  <1> DEFINE n == WindowCount(g, d)
  <1>1. /\ n \in Nat \ {0}
        /\ n > 1 => WindowStart(g, n - 2) + g.window < d
    BY CountBounds
  <1>2. /\ WindowStart(g, i - 1) \in Int
        /\ WindowStart(g, i) = WindowStart(g, i - 1) + Stride(g)
        /\ WindowStart(g, i) \in Int
        /\ WindowStart(g, i - 1) <= WindowStart(g, n - 2)
        /\ WindowStart(g, n - 2) \in Int
    <2>1. i - 1 \in Int /\ i \in Int /\ n - 2 \in Int /\ i - 1 <= n - 2 /\ (i - 1) + 1 = i
      BY <1>1
    <2> HIDE DEF n
    <2>2. WindowStart(g, (i - 1) + 1) = WindowStart(g, i - 1) + Stride(g)
      BY <2>1, StartsAscend
    <2> QED  BY <2>1, <2>2, StartsAscend
  <1>3. Stride(g) \in Int /\ Stride(g) <= g.window /\ g.window \in Nat
    BY StrideBounds
  <1>4. WindowEnd(g, i - 1, d) = WindowStart(g, i - 1) + g.window
    BY <1>1, <1>2, <1>3 DEF WindowEnd
  <1>5. Boundary(Planned(g, d), i) = WindowEnd(g, i - 1, d) + WindowStart(g, i)
    <2>1. i - 1 \in Indices(g, d) /\ i \in Indices(g, d)
      BY <1>1 DEF Indices
    <2> QED  BY <2>1 DEF Boundary, Planned, Window
  <1> QED  BY <1>2, <1>3, <1>4, <1>5

\* The plan's first and last window have one neighbour each.
LEMMA PlannedKeeps ==
  ASSUME NEW g, Cuts(g), NEW d \in Nat \ {0}, NEW mid \in Int, NEW i \in Indices(g, d)
  PROVE  Keeps(Planned(g, d), i, mid) <=>
           /\ i > 0 => mid >= Boundary(Planned(g, d), i)
           /\ i < WindowCount(g, d) - 1 => mid < Boundary(Planned(g, d), i + 1)
  <1>1. WindowCount(g, d) \in Nat \ {0}
    BY CountBounds
  <1>2. DOMAIN Planned(g, d) = 0 .. WindowCount(g, d) - 1 /\ i \in 0 .. WindowCount(g, d) - 1
    BY DEF Planned, Indices
  <1> QED  BY <1>1, <1>2 DEF Keeps

\* Whatever windows heard an utterance, _finalize keeps it once: for every
\* window, overlap, length and midpoint.
THEOREM KeptOnce ==
  ASSUME NEW g, Cuts(g), NEW d \in Nat \ {0}, NEW mid \in Int
  PROVE  \E i \in Indices(g, d) :
           /\ Keeps(Planned(g, d), i, mid)
           /\ \A k \in Indices(g, d) : Keeps(Planned(g, d), k, mid) => k = i
  <1> DEFINE s == Stride(g)
             W == g.window
             n == WindowCount(g, d)
             q == (mid + s - W) \div (2 * s)
             bound(i) == 2 * (i * s) - s + W
             keeps(i) == (i > 0 => mid >= bound(i)) /\ (i < n - 1 => mid < bound(i + 1))
  <1>1. s \in Int /\ s > 0 /\ W \in Nat
    BY StrideBounds
  <1>2. n \in Nat \ {0}
    BY CountBounds
  <1>3. \A i \in 1 .. n - 1 : Boundary(Planned(g, d), i) = bound(i)
    BY BoundariesAscend DEF WindowStart
  <1>4. \A i, k \in Int : i <= k => bound(i) <= bound(k) /\ bound(i) \in Int
    <2> HIDE DEF s, W
    <2>1. SUFFICES ASSUME NEW i \in Int, NEW k \in Int, i <= k
                   PROVE  bound(i) <= bound(k) /\ bound(i) \in Int
      OBVIOUS
    <2>2. i * s <= k * s /\ i * s \in Int /\ k * s \in Int
      BY <2>1, <1>1, Monotone
    <2> QED  BY <2>2, <1>1
  <1>5. q \in Int /\ bound(q) <= mid /\ mid < bound(q + 1)
    <2> HIDE DEF s, W
    <2>1. mid + s - W \in Int /\ 2 * s \in Int /\ 2 * s > 0
      BY <1>1
    <2>2. q \in Int /\ (2 * s) * q <= mid + s - W /\ mid + s - W < (2 * s) * q + 2 * s
      BY <2>1, Division
    <2> HIDE DEF q
    <2>3. (2 * s) * q = 2 * (q * s) /\ (q + 1) * s = q * s + s /\ q * s \in Int
      BY <2>2, <1>1
    <2> QED  BY <2>2, <2>3, <1>1
  <1> HIDE DEF q, bound, s, W, n
  <1>6. \A i, k \in 0 .. n - 1 : i < k => ~(keeps(i) /\ keeps(k))
    <2>1. SUFFICES ASSUME NEW i \in 0 .. n - 1, NEW k \in 0 .. n - 1, i < k, keeps(i), keeps(k)
                   PROVE  FALSE
      OBVIOUS
    <2>2. mid < bound(i + 1) /\ bound(k) <= mid
      BY <2>1, <1>2
    <2>3. bound(i + 1) <= bound(k) /\ bound(i + 1) \in Int /\ bound(k) \in Int
      BY <2>1, <1>2, <1>4
    <2> QED  BY <2>2, <2>3
  <1>7. \E i \in 0 .. n - 1 : keeps(i)
    <2>1. CASE q < 0
      <3>1. bound(q + 1) <= bound(1) /\ bound(q + 1) \in Int /\ bound(1) \in Int
        BY <2>1, <1>4, <1>5
      <3>2. keeps(0)
        BY <3>1, <1>5
      <3> QED  BY <3>2, <1>2
    <2>2. CASE q \in 0 .. n - 1
      BY <2>2, <1>4, <1>5
    <2>3. CASE q > n - 1
      <3>1. bound(n - 1) <= bound(q) /\ bound(n - 1) \in Int /\ bound(q) \in Int
        BY <2>3, <1>2, <1>4, <1>5
      <3>2. keeps(n - 1)
        BY <3>1, <1>2, <1>5
      <3> QED  BY <3>2, <1>2
    <2> QED  BY <2>1, <2>2, <2>3, <1>2, <1>5
  <1>8. \A i \in 0 .. n - 1 : Keeps(Planned(g, d), i, mid) <=> keeps(i)
    <2> SUFFICES ASSUME NEW i \in 0 .. n - 1  PROVE Keeps(Planned(g, d), i, mid) <=> keeps(i)
      OBVIOUS
    <2>1. i \in Indices(g, d)
      BY DEF Indices, n
    <2>2. /\ i > 0 => Boundary(Planned(g, d), i) = bound(i)
          /\ i < n - 1 => Boundary(Planned(g, d), i + 1) = bound(i + 1)
      BY <1>2, <1>3
    <2>3. Keeps(Planned(g, d), i, mid) <=>
            /\ i > 0 => mid >= Boundary(Planned(g, d), i)
            /\ i < n - 1 => mid < Boundary(Planned(g, d), i + 1)
      BY <2>1, PlannedKeeps DEF n
    <2> QED  BY <2>2, <2>3
  <1> HIDE DEF keeps
  <1>9. PICK i \in 0 .. n - 1 : keeps(i)
    BY <1>7
  <1>10. \A k \in 0 .. n - 1 : keeps(k) => k = i
    BY <1>2, <1>6, <1>9
  <1> QED  BY <1>8, <1>9, <1>10 DEF Indices, n

\* The window _finalize lets speak heard what it says: for every window,
\* overlap, length and midpoint inside the recording.
THEOREM KeeperHears ==
  ASSUME NEW g, Cuts(g), NEW d \in Nat \ {0}, NEW mid \in 0 .. 2 * d - 1,
         NEW i \in Indices(g, d), Keeps(Planned(g, d), i, mid)
  PROVE  Hears(Planned(g, d), i, mid)
  <1> DEFINE n == WindowCount(g, d)
  <1>1. n \in Nat \ {0} /\ i \in 0 .. n - 1
    BY CountBounds DEF Indices
  <1>2. /\ i > 0 => mid >= Boundary(Planned(g, d), i)
        /\ i < n - 1 => mid < Boundary(Planned(g, d), i + 1)
    BY PlannedKeeps
  <1>3. g.window \in Nat /\ WindowStart(g, i) \in Int /\ WindowEnd(g, i, d) \in Int
    BY <1>1, StartsAscend, StrideBounds DEF WindowEnd
  <1>4. 2 * WindowStart(g, i) <= mid
    <2>1. CASE i = 0
      <3>1. WindowStart(g, 0) = 0
        BY StrideBounds DEF WindowStart
      <3> QED  BY <3>1, <2>1
    <2>2. CASE i > 0
      <3>1. i \in 1 .. n - 1
        BY <2>2, <1>1
      <3> QED  BY <3>1, <2>2, <1>2, <1>3, BoundariesAscend
    <2> QED  BY <2>1, <2>2, <1>1
  <1>5. mid < 2 * WindowEnd(g, i, d)
    <2>1. CASE i = n - 1
      <3>1. WindowStart(g, i) + g.window >= d
        BY <2>1, CountBounds
      <3> QED  BY <3>1, <1>3 DEF WindowEnd
    <2>2. CASE i < n - 1
      <3>1. (i + 1) \in 1 .. n - 1 /\ (i + 1) - 1 = i
        BY <2>2, <1>1
      <3>2. /\ Boundary(Planned(g, d), i + 1) = WindowEnd(g, (i + 1) - 1, d) + WindowStart(g, i + 1)
            /\ WindowStart(g, i + 1) <= WindowEnd(g, (i + 1) - 1, d)
            /\ WindowStart(g, i + 1) \in Int
        BY <3>1, BoundariesAscend
      <3>3. /\ Boundary(Planned(g, d), i + 1) = WindowEnd(g, i, d) + WindowStart(g, i + 1)
            /\ WindowStart(g, i + 1) <= WindowEnd(g, i, d)
        BY <3>1, <3>2
      <3> QED  BY <2>2, <3>2, <3>3, <1>2, <1>3
    <2> QED  BY <2>1, <2>2, <1>1
  <1>6. Planned(g, d)[i].start = WindowStart(g, i) /\ Planned(g, d)[i].end = WindowEnd(g, i, d)
    BY DEF Planned, Window
  <1> QED  BY <1>4, <1>5, <1>6 DEF Hears

\* Every moment of the recording is heard by a window, and every window hears
\* something.
THEOREM PlanCovers ==
  ASSUME NEW g, Cuts(g), NEW d \in Nat \ {0}
  PROVE  /\ \A mid \in 0 .. 2 * d - 1 : \E i \in Indices(g, d) : Hears(Planned(g, d), i, mid)
         /\ \A i \in Indices(g, d) : WindowStart(g, i) < d
  <1>1. ASSUME NEW mid \in 0 .. 2 * d - 1
        PROVE  \E i \in Indices(g, d) : Hears(Planned(g, d), i, mid)
    <2>1. PICK i \in Indices(g, d) : Keeps(Planned(g, d), i, mid)
      BY KeptOnce
    <2> QED  BY <2>1, KeeperHears
  <1>2. ASSUME NEW i \in Indices(g, d)
        PROVE  WindowStart(g, i) < d
    <2> DEFINE n == WindowCount(g, d)
    <2>1. n \in Nat \ {0} /\ i \in 0 .. n - 1 /\ WindowStart(g, n - 1) < d
      BY CountBounds DEF Indices
    <2>2. /\ WindowStart(g, i) \in Int /\ WindowStart(g, n - 1) \in Int
          /\ WindowStart(g, i) <= WindowStart(g, n - 1)
      BY <2>1, StartsAscend
    <2> HIDE DEF n
    <2> QED  BY <2>1, <2>2
  <1> QED  BY <1>1, <1>2
=============================================================================
