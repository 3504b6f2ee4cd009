---------------------------- MODULE WindowPlan ----------------------------
(***************************************************************************)
(* The geometry of the processing windows of one recording: how many       *)
(* windows a recording is cut into, which part of it each window hears,    *)
(* and which window owns an utterance that two windows heard.              *)
(*                                                                         *)
(* A geometry g is any record with the fields window and overlap, the      *)
(* settings batch_window_seconds and batch_window_overlap_seconds.         *)
(*                                                                         *)
(* Time is counted in whole ticks.  The code divides by two to find the    *)
(* boundary between two windows; positions that may fall on a half tick    *)
(* are kept doubled here, so that nothing is rounded.                      *)
(***************************************************************************)
EXTENDS Integers

Stride(g) == g.window - g.overlap

CeilDiv(a, b) == (a + b - 1) \div b

\* Mutant of WindowCount: the last, partial stride is not counted.
WindowCountFloor(g, length) ==
  IF length <= g.window THEN 1 ELSE 1 + (length - g.window) \div Stride(g)

WindowCount(g, length) ==
  IF length <= g.window
    THEN 1
    ELSE 1 + CeilDiv(length - g.window, Stride(g))

Indices(g, length) == 0 .. WindowCount(g, length) - 1

\* What window i hears: the ticks from WindowStart (included) to WindowEnd
\* (excluded).
WindowStart(g, i) == i * Stride(g)

WindowEnd(g, i, length) ==
  IF WindowStart(g, i) + g.window <= length
    THEN WindowStart(g, i) + g.window
    ELSE length

Window(g, i, length) == [start |-> WindowStart(g, i), end |-> WindowEnd(g, i, length)]

\* The windows of a transcript, as they were heard: twice the point half way
\* between the end of window i - 1 and the start of window i.
Boundary(windows, i) == windows[i - 1].end + windows[i].start

\* Window i keeps an utterance whose doubled midpoint is mid.
Keeps(windows, i, mid) ==
  /\ i - 1 \in DOMAIN windows => mid >= Boundary(windows, i)
  /\ i + 1 \in DOMAIN windows => mid < Boundary(windows, i + 1)

Hears(windows, i, mid) == 2 * windows[i].start <= mid /\ mid < 2 * windows[i].end
===========================================================================
