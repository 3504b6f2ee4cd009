--------------------------- MODULE AudioRequests ---------------------------
(***************************************************************************)
(* A request that carries audio: a synchronous transcription, the          *)
(* embedding of one voice sample, or the analysis of several.  Uploads are *)
(* copied to temporary files, which the handler removes whatever happens.  *)
(***************************************************************************)
EXTENDS SpeakerSamples

CONSTANTS
  MaxFiles,    \* SPEAKER_SAMPLE_ANALYSIS_MAX_FILES
  MaxTotal,    \* SPEAKER_SAMPLE_ANALYSIS_MAX_TOTAL_SECONDS
  Durations    \* of the samples that are neither too short nor too long

ASSUME RequestAssumption ==
  /\ MaxFiles \in Nat \ {0}
  /\ MaxTotal \in Nat
  \* A boundary is half way between two windows: whole ticks if durations are
  \* even.  Samples have 3 to 12 seconds.
  /\ \A d \in Durations : d \in 120..480 /\ d % 2 = 0

VARIABLES
  pc,        \* where the handler is
  endpoint,  \* which handler
  files,     \* how many files were sent
  paths,     \* the paths the handler knows and has not removed yet
  temp,      \* the temporary files on the disk
  clips,     \* durations of the samples that were read
  group,     \* group of each clip
  match,     \* which windows match their clip, as far as compared
  analysis,  \* what analyze returned
  mishap     \* what kept the handler from removing a file

vars == <<pc, endpoint, files, paths, temp, clips, group, match, analysis, mishap>>
work == <<clips, group, match, analysis>>

\* Files are numbered as they come.
Upcoming == Len(paths) + 1

NoAnalysis == [ranges |-> {}, preview |-> Turn(0, 0, 0, FALSE)]

At(place) == pc = place
Goto(place) == pc' = place

Init ==
  /\ pc = "waiting"
  /\ endpoint = "transcribe"
  /\ files = 0 /\ paths = <<>>
  /\ temp = {}
  /\ clips = <<>> /\ group = <<>> /\ match = <<>>
  /\ analysis = NoAnalysis
  /\ mishap = "none"

\* Too many samples are refused before any is read.
Receive(e, n) ==
  /\ At("waiting")
  /\ n = 1 \/ e = "analyze"
  /\ endpoint' = e
  /\ files' = n
  /\ Goto(IF n > MaxFiles THEN "ended" ELSE "upload")
  /\ UNCHANGED <<paths, temp, mishap, work>>

-----------------------------------------------------------------------------
(* persist_upload, validation *)

\* Only audio suffixes are let in; creating the file may fail.
Create ==
  /\ At("upload")
  /\ \/ temp' = temp \cup {Upcoming} /\ Goto("copy")
     \/ temp' = temp /\ Goto("cleanup")
  /\ UNCHANGED <<endpoint, files, paths, mishap, work>>

\* The upload is closed, and the handler is given the path.
Copied ==
  /\ At("copy")
  /\ paths' = Append(paths, Upcoming)
  /\ Goto("validate")
  /\ UNCHANGED <<endpoint, files, temp, mishap, work>>

\* Closing the upload fails, in the finally clause: the file is whole, and the
\* handler is not told its path.
CloseFails ==
  /\ At("copy")
  /\ mishap' = "unclosed"
  /\ Goto("cleanup")
  /\ UNCHANGED <<endpoint, files, paths, temp, work>>

\* Mutant of CopyFails: the handler is left to remove what it does not know.
CopyFailsKept ==
  /\ At("copy")
  /\ Goto("cleanup")
  /\ UNCHANGED <<endpoint, files, paths, temp, mishap, work>>

\* Empty, too large, or an error while writing: the file is removed, if it
\* can be.
CopyFails ==
  /\ At("copy")
  /\ \/ temp' = temp \ {Upcoming} /\ UNCHANGED mishap
     \/ temp' = temp /\ mishap' = "undeletable"
  /\ Goto("cleanup")
  /\ UNCHANGED <<endpoint, files, paths, work>>

\* A cancellation, when the server is forced to stop, is no Exception.
CopyCancelled ==
  /\ At("copy")
  /\ mishap' = "cancelled"
  /\ Goto("cleanup")
  /\ UNCHANGED <<endpoint, files, paths, temp, work>>

\* Format, size and duration are as they should be.
Validate ==
  /\ At("validate")
  /\ IF endpoint = "analyze"
       THEN \E d \in Durations : clips' = Append(clips, d)
       ELSE UNCHANGED clips
  /\ Goto(IF Len(paths) < files THEN "upload"
          ELSE IF FoldLeft(+, 0, clips') > MaxTotal THEN "cleanup"
          ELSE "infer")
  /\ UNCHANGED <<endpoint, files, paths, temp, group, match, analysis, mishap>>

\* Or they are not, or the model fails, or the request is cancelled.
Refuse ==
  /\ pc \in {"validate", "infer", "compare"}
  /\ Goto("cleanup")
  /\ UNCHANGED <<endpoint, files, paths, temp, mishap, work>>

-----------------------------------------------------------------------------
(* Inference *)

Infer ==
  /\ At("infer") /\ endpoint # "analyze"
  /\ Goto("cleanup")
  /\ UNCHANGED <<endpoint, files, paths, temp, mishap, work>>

\* _cluster_candidates may group the clips in any way; labels leave no gap.
Cluster ==
  /\ At("infer") /\ endpoint = "analyze"
  /\ group' \in [DOMAIN clips -> DOMAIN clips]
  /\ \A i \in DOMAIN clips : group'[i] = 1 \/ \E j \in DOMAIN clips : group'[j] = group'[i] - 1
  /\ match' = [i \in DOMAIN clips |-> <<>>]
  /\ Goto("compare")
  /\ UNCHANGED <<endpoint, files, paths, temp, clips, analysis, mishap>>

Compared(i) == Len(match[i]) = Cardinality(WindowsOf(clips[i]))

\* The next window is compared with its clip.  No window of a clip outside
\* the dominant group matches.
Compare(similar) ==
  /\ At("compare")
  /\ \E i \in DOMAIN clips :
       /\ ~Compared(i) /\ \A j \in 1..(i - 1) : Compared(j)
       /\ i \notin Selected(clips, group) => ~similar
       /\ match' = [match EXCEPT ![i] = Append(@, similar)]
  /\ UNCHANGED <<pc, endpoint, files, paths, temp, clips, group, analysis, mishap>>

Analyze ==
  /\ At("compare") /\ \A i \in DOMAIN clips : Compared(i)
  /\ analysis' = Analysis(clips, group, match)
  /\ Goto("cleanup")
  /\ UNCHANGED <<endpoint, files, paths, temp, clips, group, match, mishap>>

-----------------------------------------------------------------------------
(* The finally clause *)

\* A file that cannot be removed ends the loop over the others.
RemoveFile ==
  /\ At("cleanup") /\ paths # <<>>
  /\ \/ temp' = temp \ {Head(paths)}
        /\ paths' = Tail(paths)
        /\ UNCHANGED <<pc, mishap>>
     \/ /\ mishap' = "undeletable"
        /\ Goto("ended")
        /\ UNCHANGED <<temp, paths>>
  /\ UNCHANGED <<endpoint, files, work>>

Respond ==
  /\ At("cleanup") /\ paths = <<>>
  /\ Goto("ended")
  /\ UNCHANGED <<endpoint, files, paths, temp, mishap, work>>
-----------------------------------------------------------------------------

Next ==
  \/ \E e \in {"transcribe", "embed", "analyze"}, n \in 1..(MaxFiles + 1) : Receive(e, n)
  \/ Create \/ Copied \/ CloseFails \/ CopyFails \/ CopyCancelled
  \/ Validate \/ Refuse
  \/ Infer \/ Cluster \/ Analyze \/ \E similar \in BOOLEAN : Compare(similar)
  \/ RemoveFile \/ Respond

Spec == Init /\ [][Next]_vars

-----------------------------------------------------------------------------
(* Properties *)

TypeOK ==
  /\ pc \in {"waiting", "upload", "copy", "validate", "infer", "compare", "cleanup", "ended"}
  /\ endpoint \in {"transcribe", "embed", "analyze"}
  /\ files \in 0..(MaxFiles + 1)
  /\ paths \in Seq(1..MaxFiles) /\ temp \subseteq 1..MaxFiles
  /\ clips \in Seq(Durations)
  /\ group = <<>> \/ group \in [DOMAIN clips -> DOMAIN clips]
  /\ match = <<>> \/ match \in [DOMAIN clips -> Seq(BOOLEAN)]
  /\ mishap \in {"none", "cancelled", "undeletable", "unclosed"}

\* A request leaves no audio behind, however it ends, unless a file cannot be
\* removed, its upload cannot be closed, or the server is stopped by force while
\* it is written (the finally clauses of the routes, and the except and finally
\* clauses of persist_upload).
NothingLeft == At("ended") /\ mishap = "none" => temp = {}

\* Only audio that sounds like its clip is enrolled: each moment of an accepted
\* range is in a window that matches, the ranges are apart, and no window that
\* does not match reaches into one, but for the last two of a clip: the last,
\* which is moved back, and the one before, whose turn may be short (analyze).
EnrolledIsStable ==
  LET In(r, k, moment) ==
        WindowStart(k, clips[r.file]) <= moment /\ moment < WindowEnd(k, clips[r.file])
      Moments(r) == r.start .. r.end - 1
      Matches(r, k) == match[r.file][k + 1]
  IN /\ \A r \in analysis.ranges :
          LET windows == WindowsOf(clips[r.file])
          IN /\ \A moment \in Moments(r) : \E k \in windows : Matches(r, k) /\ In(r, k, moment)
             /\ \A k \in windows :
                  ~Matches(r, k) /\ k + 2 \in windows
                    => \A moment \in Moments(r) : ~In(r, k, moment)
     /\ \A r, s \in analysis.ranges :
          r # s /\ r.file = s.file => r.end < s.start \/ s.end < r.start

\* What a user is given to listen to is playable, and when a voice is enrolled
\* it is a part of what was enrolled, not of another clip or speaker (the choice
\* of preview_source).
PreviewIsEnrolled ==
  analysis # NoAnalysis =>
    LET p == analysis.preview
        ranges == analysis.ranges
    IN /\ 0 <= p.start /\ p.start < p.end /\ p.end <= clips[p.file]
       /\ Length(p) <= MaxPreview
       /\ p.file \in Selected(clips, group)
       /\ ranges # {} => \E r \in ranges :
            p.file = r.file /\ r.start <= p.start /\ p.end <= r.end
=============================================================================
