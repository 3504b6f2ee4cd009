-------------------------- MODULE MCTranscriptText --------------------------
(***************************************************************************)
(* A promise of the documents about TranscriptText that the code does not  *)
(* keep.                                                                   *)
(***************************************************************************)
EXTENDS TranscriptText

\* "This produces finer speaker turns without a second model pass and never
\* discards transcript text" (docs/model-strategy.md): the transcript has no
\* less text than if the segment had been appended whole.
NothingDiscarded ==
  [][worded' > worded =>
       Len(Compact(text')) >= Len(Compact(AppendWithoutOverlap(text, words)))]_vars
=============================================================================
