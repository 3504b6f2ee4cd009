--------------------------- MODULE MCModelInstall ---------------------------
(***************************************************************************)
(* ModelInstall on a small catalogue.                                      *)
(***************************************************************************)
EXTENDS ModelInstall

CONSTANTS asr, vad, speech, voice

\* One model with a component of its own and a shared one, one with the
\* shared component only.
MCModelComponents == [m \in Models |-> IF m = speech THEN <<asr, vad>> ELSE <<vad>>]
=============================================================================
