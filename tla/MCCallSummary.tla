--------------------------- MODULE MCCallSummary ---------------------------
(***************************************************************************)
(* A window of three ticks in two points: the second one is the longer.    *)
(***************************************************************************)
EXTENDS CallSummary, TLC

CONSTANTS openai, gemini

Symmetry == Permutations({openai, gemini})
=============================================================================
