---------------------------- MODULE MCKeyPicker ----------------------------
(***************************************************************************)
(* Two providers, one with two keys and one whose key count is edited, and *)
(* a word of four values, so that a cursor wraps around.                   *)
(***************************************************************************)
EXTENDS KeyPicker, TLC

CONSTANTS c1, c2, c3, openai, gemini, p1, p2, p3

MCKeyCounts == (openai :> {2}) @@ (gemini :> {2, 3})

Symmetry == Permutations({c1, c2, c3}) \cup Permutations({p1, p2, p3})
=============================================================================
