----------------------------- MODULE MCAccounts -----------------------------
(***************************************************************************)
(* Two names, asked for by two requests at the same time.                  *)
(***************************************************************************)
EXTENDS Accounts, TLC

CONSTANTS h1, h2, ann, bob, k1

Symmetry == Permutations({h1, h2}) \cup Permutations({ann, bob})
=============================================================================
