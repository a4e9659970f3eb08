---------------------------- MODULE MCConfigStore ----------------------------
(***************************************************************************)
(* Two administrators, and a configuration file that names one provider    *)
(* list, one token list and one client list.                               *)
(***************************************************************************)
EXTENDS ConfigStore, TLC

CONSTANTS a1, a2, old, new, defaults

MCFile == [f \in Fields |-> old]
AllDuties == [a \in {a1, a2} |-> Fields]

(***************************************************************************)
(* One edits the tokens, the other the clients: no field has two editors.  *)
(***************************************************************************)
SplitDuties == (a1 :> {"access_tokens"}) @@ (a2 :> {"clients"})

Symmetry == Permutations({a1, a2})
=============================================================================
