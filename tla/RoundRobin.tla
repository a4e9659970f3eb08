----------------------------- MODULE RoundRobin -----------------------------
(***************************************************************************)
(* What KeyPicker promises: each provider has a turn of its own, a pick    *)
(* hands out the key whose turn it is and moves the turn on, in one step.  *)
(***************************************************************************)
EXTENDS Naturals

CONSTANTS Names,        \* provider names
          KeyCounts,    \* for each name, how many keys it may be configured with
          WordSize      \* the turn is an unsigned machine word of this many values

VARIABLES turn,     \* turn[n]: where the rotation of n stands
          served    \* served[n][i]: how often key i of n was handed out

Indexes == 0 .. WordSize - 1

Init == /\ turn = [n \in Names |-> 0]
        /\ served = [n \in Names |-> [i \in Indexes |-> 0]]

Pick(n, keys) ==
    /\ turn' = [turn EXCEPT ![n] = (@ + 1) % WordSize]
    /\ served' = [served EXCEPT ![n][turn[n] % keys] = @ + 1]

Next == \E n \in Names : \E keys \in KeyCounts[n] : Pick(n, keys)

Spec == Init /\ [][Next]_<<turn, served>>
=============================================================================
