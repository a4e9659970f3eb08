---------------------------- MODULE MCClientGate ----------------------------
(***************************************************************************)
(* Instances of ClientGate for TLC.                                        *)
(***************************************************************************)
EXTENDS ClientGate, TLC

CONSTANTS h1, h2,           \* handlers
          alice, legacy,    \* names
          tokA,             \* tokens
          m1, m2            \* models

Handlers2 == {h1, h2}

Alice(daily, rpm, concurrent) ==
    [name |-> alice, token |-> tokA, enabled |-> TRUE, dailyLimit |-> daily,
     rpmLimit |-> rpm, concurrentLimit |-> concurrent, allowedModels |-> {m1}]

Only(k) == [clients |-> {k}, accessTokens |-> {}, models |-> Models,
            prefixed |-> {}]

(***************************************************************************)
(* The concurrency limit is raised, lifted and set again; and the client   *)
(* is deleted while its token becomes one of ACCESS_TOKENS.                *)
(***************************************************************************)
One == Only(Alice(0, 0, 1))
Legacy == [clients |-> {}, accessTokens |-> {tokA}, models |-> Models,
           prefixed |-> {}]
SlotEdits == {One, Only(Alice(0, 0, 2)), Only(Alice(0, 0, 0)), Legacy}

(***************************************************************************)
(* Two calls a day and two a minute.  The edits move other fields: the     *)
(* concurrency limit and the models the providers list: at first m1 can be *)
(* had under the name of its provider only.                                *)
(***************************************************************************)
Quota == [clients |-> {Alice(2, 2, 1)}, accessTokens |-> {}, models |-> {},
          prefixed |-> {m1}]
QuotaEdits == {Quota, Only(Alice(2, 2, 2))}

Symmetry2 == Permutations(Handlers2)
=============================================================================
