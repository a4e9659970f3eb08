------------------------------ MODULE SlotPool ------------------------------
(***************************************************************************)
(* What the concurrency limiter of the server promises, with no counter in *)
(* it: a pool of slots that are taken under a limit and given back.        *)
(*                                                                         *)
(* Each slot records who holds it, for which client name, and the limit    *)
(* that was in force when it was taken.  The limit belongs to the taking,  *)
(* not to the name, because an administrator may change the limit of a     *)
(* client while requests of that client are in flight.                     *)
(***************************************************************************)
EXTENDS Naturals, FiniteSets

CONSTANTS Users,    \* who may hold a slot: the request handlers
          Names,    \* the client names slots are counted under
          Limits    \* the limits a slot may be taken under, positive numbers

VARIABLE held       \* the set of slots now held

Slot == [user : Users, name : Names, limit : Limits]

HeldUnder(n) == {s \in held : s.name = n}

(***************************************************************************)
(* The slots of n taken under a limit of at most k.                        *)
(***************************************************************************)
TakenWithin(n, k) == {s \in held : s.name = n /\ s.limit <= k}

Init == held = {}

(***************************************************************************)
(* s may be taken only while fewer slots than its limit are held under its *)
(* name, whatever the limits those were taken under.                       *)
(***************************************************************************)
Take(s) == /\ \A t \in held : t.user # s.user
           /\ Cardinality(HeldUnder(s.name)) < s.limit
           /\ held' = held \cup {s}

Give(s) == held' = held \ {s}

(***************************************************************************)
(* The process ends and every slot with it.                                *)
(***************************************************************************)
Reset == held' = {}

Next == \/ \E s \in Slot : Take(s)
        \/ \E s \in held : Give(s)
        \/ Reset

Spec == Init /\ [][Next]_held

TypeOK == /\ held \subseteq Slot
          /\ IsFiniteSet(held)

(***************************************************************************)
(* Of the slots held under one name, at most k were taken under a limit of *)
(* k or less.  With one limit that never changes this is "at most k slots"; *)
(* stated for every k it survives any sequence of edits of the limit.      *)
(***************************************************************************)
LimitHolds == \A n \in Names, k \in Limits :
                 Cardinality(TakenWithin(n, k)) <= k
=============================================================================
