-------------------------- MODULE KeyPicker_proofs --------------------------
(***************************************************************************)
(* Theorems about KeyPicker, for every set of callers, providers and       *)
(* pointers, every word size and every number of keys.                     *)
(***************************************************************************)
EXTENDS KeyPicker, FiniteSetTheorems, TLAPS

(***************************************************************************)
(* The inductive invariant: a busy caller has a provider and a number of   *)
(* keys that provider may have, and the pointers in the map are allocated. *)
(***************************************************************************)
BusyCallers ==
    \A c \in Callers : pc[c] # "idle" =>
       provider[c] \in Names /\ keys[c] \in KeyCounts[provider[c]]

Allocated == \A n \in DOMAIN cursors : cursors[n] \in DOMAIN heap

Inv == TypeOK /\ BusyCallers /\ Allocated /\ OneCursorPerProvider

(***************************************************************************)
(* Counting modulo the word, and the remainder by a key count, stay in the *)
(* range of the word.                                                      *)
(***************************************************************************)
LEMMA IndexRange ==
    ASSUME NEW i \in Indexes, NEW n \in Names, NEW k \in KeyCounts[n]
    PROVE  (i + 1) % WordSize \in Indexes /\ i % k \in Indexes /\ i % k \in 0 .. k - 1
<1>1. k \in Nat /\ 2 <= k /\ k <= WordSize
  BY KeysAssumption
<1>2. WordSize \in Nat \ {0} /\ i \in Nat
  BY WordAssumption DEF Indexes
<1>3. i % k \in 0 .. k - 1
  BY <1>1, <1>2
<1>4. (i + 1) % WordSize \in 0 .. WordSize - 1
  BY <1>2
<1> QED
  BY <1>1, <1>2, <1>3, <1>4 DEF Indexes

(***************************************************************************)
(* Initially nothing is allocated and nobody is busy.                      *)
(***************************************************************************)
LEMMA InitInv == Init => Inv
<1> SUFFICES ASSUME Init PROVE Inv
  OBVIOUS
<1>1. 0 \in Indexes
  BY WordAssumption DEF Indexes
<1>2. TypeOK
  BY <1>1 DEF Init, TypeOK, Places
<1> QED
  BY <1>2 DEF Init, Inv, BusyCallers, Allocated, OneCursorPerProvider

(***************************************************************************)
(* The atomic add keeps the invariant.                                     *)
(***************************************************************************)
LEMMA AddInv ==
    ASSUME Inv, NEW c \in Callers, Add(c)
    PROVE  Inv'
<1> USE DEF Inv
<1>1. /\ pc[c] = "add" /\ provider[c] \in Names /\ keys[c] \in KeyCounts[provider[c]]
      /\ provider[c] \in DOMAIN cursors /\ cursor[c] = cursors[provider[c]]
      /\ cursor[c] \in DOMAIN heap /\ heap[cursor[c]] \in Indexes
  BY DEF Add, Index, Advanced, BusyCallers, OneCursorPerProvider, Allocated, TypeOK
<1>2. /\ (heap[cursor[c]] + 1) % WordSize \in Indexes
      /\ heap[cursor[c]] % keys[c] \in Indexes
  BY <1>1, IndexRange
<1>3. DOMAIN heap' = DOMAIN heap /\ heap' \in [DOMAIN heap -> Indexes]
  BY <1>1, <1>2 DEF Add, Index, Advanced, TypeOK
<1>4. served' \in [Names -> [Indexes -> Nat]]
  BY <1>1, <1>2 DEF Add, Index, Advanced, TypeOK
<1>8. ASSUME NEW n \in Names, NEW i \in Indexes, served'[n][i] > 0
      PROVE  \E k \in KeyCounts[n] : i < k
  <2>1. CASE n = provider[c] /\ i = Index(heap[cursor[c]], keys[c])
    <3>1. Index(heap[cursor[c]], keys[c]) \in 0 .. keys[c] - 1 /\ keys[c] \in Nat
      BY <1>1, IndexRange, KeysAssumption DEF Index
    <3> QED
      BY <1>1, <2>1, <3>1
  <2>2. CASE ~(n = provider[c] /\ i = Index(heap[cursor[c]], keys[c]))
    <3>1. served'[n][i] = served[n][i]
      BY <1>1, <2>2 DEF Add, TypeOK
    <3> QED
      BY <1>8, <3>1 DEF TypeOK
  <2> QED
    BY <2>1, <2>2
<1>5. TypeOK'
  BY <1>3, <1>4, <1>8 DEF Add, Index, Advanced, Goto, TypeOK, Places
<1>6. BusyCallers' /\ OneCursorPerProvider'
  BY DEF Add, Index, Advanced, Goto, TypeOK, BusyCallers, OneCursorPerProvider
<1>7. Allocated'
  BY <1>3 DEF Add, Index, Advanced, Allocated
<1> QED
  BY <1>5, <1>6, <1>7

(***************************************************************************)
(* Creating a cursor keeps the invariant: the new pointer is nobody's.     *)
(***************************************************************************)
LEMMA CreateInv ==
    ASSUME Inv, NEW c \in Callers, NEW p \in Pointers, CreateMiss(c, p)
    PROVE  Inv'
<1> USE DEF Inv
<1>1. provider[c] \in Names /\ provider[c] \notin DOMAIN cursors /\ p \notin DOMAIN heap
  BY DEF CreateMiss, BusyCallers
<1>2. /\ DOMAIN cursors' = DOMAIN cursors \cup {provider[c]}
      /\ cursors'[provider[c]] = p
      /\ \A n \in DOMAIN cursors : cursors'[n] = cursors[n]
  BY <1>1 DEF CreateMiss, Installed
<1>3. /\ DOMAIN heap' = DOMAIN heap \cup {p}
      /\ heap' \in [DOMAIN heap' -> Indexes]
  <2>1. 0 \in Indexes
    BY WordAssumption DEF Indexes
  <2> QED
    BY <2>1 DEF CreateMiss, TypeOK
<1>4. cursors' \in [DOMAIN cursors' -> Pointers]
  BY <1>1 DEF CreateMiss, Installed, TypeOK
<1>5. TypeOK'
  BY <1>1, <1>2, <1>3, <1>4 DEF CreateMiss, Goto, TypeOK, Places
<1>6. BusyCallers'
  BY DEF CreateMiss, Goto, TypeOK, BusyCallers
<1>7. Allocated'
  BY <1>2, <1>3 DEF Allocated
<1>8. OneCursorPerProvider'
  <2>1. \A n \in DOMAIN cursors : cursors[n] # p
    BY <1>1 DEF Allocated
  <2>2. \A d \in Callers : pc'[d] = "add" =>
           provider'[d] \in DOMAIN cursors' /\ cursor'[d] = cursors'[provider'[d]]
    BY <1>2 DEF CreateMiss, Goto, TypeOK, OneCursorPerProvider
  <2>3. \A m, n \in DOMAIN cursors' : cursors'[m] = cursors'[n] => m = n
    BY <1>2, <2>1 DEF OneCursorPerProvider
  <2> QED
    BY <2>2, <2>3 DEF OneCursorPerProvider
<1> QED
  BY <1>5, <1>6, <1>7, <1>8

(***************************************************************************)
(* Every step keeps the invariant.                                         *)
(***************************************************************************)
LEMMA NextInv == Inv /\ [Next]_vars => Inv'
<1> SUFFICES ASSUME Inv, [Next]_vars PROVE Inv'
  OBVIOUS
<1> USE DEF Inv
<1>1. ASSUME NEW c \in Callers, NEW n \in Names, NEW k \in KeyCounts[n], Pick(c, n, k)
      PROVE  Inv'
  <2>1. k \in Nat
    BY KeysAssumption
  <2> QED
    BY <1>1, <2>1 DEF Pick, Goto, TypeOK, Places, BusyCallers, Allocated, OneCursorPerProvider
<1>2. ASSUME NEW c \in Callers, LookupHit(c) \/ CreateHit(c) PROVE Inv'
  <2>1. provider[c] \in DOMAIN cursors /\ cursors[provider[c]] \in Pointers
    BY <1>2 DEF LookupHit, CreateHit, TypeOK
  <2>2. /\ pc[c] # "idle" /\ pc' = [pc EXCEPT ![c] = "add"]
        /\ cursor' = [cursor EXCEPT ![c] = cursors[provider[c]]]
        /\ UNCHANGED <<provider, keys, cursors, heap, served, picks>>
    BY <1>2 DEF LookupHit, CreateHit, Goto
  <2>3. TypeOK'
    BY <2>1, <2>2 DEF TypeOK, Places
  <2>4. BusyCallers' /\ Allocated'
    BY <2>2 DEF TypeOK, BusyCallers, Allocated
  <2>5. OneCursorPerProvider'
    BY <2>1, <2>2 DEF TypeOK, OneCursorPerProvider
  <2> QED
    BY <2>3, <2>4, <2>5
<1>3. ASSUME NEW c \in Callers, LookupMiss(c) PROVE Inv'
  BY <1>3 DEF LookupMiss, Goto, TypeOK, Places, BusyCallers, Allocated, OneCursorPerProvider
<1>4. CASE UNCHANGED vars
  BY <1>4 DEF vars, TypeOK, BusyCallers, Allocated, OneCursorPerProvider
<1> QED
  BY <1>1, <1>2, <1>3, <1>4, AddInv, CreateInv DEF Next, Proceed

(***************************************************************************)
(* The invariant holds in every reachable state.                           *)
(***************************************************************************)
LEMMA Invariance == Spec => []Inv
BY InitInv, NextInv, PTL DEF Spec

(***************************************************************************)
(* The picker's variables keep their types: indexes never leave the word.  *)
(***************************************************************************)
THEOREM PickerTypeCorrect == Spec => []TypeOK
<1>1. Inv => TypeOK
  BY DEF Inv
<1> QED
  BY <1>1, Invariance, PTL

(***************************************************************************)
(* The double-checked creation leaves one cursor per provider, however     *)
(* many callers race to create it.                                         *)
(***************************************************************************)
THEOREM CursorUnique == Spec => []OneCursorPerProvider
<1>1. Inv => OneCursorPerProvider
  BY DEF Inv
<1> QED
  BY <1>1, Invariance, PTL

(***************************************************************************)
(* At the start every rotation stands at its first key.                    *)
(***************************************************************************)
LEMMA InitRefines == Init => Rotation!Init
  BY DEF Init, Rotation!Init, Turn, Indexes, Rotation!Indexes

(***************************************************************************)
(* The atomic add moves the turn of its provider on, hands out the key     *)
(* whose turn it was, and touches no other provider.                       *)
(***************************************************************************)
LEMMA AddTurns ==
    ASSUME Inv, NEW c \in Callers, Add(c)
    PROVE  \E n \in Names : \E k \in KeyCounts[n] :
              /\ n = provider[c] /\ k = keys[c]
              /\ Turn' = [Turn EXCEPT ![n] = (@ + 1) % WordSize]
              /\ served' = [served EXCEPT ![n][Turn[n] % k] = @ + 1]
<1> USE DEF Inv
<1>1. /\ provider[c] \in Names /\ keys[c] \in KeyCounts[provider[c]]
      /\ provider[c] \in DOMAIN cursors /\ cursor[c] = cursors[provider[c]]
      /\ cursor[c] \in DOMAIN heap
  BY DEF Add, Index, Advanced, BusyCallers, OneCursorPerProvider, Allocated
<1>2. PICK n \in Names : n = provider[c]
  BY <1>1
<1>3. PICK k \in KeyCounts[n] : k = keys[c]
  BY <1>1, <1>2
<1>4. Turn[n] = heap[cursor[c]]
  BY <1>1, <1>2 DEF Turn
<1>5. Turn' = [Turn EXCEPT ![n] = (@ + 1) % WordSize]
  <2>1. \A m \in DOMAIN cursors : m # n => cursors[m] # cursor[c]
    BY <1>1, <1>2 DEF OneCursorPerProvider
  <2>2. cursors' = cursors
    BY DEF Add, Index, Advanced
  <2>3. \A m \in Names : Turn'[m] = IF m = n THEN (heap[cursor[c]] + 1) % WordSize ELSE Turn[m]
    BY <1>1, <1>2, <2>1, <2>2 DEF Add, Index, Advanced, Turn, TypeOK, Allocated
  <2> QED
    BY <1>4, <2>3 DEF Turn
<1>6. served' = [served EXCEPT ![n][Turn[n] % k] = @ + 1]
  BY <1>2, <1>3, <1>4 DEF Add, Index, Advanced
<1> QED
  BY <1>2, <1>3, <1>5, <1>6

(***************************************************************************)
(* A new cursor starts where a provider without one stands: at the first   *)
(* key.                                                                    *)
(***************************************************************************)
LEMMA CreateKeepsTurns ==
    ASSUME Inv, NEW c \in Callers, NEW p \in Pointers, CreateMiss(c, p)
    PROVE  Turn' = Turn
<1>1. p \notin DOMAIN heap /\ provider[c] \notin DOMAIN cursors
  BY DEF CreateMiss
<1>2. \A n \in Names : Turn'[n] = Turn[n]
  BY <1>1 DEF Inv, CreateMiss, Installed, Turn, TypeOK, Allocated
<1> QED
  BY <1>2 DEF Turn

(***************************************************************************)
(* Only the atomic add moves a rotation, and it moves one by one.          *)
(***************************************************************************)
LEMMA StepRefines == Inv /\ [Next]_vars => [Rotation!Next]_<<Turn, served>>
<1> SUFFICES ASSUME Inv, [Next]_vars PROVE [Rotation!Next]_<<Turn, served>>
  OBVIOUS
<1> USE DEF Inv
<1>1. ASSUME NEW c \in Callers, Add(c) PROVE Rotation!Next
  <2>1. PICK n \in Names : \E k \in KeyCounts[n] :
           /\ Turn' = [Turn EXCEPT ![n] = (@ + 1) % WordSize]
           /\ served' = [served EXCEPT ![n][Turn[n] % k] = @ + 1]
    BY <1>1, AddTurns
  <2>2. \E k \in KeyCounts[n] : Rotation!Pick(n, k)
    BY <2>1 DEF Rotation!Pick
  <2> QED
    BY <2>2 DEF Rotation!Next
<1>2. ASSUME NEW c \in Callers, NEW p \in Pointers, CreateMiss(c, p)
      PROVE  UNCHANGED <<Turn, served>>
  BY <1>2, CreateKeepsTurns DEF CreateMiss
<1>3. ASSUME cursors' = cursors, heap' = heap PROVE Turn' = Turn
  BY <1>3 DEF Turn
<1>4. ASSUME NEW c \in Callers, NEW n \in Names, NEW k \in KeyCounts[n], Pick(c, n, k)
      PROVE  UNCHANGED <<Turn, served>>
  BY <1>3, <1>4 DEF Pick
<1>5. ASSUME NEW c \in Callers, LookupHit(c) \/ CreateHit(c) \/ LookupMiss(c)
      PROVE  UNCHANGED <<Turn, served>>
  BY <1>3, <1>5 DEF LookupHit, CreateHit, LookupMiss
<1>6. CASE UNCHANGED vars
  BY <1>3, <1>6 DEF vars
<1> QED
  BY <1>1, <1>2, <1>4, <1>5, <1>6 DEF Next, Proceed

(***************************************************************************)
(* Concurrent picks are linearizable: they are one atomic rotation per     *)
(* provider, undisturbed by the traffic of the others.                     *)
(***************************************************************************)
THEOREM PickerImplementsRoundRobin == Spec => ImplementsRoundRobin
BY InitRefines, StepRefines, Invariance, PTL DEF Spec, ImplementsRoundRobin, Rotation!Spec

-----------------------------------------------------------------------------
(***************************************************************************)
(* Division with remainder.  A number is its quotient times the divisor    *)
(* plus its remainder, and only one quotient and remainder do that.        *)
(***************************************************************************)
LEMMA Divided ==
    ASSUME NEW a \in Nat, NEW k \in Nat \ {0}
    PROVE  /\ a \div k \in Nat /\ a % k \in 0 .. k - 1
           /\ a = (a \div k) * k + (a % k)
<1>1. a \div k \in Nat
  OBVIOUS
<1>2. a % k \in 0 .. k - 1
  OBVIOUS
<1>3. a = k * (a \div k) + (a % k)
  OBVIOUS
<1>4. k * (a \div k) = (a \div k) * k
  BY <1>1
<1> QED
  BY <1>1, <1>2, <1>3, <1>4

LEMMA Multiples ==
    ASSUME NEW k \in Nat \ {0}, NEW p \in Nat, NEW q \in Nat, p < q
    PROVE  p * k + k <= q * k
<1>1. PICK d \in Nat : q = p + 1 + d
  <2>1. q - p - 1 \in Nat
    OBVIOUS
  <2> QED
    BY <2>1
<1>2. q * k = p * k + k + d * k
  BY <1>1
<1>3. d * k \in Nat /\ p * k \in Nat /\ q * k \in Nat
  BY <1>1
<1> QED
  BY <1>2, <1>3

LEMMA Remainder ==
    ASSUME NEW k \in Nat \ {0}, NEW q \in Nat, NEW r \in 0 .. k - 1
    PROVE  (q * k + r) % k = r
<1>0. q * k \in Nat
  OBVIOUS
<1>1. PICK a \in Nat : a = q * k + r
  BY <1>0
<1>2. PICK p \in Nat, s \in 0 .. k - 1 : p = a \div k /\ s = a % k /\ a = p * k + s
  BY Divided
<1>3. ~(p < q)
  <2> SUFFICES ASSUME p < q PROVE FALSE
    OBVIOUS
  <2>1. p * k + k <= q * k /\ p * k \in Nat
    BY Multiples
  <2> QED
    BY <2>1, <1>0, <1>1, <1>2
<1>4. ~(q < p)
  <2> SUFFICES ASSUME q < p PROVE FALSE
    OBVIOUS
  <2>1. q * k + k <= p * k /\ p * k \in Nat
    BY Multiples
  <2> QED
    BY <2>1, <1>0, <1>1, <1>2
<1>5. p = q
  BY <1>3, <1>4
<1>6. s = r
  BY <1>0, <1>1, <1>2, <1>5
<1> QED
  BY <1>1, <1>2, <1>6

(***************************************************************************)
(* The next number has the next remainder, or none at a multiple.          *)
(***************************************************************************)
LEMMA NextRemainder ==
    ASSUME NEW t \in Nat, NEW k \in Nat \ {0}
    PROVE  (t + 1) % k = IF t % k = k - 1 THEN 0 ELSE (t % k) + 1
<1>1. PICK q \in Nat, r \in 0 .. k - 1 : r = t % k /\ t = q * k + r
  BY Divided
<1>2. CASE r = k - 1
  <2>1. t + 1 = (q + 1) * k + 0
    BY <1>1, <1>2
  <2>2. ((q + 1) * k + 0) % k = 0
    <3>1. 0 \in 0 .. k - 1 /\ q + 1 \in Nat
      OBVIOUS
    <3> QED
      BY ONLY <3>1, Remainder, k \in Nat \ {0}
  <2> QED
    BY <1>1, <1>2, <2>1, <2>2
<1>3. CASE r # k - 1
  <2>1. t + 1 = q * k + (r + 1) /\ r + 1 \in 0 .. k - 1
    BY <1>1, <1>3
  <2> QED
    BY <1>1, <1>3, <2>1, Remainder
<1> QED
  BY <1>2, <1>3

(***************************************************************************)
(* A word advanced modulo its size holds the next number, modulo its size. *)
(***************************************************************************)
LEMMA NextTurn ==
    ASSUME NEW t \in Nat
    PROVE  ((t % WordSize) + 1) % WordSize = (t + 1) % WordSize
<1>0. WordSize \in Nat \ {0}
  BY WordAssumption
<1>1. PICK s \in 0 .. WordSize - 1 : s = t % WordSize
  BY <1>0, Divided
<1>2. s % WordSize = s
  BY <1>0, <1>1
<1>3. (s + 1) % WordSize = IF s % WordSize = WordSize - 1 THEN 0 ELSE (s % WordSize) + 1
  <2>1. s \in Nat
    BY <1>0
  <2> QED
    BY <1>0, <2>1, NextRemainder
<1>4. (t + 1) % WordSize = IF t % WordSize = WordSize - 1 THEN 0 ELSE (t % WordSize) + 1
  BY <1>0, NextRemainder
<1> QED
  BY <1>1, <1>2, <1>3, <1>4

(***************************************************************************)
(* A word that is a multiple of k wraps around between two rounds of k.    *)
(***************************************************************************)
LEMMA RemainderOfRemainder ==
    ASSUME NEW t \in Nat, NEW w \in Nat \ {0}, NEW k \in Nat \ {0}, w % k = 0
    PROVE  (t % w) % k = t % k
<1>1. PICK p \in Nat, s \in Nat : s = t % w /\ t = p * w + s
  <2>1. /\ t \div w \in Nat /\ t % w \in 0 .. w - 1
        /\ t = (t \div w) * w + (t % w)
    BY Divided
  <2>2. t % w \in Nat
    BY <2>1
  <2> QED
    BY <2>1, <2>2, Zenon
<1>2. PICK m \in Nat : w = m * k
  <2>1. w \div k \in Nat /\ w = (w \div k) * k + (w % k)
    BY Divided
  <2>2. (w \div k) * k \in Nat
    BY <2>1
  <2> QED
    BY <2>1, <2>2
<1>3. PICK q \in Nat, r \in 0 .. k - 1 : r = s % k /\ s = q * k + r
  <2>1. /\ s \div k \in Nat /\ s % k \in 0 .. k - 1
        /\ s = (s \div k) * k + (s % k)
    BY Divided
  <2> QED
    BY <2>1
<1>4. p * m + q \in Nat /\ t = (p * m + q) * k + r
  <2>1. p * m \in Nat /\ p * w = p * (m * k)
    BY <1>2
  <2>2. p * (m * k) = (p * m) * k
    OBVIOUS
  <2>3. (p * m + q) * k = (p * m) * k + q * k
    BY <2>1
  <2>4. (p * m) * k \in Nat /\ q * k \in Nat
    BY <2>1
  <2>5. t = p * (m * k) + (q * k + r)
    BY <1>1, <1>2, <1>3
  <2>6. p * (m * k) + (q * k + r) = (p * m + q) * k + r
    BY <2>2, <2>3, <2>4
  <2> QED
    BY <2>1, <2>5, <2>6
<1>5. t % k = r
  BY <1>4, Remainder
<1> QED
  BY <1>1, <1>3, <1>5

-----------------------------------------------------------------------------
(***************************************************************************)
(* The rotation of n has been picked from t times, fewer than the picks    *)
(* begun by as many as are still under way; the turn is t modulo the word; *)
(* and while the promise holds, every key was handed out b times, the keys *)
(* before the turn once more.                                              *)
(***************************************************************************)
Busy == {c \in Callers : pc[c] # "idle"}

InRound(n, k, t) ==
    \E b \in Nat : \A i \in 0 .. k - 1 :
       served[n][i] = IF i < t % k THEN b + 1 ELSE b

Promised(n, k) == KeyCounts[n] = {k} /\ (picks <= WordSize \/ WordSize % k = 0)

Turned(n, t) ==
    /\ Turn[n] = t % WordSize
    /\ t + Cardinality(Busy) <= picks
    /\ \A k \in KeyCounts[n] : Promised(n, k) => InRound(n, k, t)

RoundInv == /\ IsFiniteSet(Busy)
            /\ \A n \in Names : \E t \in Nat : Turned(n, t)

(***************************************************************************)
(* A pick moves the round on by one key, and into the next round after the *)
(* last key.                                                               *)
(***************************************************************************)
LEMMA RoundAdvances ==
    ASSUME NEW n \in Names, NEW k \in KeyCounts[n], NEW t \in Nat, InRound(n, k, t),
           \A i \in 0 .. k - 1 :
              served'[n][i] = IF i = t % k THEN served[n][i] + 1 ELSE served[n][i]
    PROVE  InRound(n, k, t + 1)'
<1>1. k \in Nat \ {0} /\ t + 1 \in Nat
  BY KeysAssumption
<1>2. PICK r \in 0 .. k - 1 : r = t % k
  BY <1>1, Divided
<1>3. PICK s \in 0 .. k - 1 : s = (t + 1) % k /\ s = IF r = k - 1 THEN 0 ELSE r + 1
  <2>1. (t + 1) % k \in 0 .. k - 1
    BY <1>1, Divided
  <2>2. (t + 1) % k = IF t % k = k - 1 THEN 0 ELSE (t % k) + 1
    BY <1>1, NextRemainder
  <2> QED
    BY <1>2, <2>1, <2>2
<1>4. PICK b \in Nat : \A i \in 0 .. k - 1 : served[n][i] = IF i < r THEN b + 1 ELSE b
  BY <1>2 DEF InRound
<1>5. \A i \in 0 .. k - 1 : served'[n][i] = IF i <= r THEN b + 1 ELSE b
  BY <1>1, <1>2, <1>4
<1>6. CASE r = k - 1
  <2>1. \A i \in 0 .. k - 1 : served'[n][i] = IF i < s THEN (b + 1) + 1 ELSE b + 1
    BY <1>1, <1>3, <1>5, <1>6
  <2>2. b + 1 \in Nat
    OBVIOUS
  <2> QED
    BY <1>3, <2>1, <2>2 DEF InRound
<1>7. CASE r # k - 1
  <2>1. \A i \in 0 .. k - 1 : served'[n][i] = IF i < s THEN b + 1 ELSE b
    BY <1>1, <1>3, <1>5, <1>7
  <2> QED
    BY <1>3, <2>1 DEF InRound
<1> QED
  BY <1>6, <1>7

(***************************************************************************)
(* The turn and the number of picks name the same key, as long as the      *)
(* cursor has not wrapped around in the middle of a round.                 *)
(***************************************************************************)
LEMMA SameKey ==
    ASSUME NEW n \in Names, NEW k \in KeyCounts[n], NEW t \in Nat,
           t < WordSize \/ WordSize % k = 0
    PROVE  (t % WordSize) % k = t % k
<1>1. k \in Nat \ {0} /\ WordSize \in Nat \ {0}
  BY KeysAssumption, WordAssumption
<1>2. CASE t < WordSize
  <2>1. t \in 0 .. WordSize - 1 /\ 0 \in Nat
    BY <1>1, <1>2
  <2>2. (0 * WordSize + t) % WordSize = t
    BY <1>1, <2>1, Remainder
  <2>3. 0 * WordSize + t = t
    BY <1>1
  <2> QED
    BY <2>2, <2>3
<1>3. CASE WordSize % k = 0
  BY <1>1, <1>3, RemainderOfRemainder
<1> QED
  BY <1>2, <1>3

(***************************************************************************)
(* Every step keeps the rounds.                                            *)
(***************************************************************************)
LEMMA RoundStep == Inv /\ RoundInv /\ [Next]_vars => RoundInv'
<1> SUFFICES ASSUME Inv, RoundInv, [Next]_vars PROVE RoundInv'
  OBVIOUS
<1>t. /\ picks \in Nat /\ IsFiniteSet(Busy) /\ Cardinality(Busy) \in Nat
      /\ WordSize \in Nat \ {0}
  BY FS_CardinalityType, WordAssumption DEF Inv, TypeOK, RoundInv
<1>1. ASSUME Turn' = Turn, served' = served, picks' \in Nat, picks <= picks',
             IsFiniteSet(Busy'), Cardinality(Busy') \in Nat,
             Cardinality(Busy') - Cardinality(Busy) <= picks' - picks
      PROVE  RoundInv'
  <2> SUFFICES ASSUME NEW n \in Names PROVE \E t \in Nat : Turned(n, t)'
    BY <1>1 DEF RoundInv
  <2>1. PICK t \in Nat : Turned(n, t)
    BY DEF RoundInv
  <2>2. t + Cardinality(Busy') <= picks'
    BY <1>t, <1>1, <2>1 DEF Turned
  <2>3. \A k \in KeyCounts[n] : Promised(n, k)' => Promised(n, k)
    BY <1>t, <1>1 DEF Promised
  <2>4. \A k \in KeyCounts[n] : InRound(n, k, t) => InRound(n, k, t)'
    BY <1>1 DEF InRound
  <2>5. Turned(n, t)'
    BY <1>1, <2>1, <2>2, <2>3, <2>4 DEF Turned
  <2> QED
    BY <2>5
<1>2. ASSUME NEW c \in Callers, NEW n \in Names, NEW k \in KeyCounts[n], Pick(c, n, k)
      PROVE  RoundInv'
  <2>1. Busy' = Busy \cup {c} /\ c \notin Busy
    BY <1>2 DEF Pick, Goto, Busy, Inv, TypeOK
  <2>2. IsFiniteSet(Busy') /\ Cardinality(Busy') = Cardinality(Busy) + 1
    BY <1>t, <2>1, FS_AddElement
  <2>3. Turn' = Turn /\ served' = served /\ picks' = picks + 1
    BY <1>2 DEF Pick, Turn
  <2> QED
    BY <1>t, <1>1, <2>2, <2>3
<1>3. ASSUME NEW c \in Callers, NEW place \in {"create", "add"}, pc[c] # "idle",
             Goto(c, place), Turn' = Turn, served' = served, picks' = picks
      PROVE  RoundInv'
  <2>1. Busy' = Busy
    BY <1>3 DEF Goto, Busy, Inv, TypeOK
  <2> QED
    BY <1>t, <1>1, <1>3, <2>1
<1>4. ASSUME NEW c \in Callers, LookupHit(c) \/ LookupMiss(c) \/ CreateHit(c)
      PROVE  RoundInv'
  BY <1>3, <1>4 DEF LookupHit, LookupMiss, CreateHit, Turn
<1>5. ASSUME NEW c \in Callers, NEW p \in Pointers, CreateMiss(c, p)
      PROVE  RoundInv'
  <2>1. Turn' = Turn
    BY <1>5, CreateKeepsTurns
  <2> QED
    BY <1>3, <1>5, <2>1 DEF CreateMiss
<1>6. ASSUME NEW c \in Callers, Add(c) PROVE RoundInv'
  <2>1. PICK m \in Names : \E k \in KeyCounts[m] :
           /\ Turn' = [Turn EXCEPT ![m] = (@ + 1) % WordSize]
           /\ served' = [served EXCEPT ![m][Turn[m] % k] = @ + 1]
    BY <1>6, AddTurns
  <2>2. PICK j \in KeyCounts[m] :
           /\ Turn' = [Turn EXCEPT ![m] = (@ + 1) % WordSize]
           /\ served' = [served EXCEPT ![m][Turn[m] % j] = @ + 1]
    BY <2>1
  <2>3. Busy' = Busy \ {c} /\ c \in Busy /\ picks' = picks
    BY <1>6 DEF Add, Index, Goto, Busy, Inv, TypeOK
  <2>4. IsFiniteSet(Busy') /\ Cardinality(Busy') = Cardinality(Busy) - 1
    BY <1>t, <2>3, FS_RemoveElement
  <2> SUFFICES ASSUME NEW n \in Names PROVE \E t \in Nat : Turned(n, t)'
    BY <2>4 DEF RoundInv
  <2>5. PICK t \in Nat : Turned(n, t)
    BY DEF RoundInv
  <2>6. CASE n # m
    <3>1. Turn'[n] = Turn[n] /\ served'[n] = served[n]
      BY <2>2, <2>6 DEF Turn, Inv, TypeOK
    <3>2. t + Cardinality(Busy') <= picks'
      BY <1>t, <2>3, <2>4, <2>5 DEF Turned
    <3>3. \A k \in KeyCounts[n] : /\ Promised(n, k)' => Promised(n, k)
                                  /\ InRound(n, k, t) => InRound(n, k, t)'
      BY <2>3, <3>1 DEF Promised, InRound
    <3>4. Turned(n, t)'
      BY <2>5, <3>1, <3>2, <3>3 DEF Turned
    <3> QED
      BY <3>4
  <2>7. CASE n = m
    <3>0. Turn[n] = t % WordSize /\ t + Cardinality(Busy) <= picks
      BY <2>5 DEF Turned
    <3>1. Turn'[n] = (t + 1) % WordSize
      <4>1. Turn'[n] = (Turn[n] + 1) % WordSize
        BY <2>2, <2>7 DEF Turn
      <4> QED
        BY <3>0, <4>1, NextTurn
    <3>2. (t + 1) + Cardinality(Busy') <= picks'
      BY <1>t, <2>3, <2>4, <3>0
    <3>3. t < picks
      <4>1. Cardinality(Busy) # 0
        BY <1>t, <2>3, FS_EmptySet
      <4> QED
        BY <1>t, <3>0, <4>1
    <3>4. ASSUME NEW k \in KeyCounts[n], Promised(n, k)'
          PROVE  InRound(n, k, t + 1)'
      <4>1. Promised(n, k) /\ k = j
        BY <2>3, <2>7, <3>4 DEF Promised
      <4>2. InRound(n, k, t)
        BY <2>5, <4>1 DEF Turned
      <4>3. t < WordSize \/ WordSize % k = 0
        BY <1>t, <3>3, <4>1 DEF Promised
      <4>4. Turn[n] % j = t % k
        BY <3>0, <4>1, <4>3, SameKey
      <4>5. k \in Nat \ {0} /\ \A i \in 0 .. k - 1 : i \in Indexes
        <5>1. k \in Nat /\ 2 <= k /\ k <= WordSize
          BY KeysAssumption
        <5> QED
          BY <1>t, <5>1 DEF Indexes
      <4>6. t % k \in 0 .. k - 1
        BY <4>5, Divided
      <4>7. served'[n] = [served[n] EXCEPT ![t % k] = @ + 1]
        BY <2>2, <2>7, <4>4 DEF Inv, TypeOK
      <4>8. DOMAIN served[n] = Indexes
        BY DEF Inv, TypeOK
      <4>9. \A i \in 0 .. k - 1 :
               served'[n][i] = IF i = t % k THEN served[n][i] + 1 ELSE served[n][i]
        BY <4>5, <4>6, <4>7, <4>8
      <4> QED
        BY <4>2, <4>9, RoundAdvances
    <3>5. Turned(n, t + 1)'
      BY <3>1, <3>2, <3>4 DEF Turned
    <3>6. t + 1 \in Nat
      OBVIOUS
    <3> QED
      BY <3>5, <3>6
  <2> QED
    BY <2>6, <2>7
<1>7. CASE UNCHANGED vars
  <2>1. Turn' = Turn /\ Busy' = Busy
    BY <1>7 DEF vars, Turn, Busy
  <2> QED
    BY <1>t, <1>1, <1>7, <2>1 DEF vars
<1> QED
  BY <1>2, <1>4, <1>5, <1>6, <1>7 DEF Next, Proceed

(***************************************************************************)
(* Within a round no key is one hand-out ahead of another by more than one.*)
(***************************************************************************)
LEMMA RoundsAreEven == RoundInv => EvenRotation
<1> SUFFICES ASSUME RoundInv, NEW n \in Names, NEW k \in KeyCounts[n], Promised(n, k),
                    NEW i \in 0 .. k - 1, NEW j \in 0 .. k - 1
             PROVE  served[n][i] <= served[n][j] + 1
  BY DEF EvenRotation, Promised
<1>1. PICK t \in Nat : InRound(n, k, t)
  BY DEF RoundInv, Turned
<1>2. PICK b \in Nat : \A g \in 0 .. k - 1 : served[n][g] = IF g < t % k THEN b + 1 ELSE b
  BY <1>1 DEF InRound
<1>3. served[n][i] \in {b, b + 1} /\ served[n][j] \in {b, b + 1}
  BY <1>2
<1> QED
  BY <1>3

(***************************************************************************)
(* While the key count of a provider stays the same and its cursor has not *)
(* wrapped around in the middle of a round, concurrent picks hand out no   *)
(* key twice more often than another.                                      *)
(***************************************************************************)
THEOREM RotationEven == Spec => []EvenRotation
<1>1. Init => RoundInv
  <2> SUFFICES ASSUME Init PROVE RoundInv
    OBVIOUS
  <2>1. Busy = {} /\ picks = 0
    BY DEF Init, Busy
  <2>2. IsFiniteSet(Busy) /\ Cardinality(Busy) = 0
    BY <2>1, FS_EmptySet
  <2>3. ASSUME NEW n \in Names PROVE Turned(n, 0)
    <3>1. Turn[n] = 0 /\ 0 % WordSize = 0
      BY WordAssumption DEF Init, Turn
    <3>2. \A k \in KeyCounts[n] : InRound(n, k, 0)
      <4> SUFFICES ASSUME NEW k \in KeyCounts[n] PROVE InRound(n, k, 0)
        OBVIOUS
      <4>1. k \in Nat \ {0} /\ k <= WordSize /\ WordSize \in Nat
        BY KeysAssumption, WordAssumption
      <4>2. 0 % k = 0
        BY <4>1
      <4>3. \A i \in 0 .. k - 1 : served[n][i] = 0 /\ ~(i < 0)
        BY <4>1 DEF Init, Indexes
      <4> QED
        BY <4>2, <4>3 DEF InRound
    <3> QED
      BY <2>1, <2>2, <3>1, <3>2 DEF Turned
  <2> QED
    BY <2>2, <2>3 DEF RoundInv
<1> QED
  BY <1>1, RoundStep, RoundsAreEven, Invariance, PTL DEF Spec
=============================================================================
