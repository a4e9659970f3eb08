----------------------------- MODULE KeyPicker -----------------------------
(***************************************************************************)
(* The round-robin key picker, internal/providers/keys.go, one goroutine   *)
(* per caller.  Cursors are pointers in a map guarded by a reader-writer   *)
(* lock; each locked section and the atomic add is one step.  A provider   *)
(* with no key or a single one returns at once and touches nothing, so     *)
(* only picks among two keys or more are modelled.                         *)
(***************************************************************************)
EXTENDS Integers, FiniteSets

CONSTANTS
    Callers,        \* goroutines
    Names,          \* provider names
    NoName,         \* a caller that is not picking
    Pointers,       \* addresses new(uint64) may return
    Null,           \* no pointer
    KeyCounts,      \* for each name, how many keys it may be configured with
    WordSize,       \* 2^64 in the program
    MaxPicks        \* bound: picks begun

ASSUME MarkerAssumption == NoName \notin Names /\ Null \notin Pointers
ASSUME WordAssumption == WordSize \in Nat \ {0}
ASSUME KeysAssumption ==
    KeyCounts \in [Names -> SUBSET {n \in Nat : 2 <= n /\ n <= WordSize}]
ASSUME PicksAssumption == MaxPicks \in Nat

VARIABLES
    pc,         \* where each caller is
    provider,   \* the name of the provider each caller was given
    keys,       \* and the number of its API keys
    cursor,     \* the pointer each caller got from cursorFor
    cursors,    \* KeyPicker.cursors: name to pointer
    heap,       \* the word behind each allocated pointer
    served,     \* history: served[n][i] is how often key i of n was handed out
    picks       \* picks begun

vars == <<pc, provider, keys, cursor, cursors, heap, served, picks>>

Places == {"idle", "lookup", "create", "add"}
Indexes == 0 .. WordSize - 1

Goto(c, place) == pc' = [pc EXCEPT ![c] = place]

Init == /\ pc = [c \in Callers |-> "idle"]
        /\ provider = [c \in Callers |-> NoName]
        /\ keys = [c \in Callers |-> 0]
        /\ cursor = [c \in Callers |-> Null]
        /\ cursors = [n \in {} |-> Null]
        /\ heap = [p \in {} |-> 0]
        /\ served = [n \in Names |-> [i \in Indexes |-> 0]]
        /\ picks = 0

(***************************************************************************)
(* Pick(p): the provider is passed by value, from the configuration that   *)
(* routed the request, so the key count is fixed for the whole pick.       *)
(***************************************************************************)
Pick(c, n, k) ==
    /\ pc[c] = "idle"
    /\ picks < MaxPicks
    /\ picks' = picks + 1
    /\ provider' = [provider EXCEPT ![c] = n]
    /\ keys' = [keys EXCEPT ![c] = k]
    /\ Goto(c, "lookup")
    /\ UNCHANGED <<cursor, cursors, heap, served>>

(***************************************************************************)
(* cursorFor, under the read lock.                                         *)
(***************************************************************************)
LookupHit(c) ==
    /\ pc[c] = "lookup"
    /\ provider[c] \in DOMAIN cursors
    /\ cursor' = [cursor EXCEPT ![c] = cursors[provider[c]]]
    /\ Goto(c, "add")
    /\ UNCHANGED <<provider, keys, cursors, heap, served, picks>>

LookupMiss(c) ==
    /\ pc[c] = "lookup"
    /\ provider[c] \notin DOMAIN cursors
    /\ Goto(c, "create")
    /\ UNCHANGED <<provider, keys, cursor, cursors, heap, served, picks>>

(***************************************************************************)
(* cursorFor, under the write lock: somebody may have created the cursor   *)
(* since the read lock was let go, so the map is looked up again.          *)
(***************************************************************************)
CreateHit(c) ==
    /\ pc[c] = "create"
    /\ provider[c] \in DOMAIN cursors
    /\ cursor' = [cursor EXCEPT ![c] = cursors[provider[c]]]
    /\ Goto(c, "add")
    /\ UNCHANGED <<provider, keys, cursors, heap, served, picks>>

(***************************************************************************)
(* No action uses a definition whose name begins with Mutant: each is a    *)
(* plausible slip in the one that follows it, kept to show which property  *)
(* would notice.  Here: one cursor for everybody, and no second lookup.    *)
(***************************************************************************)
MutantInstalled(n, p) == [m \in DOMAIN cursors \cup Names |-> p]

Installed(n, p) == [m \in DOMAIN cursors \cup {n} |-> IF m = n THEN p ELSE cursors[m]]

MutantCreateMiss(c, p) ==
    /\ pc[c] = "create"
    /\ p \notin DOMAIN heap
    /\ cursors' = Installed(provider[c], p)
    /\ heap' = [q \in DOMAIN heap \cup {p} |-> IF q = p THEN 0 ELSE heap[q]]
    /\ cursor' = [cursor EXCEPT ![c] = p]
    /\ Goto(c, "add")
    /\ UNCHANGED <<provider, keys, served, picks>>

CreateMiss(c, p) ==
    /\ pc[c] = "create"
    /\ provider[c] \notin DOMAIN cursors
    /\ p \notin DOMAIN heap
    /\ cursors' = Installed(provider[c], p)
    /\ heap' = [q \in DOMAIN heap \cup {p} |-> IF q = p THEN 0 ELSE heap[q]]
    /\ cursor' = [cursor EXCEPT ![c] = p]
    /\ Goto(c, "add")
    /\ UNCHANGED <<provider, keys, served, picks>>

(***************************************************************************)
(* Unsigned addition wraps around.                                         *)
(***************************************************************************)
Advanced(w) == (w + 1) % WordSize

MutantIndex(w, k) == w % (k + 1)

(***************************************************************************)
(* The key to hand out, of k, when the cursor stood at w.                  *)
(***************************************************************************)
Index(w, k) == w % k

(***************************************************************************)
(* atomic.AddUint64(cursor, 1) - 1, and the key of that index.             *)
(***************************************************************************)
Add(c) ==
    LET old == heap[cursor[c]] IN
    /\ pc[c] = "add"
    /\ heap' = [heap EXCEPT ![cursor[c]] = Advanced(old)]
    /\ served' = [served EXCEPT ![provider[c]][Index(old, keys[c])] = @ + 1]
    /\ provider' = [provider EXCEPT ![c] = NoName]
    /\ keys' = [keys EXCEPT ![c] = 0]
    /\ cursor' = [cursor EXCEPT ![c] = Null]
    /\ Goto(c, "idle")
    /\ UNCHANGED <<cursors, picks>>

Proceed(c) == \/ LookupHit(c) \/ LookupMiss(c)
              \/ CreateHit(c) \/ \E p \in Pointers : CreateMiss(c, p)
              \/ Add(c)

Next == \E c \in Callers :
           \/ \E n \in Names : \E k \in KeyCounts[n] : Pick(c, n, k)
           \/ Proceed(c)

Spec == Init /\ [][Next]_vars

-----------------------------------------------------------------------------
(***************************************************************************)
(* Every variable has its type, and a key that is handed out is one that   *)
(* the provider had.                                                       *)
(***************************************************************************)
TypeOK ==
    /\ pc \in [Callers -> Places]
    /\ provider \in [Callers -> Names \cup {NoName}]
    /\ keys \in [Callers -> Nat]
    /\ cursor \in [Callers -> Pointers \cup {Null}]
    /\ DOMAIN cursors \subseteq Names
    /\ cursors \in [DOMAIN cursors -> Pointers]
    /\ DOMAIN heap \subseteq Pointers
    /\ heap \in [DOMAIN heap -> Indexes]
    /\ served \in [Names -> [Indexes -> Nat]]
    /\ \A n \in Names, i \in Indexes :
          served[n][i] > 0 => \E k \in KeyCounts[n] : i < k
    /\ picks \in Nat

(***************************************************************************)
(* Whoever is about to advance a cursor holds the one the map has for its  *)
(* provider, and no two providers share one: no increment goes to a cursor *)
(* that was lost in the race to create it.                                 *)
(***************************************************************************)
OneCursorPerProvider ==
    /\ \A c \in Callers : pc[c] = "add" =>
          provider[c] \in DOMAIN cursors /\ cursor[c] = cursors[provider[c]]
    /\ \A m, n \in DOMAIN cursors : cursors[m] = cursors[n] => m = n

(***************************************************************************)
(* The concurrent picker implements an atomic rotation per provider.       *)
(***************************************************************************)
Turn == [n \in Names |-> IF n \in DOMAIN cursors THEN heap[cursors[n]] ELSE 0]

Rotation == INSTANCE RoundRobin WITH turn <- Turn

ImplementsRoundRobin == Rotation!Spec

(***************************************************************************)
(* While the key count of a provider stays the same and its cursor has not *)
(* wrapped around, no key is handed out twice more often than another,     *)
(* whatever the interleaving of callers and of other providers.            *)
(***************************************************************************)
EvenRotation ==
    \A n \in Names : \A k \in KeyCounts[n] :
       KeyCounts[n] = {k} /\ (picks <= WordSize \/ WordSize % k = 0) =>
          \A i, j \in 0 .. k - 1 : served[n][i] <= served[n][j] + 1
=============================================================================
