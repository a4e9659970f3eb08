------------------------- MODULE CallSummary_proofs -------------------------
(***************************************************************************)
(* Theorems about CallSummary, for every set of providers, every window,   *)
(* every number of points and any number of calls.                         *)
(***************************************************************************)
EXTENDS CallSummary, FiniteSetTheorems, TLAPS

(***************************************************************************)
(* The larger and the smaller of two numbers.                              *)
(***************************************************************************)
LEMMA OfTwo ==
    ASSUME NEW a \in Int, NEW b \in Int
    PROVE  /\ Max({a, b}) = IF a >= b THEN a ELSE b
           /\ Min({a, b}) = IF a <= b THEN a ELSE b
<1>1. \E x \in {a, b} : \A y \in {a, b} : x >= y
  OBVIOUS
<1>2. \E x \in {a, b} : \A y \in {a, b} : x <= y
  OBVIOUS
<1>3. Max({a, b}) \in {a, b} /\ \A y \in {a, b} : Max({a, b}) >= y
  BY <1>1 DEF Max
<1>4. Min({a, b}) \in {a, b} /\ \A y \in {a, b} : Min({a, b}) <= y
  BY <1>2 DEF Min
<1> QED
  BY <1>3, <1>4

-----------------------------------------------------------------------------
(***************************************************************************)
(* Counting a finite set by the values of a key counts each element once:  *)
(* the marks of the tally correspond to the elements one to one.           *)
(***************************************************************************)
LEMMA TallyCounts ==
    ASSUME NEW S, IsFiniteSet(S), NEW D, NEW key \in [S -> D], NEW tally,
           DOMAIN tally = D,
           \A i \in D : tally[i] = Cardinality({r \in S : key[r] = i})
    PROVE  Cardinality(Marks(tally)) = Cardinality(S)
<1> DEFINE Part(i) == {r \in S : key[r] = i}
           order == [i \in D |-> CHOOSE b : b \in Bijection(1 .. tally[i], Part(i))]
           M == Marks(tally)
           f == [m \in M |-> order[m[1]][m[2]]]
<1>1. ASSUME NEW i \in D PROVE order[i] \in Bijection(1 .. tally[i], Part(i))
  <2>1. IsFiniteSet(Part(i))
    BY FS_Subset
  <2>2. ExistsBijection(1 .. Cardinality(Part(i)), Part(i))
    BY <2>1, FS_CardinalityType
  <2>3. \E b : b \in Bijection(1 .. tally[i], Part(i))
    BY <2>2 DEF ExistsBijection
  <2> QED
    BY <2>3
<1>2. \A m : m \in M <=> \E i \in D : \E j \in 1 .. tally[i] : m = <<i, j>>
  BY DEF Marks
<1> HIDE DEF order, M
<1>3. ASSUME NEW i \in D, NEW j \in 1 .. tally[i]
      PROVE  f[<<i, j>>] = order[i][j] /\ order[i][j] \in Part(i)
  <2>1. f[<<i, j>>] = order[i][j]
    BY <1>2
  <2>2. order[i] \in [1 .. tally[i] -> Part(i)]
    BY <1>1 DEF Bijection, Injection
  <2> QED
    BY <2>1, <2>2
<1> HIDE DEF f
<1>4. f \in [M -> S]
  <2>1. \A m \in M : f[m] \in S
    BY <1>2, <1>3
  <2> QED
    BY <2>1 DEF f
<1>5. ASSUME NEW m \in M, NEW n \in M, f[m] = f[n] PROVE m = n
  <2>1. PICK i \in D : \E j \in 1 .. tally[i] : m = <<i, j>>
    BY <1>2
  <2>2. PICK j \in 1 .. tally[i] : m = <<i, j>>
    BY <2>1
  <2>3. PICK k \in D : \E l \in 1 .. tally[k] : n = <<k, l>>
    BY <1>2
  <2>4. PICK l \in 1 .. tally[k] : n = <<k, l>>
    BY <2>3
  <2>5. i = k
    BY <1>3, <1>5, <2>2, <2>4
  <2>6. order[i][j] = order[i][l]
    BY <1>3, <1>5, <2>2, <2>4, <2>5
  <2>7. j = l
    BY <1>1, <2>5, <2>6 DEF Bijection, Injection, IsInjective
  <2> QED
    BY <2>2, <2>4, <2>5, <2>7
<1>6. ASSUME NEW r \in S PROVE \E m \in M : f[m] = r
  <2>1. PICK i \in D : i = key[r]
    OBVIOUS
  <2>2. r \in Part(i)
    BY <2>1
  <2>3. PICK j \in 1 .. tally[i] : order[i][j] = r
    BY <1>1, <2>2 DEF Bijection, Surjection
  <2>4. <<i, j>> \in M
    BY <1>2
  <2> QED
    BY <1>3, <2>3, <2>4
<1>7. f \in Injection(M, S) /\ f \in Surjection(M, S)
  <2>1. DOMAIN f = M
    BY <1>4
  <2>2. f \in Injection(M, S)
    BY <1>4, <1>5, <2>1 DEF Injection, IsInjective
  <2>3. f \in Surjection(M, S)
    BY <1>4, <1>6 DEF Surjection
  <2> QED
    BY <2>2, <2>3
<1>8. IsFiniteSet(M) /\ Cardinality(M) <= Cardinality(S)
  BY <1>7, FS_Injection
<1>9. Cardinality(S) <= Cardinality(M)
  BY <1>7, <1>8, FS_Surjection
<1>10. Cardinality(S) \in Nat /\ Cardinality(M) \in Nat
  BY <1>8, FS_CardinalityType
<1> QED
  BY <1>8, <1>9, <1>10 DEF M

-----------------------------------------------------------------------------
(***************************************************************************)
(* The points divide the window: a call is in bucket i exactly when it is  *)
(* not before the time of point i, nor, unless i is the last, at or after  *)
(* the time of the next.                                                   *)
(***************************************************************************)
LEMMA Multiples ==
    ASSUME NEW k \in Nat \ {0}, NEW p \in Nat, NEW q \in Nat, p <= q
    PROVE  p * k \in Nat /\ q * k \in Nat /\ p * k <= q * k
<1>1. PICK d \in Nat : q = p + d
  <2>1. q - p \in Nat
    OBVIOUS
  <2> QED
    BY <2>1
<1>2. q * k = p * k + d * k
  BY <1>1
<1>3. d * k \in Nat /\ p * k \in Nat /\ q * k \in Nat
  BY <1>1
<1> QED
  BY <1>2, <1>3

LEMMA LengthType ==
    ASSUME at \in Int
    PROVE  BucketLength \in Nat \ {0} /\ BucketCount \in Nat \ {0} /\ Window \in Nat
           /\ Since \in Int
<1>1. BucketCount \in Nat \ {0} /\ Window \in Nat
  BY SummaryAssumption
<1>2. Since \in Int /\ at - Since = Window
  BY <1>1 DEF Since
<1>3. Window \div BucketCount \in Nat
  BY <1>1
<1> QED
  BY <1>1, <1>2, <1>3 DEF BucketLength

LEMMA BucketRange ==
    ASSUME at \in Int, NEW ts \in Int
    PROVE  /\ (ts - Since) \div BucketLength \in Int
           /\ Bucket(ts) \in 0 .. BucketCount - 1
           /\ (ts - Since) \div BucketLength \in Nat =>
                 Bucket(ts) = IF BucketCount - 1 <= (ts - Since) \div BucketLength
                              THEN BucketCount - 1 ELSE (ts - Since) \div BucketLength
<1>1. /\ BucketLength \in Nat \ {0} /\ BucketCount \in Nat \ {0} /\ Since \in Int
  BY LengthType
<1>2. PICK q \in Int : q = (ts - Since) \div BucketLength
  BY <1>1
<1>3. PICK x \in Nat : x = Max({0, q}) /\ (q \in Nat => x = q)
  <2>1. Max({0, q}) = IF 0 >= q THEN 0 ELSE q
    BY OfTwo
  <2> QED
    BY <2>1
<1>4. Bucket(ts) = IF BucketCount - 1 <= x THEN BucketCount - 1 ELSE x
  <2>1. BucketCount - 1 \in Int /\ x \in Int
    BY <1>1
  <2>2. Min({BucketCount - 1, x}) = IF BucketCount - 1 <= x THEN BucketCount - 1 ELSE x
    BY <2>1, OfTwo
  <2> QED
    BY <1>2, <1>3, <2>2 DEF Bucket
<1>5. Bucket(ts) \in 0 .. BucketCount - 1
  BY <1>1, <1>3, <1>4
<1> QED
  BY <1>2, <1>3, <1>4, <1>5

LEMMA BucketTiles ==
    ASSUME at \in Int, NEW ts \in Int, ts >= Since, NEW i \in 0 .. BucketCount - 1
    PROVE  Bucket(ts) = i <=> /\ Since + i * BucketLength <= ts
                              /\ i + 1 \in 0 .. BucketCount - 1 =>
                                    ts < Since + (i + 1) * BucketLength
<1>1. /\ BucketLength \in Nat \ {0} /\ BucketCount \in Nat \ {0} /\ Since \in Int
  BY LengthType
<1>2. PICK l \in Nat \ {0}, s \in Int, b \in Nat \ {0}, d \in Nat :
         l = BucketLength /\ s = Since /\ b = BucketCount /\ d = ts - s
  <2>1. ts - Since \in Nat
    BY <1>1
  <2> QED
    BY <1>1, <2>1
<1>3. PICK q \in Nat : q = d \div l /\ q * l <= d /\ d < (q + 1) * l
  <2>1. d \div l \in Nat
    OBVIOUS
  <2>2. d % l \in 0 .. l - 1 /\ d = l * (d \div l) + (d % l)
    OBVIOUS
  <2>3. l * (d \div l) = (d \div l) * l /\ ((d \div l) + 1) * l = (d \div l) * l + l
    BY <2>1
  <2>4. (d \div l) * l \in Nat
    BY <2>1
  <2> QED
    BY <2>1, <2>2, <2>3, <2>4
<1>4. Bucket(ts) = IF b - 1 <= q THEN b - 1 ELSE q
  BY <1>2, <1>3, BucketRange
<1>5. i \in Nat /\ i <= b - 1 /\ i * l \in Nat /\ q * l \in Nat /\ (i + 1) * l \in Nat
      /\ (q + 1) * l \in Nat
  BY <1>2
<1>6. i * l <= d <=> i <= q
  <2>1. ASSUME i <= q PROVE i * l <= d
    <3>1. i * l <= q * l
      BY <1>5, <2>1, Multiples
    <3> QED
      BY <1>3, <1>5, <3>1
  <2>2. ASSUME ~(i <= q) PROVE ~(i * l <= d)
    <3>1. q + 1 \in Nat /\ q + 1 <= i
      BY <1>5, <2>2
    <3>2. (q + 1) * l <= i * l
      BY <1>5, <3>1, Multiples
    <3> QED
      BY <1>3, <1>5, <3>2
  <2> QED
    BY <2>1, <2>2
<1>7. d < (i + 1) * l <=> q <= i
  <2>1. ASSUME q <= i PROVE d < (i + 1) * l
    <3>1. q + 1 \in Nat /\ i + 1 \in Nat /\ q + 1 <= i + 1
      BY <1>5, <2>1
    <3>2. (q + 1) * l <= (i + 1) * l
      BY <3>1, Multiples
    <3> QED
      BY <1>3, <1>5, <3>2
  <2>2. ASSUME ~(q <= i) PROVE ~(d < (i + 1) * l)
    <3>1. i + 1 \in Nat /\ i + 1 <= q
      BY <1>5, <2>2
    <3>2. (i + 1) * l <= q * l
      BY <3>1, Multiples
    <3> QED
      BY <1>3, <1>5, <3>2
  <2> QED
    BY <2>1, <2>2
<1>8. /\ (Since + i * BucketLength <= ts <=> i * l <= d)
      /\ (ts < Since + (i + 1) * BucketLength <=> d < (i + 1) * l)
  <2>1. PICK x \in Nat, y \in Nat : x = i * l /\ y = (i + 1) * l
    BY <1>5
  <2>2. (s + x <= ts <=> x <= d) /\ (ts < s + y <=> d < y)
    BY <1>2
  <2> QED
    BY <1>2, <2>1, <2>2
<1>9. i + 1 \in 0 .. BucketCount - 1 <=> i + 1 <= b - 1
  BY <1>2, <1>5
<1>10. Bucket(ts) = i <=> i <= q /\ (i + 1 <= b - 1 => q <= i)
  BY <1>4, <1>5
<1> QED
  BY <1>6, <1>7, <1>8, <1>9, <1>10

-----------------------------------------------------------------------------
(***************************************************************************)
(* What each part of the answer adds up to: the calls of the window, and   *)
(* those of them that failed.                                              *)
(***************************************************************************)
Failed(S) == {r \in S : r.error}

LEMMA StatCounts ==
    ASSUME NEW S, IsFiniteSet(S)
    PROVE  /\ StatOf(S) \in Stat
           /\ StatOf(S).calls = Cardinality(S) /\ StatOf(S).errors = Cardinality(Failed(S))
           /\ IsFiniteSet(Failed(S))
           /\ Cardinality(S) \in Nat /\ Cardinality(Failed(S)) \in Nat
           /\ Cardinality(Failed(S)) <= Cardinality(S)
<1>1. IsFiniteSet(Failed(S)) /\ Cardinality(Failed(S)) <= Cardinality(S)
  BY FS_Subset DEF Failed
<1>2. Cardinality(S) \in Nat /\ Cardinality(Failed(S)) \in Nat
  BY <1>1, FS_CardinalityType
<1> QED
  BY <1>1, <1>2 DEF StatOf, Stat, Failed

(***************************************************************************)
(* Statistics by a key: every call is counted under one value of it.       *)
(***************************************************************************)
LEMMA KeyedCounts ==
    ASSUME NEW S, IsFiniteSet(S), NEW D, NEW key \in [S -> D], NEW stats, DOMAIN stats = D,
           \A i \in D :
              /\ stats[i].calls = StatOf({r \in S : key[r] = i}).calls
              /\ stats[i].errors = StatOf({r \in S : key[r] = i}).errors
    PROVE  CallsOf(stats) = Cardinality(S) /\ ErrorsOf(stats) = Cardinality(Failed(S))
<1>1. \A i \in D : IsFiniteSet({r \in S : key[r] = i})
  BY FS_Subset
<1>2. CallsOf(stats) = Cardinality(S)
  <2> DEFINE tally == [i \in D |-> stats[i].calls]
  <2>1. DOMAIN tally = D
    OBVIOUS
  <2>2. \A i \in D : tally[i] = Cardinality({r \in S : key[r] = i})
    BY <1>1, StatCounts
  <2> HIDE DEF tally
  <2>3. Cardinality(Marks(tally)) = Cardinality(S)
    BY <2>1, <2>2, TallyCounts
  <2> QED
    BY <2>3 DEF CallsOf, tally
<1>3. ErrorsOf(stats) = Cardinality(Failed(S))
  <2> DEFINE tally == [i \in D |-> stats[i].errors]
             failing == [r \in Failed(S) |-> key[r]]
  <2>1. DOMAIN tally = D /\ failing \in [Failed(S) -> D] /\ IsFiniteSet(Failed(S))
    BY StatCounts DEF Failed
  <2>2. ASSUME NEW i \in D PROVE tally[i] = Cardinality({r \in Failed(S) : failing[r] = i})
    <3>1. Failed({r \in S : key[r] = i}) = {r \in Failed(S) : failing[r] = i}
      BY DEF Failed
    <3>2. stats[i].errors = Cardinality(Failed({r \in S : key[r] = i}))
      BY <1>1, StatCounts
    <3> QED
      BY <3>1, <3>2
  <2> HIDE DEF tally, failing
  <2>3. Cardinality(Marks(tally)) = Cardinality(Failed(S))
    <3>1. PICK F : F = Failed(S)
      OBVIOUS
    <3>2. IsFiniteSet(F) /\ failing \in [F -> D]
      BY <2>1, <3>1
    <3>3. \A i \in D : tally[i] = Cardinality({r \in F : failing[r] = i})
      BY <2>2, <3>1
    <3>4. Cardinality(Marks(tally)) = Cardinality(F)
      BY <2>1, <3>2, <3>3, TallyCounts
    <3> QED
      BY <3>1, <3>4
  <2> QED
    BY <2>3 DEF ErrorsOf, tally
<1> QED
  BY <1>2, <1>3

LEMMA GroupedCounts ==
    ASSUME NEW S, IsFiniteSet(S)
    PROVE  /\ CallsOf(Grouped(S)) = Cardinality(S)
           /\ ErrorsOf(Grouped(S)) = Cardinality(Failed(S))
<1> DEFINE D == {r.provider : r \in S}
           key == [r \in S |-> r.provider]
<1>1. key \in [S -> D] /\ DOMAIN Grouped(S) = D
  BY DEF Grouped
<1>2. ASSUME NEW i \in D PROVE Grouped(S)[i] = StatOf({r \in S : key[r] = i})
  <2>1. {r \in S : key[r] = i} = {r \in S : r.provider = i}
    OBVIOUS
  <2> QED
    BY <2>1 DEF Grouped
<1> HIDE DEF D, key
<1> QED
  BY <1>1, <1>2, KeyedCounts

LEMMA PointsCounts ==
    ASSUME at \in Int, NEW S, IsFiniteSet(S), \A r \in S : r.ts \in Int
    PROVE  /\ CallsOf(Points(S)) = Cardinality(S)
           /\ ErrorsOf(Points(S)) = Cardinality(Failed(S))
<1> DEFINE D == 0 .. BucketCount - 1
           key == [r \in S |-> Bucket(r.ts)]
<1>1. key \in [S -> D] /\ DOMAIN Points(S) = D
  BY BucketRange DEF Points
<1>2. ASSUME NEW i \in D
      PROVE  /\ Points(S)[i].calls = StatOf({r \in S : key[r] = i}).calls
             /\ Points(S)[i].errors = StatOf({r \in S : key[r] = i}).errors
  <2>1. {r \in S : key[r] = i} = {r \in S : Bucket(r.ts) = i}
    OBVIOUS
  <2> QED
    BY <2>1 DEF Points
<1> HIDE DEF D, key
<1> QED
  BY <1>1, <1>2, KeyedCounts

(***************************************************************************)
(* Each point has a time and two counts.                                   *)
(***************************************************************************)
LEMMA PointsType ==
    ASSUME at \in Int, NEW S, IsFiniteSet(S)
    PROVE  /\ DOMAIN Points(S) = 0 .. BucketCount - 1
           /\ Points(S) \in [0 .. BucketCount - 1 -> [ts : Int, calls : Nat, errors : Nat]]
           /\ \A i \in 0 .. BucketCount - 1 :
                 /\ Points(S)[i].ts = Since + i * BucketLength
                 /\ Points(S)[i].calls = Cardinality({r \in S : Bucket(r.ts) = i})
<1>1. DOMAIN Points(S) = 0 .. BucketCount - 1
  BY DEF Points
<1>2. ASSUME NEW i \in 0 .. BucketCount - 1
      PROVE  /\ Points(S)[i] \in [ts : Int, calls : Nat, errors : Nat]
             /\ Points(S)[i].ts = Since + i * BucketLength
             /\ Points(S)[i].calls = Cardinality({r \in S : Bucket(r.ts) = i})
  <2>1. IsFiniteSet({r \in S : Bucket(r.ts) = i})
    BY FS_Subset
  <2>2. StatOf({r \in S : Bucket(r.ts) = i}) \in Stat
    BY <2>1, StatCounts
  <2>3. BucketLength \in Nat \ {0} /\ Since \in Int /\ i \in Int
    BY LengthType
  <2>4. Since + i * BucketLength \in Int
    BY <2>3
  <2> QED
    BY <2>2, <2>4 DEF Points, StatOf, Stat
<1> QED
  BY <1>1, <1>2 DEF Points

-----------------------------------------------------------------------------
(***************************************************************************)
(* The inductive invariant.  While the summary is made, the parts that are *)
(* done are compared with the log as it is now, so that the next query,    *)
(* which reads the log, is near them; and the series is the one drawn from *)
(* the rows its query returned.                                            *)
(***************************************************************************)
Calls == Cardinality(InWindow(rows))
Errors == Cardinality(Failed(InWindow(rows)))

Near(x, y) == x - y \in -retired .. logged

Tracked ==
    /\ pc = "providers" => Near(Calls, total.calls) /\ Near(Errors, total.errors)
    /\ pc = "series" => /\ Near(Calls, total.calls)
                        /\ Near(Calls, CallsOf(providers))
                        /\ Near(Errors, ErrorsOf(providers))
    /\ pc \in {"series", "answer"} => /\ CallsOf(providers) \in Nat
                                      /\ ErrorsOf(providers) \in Nat
                                      /\ Near(CallsOf(providers), total.calls)
                                      /\ Near(ErrorsOf(providers), total.errors)
    /\ pc = "answer" => /\ Near(CallsOf(points), total.calls)
                        /\ Near(CallsOf(points), CallsOf(providers))
                        /\ Near(ErrorsOf(points), ErrorsOf(providers))

Drawn == pc = "answer" => points = Points(seen) /\ \A r \in seen : r.ts >= Since

Bounded == IsFiniteSet(rows) /\ IsFiniteSet(seen)

Inv == TypeOK /\ Bounded /\ Drawn /\ Tracked

(***************************************************************************)
(* The window of a finite log is finite.                                   *)
(***************************************************************************)
LEMMA WindowFinite ==
    ASSUME NEW S, IsFiniteSet(S)
    PROVE  /\ IsFiniteSet(InWindow(S)) /\ IsFiniteSet(Failed(InWindow(S)))
           /\ Cardinality(InWindow(S)) \in Nat
           /\ Cardinality(Failed(InWindow(S))) \in 0 .. Cardinality(InWindow(S))
<1>1. IsFiniteSet(InWindow(S))
  BY FS_Subset DEF InWindow
<1>2. PICK W : W = InWindow(S)
  OBVIOUS
<1> QED
  BY <1>1, <1>2, StatCounts

(***************************************************************************)
(* Taking rows apart in two counts each of them once.                      *)
(***************************************************************************)
LEMMA SplitCounts ==
    ASSUME NEW S, NEW T, IsFiniteSet(S), T \subseteq S
    PROVE  /\ Cardinality(InWindow(S))
                = Cardinality(InWindow(S \ T)) + Cardinality(InWindow(T))
           /\ Cardinality(Failed(InWindow(S)))
                = Cardinality(Failed(InWindow(S \ T))) + Cardinality(Failed(InWindow(T)))
<1>1. IsFiniteSet(T) /\ IsFiniteSet(S \ T)
  BY FS_Subset
<1>2. /\ IsFiniteSet(InWindow(T)) /\ IsFiniteSet(InWindow(S \ T))
      /\ IsFiniteSet(Failed(InWindow(T))) /\ IsFiniteSet(Failed(InWindow(S \ T)))
  BY <1>1, WindowFinite
<1>3. ASSUME NEW A, NEW B, IsFiniteSet(A), IsFiniteSet(B), A \cap B = {}
      PROVE  Cardinality(A \cup B) = Cardinality(A) + Cardinality(B)
  <2>1. Cardinality(A \cap B) = 0
    BY <1>3, FS_EmptySet
  <2>2. Cardinality(A \cup B) = Cardinality(A) + Cardinality(B) - Cardinality(A \cap B)
    BY <1>3, FS_Union
  <2>3. Cardinality(A) \in Nat /\ Cardinality(B) \in Nat
    BY <1>3, FS_CardinalityType
  <2> QED
    BY <2>1, <2>2, <2>3
<1>4. /\ InWindow(S) = InWindow(S \ T) \cup InWindow(T)
      /\ InWindow(S \ T) \cap InWindow(T) = {}
  BY DEF InWindow
<1>5. /\ Failed(InWindow(S)) = Failed(InWindow(S \ T)) \cup Failed(InWindow(T))
      /\ Failed(InWindow(S \ T)) \cap Failed(InWindow(T)) = {}
  BY DEF InWindow, Failed
<1> QED
  BY <1>2, <1>3, <1>4, <1>5

(***************************************************************************)
(* At the start nothing has been counted.                                  *)
(***************************************************************************)
LEMMA NothingTypes ==
    /\ Nothing.total \in Stat
    /\ DOMAIN Nothing.providers = {}
    /\ DOMAIN Nothing.points = {}
<1>1. StatOf({}) \in Stat
  BY FS_EmptySet, StatCounts
<1> QED
  BY <1>1 DEF Nothing

LEMMA InitInv == Init => Inv
<1> SUFFICES ASSUME Init PROVE Inv
  OBVIOUS
<1>1. TypeOK
  <2>1. 0 \in 0 .. MaxTime /\ 0 \in 0 .. MaxCalls
    BY SummaryAssumption
  <2>2. /\ providers \in [DOMAIN providers -> Stat]
        /\ points \in [DOMAIN points -> [ts : Int, calls : Nat, errors : Nat]]
    BY NothingTypes DEF Init, Nothing
  <2> QED
    BY <2>1, <2>2, NothingTypes DEF Init, TypeOK, Places
<1> QED
  BY <1>1, FS_EmptySet DEF Init, Inv, Bounded, Drawn, Tracked

(***************************************************************************)
(* The steps that change the log or the clock, and not the summary.        *)
(***************************************************************************)
Moved(k, e) ==
    \/ /\ Calls' = Calls + k /\ Errors' = Errors + e
       /\ logged' = logged + (IF Querying THEN k ELSE 0) /\ retired' = retired
    \/ /\ Calls' = Calls - k /\ Errors' = Errors - e
       /\ retired' = retired + (IF Querying THEN k ELSE 0) /\ logged' = logged

LEMMA WorldStep ==
    ASSUME Inv,
           \/ \E p \in Providers, age \in 0 .. MaxAge, error \in BOOLEAN :
                 LogCall(p, age, error)
           \/ DeleteCallsBefore \/ Tick
    PROVE  /\ TypeOK' /\ Bounded'
           /\ \E k \in Nat : \E e \in 0 .. k : Moved(k, e)
           /\ pc' = pc /\ at' = at /\ total' = total /\ providers' = providers
           /\ points' = points /\ seen' = seen
<1>0. TypeOK /\ IsFiniteSet(rows) /\ IsFiniteSet(seen)
  BY DEF Inv, Bounded
<1>1. ASSUME NEW p \in Providers, NEW age \in 0 .. MaxAge, NEW error \in BOOLEAN,
             LogCall(p, age, error)
      PROVE  /\ TypeOK' /\ Bounded' /\ \E k \in Nat : \E e \in 0 .. k : Moved(k, e)
             /\ pc' = pc /\ at' = at /\ total' = total /\ providers' = providers
             /\ points' = points /\ seen' = seen
  <2>0. /\ UNCHANGED <<now, pc, at, total, providers, points, retired, seen>>
        /\ count' = count + 1 /\ count < MaxCalls
    BY <1>1 DEF LogCall, parts
  <2>1. PICK row : /\ row = [id |-> count + 1, provider |-> p, ts |-> now - age, error |-> error]
                   /\ rows' = rows \cup {row}
    BY <1>1 DEF LogCall
  <2>2. row \in Row /\ count' \in 0 .. MaxCalls
    BY <1>0, <2>0, <2>1, SummaryAssumption DEF TypeOK, Row
  <2>3. IsFiniteSet(rows')
    BY <1>0, <2>1, FS_AddElement
  <2>4. rows' \ rows \subseteq rows' /\ rows' \ (rows' \ rows) = rows
    BY <2>1
  <2>5. IsFiniteSet(rows' \ rows)
    BY <2>3, FS_Subset
  <2>6. PICK R, A : R = rows' /\ A = rows' \ rows
    OBVIOUS
  <2>7. PICK k \in Nat, e \in Nat : /\ k = Cardinality(InWindow(A))
                                    /\ e = Cardinality(Failed(InWindow(A)))
                                    /\ e \in 0 .. k
    BY <2>5, <2>6, WindowFinite
  <2>8. /\ Cardinality(InWindow(R)) = Cardinality(InWindow(R \ A)) + k
        /\ Cardinality(Failed(InWindow(R))) = Cardinality(Failed(InWindow(R \ A))) + e
    BY <2>3, <2>4, <2>6, <2>7, SplitCounts
  <2>9. Calls' = Calls + k /\ Errors' = Errors + e
    BY <2>0, <2>4, <2>6, <2>8 DEF Calls, Errors, InWindow, Since, Failed
  <2>10. logged' = logged + (IF Querying THEN k ELSE 0) /\ logged' \in Nat
    <3>1. logged' = logged + (IF Querying THEN Cardinality(InWindow(rows' \ rows)) ELSE 0)
      BY <1>1 DEF LogCall
    <3>2. Cardinality(InWindow(rows' \ rows)) = k
      BY <2>6, <2>7
    <3> QED
      BY <1>0, <3>1, <3>2 DEF TypeOK
  <2>11. Moved(k, e)
    BY <2>0, <2>9, <2>10 DEF Moved
  <2>12. TypeOK'
    BY <1>0, <2>0, <2>1, <2>2, <2>10 DEF TypeOK
  <2> QED
    BY <1>0, <2>0, <2>3, <2>7, <2>11, <2>12 DEF Bounded
<1>2. CASE DeleteCallsBefore
  <2>0. /\ UNCHANGED <<now, count, pc, at, total, providers, points, logged, seen>>
        /\ rows' \subseteq rows
    BY <1>2 DEF DeleteCallsBefore, parts
  <2>1. IsFiniteSet(rows')
    BY <1>0, <2>0, FS_Subset
  <2>2. rows \ rows' \subseteq rows /\ rows \ (rows \ rows') = rows'
    BY <2>0
  <2>3. IsFiniteSet(rows \ rows')
    BY <1>0, FS_Subset
  <2>4. PICK R, A : R = rows /\ A = rows \ rows'
    OBVIOUS
  <2>5. PICK k \in Nat, e \in Nat : /\ k = Cardinality(InWindow(A))
                                    /\ e = Cardinality(Failed(InWindow(A)))
                                    /\ e \in 0 .. k
    BY <2>3, <2>4, WindowFinite
  <2>6. /\ Cardinality(InWindow(R)) = Cardinality(InWindow(R \ A)) + k
        /\ Cardinality(Failed(InWindow(R))) = Cardinality(Failed(InWindow(R \ A))) + e
    BY <1>0, <2>2, <2>4, <2>5, SplitCounts
  <2>7. Calls = Calls' + k /\ Errors = Errors' + e
    BY <2>0, <2>2, <2>4, <2>6 DEF Calls, Errors, InWindow, Since, Failed
  <2>8. Calls' \in Int /\ Errors' \in Int
    <3>1. PICK Q : Q = rows'
      OBVIOUS
    <3>2. Cardinality(InWindow(Q)) \in Int /\ Cardinality(Failed(InWindow(Q))) \in Int
      BY <2>1, <3>1, WindowFinite
    <3> QED
      BY <2>0, <3>1, <3>2 DEF Calls, Errors, InWindow, Since, Failed
  <2>9. retired' = retired + (IF Querying THEN k ELSE 0) /\ retired' \in Nat
    <3>1. retired' = retired + (IF Querying THEN Cardinality(InWindow(rows \ rows')) ELSE 0)
      BY <1>2 DEF DeleteCallsBefore
    <3>2. Cardinality(InWindow(rows \ rows')) = k
      BY <2>4, <2>5
    <3> QED
      BY <1>0, <3>1, <3>2 DEF TypeOK
  <2>10. Calls' = Calls - k /\ Errors' = Errors - e
    <3>1. \A x, y \in Int : (y = x + k => x = y - k) /\ (y = x + e => x = y - e)
      OBVIOUS
    <3>2. Calls \in Int /\ Errors \in Int
      BY <1>0, WindowFinite DEF Calls, Errors
    <3> QED
      BY <2>7, <2>8, <3>1, <3>2
  <2>11. Moved(k, e)
    BY <2>0, <2>9, <2>10 DEF Moved
  <2>12. TypeOK'
    BY <1>0, <2>0, <2>9 DEF TypeOK
  <2> QED
    BY <1>0, <2>0, <2>1, <2>5, <2>11, <2>12 DEF Bounded
<1>3. CASE Tick
  <2>0. UNCHANGED <<rows, count, pc, at, total, providers, points, logged, retired, seen>>
    BY <1>3 DEF Tick, parts
  <2>1. Calls' = Calls /\ Errors' = Errors
    BY <2>0 DEF Calls, Errors, InWindow, Since, Failed
  <2>2. Calls \in Nat /\ Errors \in Nat
    BY <1>0, WindowFinite DEF Calls, Errors
  <2>3. Moved(0, 0)
    BY <1>0, <2>0, <2>1, <2>2 DEF Moved, TypeOK
  <2>4. TypeOK'
    BY <1>0, <1>3, <2>0, SummaryAssumption DEF Tick, TypeOK
  <2> QED
    BY <1>0, <2>0, <2>3, <2>4 DEF Bounded
<1> QED
  BY <1>1, <1>2, <1>3

(***************************************************************************)
(* A larger interval holds what a smaller one holds.                       *)
(***************************************************************************)
LEMMA Wider ==
    ASSUME NEW z \in Int, NEW a \in Nat, NEW b \in Nat, NEW c \in Nat, NEW d \in Nat,
           a <= c, b <= d, z \in -a .. b
    PROVE  z \in -c .. d
OBVIOUS

(***************************************************************************)
(* What is near the log stays near it while the log moves, and two parts   *)
(* that are done stay near each other.                                     *)
(***************************************************************************)
LEMMA TrackedMoves ==
    ASSUME Inv, NEW k \in Nat, NEW e \in 0 .. k, Moved(k, e), pc' = pc,
           total' = total, providers' = providers, points' = points
    PROVE  Tracked'
<1>0. /\ logged \in Nat /\ retired \in Nat /\ total.calls \in Nat /\ total.errors \in Nat
      /\ Calls \in Nat /\ Errors \in Nat
  BY WindowFinite DEF Inv, Bounded, TypeOK, Stat, Calls, Errors
<1>1. CallsOf(providers)' = CallsOf(providers) /\ ErrorsOf(providers)' = ErrorsOf(providers)
      /\ CallsOf(points)' = CallsOf(points) /\ ErrorsOf(points)' = ErrorsOf(points)
  BY DEF CallsOf, ErrorsOf, Marks
<1>2. logged <= logged' /\ retired <= retired' /\ logged' \in Nat /\ retired' \in Nat
  BY <1>0 DEF Moved
<1>3. ASSUME NEW x \in Int, NEW y \in Int, x - y \in -retired .. logged
      PROVE  x - y \in -retired' .. logged'
  <2>1. PICK z \in Int : z = x - y
    OBVIOUS
  <2> QED
    BY <1>0, <1>2, <1>3, <2>1, Wider
<1>d. ASSUME NEW x \in Int, NEW y \in Int, NEW d \in 0 .. k, x - y \in -retired .. logged
      PROVE  /\ (x + d) - y \in -retired .. logged + k
             /\ (x - d) - y \in -(retired + k) .. logged
  BY <1>0, <1>d
<1>4. ASSUME NEW y \in Int, Querying, Calls - y \in -retired .. logged
      PROVE  Calls' - y \in -retired' .. logged'
  <2>1. /\ (Calls + k) - y \in -retired .. logged + k
        /\ (Calls - k) - y \in -(retired + k) .. logged
    BY <1>0, <1>4, <1>d
  <2> QED
    BY <1>4, <2>1 DEF Moved
<1>5. ASSUME NEW y \in Int, Querying, Errors - y \in -retired .. logged
      PROVE  Errors' - y \in -retired' .. logged'
  <2>1. /\ (Errors + e) - y \in -retired .. logged + k
        /\ (Errors - e) - y \in -(retired + k) .. logged
    BY <1>0, <1>5, <1>d
  <2> QED
    BY <1>5, <2>1 DEF Moved
<1>6. CASE pc = "providers"
  BY <1>0, <1>4, <1>5, <1>6 DEF Inv, Tracked, Near, Querying
<1>7. CASE pc = "series"
  <2>1. CallsOf(providers) \in Nat /\ ErrorsOf(providers) \in Nat
    BY <1>7 DEF Inv, Tracked
  <2>2. /\ Querying
        /\ Calls - total.calls \in -retired .. logged
        /\ Calls - CallsOf(providers) \in -retired .. logged
        /\ Errors - ErrorsOf(providers) \in -retired .. logged
        /\ CallsOf(providers) - total.calls \in -retired .. logged
        /\ ErrorsOf(providers) - total.errors \in -retired .. logged
    BY <1>7 DEF Inv, Tracked, Near, Querying
  <2>3. /\ Calls' - total.calls \in -retired' .. logged'
        /\ Calls' - CallsOf(providers) \in -retired' .. logged'
        /\ Errors' - ErrorsOf(providers) \in -retired' .. logged'
    BY <1>0, <1>4, <1>5, <2>1, <2>2
  <2>4. /\ CallsOf(providers) - total.calls \in -retired' .. logged'
        /\ ErrorsOf(providers) - total.errors \in -retired' .. logged'
    BY <1>0, <1>3, <2>1, <2>2
  <2> QED
    BY <1>1, <1>7, <2>1, <2>3, <2>4 DEF Tracked, Near
<1>8. CASE pc \notin {"providers", "series"}
  <2>1. logged' = logged /\ retired' = retired
    BY <1>0, <1>8 DEF Moved, Querying
  <2> QED
    BY <1>1, <1>8, <2>1 DEF Inv, Tracked, Near
<1> QED
  BY <1>6, <1>7, <1>8

(***************************************************************************)
(* A query leaves the log alone, and what it counts is the window of now.  *)
(***************************************************************************)
LEMMA Still ==
    ASSUME TypeOK, Bounded, UNCHANGED <<world, at, logged, retired>>
    PROVE  /\ Calls' = Calls /\ Errors' = Errors /\ Calls \in Nat /\ Errors \in Nat
           /\ Bounded' <=> IsFiniteSet(seen')
           /\ rows' = rows /\ now' = now /\ count' = count
           /\ 0 \in -retired .. logged
<1>1. rows' = rows /\ now' = now /\ count' = count /\ at' = at
  BY DEF world
<1>2. Calls \in Nat /\ Errors \in Nat
  BY WindowFinite DEF Calls, Errors, Bounded
<1>3. 0 \in -retired .. logged
  BY DEF TypeOK
<1> QED
  BY <1>1, <1>2, <1>3 DEF Calls, Errors, InWindow, Since, Failed, Bounded

(***************************************************************************)
(* The totals.                                                             *)
(***************************************************************************)
LEMMA TotalKeeps ==
    ASSUME Inv, Total
    PROVE  Inv'
<1>0. /\ pc = "total" /\ pc' = "providers" /\ total' = StatOf(InWindow(rows))
      /\ UNCHANGED <<world, at, providers, points, logged, retired, seen>>
  BY DEF Total
<1>1. TypeOK /\ Bounded
  BY DEF Inv
<1>2. /\ Calls' = Calls /\ Errors' = Errors /\ Calls \in Nat /\ Errors \in Nat
      /\ rows' = rows /\ now' = now /\ count' = count /\ 0 \in -retired .. logged
      /\ Bounded'
  BY <1>0, <1>1, Still DEF Bounded
<1>3. total' \in Stat /\ total'.calls = Calls /\ total'.errors = Errors
  <2>1. PICK W : W = InWindow(rows)
    OBVIOUS
  <2> QED
    BY <1>0, <1>1, <2>1, WindowFinite, StatCounts DEF Bounded, Calls, Errors
<1>4. TypeOK'
  BY <1>0, <1>1, <1>2, <1>3 DEF TypeOK, Places
<1>5. Tracked'
  BY <1>0, <1>2, <1>3 DEF Tracked, Near
<1>6. Drawn'
  BY <1>0 DEF Drawn
<1> QED
  BY <1>2, <1>4, <1>5, <1>6 DEF Inv

(***************************************************************************)
(* The providers.                                                          *)
(***************************************************************************)
LEMMA ByProviderKeeps ==
    ASSUME Inv, ByProvider
    PROVE  Inv'
<1>0. /\ pc = "providers" /\ pc' = "series" /\ providers' = Grouped(InWindow(rows))
      /\ UNCHANGED <<world, at, total, points, logged, retired, seen>>
  BY DEF ByProvider
<1>1. TypeOK /\ Bounded /\ Near(Calls, total.calls) /\ Near(Errors, total.errors)
  BY <1>0 DEF Inv, Tracked
<1>2. /\ Calls' = Calls /\ Errors' = Errors /\ Calls \in Nat /\ Errors \in Nat
      /\ rows' = rows /\ now' = now /\ count' = count /\ 0 \in -retired .. logged
      /\ Bounded'
  BY <1>0, <1>1, Still DEF Bounded
<1>3. /\ CallsOf(providers') = Calls /\ ErrorsOf(providers') = Errors
  <2>1. PICK W : W = InWindow(rows)
    OBVIOUS
  <2>2. IsFiniteSet(W)
    BY <1>1, <2>1, WindowFinite DEF Bounded
  <2> QED
    BY <1>0, <2>1, <2>2, GroupedCounts DEF Calls, Errors
<1>4. /\ DOMAIN providers' \subseteq Providers
      /\ providers' \in [DOMAIN providers' -> Stat]
  <2>1. PICK W : W = InWindow(rows)
    OBVIOUS
  <2>2. IsFiniteSet(W) /\ W \subseteq Row
    BY <1>1, <2>1, WindowFinite DEF Bounded, TypeOK, InWindow
  <2>3. ASSUME NEW p PROVE StatOf({r \in W : r.provider = p}) \in Stat
    <3>1. IsFiniteSet({r \in W : r.provider = p})
      BY <2>2, FS_Subset
    <3> QED
      BY <3>1, StatCounts
  <2>4. DOMAIN Grouped(W) \subseteq Providers /\ Grouped(W) \in [DOMAIN Grouped(W) -> Stat]
    BY <2>2, <2>3 DEF Grouped, Row
  <2> QED
    BY <1>0, <2>1, <2>4
<1>5. TypeOK'
  BY <1>0, <1>1, <1>2, <1>4 DEF TypeOK, Places
<1>6. Tracked'
  <2>1. CallsOf(providers)' = Calls /\ ErrorsOf(providers)' = Errors
    BY <1>3 DEF CallsOf, ErrorsOf, Marks
  <2> QED
    BY <1>0, <1>1, <1>2, <2>1 DEF Tracked, Near
<1>7. Drawn'
  BY <1>0 DEF Drawn
<1> QED
  BY <1>2, <1>5, <1>6, <1>7 DEF Inv

(***************************************************************************)
(* The series.                                                             *)
(***************************************************************************)
LEMMA SeriesKeeps ==
    ASSUME Inv, Series
    PROVE  Inv'
<1>0. /\ pc = "series" /\ pc' = "answer" /\ points' = Points(InWindow(rows))
      /\ seen' = InWindow(rows)
      /\ UNCHANGED <<world, at, total, providers, logged, retired>>
  BY DEF Series
<1>1. /\ TypeOK /\ Bounded /\ Near(Calls, total.calls)
      /\ Near(Calls, CallsOf(providers)) /\ Near(Errors, ErrorsOf(providers))
      /\ CallsOf(providers) \in Nat /\ ErrorsOf(providers) \in Nat
      /\ Near(CallsOf(providers), total.calls) /\ Near(ErrorsOf(providers), total.errors)
  BY <1>0 DEF Inv, Tracked
<1>2. /\ IsFiniteSet(seen') /\ seen' \subseteq Row /\ \A r \in seen' : r.ts >= Since
      /\ at \in Int
  <2>1. IsFiniteSet(seen')
    BY <1>0, <1>1, WindowFinite DEF Bounded
  <2>2. seen' \subseteq rows /\ \A r \in seen' : r.ts >= Since
    BY <1>0 DEF InWindow
  <2>3. rows \subseteq Row /\ at \in Int
    BY <1>1 DEF TypeOK
  <2> QED
    BY <2>1, <2>2, <2>3
<1>3. /\ Calls' = Calls /\ Errors' = Errors /\ Calls \in Nat /\ Errors \in Nat
      /\ rows' = rows /\ now' = now /\ count' = count /\ Bounded'
  BY <1>0, <1>1, <1>2, Still
<1>4. /\ CallsOf(points') = Calls /\ ErrorsOf(points') = Errors
      /\ DOMAIN points' = 0 .. BucketCount - 1
      /\ points' \in [0 .. BucketCount - 1 -> [ts : Int, calls : Nat, errors : Nat]]
  <2>1. PICK W : W = seen'
    OBVIOUS
  <2>2. IsFiniteSet(W) /\ \A r \in W : r.ts \in Int
    BY <1>2, <2>1 DEF Row
  <2>3. W = InWindow(rows) /\ points' = Points(W)
    BY <1>0, <2>1
  <2> QED
    BY <1>2, <2>2, <2>3, PointsCounts, PointsType DEF Calls, Errors
<1>5. TypeOK'
  BY <1>0, <1>1, <1>2, <1>3, <1>4 DEF TypeOK, Places
<1>6. Tracked'
  <2>1. CallsOf(points)' = Calls /\ ErrorsOf(points)' = Errors
    BY <1>4 DEF CallsOf, ErrorsOf, Marks
  <2>2. CallsOf(providers)' = CallsOf(providers) /\ ErrorsOf(providers)' = ErrorsOf(providers)
    BY <1>0 DEF CallsOf, ErrorsOf, Marks
  <2> QED
    BY <1>0, <1>1, <2>1, <2>2 DEF Tracked, Near
<1>7. Drawn'
  <2>1. Points(seen)' = Points(InWindow(rows))
    BY <1>0 DEF Points, Bucket, BucketLength, Since
  <2>2. Since' = Since
    BY <1>0 DEF Since
  <2> QED
    BY <1>0, <1>2, <2>1, <2>2 DEF Drawn
<1> QED
  BY <1>3, <1>5, <1>6, <1>7 DEF Inv

-----------------------------------------------------------------------------
(***************************************************************************)
(* Every step keeps the invariant.                                         *)
(***************************************************************************)
LEMMA BeginKeeps ==
    ASSUME Inv, Begin
    PROVE  Inv'
<1>0. /\ pc' = "total" /\ at' = now
      /\ UNCHANGED <<now, rows, count, total, providers, points, logged, retired, seen>>
  BY DEF Begin, world, parts
<1>1. TypeOK /\ Bounded
  BY DEF Inv
<1>2. TypeOK'
  BY <1>0, <1>1 DEF TypeOK, Places
<1>3. Bounded' /\ Tracked' /\ Drawn'
  BY <1>0, <1>1 DEF Bounded, Tracked, Drawn
<1> QED
  BY <1>2, <1>3 DEF Inv

LEMMA AnswerKeeps ==
    ASSUME Inv, Answer
    PROVE  Inv'
<1>0. /\ pc' = "idle" /\ at' = 0 /\ total' = Nothing.total
      /\ providers' = Nothing.providers /\ points' = Nothing.points
      /\ logged' = 0 /\ retired' = 0 /\ seen' = {}
      /\ UNCHANGED <<now, rows, count>>
  BY DEF Answer, world
<1>1. TypeOK /\ Bounded
  BY DEF Inv
<1>2. TypeOK'
  <2>1. 0 \in 0 .. MaxTime
    BY SummaryAssumption
  <2>2. /\ providers' \in [DOMAIN providers' -> Stat]
        /\ points' \in [DOMAIN points' -> [ts : Int, calls : Nat, errors : Nat]]
    BY <1>0, NothingTypes DEF Nothing
  <2> QED
    BY <1>0, <1>1, <2>1, <2>2, NothingTypes DEF TypeOK, Places
<1>3. Bounded' /\ Tracked' /\ Drawn'
  BY <1>0, <1>1, FS_EmptySet DEF Bounded, Tracked, Drawn
<1> QED
  BY <1>2, <1>3 DEF Inv

LEMMA WorldKeeps ==
    ASSUME Inv,
           \/ \E p \in Providers, age \in 0 .. MaxAge, error \in BOOLEAN :
                 LogCall(p, age, error)
           \/ DeleteCallsBefore \/ Tick
    PROVE  Inv'
<1>1. /\ TypeOK' /\ Bounded'
      /\ \E k \in Nat : \E e \in 0 .. k : Moved(k, e)
      /\ pc' = pc /\ at' = at /\ total' = total /\ providers' = providers
      /\ points' = points /\ seen' = seen
  BY WorldStep
<1>2. Tracked'
  BY <1>1, TrackedMoves
<1>3. Drawn'
  <2>1. Points(seen)' = Points(seen) /\ Since' = Since
    BY <1>1 DEF Points, Bucket, BucketLength, Since
  <2> QED
    BY <1>1, <2>1 DEF Inv, Drawn
<1> QED
  BY <1>1, <1>2, <1>3 DEF Inv

LEMMA NextInv ==
    ASSUME Inv, [Next]_vars
    PROVE  Inv'
<1>1. CASE UNCHANGED vars
  <2>1. /\ UNCHANGED <<now, rows, count, pc, at, total, providers, points, logged, retired>>
        /\ seen' = seen
    BY <1>1 DEF vars, world, parts
  <2>2. TypeOK' /\ Bounded'
    BY <2>1 DEF Inv, TypeOK, Bounded
  <2>3. Tracked'
    BY <2>1 DEF Inv, Tracked, Near, Calls, Errors, InWindow, Since, Failed, CallsOf,
                ErrorsOf, Marks
  <2>4. Drawn'
    <3>1. Points(seen)' = Points(seen) /\ Since' = Since
      BY <2>1 DEF Points, Bucket, BucketLength, Since
    <3> QED
      BY <2>1, <3>1 DEF Inv, Drawn
  <2> QED
    BY <2>2, <2>3, <2>4 DEF Inv
<1>2. CASE Begin
  BY <1>2, BeginKeeps
<1>3. CASE Total
  BY <1>3, TotalKeeps
<1>4. CASE ByProvider
  BY <1>4, ByProviderKeeps
<1>5. CASE Series
  BY <1>5, SeriesKeeps
<1>6. CASE Answer
  BY <1>6, AnswerKeeps
<1>7. CASE \/ \E p \in Providers, age \in 0 .. MaxAge, error \in BOOLEAN :
                 LogCall(p, age, error)
           \/ DeleteCallsBefore \/ Tick
  BY <1>7, WorldKeeps
<1> QED
  BY <1>1, <1>2, <1>3, <1>4, <1>5, <1>6, <1>7 DEF Next

LEMMA Invariance == Spec => []Inv
<1>1. Inv /\ [Next]_vars => Inv'
  BY NextInv
<1> QED
  BY InitInv, <1>1, PTL DEF Spec

-----------------------------------------------------------------------------
(***************************************************************************)
(* Every variable keeps its type: counts are numbers, the providers of an  *)
(* answer are providers, and its series has a point for every bucket.      *)
(***************************************************************************)
THEOREM SummaryTypeCorrect == Spec => []TypeOK
<1>1. Inv => TypeOK
  BY DEF Inv
<1> QED
  BY <1>1, Invariance, PTL

(***************************************************************************)
(* The parts of one summary, read by three queries with no transaction     *)
(* around them, differ by no more than what was logged and deleted between *)
(* the queries.                                                            *)
(***************************************************************************)
THEOREM PartsNeverDrift == Spec => []PartsAgree
<1>1. Inv => PartsAgree
  BY DEF Inv, Tracked, Near, PartsAgree
<1> QED
  BY <1>1, Invariance, PTL

(***************************************************************************)
(* The points of a series divide the calls of its query: each is counted   *)
(* by the point whose time it follows and the next point's it precedes,    *)
(* whether or not the buckets divide the window evenly.                    *)
(***************************************************************************)
THEOREM PointsDivideCalls == Spec => []PointsTile
<1>1. Inv => PointsTile
  <2> SUFFICES ASSUME Inv, pc = "answer", NEW i \in DOMAIN points
               PROVE  points[i].calls = Cardinality(
                        {r \in seen : /\ points[i].ts <= r.ts
                                      /\ i + 1 \in DOMAIN points => r.ts < points[i + 1].ts})
    BY DEF PointsTile
  <2>1. /\ IsFiniteSet(seen) /\ seen \subseteq Row /\ at \in Int
        /\ points = Points(seen) /\ \A r \in seen : r.ts >= Since
    BY DEF Inv, Bounded, Drawn, TypeOK
  <2>2. /\ DOMAIN points = 0 .. BucketCount - 1
        /\ \A j \in 0 .. BucketCount - 1 : points[j].ts = Since + j * BucketLength
        /\ points[i].calls = Cardinality({r \in seen : Bucket(r.ts) = i})
    BY <2>1, PointsType
  <2>3. \A r \in seen : r.ts \in Int /\ r.ts >= Since
    BY <2>1 DEF Row
  <2>4. ASSUME NEW r \in seen
        PROVE  Bucket(r.ts) = i <=> /\ points[i].ts <= r.ts
                                    /\ i + 1 \in DOMAIN points => r.ts < points[i + 1].ts
    <3>1. PICK ts \in Int : ts = r.ts /\ ts >= Since
      BY <2>3
    <3>2. Bucket(ts) = i <=> /\ Since + i * BucketLength <= ts
                             /\ i + 1 \in 0 .. BucketCount - 1 =>
                                   ts < Since + (i + 1) * BucketLength
      BY <2>1, <2>2, <3>1, BucketTiles
    <3> QED
      BY <2>2, <3>1, <3>2
  <2> QED
    BY <2>2, <2>4
<1> QED
  BY <1>1, Invariance, PTL
=============================================================================
