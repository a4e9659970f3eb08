---------------------------- MODULE CallSummary ----------------------------
(***************************************************************************)
(* GET /api/summary over the call log: Summarize and summarySeries of      *)
(* internal/store/store.go.  Three queries, with no transaction around     *)
(* them, read the log while handlers insert into it and the retention job  *)
(* deletes from it.                                                        *)
(*                                                                         *)
(*   idle -Begin-> total -Total-> providers -ByProvider-> series           *)
(*        -Series-> answer -Answer-> idle                                  *)
(***************************************************************************)
EXTENDS Integers, FiniteSets, FiniteSetsExt

CONSTANTS
    Providers,      \* names of providers
    Window,         \* ticks the summary looks back
    BucketCount,    \* points of the series
    RetentionAge,   \* ticks after which the retention job deletes a call
    MaxAge,         \* bound: ticks between the start of a call and its record
    MaxTime,        \* bound: the last tick of the clock
    MaxCalls        \* bound: calls logged

ASSUME SummaryAssumption ==
    /\ {Window, BucketCount} \subseteq Nat \ {0}
    /\ {RetentionAge, MaxAge, MaxTime, MaxCalls} \subseteq Nat

VARIABLES
    now,        \* the clock
    rows,       \* the table of calls
    count,      \* calls logged, the last row's id
    pc,         \* where the summary is
    at,         \* the time it was begun
    total,      \* its totals: calls and errors
    providers,  \* its calls and errors per provider
    points,     \* its series
    logged,     \* history: calls of the window logged between its queries
    retired,    \* history: calls of the window deleted between its queries
    seen        \* history: the rows the last query returned

world == <<now, rows, count>>
parts == <<total, providers, points>>
vars == <<world, pc, at, parts, logged, retired, seen>>

Places == {"idle", "total", "providers", "series", "answer"}
Row == [id : 1 .. MaxCalls, provider : Providers, ts : Int, error : BOOLEAN]
Stat == [calls : Nat, errors : Nat]

Since == at - Window
InWindow(S) == {r \in S : r.ts >= Since}

Querying == pc \in {"providers", "series"}     \* between two queries

StatOf(S) == [calls |-> Cardinality(S), errors |-> Cardinality({r \in S : r.error})]

Nothing == [total |-> StatOf({}), providers |-> [p \in {} |-> StatOf({})],
            points |-> [i \in {} |-> [ts |-> 0, calls |-> 0, errors |-> 0]]]

Init == /\ now = 0
        /\ rows = {}
        /\ count = 0
        /\ pc = "idle"
        /\ at = 0
        /\ total = Nothing.total
        /\ providers = Nothing.providers
        /\ points = Nothing.points
        /\ logged = 0
        /\ retired = 0
        /\ seen = {}

-----------------------------------------------------------------------------
(***************************************************************************)
(* A call is stamped when it begins and inserted when it ends.             *)
(***************************************************************************)
LogCall(p, age, error) ==
    /\ count < MaxCalls
    /\ count' = count + 1
    /\ rows' = rows \cup {[id |-> count + 1, provider |-> p, ts |-> now - age,
                           error |-> error]}
    /\ logged' = logged + IF Querying THEN Cardinality(InWindow(rows' \ rows)) ELSE 0
    /\ UNCHANGED <<now, pc, at, parts, retired, seen>>

DeleteCallsBefore ==
    /\ rows' = {r \in rows : r.ts >= now - RetentionAge}
    /\ retired' = retired + IF Querying THEN Cardinality(InWindow(rows \ rows')) ELSE 0
    /\ UNCHANGED <<now, count, pc, at, parts, logged, seen>>

Tick == /\ now < MaxTime
        /\ now' = now + 1
        /\ UNCHANGED <<rows, count, pc, at, parts, logged, retired, seen>>

-----------------------------------------------------------------------------
Begin == /\ pc = "idle"
         /\ pc' = "total"
         /\ at' = now
         /\ UNCHANGED <<world, parts, logged, retired, seen>>

Total == /\ pc = "total"
         /\ pc' = "providers"
         /\ total' = StatOf(InWindow(rows))
         /\ UNCHANGED <<world, at, providers, points, logged, retired, seen>>

(***************************************************************************)
(* A definition whose name begins with Mutant is a plausible slip in the   *)
(* one that follows it; no action uses it.  Here: the window is forgotten  *)
(* in the second query.                                                    *)
(***************************************************************************)
MutantGrouped(S) ==
    [p \in {r.provider : r \in S} |-> StatOf({r \in rows : r.provider = p})]

Grouped(S) ==
    [p \in {r.provider : r \in S} |-> StatOf({r \in S : r.provider = p})]

ByProvider == /\ pc = "providers"
              /\ pc' = "series"
              /\ providers' = Grouped(InWindow(rows))
              /\ UNCHANGED <<world, at, total, points, logged, retired, seen>>

(***************************************************************************)
(* The length of a bucket is rounded down, so that the last one may be     *)
(* longer; a call that began after the summary belongs to it as well.      *)
(***************************************************************************)
BucketLength == LET length == (at - Since) \div BucketCount
                IN  IF length <= 0 THEN 1 ELSE length

MutantBucket(ts) == (ts - Since) \div BucketLength

Bucket(ts) == Min({BucketCount - 1, Max({0, (ts - Since) \div BucketLength})})

(***************************************************************************)
(* One point too many.                                                     *)
(***************************************************************************)
MutantPoints(S) ==
    [i \in 0 .. BucketCount |->
        LET stat == StatOf({r \in S : Bucket(r.ts) = i}) IN
        [ts |-> Since + i * BucketLength, calls |-> stat.calls, errors |-> stat.errors]]

Points(S) ==
    [i \in 0 .. BucketCount - 1 |->
        LET stat == StatOf({r \in S : Bucket(r.ts) = i}) IN
        [ts |-> Since + i * BucketLength, calls |-> stat.calls, errors |-> stat.errors]]

Series == /\ pc = "series"
          /\ pc' = "answer"
          /\ points' = Points(InWindow(rows))
          /\ seen' = InWindow(rows)
          /\ UNCHANGED <<world, at, total, providers, logged, retired>>

(***************************************************************************)
(* The summary is sent, or a query failed.                                 *)
(***************************************************************************)
Answer == /\ pc # "idle"
          /\ pc' = "idle"
          /\ at' = 0
          /\ total' = Nothing.total
          /\ providers' = Nothing.providers
          /\ points' = Nothing.points
          /\ logged' = 0
          /\ retired' = 0
          /\ seen' = {}
          /\ UNCHANGED world

Next == \/ \E p \in Providers, age \in 0 .. MaxAge, error \in BOOLEAN :
              LogCall(p, age, error)
        \/ DeleteCallsBefore \/ Tick
        \/ Begin \/ Total \/ ByProvider \/ Series \/ Answer

Spec == Init /\ [][Next]_vars

-----------------------------------------------------------------------------
TypeOK == /\ now \in 0 .. MaxTime
          /\ rows \subseteq Row
          /\ count \in 0 .. MaxCalls
          /\ pc \in Places
          /\ at \in 0 .. MaxTime
          /\ total \in Stat
          /\ DOMAIN providers \subseteq Providers
          /\ providers \in [DOMAIN providers -> Stat]
          /\ pc = "answer" => DOMAIN points = 0 .. BucketCount - 1
          /\ points \in [DOMAIN points -> [ts : Int, calls : Nat, errors : Nat]]
          /\ {logged, retired} \subseteq Nat
          /\ seen \subseteq Row

(***************************************************************************)
(* The sum of a tally is the number of its marks, tally[i] of them for i.  *)
(***************************************************************************)
Marks(tally) == UNION {{i} \X (1 .. tally[i]) : i \in DOMAIN tally}

CallsOf(stats) == Cardinality(Marks([i \in DOMAIN stats |-> stats[i].calls]))
ErrorsOf(stats) == Cardinality(Marks([i \in DOMAIN stats |-> stats[i].errors]))

(***************************************************************************)
(* The totals, the providers and the series of one answer differ by no     *)
(* more than the calls logged and deleted while it was made: over a log    *)
(* nobody touches they agree, and without the retention job no part is     *)
(* behind an earlier one.                                                  *)
(***************************************************************************)
PartsAgree ==
    /\ pc \in {"series", "answer"} =>
          /\ CallsOf(providers) - total.calls \in -retired .. logged
          /\ ErrorsOf(providers) - total.errors \in -retired .. logged
    /\ pc = "answer" =>
          /\ CallsOf(points) - total.calls \in -retired .. logged
          /\ CallsOf(points) - CallsOf(providers) \in -retired .. logged
          /\ ErrorsOf(points) - ErrorsOf(providers) \in -retired .. logged

(***************************************************************************)
(* Each point of the series counts the calls from its own time to the next *)
(* point's, the last one those to the end, so that each call is counted    *)
(* once and where the chart shows it.                                      *)
(***************************************************************************)
PointsTile ==
    pc = "answer" =>
        \A i \in DOMAIN points :
            points[i].calls = Cardinality(
                {r \in seen : /\ points[i].ts <= r.ts
                              /\ i + 1 \in DOMAIN points => r.ts < points[i + 1].ts})
=============================================================================
