----------------------------- MODULE ClientGate -----------------------------
(***************************************************************************)
(* The /v1/* gate of the proxy: the requireAccessToken middleware          *)
(* (internal/server/server.go) with the handler it wraps                   *)
(* (internal/proxy/proxy.go), the configuration it reads                   *)
(* (internal/config/config.go) and the call log it counts in               *)
(* (internal/store/store.go).                                              *)
(*                                                                         *)
(* A request is one goroutine.  Every step below touches shared state at   *)
(* most once, so that the steps of concurrent requests, of an              *)
(* administrator's edit, of the retention job and of the clock interleave  *)
(* as they do in the program:                                              *)
(*                                                                         *)
(*   idle -Begin-> daily -CheckDaily-> rpm -CheckRPM-> acquire             *)
(*        -Acquire-> serve -Route-> upstream -UpstreamEnds-> log           *)
(*        -LogCall-> release -Release-> idle                               *)
(*                                                                         *)
(* with serve -ListModels-> release for GET /v1/models, and a return to    *)
(* idle wherever the code answers with an error.                           *)
(***************************************************************************)
EXTENDS Integers, FiniteSets

CONSTANTS
    Handlers,       \* goroutines that serve requests, each one at a time
    Names,          \* client names, LegacyName among them
    LegacyName,     \* the name of the synthetic client of ACCESS_TOKENS
    Tokens,         \* bearer tokens a request may carry
    Models,         \* model identifiers
    NoModel,        \* a request that names no model
    Catalogue,      \* GET /v1/models
    NoClient,       \* no client is attached to the handler
    Configs,        \* the configurations an administrator installs
    InitialConfig,  \* the one the process starts with
    DayLength,      \* ticks of the clock in a UTC day
    MinuteLength,   \* ticks in the window of rpm_limit
    RetentionDays,  \* days of calls kept by the retention job, 0 for all
    MaxTime,        \* bound: the last tick of the clock
    MaxRequests,    \* bound: requests that arrive
    MaxCrashes      \* bound: times the process is killed

(***************************************************************************)
(* A dashboard client, as NormalizeClients leaves it.  A limit of 0 is no  *)
(* limit and an empty allow-list allows every model.                       *)
(***************************************************************************)
Client == [name : Names, token : Tokens, enabled : BOOLEAN,
           dailyLimit : Nat, rpmLimit : Nat, concurrentLimit : Nat,
           allowedModels : SUBSET Models]

(***************************************************************************)
(* What the gate reads of a configuration.  "models" are those an enabled  *)
(* provider lists; "prefixed" are identifiers of the form provider/model   *)
(* that name an enabled provider, which routes them listed or not.         *)
(***************************************************************************)
Config == [clients : SUBSET Client, accessTokens : SUBSET Tokens,
           models : SUBSET Models, prefixed : SUBSET Models]

(***************************************************************************)
(* NormalizeClients refuses two clients of one name and two of one token.  *)
(***************************************************************************)
Normalized(c) == \A k, l \in c.clients :
                    k.name = l.name \/ k.token = l.token => k = l

ASSUME ConfigsAssumption == /\ Configs \subseteq Config
                            /\ \A c \in Configs : Normalized(c)
                            /\ InitialConfig \in Configs
ASSUME NamesAssumption == LegacyName \in Names
ASSUME MarkersAssumption == /\ NoModel \notin Models
                            /\ Catalogue \notin Models \cup {NoModel}
                            /\ NoClient \notin Client
ASSUME TimeAssumption == /\ DayLength \in Nat \ {0}
                         /\ MinuteLength \in Nat
                         /\ RetentionDays \in Nat
                         /\ MaxTime \in Nat
ASSUME HandlersAssumption == IsFiniteSet(Handlers)
ASSUME BoundsAssumption == MaxRequests \in Nat /\ MaxCrashes \in Nat

VARIABLES
    config,         \* the live configuration (config.current)
    pc,             \* where each handler is
    client,         \* the client record each handler copied when it authenticated
    want,           \* the model each handler was asked for, or Catalogue
    ts,             \* the Timestamp of each handler's call record
    shown,          \* the models each handler listed
    activeClients,  \* Server.activeClients: name to count, no entry for none
    calls,          \* the calls table: rows per client name and timestamp
    now,            \* the wall clock
    requests,       \* requests begun so far
    crashes,        \* times the process was killed
    peak            \* history: most handlers of a name past the daily check

local == <<client, want, ts, shown>>
vars == <<config, pc, local, activeClients, calls, now, requests, crashes, peak>>

Places == {"idle", "daily", "rpm", "acquire", "serve", "upstream", "log", "release"}
Serving == {"serve", "upstream", "log", "release"}   \* past tryAcquireClient
PastRPM == {"acquire", "serve", "upstream", "log"}   \* past the rpm check, not logged
PastDaily == {"rpm"} \cup PastRPM                    \* past the daily check, not logged

Times == 0 .. MaxTime
NoCalls == [n \in Names |-> [t \in Times |-> 0]]
NoneActive == [n \in {} |-> 0]

LegacyClient(token) ==
    [name |-> LegacyName, token |-> token, enabled |-> TRUE,
     dailyLimit |-> 0, rpmLimit |-> 0, concurrentLimit |-> 0,
     allowedModels |-> {}]

(***************************************************************************)
(* The client a token stands for: an enabled client first, else the        *)
(* synthetic client of a legacy token.  Tokens are unique among clients,   *)
(* so the set has at most one element.                                     *)
(***************************************************************************)
ClientsOfToken(c, token) ==
    LET enabled == {k \in c.clients : k.enabled /\ k.token = token}
    IN  IF enabled # {} THEN enabled
        ELSE {LegacyClient(token) : t \in c.accessTokens \cap {token}}

ClientsOfName(c, n) == {k \in c.clients : k.enabled /\ k.name = n}

ClientAllowsModel(k, m) == k.allowedModels = {} \/ m \in k.allowedModels

(***************************************************************************)
(* SELECT COUNT(1) FROM calls WHERE client_name = n AND ts >= since.       *)
(***************************************************************************)
RowsSince(n, since) ==
    UNION {{t} \X (1 .. calls[n][t]) : t \in {u \in Times : u >= since}}

CountClientCallsSince(n, since) == Cardinality(RowsSince(n, since))

Midnight(t) == (t \div DayLength) * DayLength

ActiveCount(n) == IF n \in DOMAIN activeClients THEN activeClients[n] ELSE 0

At(h, place) == pc[h] = place
Goto(h, place) == pc' = [pc EXCEPT ![h] = place]

(***************************************************************************)
(* The handler returns: what it had on its stack is gone.                  *)
(***************************************************************************)
Finish(h) == /\ Goto(h, "idle")
             /\ client' = [client EXCEPT ![h] = NoClient]
             /\ want' = [want EXCEPT ![h] = NoModel]
             /\ ts' = [ts EXCEPT ![h] = 0]
             /\ shown' = [shown EXCEPT ![h] = {}]

-----------------------------------------------------------------------------
(***************************************************************************)
(* The middleware.                                                         *)
(***************************************************************************)

(***************************************************************************)
(* A request that carries no usable token is answered 401 and leaves the   *)
(* handler idle: no state changes, so no action stands for it.             *)
(***************************************************************************)
Begin(h, token, m) ==
    /\ At(h, "idle")
    /\ requests < MaxRequests
    /\ \E k \in ClientsOfToken(config, token) :
          client' = [client EXCEPT ![h] = k]
    /\ want' = [want EXCEPT ![h] = m]
    /\ requests' = requests + 1
    /\ Goto(h, "daily")
    /\ UNCHANGED <<config, ts, shown, activeClients, calls, now, crashes, peak>>

(***************************************************************************)
(* No action uses a definition whose name begins with Mutant: each is a    *)
(* plausible slip in the one that follows it, kept to show which property  *)
(* would notice.                                                           *)
(***************************************************************************)
MutantDailyExceeded(k) ==
    /\ k.dailyLimit > 0
    /\ CountClientCallsSince(k.name, Midnight(now)) > k.dailyLimit

DailyExceeded(k) == /\ k.dailyLimit > 0
                    /\ CountClientCallsSince(k.name, Midnight(now)) >= k.dailyLimit

Past(n) == {g \in Handlers : pc[g] \in PastDaily /\ client[g].name = n}

(***************************************************************************)
(* enforceClientPolicy, daily_limit: one query, then a decision on its     *)
(* answer.  The query may fail (the client hung up, the database is down). *)
(***************************************************************************)
DailyRefused(h) ==
    /\ At(h, "daily")
    /\ client[h].dailyLimit > 0   \* a failed query, or too many calls
    /\ Finish(h)
    /\ UNCHANGED <<config, activeClients, calls, now, requests, crashes, peak>>

CheckDaily(h) ==
    LET n == client[h].name
        c == Cardinality(Past(n)) + 1 IN
    /\ At(h, "daily")
    /\ ~DailyExceeded(client[h])
    /\ Goto(h, "rpm")
    /\ peak' = [peak EXCEPT ![n] = IF @ < c THEN c ELSE @]
    /\ UNCHANGED <<config, local, activeClients, calls, now, requests, crashes>>

MutantRPMExceeded(k) ==
    /\ k.rpmLimit > 0
    /\ CountClientCallsSince(k.name, now) >= k.rpmLimit

RPMExceeded(k) == /\ k.rpmLimit > 0
                  /\ CountClientCallsSince(k.name, now - MinuteLength) >= k.rpmLimit

(***************************************************************************)
(* requestedModelForPolicy names no model for the listing and for a body   *)
(* without one; such a request is not held to the allow-list.              *)
(***************************************************************************)
ModelDenied(k, m) == m \in Models /\ ~ClientAllowsModel(k, m)

(***************************************************************************)
(* enforceClientPolicy, rpm_limit and allowed_models.  The allow-list is   *)
(* that of the record copied by Begin, and needs no shared state.          *)
(***************************************************************************)
RPMRefused(h) ==
    /\ At(h, "rpm")
    /\ \/ client[h].rpmLimit > 0             \* a failed query, or too many calls
       \/ /\ client[h].allowedModels # {}    \* an unreadable body, or a model denied
          /\ want[h] # Catalogue
    /\ Finish(h)
    /\ UNCHANGED <<config, activeClients, calls, now, requests, crashes, peak>>

CheckRPM(h) ==
    /\ At(h, "rpm")
    /\ ~RPMExceeded(client[h])
    /\ ~ModelDenied(client[h], want[h])
    /\ Goto(h, "acquire")
    /\ UNCHANGED <<config, local, activeClients, calls, now, requests, crashes, peak>>

MutantSlotsTaken(k) ==
    k.concurrentLimit > 0 /\ ActiveCount(k.name) > k.concurrentLimit

(***************************************************************************)
(* tryAcquireClient, under activeMu.                                       *)
(***************************************************************************)
SlotsTaken(k) == k.concurrentLimit > 0 /\ ActiveCount(k.name) >= k.concurrentLimit

MutantAcquireRefused(h) == FALSE

(***************************************************************************)
(* A full client is answered 429 and does not wait for a slot.             *)
(***************************************************************************)
AcquireRefused(h) ==
    /\ At(h, "acquire")
    /\ SlotsTaken(client[h])
    /\ Finish(h)
    /\ UNCHANGED <<config, activeClients, calls, now, requests, crashes, peak>>

MutantIncremented(k) ==
    IF k.concurrentLimit = 0 THEN activeClients
    ELSE [n \in DOMAIN activeClients \cup {k.name} |->
             IF n = k.name THEN 1 ELSE activeClients[n]]

Incremented(k) ==
    IF k.concurrentLimit = 0 THEN activeClients
    ELSE [n \in DOMAIN activeClients \cup {k.name} |->
             IF n = k.name THEN ActiveCount(n) + 1 ELSE activeClients[n]]

Acquire(h) ==
    /\ At(h, "acquire")
    /\ ~SlotsTaken(client[h])
    /\ activeClients' = Incremented(client[h])
    /\ Goto(h, "serve")
    /\ UNCHANGED <<config, local, calls, now, requests, crashes, peak>>

MutantDecremented(k) ==
    IF \A l \in ClientsOfName(config, k.name) : l.concurrentLimit = 0
    THEN activeClients
    ELSE [n \in DOMAIN activeClients \ {k.name} |-> activeClients[n]]

MutantDecrementedToZero(k) ==
    IF k.concurrentLimit = 0 THEN activeClients
    ELSE [activeClients EXCEPT ![k.name] = @ - 1]

(***************************************************************************)
(* The release closure, deferred: it runs on every path out of the handler,*)
(* a panic included.                                                       *)
(***************************************************************************)
Decremented(k) ==
    IF k.concurrentLimit = 0 THEN activeClients
    ELSE IF ActiveCount(k.name) - 1 <= 0
         THEN [n \in DOMAIN activeClients \ {k.name} |-> activeClients[n]]
         ELSE [activeClients EXCEPT ![k.name] = @ - 1]

Release(h) ==
    /\ At(h, "release")
    /\ activeClients' = Decremented(client[h])
    /\ Finish(h)
    /\ UNCHANGED <<config, calls, now, requests, crashes, peak>>

-----------------------------------------------------------------------------
(***************************************************************************)
(* The wrapped handler.                                                    *)
(***************************************************************************)

MutantListing(n) == config.models

(***************************************************************************)
(* ServeModels takes a second snapshot and looks the client up again, by   *)
(* name; when no enabled client has that name the listing is not filtered. *)
(***************************************************************************)
Listing(n) == {m \in config.models :
                  \A k \in ClientsOfName(config, n) : ClientAllowsModel(k, m)}

ListModels(h) ==
    /\ At(h, "serve")
    /\ want[h] = Catalogue
    /\ shown' = [shown EXCEPT ![h] = Listing(client[h].name)]
    /\ Goto(h, "release")
    /\ UNCHANGED <<config, client, want, ts, activeClients, calls, now,
                   requests, crashes, peak>>

(***************************************************************************)
(* The handler may answer with an error before there is a call record: a   *)
(* wrong method, a body it cannot read or translate, a model nobody        *)
(* serves, an endpoint the provider does not offer.                        *)
(***************************************************************************)
RouteRefused(h) ==
    /\ At(h, "serve")
    /\ want[h] # Catalogue
    /\ Goto(h, "release")
    /\ UNCHANGED <<config, local, activeClients, calls, now, requests, crashes, peak>>

(***************************************************************************)
(* ProviderForModel on the live configuration, and the call record.        *)
(***************************************************************************)
Route(h) ==
    /\ At(h, "serve")
    /\ want[h] \in config.models \cup config.prefixed
    /\ ts' = [ts EXCEPT ![h] = now]
    /\ Goto(h, "upstream")
    /\ UNCHANGED <<config, client, want, shown, activeClients, calls, now,
                   requests, crashes, peak>>

(***************************************************************************)
(* The upstream has answered, failed, timed out or made the handler panic, *)
(* and the caller has read the answer or gone away: each one runs the      *)
(* deferred LogCall.                                                       *)
(***************************************************************************)
UpstreamEnds(h) ==
    /\ At(h, "upstream")
    /\ Goto(h, "log")
    /\ UNCHANGED <<config, local, activeClients, calls, now, requests, crashes, peak>>

(***************************************************************************)
(* The row carries the time the request was routed, not the time it is     *)
(* written.                                                                *)
(***************************************************************************)
Logged(n, t) == [calls EXCEPT ![n][t] = @ + 1]

LogCall(h) ==
    /\ At(h, "log")
    /\ calls' = Logged(client[h].name, ts[h])
    /\ Goto(h, "release")
    /\ UNCHANGED <<config, local, activeClients, now, requests, crashes, peak>>

(***************************************************************************)
(* The error of LogCall is ignored: the store timed out or is closed.      *)
(***************************************************************************)
LogCallFails(h) ==
    /\ At(h, "log")
    /\ Goto(h, "release")
    /\ UNCHANGED <<config, local, activeClients, calls, now, requests, crashes, peak>>

-----------------------------------------------------------------------------
(***************************************************************************)
(* Everything else.                                                        *)
(***************************************************************************)

(***************************************************************************)
(* An administrator installs another configuration (PUT /api/clients,      *)
(* /api/access-tokens, /api/providers, or a reload of the file).           *)
(***************************************************************************)
Install(c) ==
    /\ config' = c
    /\ UNCHANGED <<pc, local, activeClients, calls, now, requests, crashes, peak>>

(***************************************************************************)
(* The retention job: DELETE FROM calls WHERE ts < now - days.             *)
(***************************************************************************)
Expired(t) == RetentionDays > 0 /\ t < now - RetentionDays * DayLength

ApplyRetention ==
    /\ calls' = [n \in Names |-> [t \in Times |-> IF Expired(t) THEN 0 ELSE calls[n][t]]]
    /\ UNCHANGED <<config, pc, local, activeClients, now, requests, crashes, peak>>

Tick ==
    /\ now < MaxTime
    /\ now' = now + 1
    /\ UNCHANGED <<config, pc, local, activeClients, calls, requests, crashes, peak>>

(***************************************************************************)
(* The process is killed, or ends with requests in flight, and is started  *)
(* again: the call log is on disk, the counters and the requests are not.  *)
(* What it reads from its file is another Install.                         *)
(***************************************************************************)
Crash ==
    /\ crashes < MaxCrashes
    /\ crashes' = crashes + 1
    /\ pc' = [h \in Handlers |-> "idle"]
    /\ client' = [h \in Handlers |-> NoClient]
    /\ want' = [h \in Handlers |-> NoModel]
    /\ ts' = [h \in Handlers |-> 0]
    /\ shown' = [h \in Handlers |-> {}]
    /\ activeClients' = NoneActive
    /\ UNCHANGED <<config, calls, now, requests, peak>>

Init ==
    /\ config = InitialConfig
    /\ pc = [h \in Handlers |-> "idle"]
    /\ client = [h \in Handlers |-> NoClient]
    /\ want = [h \in Handlers |-> NoModel]
    /\ ts = [h \in Handlers |-> 0]
    /\ shown = [h \in Handlers |-> {}]
    /\ activeClients = NoneActive
    /\ calls = NoCalls
    /\ now = 0
    /\ requests = 0
    /\ crashes = 0
    /\ peak = [n \in Names |-> 0]

Arrive(h) == \E token \in Tokens, m \in Models \cup {NoModel, Catalogue} :
                Begin(h, token, m)

Proceed(h) == \/ DailyRefused(h) \/ CheckDaily(h)
              \/ RPMRefused(h) \/ CheckRPM(h)
              \/ AcquireRefused(h) \/ Acquire(h)
              \/ ListModels(h) \/ RouteRefused(h) \/ Route(h)
              \/ UpstreamEnds(h)
              \/ LogCall(h) \/ LogCallFails(h)
              \/ Release(h)

Next == \/ \E h \in Handlers : Arrive(h) \/ Proceed(h)
        \/ \E c \in Configs : Install(c)
        \/ ApplyRetention
        \/ Tick
        \/ Crash

Spec == Init /\ [][Next]_vars

(***************************************************************************)
(* Places where the handler may wait for its client, without a deadline:   *)
(* the server limits the time of a request's headers only.  The body is    *)
(* read by the allow-list or by the wrapped handler, and the answer is     *)
(* written while the upstream sends it.  The wait for the upstream itself  *)
(* has a deadline, the provider's timeout.                                 *)
(***************************************************************************)
WaitsForClient(h) ==
    \/ At(h, "rpm") /\ client[h].allowedModels # {} /\ want[h] # Catalogue
    \/ At(h, "serve")
    \/ At(h, "upstream")

(***************************************************************************)
(* A handler that can run without its client does run: goroutines are      *)
(* scheduled and database calls return.                                    *)
(***************************************************************************)
Fairness == \A h \in Handlers : WF_vars(~WaitsForClient(h) /\ Proceed(h))

(***************************************************************************)
(* The client of h goes on sending and reading, or hangs up.  Nothing      *)
(* makes it do so, and it is not a part of the specification.              *)
(***************************************************************************)
ClientGoesOn(h) == WF_vars(WaitsForClient(h) /\ Proceed(h))

FairSpec == Spec /\ Fairness

-----------------------------------------------------------------------------
(***************************************************************************)
(* Properties.                                                             *)
(***************************************************************************)

TypeOK ==
    /\ config \in Configs
    /\ pc \in [Handlers -> Places]
    /\ client \in [Handlers -> Client \cup {NoClient}]
    /\ \A h \in Handlers : pc[h] # "idle" => client[h] \in Client
    /\ want \in [Handlers -> Models \cup {NoModel, Catalogue}]
    /\ ts \in [Handlers -> Times]
    /\ shown \in [Handlers -> SUBSET Models]
    /\ DOMAIN activeClients \subseteq Names
    /\ activeClients \in [DOMAIN activeClients -> Nat \ {0}]
    /\ calls \in [Names -> [Times -> Nat]]
    /\ now \in Times
    /\ requests \in Nat
    /\ crashes \in Nat
    /\ peak \in [Names -> Nat]

(***************************************************************************)
(* The slots in use, read off the handlers and not off the counters.       *)
(***************************************************************************)
HasSlot(h) == pc[h] \in Serving /\ client[h].concurrentLimit > 0

SlotOf(h) == [user |-> h, name |-> client[h].name,
              limit |-> client[h].concurrentLimit]

HeldSlots == {SlotOf(h) : h \in {g \in Handlers : HasSlot(g)}}

(***************************************************************************)
(* The counter of a client is the number of its requests that hold a slot, *)
(* and a client with none has no entry: no path through the handler, no    *)
(* edit of the limits while requests are in flight and no restart leaks a  *)
(* slot or frees one twice.                                                *)
(***************************************************************************)
SlotAccounting ==
    \A n \in Names :
       /\ ActiveCount(n) = Cardinality({s \in HeldSlots : s.name = n})
       /\ n \in DOMAIN activeClients <=> ActiveCount(n) > 0

Limits == {k.concurrentLimit : k \in UNION {c.clients : c \in Configs}} \ {0}

(***************************************************************************)
(* concurrent_limit: among the requests being served for a name, at most k *)
(* were let in under a limit of k or less, whatever the limit was changed  *)
(* to and from meanwhile.                                                  *)
(***************************************************************************)
ConcurrentLimitHolds ==
    \A n \in Names, k \in Limits :
       Cardinality({s \in HeldSlots : s.name = n /\ s.limit <= k}) <= k

(***************************************************************************)
(* The gate implements a pool of slots.                                    *)
(***************************************************************************)
Pool == INSTANCE SlotPool WITH Users <- Handlers, held <- HeldSlots

ImplementsPool == Pool!Spec

(***************************************************************************)
(* The dashboard clients of name n have limit d, of this kind, in every    *)
(* configuration.  The name of legacy tokens is left out: their requests   *)
(* are counted under it and never refused.                                 *)
(***************************************************************************)
FixedLimit(n, kind, d) ==
    /\ n # LegacyName /\ d > 0
    /\ \A c \in Configs : \A k \in c.clients : k.name = n => k[kind] = d

LimitedClients(kind) ==
    {k \in UNION {c.clients : c \in Configs} : FixedLimit(k.name, kind, k[kind])}

(***************************************************************************)
(* daily_limit: the rows that count towards today, with the requests past  *)
(* the check that may still add one, exceed the limit by no more than the  *)
(* concurrency of the client: its peak number of requests past the check   *)
(* at one time, less one.  A client that sends one request at a time keeps *)
(* to its limit exactly, restarts and the retention job notwithstanding.   *)
(***************************************************************************)
DailyOvershootBounded ==
    \A k \in LimitedClients("dailyLimit") :
       CountClientCallsSince(k.name, Midnight(now)) + Cardinality(Past(k.name))
         <= k.dailyLimit - 1 + IF peak[k.name] = 0 THEN 1 ELSE peak[k.name]

PastRPMOf(n) == {h \in Past(n) : pc[h] \in PastRPM}

(***************************************************************************)
(* rpm_limit: the same bound over the minute that ends now.                *)
(***************************************************************************)
RPMOvershootBounded ==
    \A k \in LimitedClients("rpmLimit") :
       CountClientCallsSince(k.name, now - MinuteLength) + Cardinality(PastRPMOf(k.name))
         <= k.rpmLimit - 1 + IF peak[k.name] = 0 THEN 1 ELSE peak[k.name]

(***************************************************************************)
(* A client that keeps its name, its allow-list and its right to call in   *)
(* every configuration.                                                    *)
(***************************************************************************)
Settled(k) == \A c \in Configs : \E l \in ClientsOfName(c, k.name) :
                 l.allowedModels = k.allowedModels

(***************************************************************************)
(* GET /v1/models shows a settled client no model outside its allow-list,  *)
(* although the list is looked up a second time, by name, in a newer       *)
(* configuration than the one that let the request in.                     *)
(***************************************************************************)
ListingFiltered ==
    \A h \in Handlers :
       shown[h] # {} /\ Settled(client[h]) =>
          \A m \in shown[h] : ClientAllowsModel(client[h], m)

(***************************************************************************)
(* A request whose own client goes on sending and reading is answered, and *)
(* its handler is free again, also while other clients stall in the middle *)
(* of their requests and hold their slots for ever.                        *)
(***************************************************************************)
EveryRequestReturns ==
    \A h \in Handlers : ClientGoesOn(h) => (pc[h] # "idle" ~> pc[h] = "idle")
=============================================================================
