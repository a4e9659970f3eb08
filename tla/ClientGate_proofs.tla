-------------------------- MODULE ClientGate_proofs --------------------------
(***************************************************************************)
(* Theorems about ClientGate, for every set of handlers, names, tokens,    *)
(* models and configurations.                                              *)
(***************************************************************************)
EXTENDS ClientGate, FiniteSetTheorems, TLAPS


(***************************************************************************)
(* A client attached by Begin is a well-formed record: a client of a       *)
(* configuration or the synthetic legacy client.                           *)
(***************************************************************************)
LEMMA ClientsOfTokenType ==
    ASSUME NEW c \in Config, NEW token \in Tokens
    PROVE  ClientsOfToken(c, token) \subseteq Client
<1>1. LegacyClient(token) \in Client
  BY NamesAssumption DEF LegacyClient, Client
<1>2. c.clients \subseteq Client
  BY DEF Config
<1> QED
  BY <1>1, <1>2 DEF ClientsOfToken

(***************************************************************************)
(* Initially every variable has its type.                                  *)
(***************************************************************************)
LEMMA InitTypeOK == Init => TypeOK
<1> SUFFICES ASSUME Init PROVE TypeOK
  OBVIOUS
<1> USE DEF Init
<1>1. config \in Configs
  BY ConfigsAssumption
<1>2. 0 \in Times
  BY TimeAssumption DEF Times
<1>3. /\ DOMAIN activeClients \subseteq Names
      /\ activeClients \in [DOMAIN activeClients -> Nat \ {0}]
  BY DEF NoneActive
<1>4. calls \in [Names -> [Times -> Nat]]
  BY DEF NoCalls
<1> QED
  BY <1>1, <1>2, <1>3, <1>4 DEF TypeOK, Places

(***************************************************************************)
(* Returning leaves the handler's variables well-typed.                    *)
(***************************************************************************)
LEMMA FinishType ==
    ASSUME TypeOK, NEW h \in Handlers, Finish(h)
    PROVE  /\ pc' \in [Handlers -> Places]
           /\ client' \in [Handlers -> Client \cup {NoClient}]
           /\ \A g \in Handlers : pc'[g] # "idle" => client'[g] \in Client
           /\ want' \in [Handlers -> Models \cup {NoModel, Catalogue}]
           /\ ts' \in [Handlers -> Times]
           /\ shown' \in [Handlers -> SUBSET Models]
  BY TimeAssumption DEF TypeOK, Finish, Goto, Places, Times

(***************************************************************************)
(* Counting one slot more, or one less, keeps the counters positive.       *)
(***************************************************************************)
LEMMA CounterType ==
    ASSUME TypeOK, NEW k \in Client
    PROVE  /\ DOMAIN Incremented(k) \subseteq Names
           /\ Incremented(k) \in [DOMAIN Incremented(k) -> Nat \ {0}]
           /\ DOMAIN Decremented(k) \subseteq Names
           /\ Decremented(k) \in [DOMAIN Decremented(k) -> Nat \ {0}]
<1> k.name \in Names
  BY DEF Client
<1>1. \A n \in DOMAIN activeClients : activeClients[n] \in Nat \ {0}
  BY DEF TypeOK
<1>2. ActiveCount(k.name) \in Nat
  BY <1>1 DEF ActiveCount
<1>3. DOMAIN Incremented(k) \subseteq Names /\ Incremented(k) \in [DOMAIN Incremented(k) -> Nat \ {0}]
  <2>1. CASE k.concurrentLimit = 0
    BY <2>1 DEF TypeOK, Incremented
  <2>2. CASE k.concurrentLimit # 0
    BY <2>2, <1>1, <1>2 DEF TypeOK, Incremented
  <2> QED
    BY <2>1, <2>2
<1>4. DOMAIN Decremented(k) \subseteq Names /\ Decremented(k) \in [DOMAIN Decremented(k) -> Nat \ {0}]
  <2>1. CASE k.concurrentLimit = 0
    BY <2>1 DEF TypeOK, Decremented
  <2>2. CASE k.concurrentLimit # 0 /\ ActiveCount(k.name) - 1 <= 0
    BY <2>2, <1>1 DEF TypeOK, Decremented
  <2>3. CASE k.concurrentLimit # 0 /\ ~(ActiveCount(k.name) - 1 <= 0)
    <3>1. k.name \in DOMAIN activeClients /\ activeClients[k.name] - 1 \in Nat \ {0}
      BY <2>3, <1>1, <1>2 DEF ActiveCount
    <3> QED
      BY <2>3, <3>1 DEF TypeOK, Decremented
  <2> QED
    BY <2>1, <2>2, <2>3
<1> QED
  BY <1>3, <1>4

(***************************************************************************)
(* Every step keeps every variable in its type.                            *)
(***************************************************************************)
LEMMA NextTypeOK == TypeOK /\ [Next]_vars => TypeOK'
<1> SUFFICES ASSUME TypeOK, [Next]_vars PROVE TypeOK'
  OBVIOUS
<1> USE DEF TypeOK
<1>t. /\ \A g \in Handlers : client[g] \in Client \cup {NoClient}
      /\ NoClient \notin Client
      /\ 0 \in Times
  BY MarkersAssumption, TimeAssumption DEF Times
<1>1. ASSUME NEW h \in Handlers, Arrive(h) PROVE TypeOK'
  <2>1. PICK token \in Tokens, m \in Models \cup {NoModel, Catalogue} : Begin(h, token, m)
    BY <1>1 DEF Arrive
  <2>2. PICK k \in ClientsOfToken(config, token) : client' = [client EXCEPT ![h] = k]
    BY <2>1 DEF Begin
  <2>3. k \in Client
    BY ConfigsAssumption, ClientsOfTokenType
  <2> QED
    BY <2>1, <2>2, <2>3 DEF Begin, Goto, Places
<1>2. ASSUME NEW h \in Handlers, Proceed(h) PROVE TypeOK'
  <2>1. CASE DailyRefused(h)
    BY <2>1, FinishType DEF DailyRefused
  <2>2. CASE CheckDaily(h)
    <3>1. client[h] \in Client
      BY <2>2 DEF CheckDaily, At
    <3>2. Cardinality(Past(client[h].name)) \in Nat
      BY HandlersAssumption, FS_Subset, FS_CardinalityType DEF Past
    <3>3. peak' \in [Names -> Nat]
      BY <2>2, <3>1, <3>2 DEF CheckDaily, Client
    <3> QED
      BY <2>2, <3>1, <3>3 DEF CheckDaily, Goto, Places, local
  <2>3. CASE RPMRefused(h)
    BY <2>3, FinishType DEF RPMRefused
  <2>4. CASE CheckRPM(h)
    BY <2>4 DEF CheckRPM, At, Goto, Places, local
  <2>5. CASE AcquireRefused(h)
    BY <2>5, FinishType DEF AcquireRefused
  <2>6. CASE Acquire(h)
    <3>1. client[h] \in Client
      BY <2>6 DEF Acquire, At
    <3> QED
      BY <2>6, <3>1, CounterType DEF Acquire, Goto, Places, local
  <2>7. CASE ListModels(h)
    <3>1. Listing(client[h].name) \subseteq Models
      BY ConfigsAssumption DEF Listing, Config
    <3> QED
      BY <2>7, <3>1 DEF ListModels, At, Goto, Places
  <2>8. CASE RouteRefused(h)
    BY <2>8 DEF RouteRefused, At, Goto, Places, local
  <2>9. CASE Route(h)
    BY <2>9 DEF Route, At, Goto, Places
  <2>10. CASE UpstreamEnds(h)
    BY <2>10 DEF UpstreamEnds, At, Goto, Places, local
  <2>11. CASE LogCall(h)
    <3>1. client[h].name \in Names /\ ts[h] \in Times
      BY <2>11 DEF LogCall, At, Client
    <3>2. calls' \in [Names -> [Times -> Nat]]
      BY <2>11, <3>1 DEF LogCall, Logged
    <3> QED
      BY <2>11, <3>2 DEF LogCall, At, Goto, Places, local
  <2>12. CASE LogCallFails(h)
    BY <2>12 DEF LogCallFails, At, Goto, Places, local
  <2>13. CASE Release(h)
    <3>1. client[h] \in Client
      BY <2>13 DEF Release, At
    <3> QED
      BY <2>13, <3>1, FinishType, CounterType DEF Release
  <2> QED
    BY <1>2, <2>1, <2>2, <2>3, <2>4, <2>5, <2>6, <2>7, <2>8, <2>9, <2>10, <2>11,
       <2>12, <2>13 DEF Proceed
<1>3. ASSUME NEW c \in Configs, Install(c) PROVE TypeOK'
  BY <1>3 DEF Install, local
<1>4. CASE ApplyRetention
  <2>1. calls' \in [Names -> [Times -> Nat]]
    BY <1>4 DEF ApplyRetention
  <2> QED
    BY <1>4, <2>1 DEF ApplyRetention, local
<1>5. CASE Tick
  BY <1>5, TimeAssumption DEF Tick, Times, local
<1>6. CASE Crash
  BY <1>6, <1>t DEF Crash, NoneActive, Places
<1>7. CASE UNCHANGED vars
  BY <1>7 DEF vars, local
<1> QED
  BY <1>1, <1>2, <1>3, <1>4, <1>5, <1>6, <1>7 DEF Next

(***************************************************************************)
(* The gate's variables keep their types: counters stay positive, and every*)
(* busy handler has a well-formed client record.                           *)
(***************************************************************************)
THEOREM TypeCorrect == Spec => []TypeOK
BY InitTypeOK, NextTypeOK, PTL DEF Spec

-----------------------------------------------------------------------------
(***************************************************************************)
(* What a step does to the slots in use and to the counters.               *)
(***************************************************************************)
Keeps == HeldSlots' = HeldSlots /\ activeClients' = activeClients

Takes(h) == /\ client[h] \in Client /\ client[h].concurrentLimit > 0
            /\ pc[h] = "acquire" /\ ~HasSlot(h)
            /\ ~SlotsTaken(client[h])
            /\ HeldSlots' = HeldSlots \cup {SlotOf(h)}
            /\ activeClients' = Incremented(client[h])

Gives(h) == /\ client[h] \in Client /\ client[h].concurrentLimit > 0
            /\ HasSlot(h)
            /\ HeldSlots' = HeldSlots \ {SlotOf(h)}
            /\ activeClients' = Decremented(client[h])

Drops == HeldSlots' = {} /\ activeClients' = NoneActive

(***************************************************************************)
(* A step after which every handler has the slot it had before, if any,    *)
(* leaves the slots alone.                                                 *)
(***************************************************************************)
LEMMA SameSlots ==
    ASSUME \A h \in Handlers : HasSlot(h)' <=> HasSlot(h),
           \A h \in Handlers : HasSlot(h) => SlotOf(h)' = SlotOf(h)
    PROVE  HeldSlots' = HeldSlots
  BY DEF HeldSlots

(***************************************************************************)
(* A handler that moves without entering or leaving the served part, and   *)
(* keeps its client if it is in it, leaves the slots alone.                *)
(***************************************************************************)
LEMMA MoveKeepsSlots ==
    ASSUME TypeOK, NEW h \in Handlers, NEW place \in Places,
           pc' = [pc EXCEPT ![h] = place],
           NEW k, client' = [client EXCEPT ![h] = k],
           pc[h] \in Serving => place \in Serving /\ k = client[h],
           pc[h] \notin Serving => place \notin Serving
    PROVE  HeldSlots' = HeldSlots
<1>1. ASSUME NEW g \in Handlers
      PROVE  (HasSlot(g)' <=> HasSlot(g)) /\ (HasSlot(g) => SlotOf(g)' = SlotOf(g))
  BY DEF TypeOK, HasSlot, SlotOf
<1> QED
  BY <1>1, SameSlots

(***************************************************************************)
(* Every step takes one slot, gives one back, drops them all, or leaves    *)
(* them and the counters as they are.                                      *)
(***************************************************************************)
LEMMA SlotStep ==
    ASSUME TypeOK, [Next]_vars
    PROVE  Keeps \/ (\E h \in Handlers : Takes(h) \/ Gives(h)) \/ Drops
<1>1. ASSUME NEW h \in Handlers, Arrive(h) PROVE Keeps
  <2>1. PICK token \in Tokens, m \in Models \cup {NoModel, Catalogue} : Begin(h, token, m)
    BY <1>1 DEF Arrive
  <2>2. PICK k \in ClientsOfToken(config, token) : client' = [client EXCEPT ![h] = k]
    BY <2>1 DEF Begin
  <2>3. HeldSlots' = HeldSlots
    BY <2>1, <2>2, MoveKeepsSlots DEF Begin, At, Goto, Places, Serving
  <2> QED
    BY <2>1, <2>3 DEF Keeps, Begin
<1>2. ASSUME NEW h \in Handlers, Proceed(h)
      PROVE  Keeps \/ Takes(h) \/ Gives(h)
  <2> DEFINE Stays(place) == /\ pc' = [pc EXCEPT ![h] = place]
                             /\ client' = client
                             /\ activeClients' = activeClients
  <2>a. client' = client => client' = [client EXCEPT ![h] = client[h]]
    BY DEF TypeOK
  <2>b. ASSUME pc[h] \in {"daily", "rpm", "acquire"}, Finish(h),
               activeClients' = activeClients
        PROVE  Keeps
    BY <2>b, MoveKeepsSlots DEF Keeps, Finish, Goto, Places, Serving
  <2>c. ASSUME NEW place \in Places, Stays(place), pc[h] \in Serving <=> place \in Serving
        PROVE  Keeps
    BY <2>c, <2>a, MoveKeepsSlots DEF Keeps
  <2>1. CASE DailyRefused(h) \/ RPMRefused(h) \/ AcquireRefused(h)
    BY <2>1, <2>b DEF DailyRefused, RPMRefused, AcquireRefused, At
  <2>2. CASE CheckDaily(h)
    <3>1. Stays("rpm")
      BY <2>2 DEF CheckDaily, Goto, local
    <3> QED
      BY <2>2, <3>1, <2>c DEF CheckDaily, At, Places, Serving
  <2>3. CASE CheckRPM(h)
    <3>1. Stays("acquire")
      BY <2>3 DEF CheckRPM, Goto, local
    <3> QED
      BY <2>3, <3>1, <2>c DEF CheckRPM, At, Places, Serving
  <2>4. CASE ListModels(h) \/ RouteRefused(h) \/ Route(h) \/ UpstreamEnds(h)
             \/ LogCall(h) \/ LogCallFails(h)
    <3>1. pc[h] \in Serving
      BY <2>4 DEF ListModels, RouteRefused, Route, UpstreamEnds, LogCall, LogCallFails,
                  At, Serving
    <3>2. \E place \in Serving : Stays(place)
      BY <2>4 DEF ListModels, RouteRefused, Route, UpstreamEnds, LogCall, LogCallFails,
                  Goto, local, Serving
    <3> QED
      BY <3>1, <3>2, <2>c DEF Places, Serving
  <2>5. CASE Acquire(h)
    <3>1. /\ client[h] \in Client
          /\ pc[h] = "acquire"
          /\ pc' = [pc EXCEPT ![h] = "serve"]
          /\ client' = client
          /\ activeClients' = Incremented(client[h])
          /\ ~SlotsTaken(client[h])
      BY <2>5 DEF Acquire, At, Goto, local, TypeOK
    <3>2. client[h].concurrentLimit \in Nat
      BY <3>1 DEF Client
    <3>3. \A g \in Handlers \ {h} : (HasSlot(g)' <=> HasSlot(g)) /\ SlotOf(g)' = SlotOf(g)
      BY <3>1 DEF HasSlot, SlotOf, TypeOK
    <3>4. ~HasSlot(h) /\ SlotOf(h)' = SlotOf(h)
      BY <3>1 DEF HasSlot, SlotOf, Serving
    <3>5. HasSlot(h)' <=> client[h].concurrentLimit > 0
      BY <3>1 DEF HasSlot, Serving, TypeOK
    <3>6. CASE client[h].concurrentLimit = 0
      <4>1. HeldSlots' = HeldSlots
        BY <3>3, <3>4, <3>5, <3>6, SameSlots
      <4> QED
        BY <3>1, <3>6, <4>1 DEF Keeps, Incremented
    <3>7. CASE client[h].concurrentLimit > 0
      <4>1. HeldSlots' = HeldSlots \cup {SlotOf(h)}
        BY <3>3, <3>4, <3>5, <3>7 DEF HeldSlots
      <4> QED
        BY <3>1, <3>4, <3>7, <4>1 DEF Takes
    <3> QED
      BY <3>2, <3>6, <3>7
  <2>6. CASE Release(h)
    <3>1. /\ client[h] \in Client
          /\ pc[h] = "release"
          /\ pc' = [pc EXCEPT ![h] = "idle"]
          /\ client' = [client EXCEPT ![h] = NoClient]
          /\ activeClients' = Decremented(client[h])
      BY <2>6 DEF Release, Finish, At, Goto, TypeOK
    <3>2. client[h].concurrentLimit \in Nat
      BY <3>1 DEF Client
    <3>3. \A g \in Handlers \ {h} : (HasSlot(g)' <=> HasSlot(g)) /\ SlotOf(g)' = SlotOf(g)
      BY <3>1 DEF HasSlot, SlotOf, TypeOK
    <3>4. ~HasSlot(h)'
      BY <3>1 DEF HasSlot, Serving, TypeOK
    <3>5. HasSlot(h) <=> client[h].concurrentLimit > 0
      BY <3>1 DEF HasSlot, Serving
    <3>6. CASE client[h].concurrentLimit = 0
      <4>1. HeldSlots' = HeldSlots
        <5>1. \A g \in Handlers : HasSlot(g)' <=> HasSlot(g)
          BY <3>3, <3>4, <3>5, <3>6
        <5>2. \A g \in Handlers : HasSlot(g) => SlotOf(g)' = SlotOf(g)
          BY <3>3, <3>5, <3>6
        <5> QED
          BY <5>1, <5>2, SameSlots
      <4> QED
        BY <3>1, <3>6, <4>1 DEF Keeps, Decremented
    <3>7. CASE client[h].concurrentLimit > 0
      <4>1. \A g \in Handlers \ {h} : SlotOf(g) # SlotOf(h)
        BY DEF SlotOf
      <4>2. HeldSlots' = HeldSlots \ {SlotOf(h)}
        BY <3>3, <3>4, <4>1 DEF HeldSlots
      <4> QED
        BY <3>1, <3>5, <3>7, <4>2 DEF Gives
    <3> QED
      BY <3>2, <3>6, <3>7
  <2> QED
    BY <1>2, <2>1, <2>2, <2>3, <2>4, <2>5, <2>6 DEF Proceed
<1>3. ASSUME pc' = pc, client' = client PROVE HeldSlots' = HeldSlots
  BY <1>3 DEF HeldSlots, HasSlot, SlotOf
<1>4. ASSUME NEW c \in Configs, Install(c) PROVE Keeps
  BY <1>3, <1>4 DEF Install, Keeps, local
<1>5. CASE ApplyRetention \/ Tick
  BY <1>3, <1>5 DEF ApplyRetention, Tick, Keeps, local
<1>6. CASE Crash
  <2>1. \A h \in Handlers : ~HasSlot(h)'
    BY <1>6 DEF Crash, HasSlot, Serving
  <2> QED
    BY <1>6, <2>1 DEF Crash, Drops, HeldSlots
<1>7. CASE UNCHANGED vars
  BY <1>3, <1>7 DEF vars, local, Keeps
<1> QED
  BY <1>1, <1>2, <1>4, <1>5, <1>6, <1>7 DEF Next

-----------------------------------------------------------------------------
(***************************************************************************)
(* The inductive invariant.  Beside the properties it says that the slots  *)
(* in use are finitely many, and that the limit of every client a handler  *)
(* carries was configured: the synthetic legacy client has none.           *)
(***************************************************************************)
LimitConfigured ==
    \A h \in Handlers : pc[h] # "idle" => client[h].concurrentLimit \in Limits \cup {0}

Inv == /\ TypeOK
       /\ LimitConfigured
       /\ IsFiniteSet(HeldSlots)
       /\ SlotAccounting
       /\ ConcurrentLimitHolds

Under(n) == {s \in HeldSlots : s.name = n}
Within(n, k) == {s \in HeldSlots : s.name = n /\ s.limit <= k}

(***************************************************************************)
(* The slot of a handler belongs to it alone.                              *)
(***************************************************************************)
LEMMA SlotUser ==
    /\ \A s \in HeldSlots : \E h \in Handlers : HasSlot(h) /\ s = SlotOf(h)
    /\ \A h \in Handlers : /\ SlotOf(h).user = h
                           /\ SlotOf(h).name = client[h].name
                           /\ SlotOf(h).limit = client[h].concurrentLimit
    /\ \A h \in Handlers : HasSlot(h) <=> SlotOf(h) \in HeldSlots
  BY DEF HeldSlots, SlotOf, HasSlot

(***************************************************************************)
(* A client is attached with a limit some configuration gives it, or none. *)
(***************************************************************************)
LEMMA LimitConfiguredStep ==
    ASSUME TypeOK, LimitConfigured, [Next]_vars
    PROVE  LimitConfigured'
<1> USE DEF TypeOK, LimitConfigured
<1>1. ASSUME NEW h \in Handlers, Arrive(h) PROVE LimitConfigured'
  <2>1. PICK token \in Tokens, m \in Models \cup {NoModel, Catalogue} : Begin(h, token, m)
    BY <1>1 DEF Arrive
  <2>2. PICK k \in ClientsOfToken(config, token) : client' = [client EXCEPT ![h] = k]
    BY <2>1 DEF Begin
  <2>3. k.concurrentLimit \in Limits \cup {0}
    BY DEF ClientsOfToken, LegacyClient, Limits
  <2> QED
    BY <2>1, <2>2, <2>3 DEF Begin, Goto, Limits
<1>2. ASSUME NEW h \in Handlers, Proceed(h) PROVE LimitConfigured'
  <2>1. CASE Finish(h)
    BY <2>1 DEF Finish, Goto, Limits
  <2>2. CASE client' = client /\ pc[h] # "idle" /\ \E place \in Places : Goto(h, place)
    BY <2>2 DEF Goto, Limits
  <2>3. Finish(h) \/ (client' = client /\ pc[h] # "idle" /\ \E place \in Places : Goto(h, place))
    BY <1>2 DEF Proceed, DailyRefused, CheckDaily, RPMRefused, CheckRPM, AcquireRefused,
                Acquire, ListModels, RouteRefused, Route, UpstreamEnds, LogCall,
                LogCallFails, Release, At, local, Places
  <2> QED
    BY <2>1, <2>2, <2>3
<1>3. ASSUME pc' = pc, client' = client PROVE LimitConfigured'
  BY <1>3 DEF Limits
<1>4. CASE Crash
  BY <1>4 DEF Crash
<1>5. ASSUME NEW c \in Configs, Install(c) PROVE LimitConfigured'
  BY <1>3, <1>5 DEF Install, local
<1>6. CASE ApplyRetention \/ Tick \/ UNCHANGED vars
  BY <1>3, <1>6 DEF ApplyRetention, Tick, vars, local
<1> QED
  BY <1>1, <1>2, <1>4, <1>5, <1>6 DEF Next

(***************************************************************************)
(* A step that takes a slot counts it once, under a limit that still has   *)
(* room for it.                                                            *)
(***************************************************************************)
LEMMA TakeStep ==
    ASSUME Inv, NEW h \in Handlers, Takes(h)
    PROVE  IsFiniteSet(HeldSlots)' /\ SlotAccounting' /\ ConcurrentLimitHolds'
<1> DEFINE s == SlotOf(h)
           k == client[h]
<1>0. PICK kn \in Names : kn = client[h].name
  BY DEF Takes, Client
<1>1. /\ k \in Client /\ kn \in Names /\ k.concurrentLimit \in Nat \ {0}
      /\ s \notin HeldSlots /\ s.name = kn /\ s.limit = k.concurrentLimit
      /\ HeldSlots' = HeldSlots \cup {s}
  BY <1>0, SlotUser DEF Takes, Client
<1>2. IsFiniteSet(HeldSlots)'
  BY <1>1, FS_AddElement DEF Inv
<1>3. \A n \in Names : IsFiniteSet(Under(n)) /\ Cardinality(Under(n)) \in Nat
  BY FS_Subset, FS_CardinalityType DEF Inv, Under
<1>4. \A n \in Names : ActiveCount(n) = Cardinality(Under(n)) /\ (n \in DOMAIN activeClients <=> ActiveCount(n) > 0)
  BY DEF Inv, SlotAccounting, Under
<1>5. Under(kn)' = Under(kn) \cup {s}
  BY <1>1 DEF Under
<1>6. \A n \in Names \ {kn} : Under(n)' = Under(n)
  BY <1>1 DEF Under
<1>7. Cardinality(Under(kn)') = Cardinality(Under(kn)) + 1
  BY <1>1, <1>3, <1>5, FS_AddElement DEF Under
<1>8. activeClients' = [n \in DOMAIN activeClients \cup {kn} |->
                           IF n = kn THEN ActiveCount(n) + 1 ELSE activeClients[n]]
  BY <1>0, <1>1 DEF Takes, Incremented
<1>9. SlotAccounting'
  <2> SUFFICES ASSUME NEW n \in Names
               PROVE  /\ ActiveCount(n)' = Cardinality(Under(n)')
                      /\ n \in DOMAIN activeClients' <=> ActiveCount(n)' > 0
    BY DEF SlotAccounting, Under
  <2>1. CASE n = kn
    <3>1. ActiveCount(n)' = ActiveCount(n) + 1 /\ n \in DOMAIN activeClients'
      BY <1>8, <2>1 DEF ActiveCount
    <3> QED
      BY <3>1, <1>3, <1>4, <1>7, <2>1
  <2>2. CASE n # kn
    <3>1. ActiveCount(n)' = ActiveCount(n) /\ (n \in DOMAIN activeClients' <=> n \in DOMAIN activeClients)
      BY <1>8, <2>2 DEF ActiveCount
    <3> QED
      BY <3>1, <1>4, <1>6, <2>2
  <2> QED
    BY <2>1, <2>2
<1>10. Cardinality(Under(kn)') <= k.concurrentLimit
  BY <1>0, <1>1, <1>3, <1>4, <1>7 DEF Takes, SlotsTaken
<1>11. ConcurrentLimitHolds'
  <2> SUFFICES ASSUME NEW n \in Names, NEW l \in Limits
               PROVE  Cardinality(Within(n, l)') <= l
    BY DEF ConcurrentLimitHolds, Within, Limits
  <2>0. l \in Nat
    BY ConfigsAssumption DEF Limits, Config, Client
  <2>1. CASE n = kn /\ k.concurrentLimit <= l
    <3>1. Within(n, l)' \subseteq Under(n)'
      BY DEF Within, Under
    <3>2. IsFiniteSet(Under(n)')
      BY <1>2, FS_Subset DEF Under
    <3>3. Cardinality(Within(n, l)') <= Cardinality(Under(n)')
      BY <3>1, <3>2, FS_Subset
    <3>4. Cardinality(Within(n, l)') \in Nat /\ Cardinality(Under(n)') \in Nat
      BY <3>1, <3>2, FS_Subset, FS_CardinalityType
    <3> QED
      BY <2>0, <2>1, <3>3, <3>4, <1>10, <1>1
  <2>2. CASE ~(n = kn /\ k.concurrentLimit <= l)
    <3>1. Within(n, l)' = Within(n, l)
      BY <1>1, <2>2 DEF Within
    <3> QED
      BY <3>1 DEF Inv, ConcurrentLimitHolds, Within
  <2> QED
    BY <2>1, <2>2
<1> QED
  BY <1>2, <1>9, <1>11

(***************************************************************************)
(* A step that gives a slot back discounts it once.                        *)
(***************************************************************************)
LEMMA GiveStep ==
    ASSUME Inv, NEW h \in Handlers, Gives(h)
    PROVE  IsFiniteSet(HeldSlots)' /\ SlotAccounting' /\ ConcurrentLimitHolds'
<1> DEFINE s == SlotOf(h)
           k == client[h]
<1>0. PICK kn \in Names : kn = client[h].name
  BY DEF Gives, Client
<1>1. /\ k \in Client /\ kn \in Names /\ k.concurrentLimit \in Nat \ {0}
      /\ s \in HeldSlots /\ s.name = kn
      /\ HeldSlots' = HeldSlots \ {s}
  BY <1>0, SlotUser DEF Gives, Client
<1>2. IsFiniteSet(HeldSlots)'
  BY <1>1, FS_RemoveElement DEF Inv
<1>3. \A n \in Names : IsFiniteSet(Under(n)) /\ Cardinality(Under(n)) \in Nat
  BY FS_Subset, FS_CardinalityType DEF Inv, Under
<1>4. \A n \in Names : ActiveCount(n) = Cardinality(Under(n)) /\ (n \in DOMAIN activeClients <=> ActiveCount(n) > 0)
  BY DEF Inv, SlotAccounting, Under
<1>5. Under(kn)' = Under(kn) \ {s}
  BY <1>1 DEF Under
<1>6. \A n \in Names \ {kn} : Under(n)' = Under(n)
  BY <1>1 DEF Under
<1>7. Cardinality(Under(kn)') = Cardinality(Under(kn)) - 1
  BY <1>1, <1>3, <1>5, FS_RemoveElement DEF Under
<1>8. activeClients' = IF ActiveCount(kn) - 1 <= 0
                       THEN [n \in DOMAIN activeClients \ {kn} |-> activeClients[n]]
                       ELSE [activeClients EXCEPT ![kn] = @ - 1]
  BY <1>0, <1>1 DEF Gives, Decremented
<1>9. SlotAccounting'
  <2> SUFFICES ASSUME NEW n \in Names
               PROVE  /\ ActiveCount(n)' = Cardinality(Under(n)')
                      /\ n \in DOMAIN activeClients' <=> ActiveCount(n)' > 0
    BY DEF SlotAccounting, Under
  <2>1. CASE n = kn
    <3>1. ActiveCount(n) \in Nat \ {0} /\ n \in DOMAIN activeClients
          /\ Cardinality(Under(n)') \in Nat
      <4>1. IsFiniteSet(Under(n)')
        BY <1>2, FS_Subset DEF Under
      <4>2. Cardinality(Under(n)') \in Nat
        BY <4>1, FS_CardinalityType
      <4> QED
        BY <4>2, <1>3, <1>4, <1>7, <2>1
    <3>2. ActiveCount(n)' = ActiveCount(n) - 1
      BY <1>8, <2>1, <3>1 DEF ActiveCount
    <3>3. n \in DOMAIN activeClients' <=> ActiveCount(n) - 1 > 0
      BY <1>8, <2>1, <3>1
    <3> QED
      BY <3>1, <3>2, <3>3, <1>3, <1>4, <1>7, <2>1
  <2>2. CASE n # kn
    <3>1. ActiveCount(n)' = ActiveCount(n) /\ (n \in DOMAIN activeClients' <=> n \in DOMAIN activeClients)
      BY <1>8, <2>2 DEF ActiveCount
    <3> QED
      BY <3>1, <1>4, <1>6, <2>2
  <2> QED
    BY <2>1, <2>2
<1>10. ConcurrentLimitHolds'
  <2> SUFFICES ASSUME NEW n \in Names, NEW l \in Limits
               PROVE  Cardinality(Within(n, l)') <= l
    BY DEF ConcurrentLimitHolds, Within, Limits
  <2>1. Within(n, l)' \subseteq Within(n, l) /\ IsFiniteSet(Within(n, l))
    BY <1>1, FS_Subset DEF Inv, Within
  <2>2. Cardinality(Within(n, l)') <= Cardinality(Within(n, l))
    BY <2>1, FS_Subset
  <2>3. Cardinality(Within(n, l)') \in Nat /\ Cardinality(Within(n, l)) \in Nat
    BY <2>1, FS_Subset, FS_CardinalityType
  <2>4. Cardinality(Within(n, l)) <= l /\ l \in Nat
    BY ConfigsAssumption DEF Inv, ConcurrentLimitHolds, Within, Limits, Config, Client
  <2> QED
    BY <2>2, <2>3, <2>4
<1> QED
  BY <1>2, <1>9, <1>10

(***************************************************************************)
(* With no slots in use there is nothing to count.                         *)
(***************************************************************************)
LEMMA NoSlots ==
    HeldSlots = {} /\ activeClients = NoneActive =>
       IsFiniteSet(HeldSlots) /\ SlotAccounting /\ ConcurrentLimitHolds
<1> SUFFICES ASSUME HeldSlots = {}, activeClients = NoneActive
             PROVE  IsFiniteSet(HeldSlots) /\ SlotAccounting /\ ConcurrentLimitHolds
  OBVIOUS
<1>1. IsFiniteSet(HeldSlots)
  BY FS_EmptySet
<1>2. \A n \in Names : {s \in HeldSlots : s.name = n} = {}
  OBVIOUS
<1>3. SlotAccounting
  BY <1>2, FS_EmptySet DEF SlotAccounting, ActiveCount, NoneActive
<1>4. \A n \in Names, k \in Limits : {s \in HeldSlots : s.name = n /\ s.limit <= k} = {}
  OBVIOUS
<1>5. ConcurrentLimitHolds
  <2>1. \A k \in Limits : 0 <= k
    BY ConfigsAssumption DEF Limits, Config, Client
  <2> QED
    BY <1>4, <2>1, FS_EmptySet DEF ConcurrentLimitHolds
<1> QED
  BY <1>1, <1>3, <1>5

(***************************************************************************)
(* It holds at the start.                                                  *)
(***************************************************************************)
LEMMA InitInv == Init => Inv
<1> SUFFICES ASSUME Init PROVE Inv
  OBVIOUS
<1>1. HeldSlots = {} /\ activeClients = NoneActive /\ LimitConfigured
  BY DEF Init, HeldSlots, HasSlot, Serving, LimitConfigured
<1> QED
  BY <1>1, InitTypeOK, NoSlots DEF Inv

(***************************************************************************)
(* Every step keeps the inductive invariant.                               *)
(***************************************************************************)
LEMMA NextInv == Inv /\ [Next]_vars => Inv'
<1> SUFFICES ASSUME Inv, [Next]_vars PROVE Inv'
  OBVIOUS
<1>1. TypeOK' /\ LimitConfigured'
  BY NextTypeOK, LimitConfiguredStep DEF Inv
<1>2. Keeps \/ (\E h \in Handlers : Takes(h) \/ Gives(h)) \/ Drops
  BY SlotStep DEF Inv
<1>3. CASE Keeps
  BY <1>1, <1>3 DEF Inv, Keeps, SlotAccounting, ConcurrentLimitHolds, ActiveCount, Limits
<1>4. CASE \E h \in Handlers : Takes(h) \/ Gives(h)
  BY <1>1, <1>4, TakeStep, GiveStep DEF Inv
<1>5. CASE Drops
  <2>1. (HeldSlots = {} /\ activeClients = NoneActive)'
    BY <1>5 DEF Drops, NoneActive
  <2>2. (IsFiniteSet(HeldSlots) /\ SlotAccounting /\ ConcurrentLimitHolds)'
    BY <2>1, NoSlots, PTL
  <2> QED
    BY <1>1, <2>2 DEF Inv
<1> QED
  BY <1>2, <1>3, <1>4, <1>5

(***************************************************************************)
(* The inductive invariant holds in every reachable state.                 *)
(***************************************************************************)
LEMMA Invariance == Spec => []Inv
BY InitInv, NextInv, PTL DEF Spec

(***************************************************************************)
(* No interleaving of requests, edits of the limits and crashes leaks a    *)
(* slot of Server.activeClients or frees one twice.                        *)
(***************************************************************************)
THEOREM SlotsCounted == Spec => []SlotAccounting
<1>1. Inv => SlotAccounting
  BY DEF Inv
<1> QED
  BY <1>1, Invariance, PTL

(***************************************************************************)
(* concurrent_limit holds: of the requests served at one time for a name,  *)
(* at most k were let in under a limit of k or less.                       *)
(***************************************************************************)
THEOREM ConcurrencyLimited == Spec => []ConcurrentLimitHolds
<1>1. Inv => ConcurrentLimitHolds
  BY DEF Inv
<1> QED
  BY <1>1, Invariance, PTL

-----------------------------------------------------------------------------
(***************************************************************************)
(* The refinement.  The instance counts as this module does.               *)
(***************************************************************************)
LEMMA PoolCardinality == \A S : Pool!Cardinality(S) = Cardinality(S)
  BY DEF Pool!Cardinality, Cardinality

(***************************************************************************)
(* At the start no handler has a slot.                                     *)
(***************************************************************************)
LEMMA InitRefines == Init => Pool!Init
  BY DEF Init, Pool!Init, HeldSlots, HasSlot, Serving

(***************************************************************************)
(* Every step of the gate takes a slot, gives one back, loses them all or  *)
(* leaves the pool alone.                                                  *)
(***************************************************************************)
LEMMA StepRefines == Inv /\ [Next]_vars => [Pool!Next]_HeldSlots
<1> SUFFICES ASSUME Inv, [Next]_vars PROVE [Pool!Next]_HeldSlots
  OBVIOUS
<1>1. Keeps \/ (\E h \in Handlers : Takes(h) \/ Gives(h)) \/ Drops
  BY SlotStep DEF Inv
<1>2. CASE Keeps
  BY <1>2 DEF Keeps
<1>3. ASSUME NEW h \in Handlers, Takes(h) PROVE Pool!Next
  <2> DEFINE s == SlotOf(h)
  <2>1. /\ s.user = h /\ s.name = client[h].name /\ s.limit = client[h].concurrentLimit
        /\ s \notin HeldSlots
    BY <1>3, SlotUser DEF Takes
  <2>2. client[h].name \in Names /\ client[h].concurrentLimit \in Limits
    BY <1>3 DEF Takes, Client, Inv, LimitConfigured
  <2>3. s \in Pool!Slot
    BY <2>2 DEF SlotOf, Pool!Slot
  <2>4. \A t \in HeldSlots : t.user # s.user
    BY <2>1, SlotUser
  <2>5. Cardinality(Pool!HeldUnder(s.name)) < s.limit
    <3>1. PICK n \in Names : n = client[h].name
      BY <2>2
    <3>2. ActiveCount(n) = Cardinality(Pool!HeldUnder(n))
      BY DEF Inv, SlotAccounting, Pool!HeldUnder
    <3>3. ActiveCount(n) < client[h].concurrentLimit
      <4>1. ActiveCount(n) \in Nat
        BY <3>1 DEF Inv, TypeOK, ActiveCount
      <4>2. client[h].concurrentLimit \in Nat
        BY <1>3 DEF Takes, Client
      <4> QED
        BY <1>3, <3>1, <4>1, <4>2 DEF Takes, SlotsTaken
    <3> QED
      BY <2>1, <3>1, <3>2, <3>3
  <2>6. Pool!Take(s)
    <3>1. HeldSlots' = HeldSlots \cup {s}
      BY <1>3 DEF Takes
    <3> HIDE DEF s
    <3> QED
      BY <3>1, <2>4, <2>5, PoolCardinality DEF Pool!Take, Pool!HeldUnder
  <2> QED
    BY <2>3, <2>6 DEF Pool!Next
<1>4. ASSUME NEW h \in Handlers, Gives(h) PROVE Pool!Next
  <2>1. SlotOf(h) \in HeldSlots
    BY <1>4, SlotUser DEF Gives
  <2> QED
    BY <1>4, <2>1 DEF Gives, Pool!Next, Pool!Give
<1>5. CASE Drops
  BY <1>5 DEF Drops, Pool!Next, Pool!Reset
<1> QED
  BY <1>1, <1>2, <1>3, <1>4, <1>5

(***************************************************************************)
(* The middleware with its counter map implements the pool of slots.       *)
(***************************************************************************)
THEOREM GateImplementsPool == Spec => ImplementsPool
BY InitRefines, StepRefines, Invariance, PTL DEF Spec, ImplementsPool, Pool!Spec

-----------------------------------------------------------------------------
(***************************************************************************)
(* What a handler has listed is what the client it copied may see.  A      *)
(* handler that is free has listed nothing: without this, the next client  *)
(* of the handler would be held to what the last one was shown.            *)
(***************************************************************************)
Filtered(h) == Settled(client[h]) => \A m \in shown[h] : ClientAllowsModel(client[h], m)

Listed == \A h \in Handlers : shown[h] # {} => pc[h] # "idle" /\ Filtered(h)

(***************************************************************************)
(* A listing filtered by the name of a settled client is filtered by its   *)
(* allow-list, whichever configuration is live: the second lookup finds a  *)
(* client of that name and list.                                           *)
(***************************************************************************)
LEMMA SettledListing ==
    ASSUME config \in Configs, NEW k, Settled(k), NEW m \in Listing(k.name)
    PROVE  ClientAllowsModel(k, m)
<1>1. PICK l \in ClientsOfName(config, k.name) : l.allowedModels = k.allowedModels
  BY DEF Settled
<1>2. ClientAllowsModel(l, m)
  BY DEF Listing
<1> QED
  BY <1>1, <1>2 DEF ClientAllowsModel

(***************************************************************************)
(* A step of a handler that keeps its client and its listing, and does not *)
(* free it, keeps the invariant.                                           *)
(***************************************************************************)
LEMMA ListedMove ==
    ASSUME TypeOK, Listed, NEW h \in Handlers, NEW place \in Places \ {"idle"},
           Goto(h, place), client' = client, shown' = shown
    PROVE  Listed'
  BY DEF TypeOK, Listed, Goto, Filtered, Settled

(***************************************************************************)
(* A handler that returns forgets its listing with its client.             *)
(***************************************************************************)
LEMMA ListedFinish ==
    ASSUME TypeOK, Listed, NEW h \in Handlers, Finish(h)
    PROVE  Listed'
<1> SUFFICES ASSUME NEW g \in Handlers, shown'[g] # {}
             PROVE  pc'[g] # "idle" /\ Filtered(g)'
  BY DEF Listed
<1>1. g # h
  BY DEF TypeOK, Finish
<1>2. pc'[g] = pc[g] /\ client'[g] = client[g] /\ shown'[g] = shown[g]
  BY <1>1 DEF TypeOK, Finish, Goto
<1> QED
  BY <1>2 DEF Listed, Filtered, Settled

(***************************************************************************)
(* Every step keeps it.                                                    *)
(***************************************************************************)
LEMMA ListedStep == TypeOK /\ Listed /\ [Next]_vars => Listed'
<1> SUFFICES ASSUME TypeOK, Listed, [Next]_vars PROVE Listed'
  OBVIOUS
<1>1. ASSUME NEW h \in Handlers, Arrive(h) PROVE Listed'
  <2>1. PICK token \in Tokens, m \in Models \cup {NoModel, Catalogue} : Begin(h, token, m)
    BY <1>1 DEF Arrive
  <2>2. PICK k : client' = [client EXCEPT ![h] = k]
    BY <2>1 DEF Begin
  <2>3. pc[h] = "idle" /\ pc' = [pc EXCEPT ![h] = "daily"] /\ shown' = shown
    BY <2>1 DEF Begin, At, Goto
  <2> SUFFICES ASSUME NEW g \in Handlers, shown[g] # {}
               PROVE  pc'[g] # "idle" /\ Filtered(g)'
    BY <2>3 DEF Listed
  <2>4. g # h
    BY <2>3 DEF Listed
  <2>5. pc'[g] = pc[g] /\ client'[g] = client[g] /\ shown'[g] = shown[g]
    BY <2>2, <2>3, <2>4 DEF TypeOK
  <2> QED
    BY <2>5 DEF Listed, Filtered, Settled
<1>2. ASSUME NEW h \in Handlers, ListModels(h) PROVE Listed'
  <2>1. /\ shown' = [shown EXCEPT ![h] = Listing(client[h].name)]
        /\ pc' = [pc EXCEPT ![h] = "release"] /\ client' = client
    BY <1>2 DEF ListModels, Goto
  <2> SUFFICES ASSUME NEW g \in Handlers, shown'[g] # {}
               PROVE  pc'[g] # "idle" /\ Filtered(g)'
    BY DEF Listed
  <2>2. CASE g = h
    <3>1. pc'[g] = "release" /\ shown'[g] = Listing(client[g].name)
      BY <2>1, <2>2 DEF TypeOK
    <3>2. Settled(client[g]) => \A m \in Listing(client[g].name) : ClientAllowsModel(client[g], m)
      BY SettledListing DEF TypeOK
    <3> QED
      BY <2>1, <3>1, <3>2 DEF Filtered, Settled
  <2>3. CASE g # h
    <3>1. pc'[g] = pc[g] /\ shown'[g] = shown[g]
      BY <2>1, <2>3 DEF TypeOK
    <3> QED
      BY <2>1, <3>1 DEF Listed, Filtered, Settled
  <2> QED
    BY <2>2, <2>3
<1>3. ASSUME NEW h \in Handlers, Proceed(h), ~ListModels(h) PROVE Listed'
  <2>1. Finish(h) \/ (client' = client /\ shown' = shown
                      /\ \E place \in Places \ {"idle"} : Goto(h, place))
    BY <1>3 DEF Proceed, DailyRefused, CheckDaily, RPMRefused, CheckRPM, AcquireRefused,
                Acquire, RouteRefused, Route, UpstreamEnds, LogCall, LogCallFails,
                Release, local, Places
  <2> QED
    BY <2>1, ListedMove, ListedFinish
<1>4. ASSUME NEW c \in Configs, Install(c) PROVE Listed'
  BY <1>4 DEF Install, local, Listed, Filtered, Settled
<1>5. CASE ApplyRetention \/ Tick \/ UNCHANGED vars
  BY <1>5 DEF ApplyRetention, Tick, vars, local, Listed, Filtered, Settled
<1>6. CASE Crash
  BY <1>6 DEF Crash, Listed
<1> QED
  BY <1>1, <1>2, <1>3, <1>4, <1>5, <1>6 DEF Next

(***************************************************************************)
(* GET /v1/models shows a settled client no model outside its allow-list,  *)
(* although ServeModels looks the client up a second time, by name, in a   *)
(* newer configuration than the one that let the request in.               *)
(***************************************************************************)
THEOREM ModelsFiltered == Spec => []ListingFiltered
<1>1. Init => Listed
  BY DEF Init, Listed
<1>2. Listed => ListingFiltered
  BY DEF Listed, Filtered, ListingFiltered
<1> QED
  BY <1>1, <1>2, ListedStep, TypeCorrect, PTL DEF Spec

-----------------------------------------------------------------------------
(***************************************************************************)
(* The quotas.  The rows a limit counts, and the requests of a name past   *)
(* the checks, are finite sets.                                            *)
(***************************************************************************)
LEMMA RowsFinite ==
    ASSUME TypeOK, NEW n \in Names, NEW since \in Int
    PROVE  /\ IsFiniteSet(RowsSince(n, since))
           /\ CountClientCallsSince(n, since) \in Nat
<1> DEFINE T == {u \in Times : u >= since}
           rows == [t \in T |-> {t} \X (1 .. calls[n][t])]
           R == {rows[t] : t \in T}
<1>1. IsFiniteSet(T)
  <2>1. IsFiniteSet(Times)
    BY FS_Interval, TimeAssumption DEF Times
  <2> QED
    BY <2>1, FS_Subset
<1>2. IsFiniteSet(R)
  <2>1. rows \in Surjection(T, R)
    BY DEF Surjection
  <2> QED
    BY <1>1, <2>1, FS_Surjection
<1>3. ASSUME NEW t \in T PROVE IsFiniteSet(rows[t])
  <2>1. IsFiniteSet({t})
    BY FS_Singleton
  <2>0. calls[n][t] \in Int /\ 1 \in Int
    BY DEF TypeOK
  <2>2. IsFiniteSet(1 .. calls[n][t])
    BY <2>0, FS_Interval
  <2>3. rows[t] = {t} \X (1 .. calls[n][t])
    OBVIOUS
  <2> QED
    BY <2>1, <2>2, <2>3, FS_Product
<1>4. IsFiniteSet(UNION R)
  BY <1>2, <1>3, FS_UNION
<1>5. RowsSince(n, since) = UNION R
  BY DEF RowsSince
<1> QED
  BY <1>4, <1>5, FS_CardinalityType DEF CountClientCallsSince

LEMMA PastFinite ==
    ASSUME NEW n
    PROVE  /\ IsFiniteSet(Past(n)) /\ Cardinality(Past(n)) \in Nat
           /\ IsFiniteSet(PastRPMOf(n)) /\ Cardinality(PastRPMOf(n)) \in Nat
<1>1. IsFiniteSet(Past(n)) /\ IsFiniteSet(PastRPMOf(n))
  BY HandlersAssumption, FS_Subset DEF Past, PastRPMOf
<1> QED
  BY <1>1, FS_CardinalityType

(***************************************************************************)
(* A count from a later time on counts no row twice and none before it.    *)
(***************************************************************************)
LEMMA LaterRows ==
    ASSUME NEW n, NEW a \in Int, NEW b \in Int, a <= b
    PROVE  RowsSince(n, b) \subseteq RowsSince(n, a)
<1> SUFFICES ASSUME NEW t \in Times, t >= b
             PROVE  t >= a
  BY DEF RowsSince
<1> QED
  BY DEF Times

(***************************************************************************)
(* Midnight never moves back.                                              *)
(***************************************************************************)
LEMMA MidnightMonotone ==
    ASSUME NEW a \in Nat, NEW b \in Nat, a <= b
    PROVE  Midnight(a) \in Nat /\ Midnight(b) \in Nat /\ Midnight(a) <= Midnight(b)
<1> DEFINE p == a \div DayLength
           q == b \div DayLength
<1>0. DayLength \in Nat \ {0}
  BY TimeAssumption
<1>1. p \in Nat /\ q \in Nat
  BY <1>0
<1>2. p <= q
  BY <1>0
<1> HIDE DEF p, q
<1>3. p * DayLength \in Nat /\ q * DayLength \in Nat /\ p * DayLength <= q * DayLength
  BY <1>0, <1>1, <1>2
<1> QED
  BY <1>3 DEF Midnight, p, q

(***************************************************************************)
(* What a step does to the requests of name n past the checks and to the   *)
(* rows a limit counts: it may drop some; it may let one request past the  *)
(* daily check, or past the rpm check; or a request that was past them     *)
(* becomes at most one row.                                                *)
(***************************************************************************)
Today(n) == RowsSince(n, Midnight(now))
Minute(n) == RowsSince(n, now - MinuteLength)

Shrinks(n) ==
    /\ Today(n)' \subseteq Today(n) /\ Minute(n)' \subseteq Minute(n)
    /\ Past(n)' \subseteq Past(n) /\ PastRPMOf(n)' \subseteq PastRPMOf(n)
    /\ peak'[n] = peak[n]

PassesDaily(n, h) ==
    /\ pc[h] # "idle" /\ client[h].name = n /\ ~DailyExceeded(client[h])
    /\ Today(n)' = Today(n) /\ Minute(n)' = Minute(n)
    /\ h \notin Past(n) /\ Past(n)' = Past(n) \cup {h}
    /\ PastRPMOf(n)' = PastRPMOf(n)
    /\ peak'[n] = IF peak[n] < Cardinality(Past(n)) + 1
                  THEN Cardinality(Past(n)) + 1 ELSE peak[n]

PassesRPM(n, h) ==
    /\ pc[h] # "idle" /\ client[h].name = n /\ ~RPMExceeded(client[h])
    /\ Today(n)' = Today(n) /\ Minute(n)' = Minute(n)
    /\ h \in Past(n) /\ Past(n)' = Past(n)
    /\ PastRPMOf(n)' = PastRPMOf(n) \cup {h}
    /\ peak'[n] = peak[n]

BecomesRow(n, h) ==
    /\ h \in Past(n) /\ Past(n)' = Past(n) \ {h}
    /\ h \in PastRPMOf(n) /\ PastRPMOf(n)' = PastRPMOf(n) \ {h}
    /\ \E row : /\ Today(n)' \subseteq Today(n) \cup {row}
                /\ Minute(n)' \subseteq Minute(n) \cup {row}
    /\ peak'[n] = peak[n]

(***************************************************************************)
(* A handler that returns, or goes on past the point where the call is     *)
(* logged, is no longer past the checks.                                   *)
(***************************************************************************)
LEMMA PastShrinks ==
    ASSUME TypeOK, NEW n, NEW h \in Handlers, NEW place, NEW k,
           pc' = [pc EXCEPT ![h] = place],
           client' = [client EXCEPT ![h] = k],
           place \notin PastDaily
    PROVE  /\ Past(n)' \subseteq Past(n) /\ PastRPMOf(n)' \subseteq PastRPMOf(n)
           /\ Past(n) \subseteq Past(n)' \cup {h} /\ h \notin Past(n)'
<1>1. \A g \in Handlers \ {h} : pc'[g] = pc[g] /\ client'[g] = client[g]
  BY DEF TypeOK
<1>2. pc'[h] = place
  BY DEF TypeOK
<1>3. h \notin Past(n)'
  BY <1>2 DEF Past
<1>4. \A g \in Handlers \ {h} : g \in Past(n)' <=> g \in Past(n)
  BY <1>1 DEF Past
<1>5. \A g \in Past(n)' : g \in Handlers
  BY DEF Past
<1>6. \A g \in Past(n) : g \in Handlers
  BY DEF Past
<1>7. Past(n)' \subseteq Past(n) /\ Past(n) \subseteq Past(n)' \cup {h}
  BY <1>3, <1>4, <1>5, <1>6
<1>8. PastRPMOf(n)' \subseteq PastRPMOf(n)
  BY <1>1, <1>3, <1>5, <1>7 DEF PastRPMOf
<1> QED
  BY <1>3, <1>7, <1>8

(***************************************************************************)
(* Deleting rows adds none, and one more row is one more row.              *)
(***************************************************************************)
LEMMA RowsDeleted ==
    ASSUME NEW n, NEW since,
           \A t \in Times : /\ calls[n][t] \in Nat /\ calls'[n][t] \in Nat
                            /\ calls'[n][t] <= calls[n][t]
    PROVE  RowsSince(n, since)' \subseteq RowsSince(n, since)
<1> SUFFICES ASSUME NEW t \in Times, t >= since, NEW i \in 1 .. calls'[n][t]
             PROVE  <<t, i>> \in RowsSince(n, since)
  BY DEF RowsSince
<1>1. i \in 1 .. calls[n][t]
  <2>1. calls[n][t] \in Nat /\ calls'[n][t] \in Nat /\ calls'[n][t] <= calls[n][t]
    OBVIOUS
  <2> QED
    BY <2>1
<1> QED
  BY <1>1 DEF RowsSince

LEMMA RowAdded ==
    ASSUME NEW n, NEW since, NEW u \in Times,
           \A t \in Times : calls[n][t] \in Nat,
           \A t \in Times : calls'[n][t] = IF t = u THEN calls[n][t] + 1 ELSE calls[n][t]
    PROVE  RowsSince(n, since)' \subseteq RowsSince(n, since) \cup {<<u, calls[n][u] + 1>>}
<1> SUFFICES ASSUME NEW t \in Times, t >= since, NEW i \in 1 .. calls'[n][t]
             PROVE  <<t, i>> \in RowsSince(n, since) \cup {<<u, calls[n][u] + 1>>}
  BY DEF RowsSince
<1>1. i \in 1 .. calls[n][t] \/ (t = u /\ i = calls[n][u] + 1)
  <2>1. calls[n][t] \in Nat /\ (calls'[n][t] = IF t = u THEN calls[n][t] + 1 ELSE calls[n][t])
    OBVIOUS
  <2> QED
    BY <2>1
<1>2. i \in 1 .. calls[n][t] => <<t, i>> \in RowsSince(n, since)
  BY DEF RowsSince
<1> QED
  BY <1>1, <1>2

(***************************************************************************)
(* The rows stay as they are when neither the table nor the clock moves.   *)
(***************************************************************************)
LEMMA SameRows ==
    ASSUME NEW n, calls' = calls, now' = now
    PROVE  Today(n)' = Today(n) /\ Minute(n)' = Minute(n)
  BY DEF Today, Minute, RowsSince, Midnight

(***************************************************************************)
(* Every step is one of these four for every name.                         *)
(***************************************************************************)
LEMMA QuotaStep ==
    ASSUME TypeOK, [Next]_vars, NEW n \in Names
    PROVE  \/ Shrinks(n)
           \/ \E h \in Handlers : PassesDaily(n, h) \/ PassesRPM(n, h) \/ BecomesRow(n, h)
<1>t. /\ now \in Nat /\ MinuteLength \in Nat /\ DayLength \in Nat \ {0}
      /\ \A t \in Times : t \in Nat
      /\ \A t \in Times : calls[n][t] \in Nat
  BY TimeAssumption DEF TypeOK, Times
<1>1. ASSUME NEW h \in Handlers, Arrive(h) PROVE Shrinks(n)
  <2>1. PICK token \in Tokens, m \in Models \cup {NoModel, Catalogue} : Begin(h, token, m)
    BY <1>1 DEF Arrive
  <2>2. PICK k : client' = [client EXCEPT ![h] = k]
    BY <2>1 DEF Begin
  <2>3. /\ pc' = [pc EXCEPT ![h] = "daily"] /\ "daily" \notin PastDaily
        /\ calls' = calls /\ now' = now /\ peak' = peak
    BY <2>1 DEF Begin, Goto, PastDaily, PastRPM
  <2>4. Past(n)' \subseteq Past(n) /\ PastRPMOf(n)' \subseteq PastRPMOf(n)
    BY <2>2, <2>3, PastShrinks
  <2> QED
    BY <2>3, <2>4, SameRows DEF Shrinks
<1>2. ASSUME NEW h \in Handlers, Finish(h), calls' = calls, now' = now, peak' = peak
      PROVE  Shrinks(n)
  <2>1. "idle" \notin PastDaily
    BY DEF PastDaily, PastRPM
  <2>2. Past(n)' \subseteq Past(n) /\ PastRPMOf(n)' \subseteq PastRPMOf(n)
    BY <1>2, <2>1, PastShrinks DEF Finish, Goto
  <2> QED
    BY <1>2, <2>2, SameRows DEF Shrinks
<1>3. ASSUME NEW h \in Handlers, NEW place \in {"serve", "upstream", "log", "release"},
             pc[h] \in {"acquire", "serve", "upstream", "log"},
             Goto(h, place), client' = client, calls' = calls, now' = now, peak' = peak
      PROVE  Shrinks(n)
  <2>1. CASE place = "release"
    <3>1. client' = [client EXCEPT ![h] = client[h]]
      BY <1>3 DEF TypeOK
    <3>2. place \notin PastDaily
      BY <2>1 DEF PastDaily, PastRPM
    <3>3. Past(n)' \subseteq Past(n) /\ PastRPMOf(n)' \subseteq PastRPMOf(n)
      BY <1>3, <3>1, <3>2, PastShrinks DEF Goto
    <3> QED
      BY <1>3, <3>3, SameRows DEF Shrinks
  <2>2. CASE place # "release"
    <3>1. \A g \in Handlers : (pc'[g] \in PastRPM <=> pc[g] \in PastRPM)
                              /\ (pc'[g] \in PastDaily <=> pc[g] \in PastDaily)
      BY <1>3, <2>2 DEF Goto, TypeOK, PastRPM, PastDaily
    <3>2. Past(n)' = Past(n) /\ PastRPMOf(n)' = PastRPMOf(n)
      BY <1>3, <3>1 DEF Past, PastRPMOf
    <3> QED
      BY <1>3, <3>2, SameRows DEF Shrinks
  <2> QED
    BY <2>1, <2>2
<1>4. ASSUME NEW h \in Handlers, CheckDaily(h) PROVE Shrinks(n) \/ PassesDaily(n, h)
  <2>1. /\ pc[h] = "daily" /\ pc' = [pc EXCEPT ![h] = "rpm"] /\ client' = client
        /\ calls' = calls /\ now' = now /\ ~DailyExceeded(client[h])
    BY <1>4 DEF CheckDaily, At, Goto, local
  <2>2. Today(n)' = Today(n) /\ Minute(n)' = Minute(n)
    BY <2>1, SameRows
  <2>3. /\ pc'[h] = "rpm" /\ \A g \in Handlers \ {h} : pc'[g] = pc[g]
    BY <2>1 DEF TypeOK
  <2>4. h \notin Past(n)
    BY <2>1 DEF Past, PastDaily, PastRPM
  <2>5. PastRPMOf(n)' = PastRPMOf(n)
    BY <2>1, <2>3 DEF PastRPMOf, Past, PastDaily, PastRPM
  <2>6. CASE client[h].name = n
    <3>1. Past(n)' = Past(n) \cup {h}
      BY <2>1, <2>3, <2>6 DEF Past, PastDaily
    <3>2. peak'[n] = IF peak[n] < Cardinality(Past(n)) + 1
                     THEN Cardinality(Past(n)) + 1 ELSE peak[n]
      BY <1>4, <2>6 DEF CheckDaily, TypeOK
    <3> QED
      BY <2>1, <2>2, <2>4, <2>5, <2>6, <3>1, <3>2 DEF PassesDaily
  <2>7. CASE client[h].name # n
    <3>1. Past(n)' = Past(n)
      BY <2>1, <2>3, <2>7 DEF Past
    <3>2. peak'[n] = peak[n]
      BY <1>4, <2>7 DEF CheckDaily, TypeOK
    <3> QED
      BY <2>2, <2>5, <3>1, <3>2 DEF Shrinks
  <2> QED
    BY <2>6, <2>7
<1>5. ASSUME NEW h \in Handlers, CheckRPM(h) PROVE Shrinks(n) \/ PassesRPM(n, h)
  <2>1. /\ pc[h] = "rpm" /\ pc' = [pc EXCEPT ![h] = "acquire"] /\ client' = client
        /\ calls' = calls /\ now' = now /\ peak' = peak /\ ~RPMExceeded(client[h])
    BY <1>5 DEF CheckRPM, At, Goto, local
  <2>2. Today(n)' = Today(n) /\ Minute(n)' = Minute(n)
    BY <2>1, SameRows
  <2>3. /\ pc'[h] = "acquire" /\ \A g \in Handlers \ {h} : pc'[g] = pc[g]
    BY <2>1 DEF TypeOK
  <2>4. Past(n)' = Past(n)
    BY <2>1, <2>3 DEF Past, PastDaily, PastRPM
  <2>5. CASE client[h].name = n
    <3>1. h \in Past(n)
      BY <2>1, <2>5 DEF Past, PastDaily
    <3>2. PastRPMOf(n)' = PastRPMOf(n) \cup {h}
      BY <2>1, <2>3, <2>4, <3>1 DEF PastRPMOf, PastRPM
    <3> QED
      BY <2>1, <2>2, <2>4, <2>5, <3>1, <3>2 DEF PassesRPM
  <2>6. CASE client[h].name # n
    <3>1. h \notin Past(n)
      BY <2>6 DEF Past
    <3>2. \A g \in Past(n) : g \in Handlers \ {h}
      BY <3>1 DEF Past
    <3>3. PastRPMOf(n)' = PastRPMOf(n)
      BY <2>3, <2>4, <3>2 DEF PastRPMOf
    <3> QED
      BY <2>1, <2>2, <2>4, <3>3 DEF Shrinks
  <2> QED
    BY <2>5, <2>6
<1>6. ASSUME NEW h \in Handlers, LogCall(h) PROVE Shrinks(n) \/ BecomesRow(n, h)
  <2>1. /\ pc[h] = "log" /\ pc' = [pc EXCEPT ![h] = "release"] /\ client' = client
        /\ now' = now /\ peak' = peak
    BY <1>6 DEF LogCall, At, Goto, local
  <2>2. PICK cn \in Names, u \in Times : cn = client[h].name /\ u = ts[h]
    BY <2>1 DEF TypeOK, Client
  <2>3. calls' = [calls EXCEPT ![cn][u] = @ + 1]
    BY <1>6, <2>2 DEF LogCall, Logged
  <2>4. /\ client' = [client EXCEPT ![h] = client[h]] /\ "release" \notin PastDaily
    BY <2>1 DEF TypeOK, PastDaily, PastRPM
  <2>5. /\ Past(n)' \subseteq Past(n) /\ PastRPMOf(n)' \subseteq PastRPMOf(n)
        /\ Past(n) \subseteq Past(n)' \cup {h} /\ h \notin Past(n)'
    BY <2>1, <2>4, PastShrinks
  <2>6. CASE cn = n
    <3>1. \A t \in Times : calls'[n][t] = IF t = u THEN calls[n][t] + 1 ELSE calls[n][t]
      BY <2>3, <2>6 DEF TypeOK
    <3>2. PICK day, minute : day = Midnight(now) /\ minute = now - MinuteLength
      OBVIOUS
    <3>3. /\ RowsSince(n, day)' \subseteq RowsSince(n, day) \cup {<<u, calls[n][u] + 1>>}
          /\ RowsSince(n, minute)' \subseteq RowsSince(n, minute) \cup {<<u, calls[n][u] + 1>>}
      BY <1>t, <3>1, RowAdded
    <3>4. \E row : /\ Today(n)' \subseteq Today(n) \cup {row}
                   /\ Minute(n)' \subseteq Minute(n) \cup {row}
      BY <2>1, <3>2, <3>3 DEF Today, Minute, Midnight, RowsSince
    <3>5. h \in Past(n) /\ Past(n)' = Past(n) \ {h}
      BY <2>1, <2>2, <2>5, <2>6 DEF Past, PastDaily, PastRPM
    <3>6. h \in PastRPMOf(n)
      BY <2>1, <3>5 DEF PastRPMOf, PastRPM
    <3>7. \A g \in Past(n)' : pc'[g] = pc[g]
      BY <2>1, <2>5 DEF TypeOK, Past
    <3>8. PastRPMOf(n)' = PastRPMOf(n) \ {h}
      BY <3>5, <3>7 DEF PastRPMOf
    <3> QED
      BY <2>1, <3>4, <3>5, <3>6, <3>8 DEF BecomesRow
  <2>7. CASE cn # n
    <3>1. calls'[n] = calls[n]
      BY <2>3, <2>7 DEF TypeOK
    <3>2. Today(n)' = Today(n) /\ Minute(n)' = Minute(n)
      BY <2>1, <3>1 DEF Today, Minute, RowsSince, Midnight
    <3> QED
      BY <2>1, <2>5, <3>2 DEF Shrinks
  <2> QED
    BY <2>6, <2>7
<1>7. ASSUME NEW h \in Handlers, Proceed(h)
      PROVE  Shrinks(n) \/ PassesDaily(n, h) \/ PassesRPM(n, h) \/ BecomesRow(n, h)
  <2>1. CASE DailyRefused(h) \/ RPMRefused(h) \/ AcquireRefused(h) \/ Release(h)
    BY <2>1, <1>2 DEF DailyRefused, RPMRefused, AcquireRefused, Release
  <2>2. CASE Acquire(h) \/ ListModels(h) \/ RouteRefused(h) \/ Route(h)
             \/ UpstreamEnds(h) \/ LogCallFails(h)
    BY <2>2, <1>3 DEF Acquire, ListModels, RouteRefused, Route, UpstreamEnds,
                      LogCallFails, At, local
  <2> QED
    BY <1>7, <2>1, <2>2, <1>4, <1>5, <1>6 DEF Proceed
<1>8. ASSUME pc' = pc, client' = client, peak' = peak,
             Today(n)' \subseteq Today(n), Minute(n)' \subseteq Minute(n)
      PROVE  Shrinks(n)
  BY <1>8 DEF Shrinks, Past, PastRPMOf
<1>9. ASSUME NEW c \in Configs, Install(c) PROVE Shrinks(n)
  BY <1>8, <1>9, SameRows DEF Install, local
<1>10. CASE ApplyRetention
  <2>1. \A t \in Times : calls'[n][t] \in Nat /\ calls'[n][t] <= calls[n][t]
    BY <1>t, <1>10 DEF ApplyRetention
  <2>2. PICK day, minute : day = Midnight(now) /\ minute = now - MinuteLength
    OBVIOUS
  <2>3. /\ RowsSince(n, day)' \subseteq RowsSince(n, day)
        /\ RowsSince(n, minute)' \subseteq RowsSince(n, minute)
    BY <1>t, <2>1, RowsDeleted
  <2>4. Today(n)' \subseteq Today(n) /\ Minute(n)' \subseteq Minute(n)
    BY <1>10, <2>2, <2>3 DEF ApplyRetention, Today, Minute, Midnight, RowsSince
  <2> QED
    BY <1>8, <1>10, <2>4 DEF ApplyRetention, local
<1>11. CASE Tick
  <2>1. now' \in Nat /\ now <= now' /\ now - MinuteLength <= now' - MinuteLength
    BY <1>t, <1>11 DEF Tick
  <2>2. PICK a \in Nat, b \in Nat : a = now /\ b = now'
    BY <1>t, <2>1
  <2>3. Midnight(a) \in Int /\ Midnight(b) \in Int /\ Midnight(a) <= Midnight(b)
    BY <2>1, <2>2, MidnightMonotone
  <2>4. /\ RowsSince(n, Midnight(b)) \subseteq RowsSince(n, Midnight(a))
        /\ RowsSince(n, b - MinuteLength) \subseteq RowsSince(n, a - MinuteLength)
    BY <1>t, <2>1, <2>2, <2>3, LaterRows
  <2>5. Today(n)' \subseteq Today(n) /\ Minute(n)' \subseteq Minute(n)
    BY <1>11, <2>2, <2>4 DEF Tick, Today, Minute, Midnight, RowsSince
  <2> QED
    BY <1>8, <1>11, <2>5 DEF Tick, local
<1>12. CASE Crash
  <2>1. Past(n)' = {}
    BY <1>12 DEF Crash, Past, PastDaily, PastRPM
  <2>2. PastRPMOf(n)' = {}
    BY <2>1 DEF PastRPMOf
  <2> QED
    BY <1>12, <2>1, <2>2, SameRows DEF Crash, Shrinks
<1>13. CASE UNCHANGED vars
  BY <1>8, <1>13, SameRows DEF vars, local
<1> QED
  BY <1>1, <1>7, <1>9, <1>10, <1>11, <1>12, <1>13 DEF Next

(***************************************************************************)
(* The client of a busy handler is one that some configuration has, or the *)
(* synthetic one, so that the limit checked for a limited client is its    *)
(* limit in every configuration.                                           *)
(***************************************************************************)
FromConfig == \A h \in Handlers :
                 pc[h] # "idle" => \/ client[h].name = LegacyName
                                   \/ \E c \in Configs : client[h] \in c.clients

LEMMA FromConfigStep ==
    ASSUME TypeOK, FromConfig, [Next]_vars
    PROVE  FromConfig'
<1> USE DEF TypeOK, FromConfig
<1>1. ASSUME NEW h \in Handlers, Arrive(h) PROVE FromConfig'
  <2>1. PICK token \in Tokens, m \in Models \cup {NoModel, Catalogue} : Begin(h, token, m)
    BY <1>1 DEF Arrive
  <2>2. PICK k \in ClientsOfToken(config, token) : client' = [client EXCEPT ![h] = k]
    BY <2>1 DEF Begin
  <2>3. k.name = LegacyName \/ \E c \in Configs : k \in c.clients
    BY DEF ClientsOfToken, LegacyClient
  <2> QED
    BY <2>1, <2>2, <2>3 DEF Begin, Goto
<1>2. ASSUME NEW h \in Handlers, Proceed(h) PROVE FromConfig'
  <2>1. CASE Finish(h)
    BY <2>1 DEF Finish, Goto
  <2>2. CASE client' = client /\ pc[h] # "idle" /\ \E place \in Places : Goto(h, place)
    BY <2>2 DEF Goto
  <2>3. Finish(h) \/ (client' = client /\ pc[h] # "idle" /\ \E place \in Places : Goto(h, place))
    BY <1>2 DEF Proceed, DailyRefused, CheckDaily, RPMRefused, CheckRPM, AcquireRefused,
                Acquire, ListModels, RouteRefused, Route, UpstreamEnds, LogCall,
                LogCallFails, Release, At, local, Places
  <2> QED
    BY <2>1, <2>2, <2>3
<1>3. ASSUME pc' = pc, client' = client PROVE FromConfig'
  BY <1>3
<1>4. CASE Crash
  BY <1>4 DEF Crash
<1>5. ASSUME NEW c \in Configs, Install(c) PROVE FromConfig'
  BY <1>3, <1>5 DEF Install, local
<1>6. CASE ApplyRetention \/ Tick \/ UNCHANGED vars
  BY <1>3, <1>6 DEF ApplyRetention, Tick, vars, local
<1> QED
  BY <1>1, <1>2, <1>4, <1>5, <1>6 DEF Next

(***************************************************************************)
(* The inductive invariant of the quotas: the history variable bounds the  *)
(* requests past the checks, and both limits are overshot by less than it. *)
(***************************************************************************)
Peaked == \A n \in Names : Cardinality(Past(n)) <= peak[n]

QuotaInv == TypeOK /\ FromConfig /\ Peaked /\ DailyOvershootBounded /\ RPMOvershootBounded

Top(n) == IF peak[n] = 0 THEN 1 ELSE peak[n]

(***************************************************************************)
(* Sets that shrink count for less.                                        *)
(***************************************************************************)
LEMMA Smaller ==
    ASSUME NEW S, NEW T, IsFiniteSet(S), T \subseteq S
    PROVE  Cardinality(T) \in Nat /\ Cardinality(T) <= Cardinality(S)
  BY FS_Subset, FS_CardinalityType

(***************************************************************************)
(* A row in the place of a request leaves the sum of both as it was.       *)
(***************************************************************************)
LEMMA Exchanged ==
    ASSUME NEW R, NEW S, NEW row, IsFiniteSet(R), S \subseteq R \cup {row},
           NEW P, NEW h \in P, IsFiniteSet(P)
    PROVE  Cardinality(S) + Cardinality(P \ {h}) <= Cardinality(R) + Cardinality(P)
<1>0. Cardinality(R) \in Nat
  BY FS_CardinalityType
<1>1. IsFiniteSet(R \cup {row}) /\ Cardinality(R \cup {row}) \in Nat
      /\ Cardinality(R \cup {row}) <= Cardinality(R) + 1
  <2>1. /\ IsFiniteSet(R \cup {row})
        /\ Cardinality(R \cup {row}) = IF row \in R THEN Cardinality(R) ELSE Cardinality(R) + 1
    BY FS_AddElement
  <2> QED
    BY <1>0, <2>1
<1>2. Cardinality(S) \in Nat /\ Cardinality(S) <= Cardinality(R \cup {row})
  BY <1>1, Smaller
<1>3. Cardinality(P) \in Nat /\ Cardinality(P \ {h}) = Cardinality(P) - 1
  BY FS_RemoveElement, FS_CardinalityType
<1> QED
  BY <1>0, <1>1, <1>2, <1>3

(***************************************************************************)
(* The requests past the checks are never more than the peak.              *)
(***************************************************************************)
LEMMA PeakedStep ==
    ASSUME TypeOK, Peaked, [Next]_vars
    PROVE  Peaked'
<1> SUFFICES ASSUME NEW n \in Names PROVE Cardinality(Past(n)') <= peak'[n]
  BY DEF Peaked
<1>1. /\ IsFiniteSet(Past(n)) /\ Cardinality(Past(n)) \in Nat
      /\ peak[n] \in Nat /\ Cardinality(Past(n)) <= peak[n]
  BY PastFinite DEF Peaked, TypeOK
<1>2. CASE Shrinks(n)
  <2>1. Cardinality(Past(n)') \in Nat /\ Cardinality(Past(n)') <= Cardinality(Past(n))
    BY <1>1, <1>2, Smaller DEF Shrinks
  <2> QED
    BY <1>1, <1>2, <2>1 DEF Shrinks
<1>3. ASSUME NEW h \in Handlers, PassesDaily(n, h)
      PROVE  Cardinality(Past(n)') <= peak'[n]
  <2>1. Cardinality(Past(n)') = Cardinality(Past(n)) + 1
    BY <1>1, <1>3, FS_AddElement DEF PassesDaily
  <2> QED
    BY <1>1, <1>3, <2>1 DEF PassesDaily
<1>4. ASSUME NEW h \in Handlers, PassesRPM(n, h)
      PROVE  Cardinality(Past(n)') <= peak'[n]
  BY <1>1, <1>4 DEF PassesRPM
<1>5. ASSUME NEW h \in Handlers, BecomesRow(n, h)
      PROVE  Cardinality(Past(n)') <= peak'[n]
  <2>1. Cardinality(Past(n)') \in Nat /\ Cardinality(Past(n)') <= Cardinality(Past(n))
    BY <1>1, <1>5, Smaller DEF BecomesRow
  <2> QED
    BY <1>1, <1>5, <2>1 DEF BecomesRow
<1> QED
  BY <1>2, <1>3, <1>4, <1>5, QuotaStep

(***************************************************************************)
(* A step that starts from a client within its bound, plus its peak, ends  *)
(* within it.  This is the argument of both limits: the one step that      *)
(* raises the sum of rows and requests is the check, and the check saw     *)
(* fewer rows than the limit.                                              *)
(***************************************************************************)
LEMMA DailyStep ==
    ASSUME TypeOK, Peaked, [Next]_vars, NEW n \in Names, NEW d \in Nat \ {0},
           \A h \in Handlers : pc[h] # "idle" /\ client[h].name = n => client[h].dailyLimit = d,
           Cardinality(Today(n)) + Cardinality(Past(n)) <= d - 1 + Top(n)
    PROVE  Cardinality(Today(n)') + Cardinality(Past(n)') <= d - 1 + Top(n)'
<1>0. /\ IsFiniteSet(Today(n)) /\ Cardinality(Today(n)) \in Nat
      /\ IsFiniteSet(Past(n)) /\ Cardinality(Past(n)) \in Nat
      /\ peak[n] \in Nat
  <2>1. Midnight(now) \in Int
    BY MidnightMonotone DEF TypeOK, Times
  <2>2. PICK day \in Int : day = Midnight(now)
    BY <2>1
  <2>3. IsFiniteSet(RowsSince(n, day)) /\ CountClientCallsSince(n, day) \in Nat
    BY RowsFinite
  <2> QED
    BY <2>2, <2>3, PastFinite DEF Today, CountClientCallsSince, TypeOK
<1>1. CASE Shrinks(n)
  <2>1. /\ Cardinality(Today(n)') \in Nat /\ Cardinality(Today(n)') <= Cardinality(Today(n))
        /\ Cardinality(Past(n)') \in Nat /\ Cardinality(Past(n)') <= Cardinality(Past(n))
    BY <1>0, <1>1, Smaller DEF Shrinks
  <2> QED
    BY <1>0, <1>1, <2>1 DEF Shrinks, Top
<1>2. ASSUME NEW h \in Handlers, PassesDaily(n, h)
      PROVE  Cardinality(Today(n)') + Cardinality(Past(n)') <= d - 1 + Top(n)'
  <2>1. Cardinality(Past(n)') = Cardinality(Past(n)) + 1
    BY <1>0, <1>2, FS_AddElement DEF PassesDaily
  <2>2. Cardinality(Today(n)) <= d - 1
    <3>1. client[h].dailyLimit = d /\ client[h].name = n
      BY <1>2 DEF PassesDaily
    <3>2. ~(Cardinality(Today(n)) >= d)
      BY <1>2, <3>1 DEF PassesDaily, DailyExceeded, CountClientCallsSince, Today
    <3> QED
      BY <1>0, <3>2
  <2>3. peak'[n] >= Cardinality(Past(n)) + 1 /\ peak'[n] \in Nat
    BY <1>0, <1>2 DEF PassesDaily
  <2> QED
    BY <1>0, <1>2, <2>1, <2>2, <2>3 DEF PassesDaily, Top
<1>3. ASSUME NEW h \in Handlers, PassesRPM(n, h)
      PROVE  Cardinality(Today(n)') + Cardinality(Past(n)') <= d - 1 + Top(n)'
  BY <1>0, <1>3 DEF PassesRPM, Top
<1>4. ASSUME NEW h \in Handlers, BecomesRow(n, h)
      PROVE  Cardinality(Today(n)') + Cardinality(Past(n)') <= d - 1 + Top(n)'
  <2>1. PICK row : Today(n)' \subseteq Today(n) \cup {row}
    BY <1>4 DEF BecomesRow
  <2>2. Cardinality(Today(n)') + Cardinality(Past(n) \ {h})
          <= Cardinality(Today(n)) + Cardinality(Past(n))
    BY <1>0, <1>4, <2>1, Exchanged DEF BecomesRow
  <2>3. /\ Cardinality(Today(n)') \in Nat /\ Cardinality(Past(n)') \in Nat
    <3>1. IsFiniteSet(Today(n) \cup {row}) /\ IsFiniteSet(Past(n)')
      BY <1>0, <1>4, FS_AddElement, FS_Subset DEF BecomesRow
    <3> QED
      BY <2>1, <3>1, Smaller, FS_CardinalityType
  <2> QED
    BY <1>0, <1>4, <2>2, <2>3 DEF BecomesRow, Top
<1> QED
  BY <1>1, <1>2, <1>3, <1>4, QuotaStep

LEMMA RPMStep ==
    ASSUME TypeOK, Peaked, [Next]_vars, NEW n \in Names, NEW d \in Nat \ {0},
           \A h \in Handlers : pc[h] # "idle" /\ client[h].name = n => client[h].rpmLimit = d,
           Cardinality(Minute(n)) + Cardinality(PastRPMOf(n)) <= d - 1 + Top(n)
    PROVE  Cardinality(Minute(n)') + Cardinality(PastRPMOf(n)') <= d - 1 + Top(n)'
<1>0. /\ IsFiniteSet(Minute(n)) /\ Cardinality(Minute(n)) \in Nat
      /\ IsFiniteSet(Past(n)) /\ Cardinality(Past(n)) \in Nat
      /\ IsFiniteSet(PastRPMOf(n)) /\ Cardinality(PastRPMOf(n)) \in Nat
      /\ peak[n] \in Nat /\ Cardinality(Past(n)) <= peak[n]
  <2>1. now - MinuteLength \in Int
    BY TimeAssumption DEF TypeOK, Times
  <2>2. PICK minute \in Int : minute = now - MinuteLength
    BY <2>1
  <2>3. IsFiniteSet(RowsSince(n, minute)) /\ CountClientCallsSince(n, minute) \in Nat
    BY RowsFinite
  <2> QED
    BY <2>2, <2>3, PastFinite DEF Minute, CountClientCallsSince, TypeOK, Peaked
<1>1. CASE Shrinks(n)
  <2>1. /\ Cardinality(Minute(n)') \in Nat /\ Cardinality(Minute(n)') <= Cardinality(Minute(n))
        /\ Cardinality(PastRPMOf(n)') \in Nat
        /\ Cardinality(PastRPMOf(n)') <= Cardinality(PastRPMOf(n))
    BY <1>0, <1>1, Smaller DEF Shrinks
  <2> QED
    BY <1>0, <1>1, <2>1 DEF Shrinks, Top
<1>2. ASSUME NEW h \in Handlers, PassesDaily(n, h)
      PROVE  Cardinality(Minute(n)') + Cardinality(PastRPMOf(n)') <= d - 1 + Top(n)'
  <2>1. peak'[n] \in Nat /\ peak'[n] >= peak[n]
    BY <1>0, <1>2 DEF PassesDaily
  <2> QED
    BY <1>0, <1>2, <2>1 DEF PassesDaily, Top
<1>3. ASSUME NEW h \in Handlers, PassesRPM(n, h)
      PROVE  Cardinality(Minute(n)') + Cardinality(PastRPMOf(n)') <= d - 1 + Top(n)'
  <2>1. PastRPMOf(n)' \subseteq Past(n)
    BY <1>3 DEF PassesRPM, PastRPMOf
  <2>2. Cardinality(PastRPMOf(n)') \in Nat /\ Cardinality(PastRPMOf(n)') <= peak[n]
    <3>1. Cardinality(PastRPMOf(n)') \in Nat
          /\ Cardinality(PastRPMOf(n)') <= Cardinality(Past(n))
      BY <1>0, <2>1, Smaller
    <3> QED
      BY <1>0, <3>1
  <2>3. Cardinality(Minute(n)) <= d - 1
    <3>1. client[h].rpmLimit = d /\ client[h].name = n
      BY <1>3 DEF PassesRPM
    <3>2. ~(Cardinality(Minute(n)) >= d)
      BY <1>3, <3>1 DEF PassesRPM, RPMExceeded, CountClientCallsSince, Minute
    <3> QED
      BY <1>0, <3>2
  <2> QED
    BY <1>0, <1>3, <2>2, <2>3 DEF PassesRPM, Top
<1>4. ASSUME NEW h \in Handlers, BecomesRow(n, h)
      PROVE  Cardinality(Minute(n)') + Cardinality(PastRPMOf(n)') <= d - 1 + Top(n)'
  <2>1. PICK row : Minute(n)' \subseteq Minute(n) \cup {row}
    BY <1>4 DEF BecomesRow
  <2>2. Cardinality(Minute(n)') + Cardinality(PastRPMOf(n) \ {h})
          <= Cardinality(Minute(n)) + Cardinality(PastRPMOf(n))
    BY <1>0, <1>4, <2>1, Exchanged DEF BecomesRow
  <2>3. /\ Cardinality(Minute(n)') \in Nat /\ Cardinality(PastRPMOf(n)') \in Nat
    <3>1. IsFiniteSet(Minute(n) \cup {row}) /\ IsFiniteSet(PastRPMOf(n)')
      BY <1>0, <1>4, FS_AddElement, FS_Subset DEF BecomesRow
    <3> QED
      BY <2>1, <3>1, Smaller, FS_CardinalityType
  <2> QED
    BY <1>0, <1>4, <2>2, <2>3 DEF BecomesRow, Top
<1> QED
  BY <1>1, <1>2, <1>3, <1>4, QuotaStep

(***************************************************************************)
(* Every step keeps the invariant of the quotas.                           *)
(***************************************************************************)
LEMMA LimitedClient ==
    ASSUME FromConfig, NEW kind \in {"dailyLimit", "rpmLimit"}, NEW k \in LimitedClients(kind)
    PROVE  /\ k.name \in Names /\ k[kind] \in Nat \ {0}
           /\ \A h \in Handlers :
                 pc[h] # "idle" /\ client[h].name = k.name => client[h][kind] = k[kind]
<1>1. PICK c \in Configs : k \in c.clients
  BY DEF LimitedClients
<1>2. k \in Client
  BY <1>1, ConfigsAssumption DEF Config
<1>3. FixedLimit(k.name, kind, k[kind])
  BY DEF LimitedClients
<1>4. k.name \in Names /\ k[kind] \in Nat \ {0}
  BY <1>2, <1>3 DEF Client, FixedLimit
<1>5. ASSUME NEW h \in Handlers, pc[h] # "idle", client[h].name = k.name
      PROVE  client[h][kind] = k[kind]
  BY <1>3, <1>5 DEF FromConfig, FixedLimit
<1> QED
  BY <1>4, <1>5

LEMMA QuotaInvStep == QuotaInv /\ [Next]_vars => QuotaInv'
<1> SUFFICES ASSUME QuotaInv, [Next]_vars PROVE QuotaInv'
  OBVIOUS
<1>1. TypeOK' /\ FromConfig' /\ Peaked'
  BY NextTypeOK, FromConfigStep, PeakedStep DEF QuotaInv
<1>2. DailyOvershootBounded'
  <2> SUFFICES ASSUME NEW k \in LimitedClients("dailyLimit")
               PROVE  Cardinality(Today(k.name)') + Cardinality(Past(k.name)')
                        <= k.dailyLimit - 1 + Top(k.name)'
    BY DEF DailyOvershootBounded, CountClientCallsSince, Today, Top, LimitedClients,
           FixedLimit
  <2>1. /\ k.name \in Names /\ k.dailyLimit \in Nat \ {0}
        /\ \A h \in Handlers :
              pc[h] # "idle" /\ client[h].name = k.name => client[h].dailyLimit = k.dailyLimit
    BY LimitedClient DEF QuotaInv
  <2>2. Cardinality(Today(k.name)) + Cardinality(Past(k.name)) <= k.dailyLimit - 1 + Top(k.name)
    BY DEF QuotaInv, DailyOvershootBounded, CountClientCallsSince, Today, Top
  <2> QED
    BY <2>1, <2>2, DailyStep DEF QuotaInv
<1>3. RPMOvershootBounded'
  <2> SUFFICES ASSUME NEW k \in LimitedClients("rpmLimit")
               PROVE  Cardinality(Minute(k.name)') + Cardinality(PastRPMOf(k.name)')
                        <= k.rpmLimit - 1 + Top(k.name)'
    BY DEF RPMOvershootBounded, CountClientCallsSince, Minute, Top, LimitedClients,
           FixedLimit
  <2>1. /\ k.name \in Names /\ k.rpmLimit \in Nat \ {0}
        /\ \A h \in Handlers :
              pc[h] # "idle" /\ client[h].name = k.name => client[h].rpmLimit = k.rpmLimit
    BY LimitedClient DEF QuotaInv
  <2>2. Cardinality(Minute(k.name)) + Cardinality(PastRPMOf(k.name)) <= k.rpmLimit - 1 + Top(k.name)
    BY DEF QuotaInv, RPMOvershootBounded, CountClientCallsSince, Minute, Top
  <2> QED
    BY <2>1, <2>2, RPMStep DEF QuotaInv
<1> QED
  BY <1>1, <1>2, <1>3 DEF QuotaInv

(***************************************************************************)
(* It holds at the start: there are no rows and no requests.               *)
(***************************************************************************)
LEMMA QuotaInvInit == Init => QuotaInv
<1> SUFFICES ASSUME Init PROVE QuotaInv
  OBVIOUS
<1>1. TypeOK /\ FromConfig
  BY InitTypeOK DEF Init, FromConfig
<1>2. \A n : Past(n) = {} /\ PastRPMOf(n) = {}
  BY DEF Init, Past, PastRPMOf, PastDaily, PastRPM
<1>3. \A n : Cardinality(Past(n)) = 0 /\ Cardinality(PastRPMOf(n)) = 0
  BY <1>2, FS_EmptySet
<1>4. \A n \in Names : peak[n] = 0
  BY DEF Init
<1>5. Peaked
  BY <1>3, <1>4 DEF Peaked
<1>6. ASSUME NEW n \in Names, NEW since PROVE CountClientCallsSince(n, since) = 0
  <2>1. \A t \in Times : calls[n][t] = 0
    BY DEF Init, NoCalls
  <2>2. RowsSince(n, since) = {}
    BY <2>1 DEF RowsSince
  <2> QED
    BY <2>2, FS_EmptySet DEF CountClientCallsSince
<1>7. /\ \A k \in LimitedClients("dailyLimit") : k.name \in Names /\ k.dailyLimit \in Nat \ {0}
      /\ \A k \in LimitedClients("rpmLimit") : k.name \in Names /\ k.rpmLimit \in Nat \ {0}
  BY <1>1, LimitedClient
<1>8. DailyOvershootBounded
  BY <1>3, <1>4, <1>6, <1>7 DEF DailyOvershootBounded
<1>9. RPMOvershootBounded
  BY <1>3, <1>4, <1>6, <1>7 DEF RPMOvershootBounded
<1> QED
  BY <1>1, <1>5, <1>8, <1>9 DEF QuotaInv

(***************************************************************************)
(* daily_limit: whatever the interleaving of requests, edits, restarts and *)
(* the retention job, the rows of today and the requests that may still    *)
(* add one exceed the limit by less than the client's concurrency.         *)
(***************************************************************************)
THEOREM DailyLimitKept == Spec => []DailyOvershootBounded
<1>1. QuotaInv => DailyOvershootBounded
  BY DEF QuotaInv
<1> QED
  BY <1>1, QuotaInvInit, QuotaInvStep, PTL DEF Spec

(***************************************************************************)
(* rpm_limit: the same for the window of a minute, which ends later with   *)
(* every tick of the clock.                                                *)
(***************************************************************************)
THEOREM RPMLimitKept == Spec => []RPMOvershootBounded
<1>1. QuotaInv => RPMOvershootBounded
  BY DEF QuotaInv
<1> QED
  BY <1>1, QuotaInvInit, QuotaInvStep, PTL DEF Spec
=============================================================================
