-------------------------- MODULE Lifecycle_proofs --------------------------
(***************************************************************************)
(* Theorems about Lifecycle, for any finite number of handlers and any     *)
(* number of calls.                                                        *)
(***************************************************************************)
EXTENDS Lifecycle, FiniteSetTheorems, TLAPS

(***************************************************************************)
(* Calls that are neither logged nor failed.                               *)
(***************************************************************************)
Open == requests - rows - failed

(***************************************************************************)
(* What is known at each place of the main goroutine: while the database   *)
(* is open to all, every open call is in a handler; from the close on, the *)
(* open calls are bounded by the handlers that were late.                  *)
(***************************************************************************)
Serving == main \in {"running", "retention", "drain"}

Phases ==
    /\ listening => main \in {"running", "retention"}
    /\ main \in {"running", "retention"} /\ ~listening => Busy = {}
    /\ Serving => Open = Cardinality(Busy) /\ late = 0 /\ db
    /\ main \in {"close", "return"} => Cardinality(Busy) <= Open /\ Open <= late
    /\ main = "exited" => 0 <= Open /\ Open <= late
    /\ main \in {"drain", "close", "return"} => retention \in {"off", "stopped"}

Inv == TypeOK /\ Phases /\ RetentionBeforeClose

(***************************************************************************)
(* The busy handlers can be counted, before and after a handler becomes    *)
(* busy or idle.                                                           *)
(***************************************************************************)
LEMMA BusyCounted == IsFiniteSet(Busy) /\ Cardinality(Busy) \in Nat
  BY HandlersFinite, FS_Subset, FS_CardinalityType DEF Busy

LEMMA BusyMore ==
    ASSUME TypeOK, NEW h \in Handlers, NEW place \in {"upstream", "logging"},
           pc[h] = "idle", pc' = [pc EXCEPT ![h] = place]
    PROVE  Cardinality(Busy)' = Cardinality(Busy) + 1
<1>1. Busy' = Busy \cup {h} /\ h \notin Busy
  BY DEF TypeOK, Busy
<1> QED
  BY <1>1, BusyCounted, FS_AddElement

LEMMA BusyFewer ==
    ASSUME TypeOK, NEW h \in Handlers, pc[h] # "idle", pc' = [pc EXCEPT ![h] = "idle"]
    PROVE  Cardinality(Busy)' = Cardinality(Busy) - 1
<1>1. Busy' = Busy \ {h} /\ h \in Busy
  BY DEF TypeOK, Busy
<1> QED
  BY <1>1, BusyCounted, FS_RemoveElement

(***************************************************************************)
(* The start of the process.                                               *)
(***************************************************************************)
LEMMA InitInv == Init => Inv
<1> SUFFICES ASSUME Init PROVE Inv
  OBVIOUS
<1>1. Busy = {} /\ Cardinality(Busy) = 0
  BY FS_EmptySet DEF Init, Busy
<1>2. TypeOK /\ RetentionBeforeClose
  BY DEF Init, TypeOK, MainPlaces, RetentionBeforeClose
<1>3. Phases
  BY <1>1 DEF Init, Phases, Serving, Open
<1> QED
  BY <1>2, <1>3 DEF Inv

(***************************************************************************)
(* A step of a handler.                                                    *)
(***************************************************************************)
LEMMA HandlerInv ==
    ASSUME Inv, NEW h \in Handlers,
           Accept(h) \/ UpstreamEnds(h) \/ LogCall(h) \/ LogCallFails(h)
    PROVE  Inv'
<1> USE DEF Inv
<1>1. TypeOK'
  BY DEF TypeOK, Accept, UpstreamEnds, LogCall, LogCallFails, job
<1>2. RetentionBeforeClose'
  BY DEF RetentionBeforeClose, Accept, UpstreamEnds, LogCall, LogCallFails, job
<1>3. Cardinality(Busy) \in Nat /\ requests \in Int /\ rows \in Int /\ failed \in Int
      /\ late \in Int
  BY BusyCounted DEF TypeOK
<1>4. CASE Accept(h)
  <2>1. Cardinality(Busy)' = Cardinality(Busy) + 1
    BY <1>4, BusyMore DEF Accept
  <2>2. main \in {"running", "retention"} /\ listening /\ UNCHANGED <<main, listening, late, db, rows, failed, retention>>
        /\ requests' = requests + 1
    BY <1>4 DEF Accept, Phases, job
  <2>3. Phases'
    BY <1>3, <2>1, <2>2 DEF Phases, Serving, Open
  <2> QED
    BY <1>1, <1>2, <2>3
<1>5. CASE UpstreamEnds(h)
  <2>1. Busy' = Busy
    BY <1>5 DEF UpstreamEnds, Busy, TypeOK
  <2>2. UNCHANGED <<main, listening, late, db, requests, rows, failed, retention>>
    BY <1>5 DEF UpstreamEnds, job
  <2>3. Phases'
    BY <2>1, <2>2 DEF Phases, Serving, Open
  <2> QED
    BY <1>1, <1>2, <2>3
<1>6. CASE LogCall(h) \/ LogCallFails(h)
  <2>1. Cardinality(Busy)' = Cardinality(Busy) - 1 /\ h \in Busy
    BY <1>6, BusyFewer DEF LogCall, LogCallFails, Busy
  <2>2. /\ UNCHANGED <<main, listening, late, db, requests, retention>>
        /\ main # "exited"
        /\ Open' = (IF db THEN Open - 1 ELSE Open)
    BY <1>3, <1>6 DEF LogCall, LogCallFails, job, Up, Open
  <2>3. Busy' \subseteq Busy
    BY <1>6 DEF LogCall, LogCallFails, Busy, TypeOK
  <2>4. Open \in Int
    BY <1>3 DEF Open
  <2>5. Phases'
    <3>1. Serving => Open' = Cardinality(Busy)' /\ late' = 0 /\ db'
      BY <1>3, <2>1, <2>2, <2>4 DEF Phases
    <3>2. main \in {"close", "return"} => Cardinality(Busy)' <= Open' /\ Open' <= late'
      BY <1>3, <2>1, <2>2, <2>4 DEF Phases
    <3> QED
      BY <2>1, <2>2, <2>3, <3>1, <3>2 DEF Phases, Serving, TypeOK, MainPlaces
  <2> QED
    BY <1>1, <1>2, <2>5
<1> QED
  BY <1>4, <1>5, <1>6

(***************************************************************************)
(* A step of the retention job, of the listener or of the main goroutine.  *)
(***************************************************************************)
LEMMA OtherInv ==
    ASSUME Inv, Listen \/ ListenFails \/ Retention \/ Main
    PROVE  Inv'
<1> USE DEF Inv
<1>1. UNCHANGED <<calls, Busy, Open>>
  BY DEF Listen, ListenFails, Retention, RetentionRuns, RetentionTick, RetentionEnds,
         Main, Shutdown, Signal, RetentionStopped, Drained, DrainExpires, CloseStore, Exit,
         calls, Busy, Open
<1>2. /\ Cardinality(Busy)' = Cardinality(Busy)
      /\ Cardinality(Busy) \in Nat /\ Open \in Int /\ late \in Nat
      /\ Busy = {} => Cardinality(Busy) = 0
  BY <1>1, BusyCounted, FS_EmptySet DEF TypeOK, Open
<1>3. TypeOK'
  <2>1. UNCHANGED <<pc, requests, rows, failed>>
    BY <1>1 DEF calls
  <2>2. main' \in MainPlaces /\ listening' \in BOOLEAN
    BY DEF TypeOK, MainPlaces, Listen, ListenFails, Retention, RetentionRuns, RetentionTick,
           RetentionEnds, Main, Shutdown, Signal, RetentionStopped, Drained, DrainExpires,
           CloseStore, Exit
  <2>3. retention' \in {"off", "deleting", "waiting", "stopped"} /\ ticks' \in Nat
    BY DEF TypeOK, Listen, ListenFails, Retention, RetentionRuns, RetentionTick,
           RetentionEnds, Main, Shutdown, Signal, RetentionStopped, Drained, DrainExpires,
           CloseStore, Exit, job
  <2>4. cancelled' \in BOOLEAN /\ db' \in BOOLEAN
    <3>1. CASE Signal
      BY <3>1, Zenon DEF Signal, TypeOK
    <3>2. CASE ~Signal
      BY <3>2 DEF TypeOK, Listen, ListenFails, Retention, RetentionRuns, RetentionTick,
             RetentionEnds, Main, Shutdown, RetentionStopped, Drained, DrainExpires,
             CloseStore, Exit, job
    <3> QED
      BY <3>1, <3>2
  <2>5. retention' = "stopped" => cancelled'
    <3>1. CASE Signal
      BY <3>1 DEF Signal, TypeOK
    <3>2. CASE ~Signal
      BY <3>2 DEF TypeOK, Listen, ListenFails, Retention, RetentionRuns, RetentionTick,
             RetentionEnds, Main, Shutdown, RetentionStopped, Drained, DrainExpires,
             CloseStore, Exit, job
    <3> QED
      BY <3>1, <3>2
  <2>6. late' \in Nat
    BY <1>2 DEF Listen, ListenFails, Retention, RetentionRuns, RetentionTick, RetentionEnds,
           Main, Shutdown, Signal, RetentionStopped, Drained, DrainExpires, CloseStore, Exit
  <2> QED
    BY <2>1, <2>2, <2>3, <2>4, <2>5, <2>6 DEF TypeOK
<1>4. CASE Listen
  BY <1>1, <1>2, <1>3, <1>4
     DEF Listen, Phases, Serving, RetentionBeforeClose, job, TypeOK
<1>9. CASE ListenFails
  <2>1. /\ main' = "exited" /\ late' = Cardinality(Busy) /\ Open' = Open
        /\ db' = db /\ retention' = retention
    BY <1>1, <1>9 DEF ListenFails, job
  <2>2. db /\ Open = Cardinality(Busy)
    BY <1>9 DEF ListenFails, Phases, Serving
  <2>3. ~listening'
    BY <1>9 DEF ListenFails
  <2> QED
    BY <1>2, <1>3, <2>1, <2>2, <2>3 DEF Phases, Serving, RetentionBeforeClose
<1>5. CASE Retention
  BY <1>1, <1>2, <1>3, <1>5
     DEF Retention, RetentionRuns, RetentionTick, RetentionEnds, Phases, Serving,
         RetentionBeforeClose, Up
<1>6. CASE Signal \/ RetentionStopped
  BY <1>1, <1>2, <1>3, <1>6
     DEF Signal, RetentionStopped, RetentionGone, Phases, Serving, RetentionBeforeClose, job
<1>7. CASE Drained \/ DrainExpires
  BY <1>1, <1>2, <1>3, <1>7
     DEF Drained, DrainExpires, Phases, Serving, RetentionBeforeClose, job
<1>8. CASE CloseStore \/ Exit
  BY <1>1, <1>2, <1>3, <1>8
     DEF CloseStore, Exit, Phases, Serving, RetentionBeforeClose, job
<1> QED
  BY <1>4, <1>5, <1>6, <1>7, <1>8, <1>9 DEF Main, Shutdown

(***************************************************************************)
(* The invariant holds throughout the life of the process.                 *)
(***************************************************************************)
LEMMA Invariance == Spec => []Inv
<1>1. Inv /\ [Next]_vars => Inv'
  <2> SUFFICES ASSUME Inv, [Next]_vars PROVE Inv'
    OBVIOUS
  <2>1. CASE UNCHANGED vars
    <3>1. Busy' = Busy
      BY <2>1 DEF vars, calls, Busy
    <3> QED
      BY <2>1, <3>1 DEF vars, calls, job, Inv, TypeOK, Phases, Serving, Open,
                       RetentionBeforeClose
  <2> QED
    BY <2>1, HandlerInv, OtherInv DEF Next
<1> QED
  BY <1>1, InitInv, PTL DEF Spec

(***************************************************************************)
(* Every state of the process is of its type.                              *)
(***************************************************************************)
THEOREM LifecycleTypeCorrect == Spec => []TypeOK
<1>1. Inv => TypeOK
  BY DEF Inv
<1> QED
  BY <1>1, Invariance, PTL

(***************************************************************************)
(* A call record is lost only by a handler that outlived the drain or was  *)
(* busy when the listener broke, and by each at most one.                  *)
(***************************************************************************)
THEOREM DrainInTimeLosesNothing == Spec => []LossBounded
<1>1. Inv => LossBounded
  <2> SUFFICES ASSUME Inv PROVE Lost \in 0 .. late
    BY DEF LossBounded
  <2>1. Cardinality(Busy) \in Nat /\ Open \in Int /\ late \in Nat
    BY BusyCounted DEF Inv, TypeOK, Open
  <2>2. Lost = Open - (IF Up THEN Cardinality(Busy) ELSE 0)
    BY DEF Lost, Open
  <2>3. CASE Serving
    BY <2>1, <2>2, <2>3 DEF Inv, Phases, Serving, Up
  <2>4. CASE main \in {"close", "return"}
    BY <2>1, <2>2, <2>4 DEF Inv, Phases, Up
  <2>5. CASE main = "exited"
    BY <2>1, <2>2, <2>5 DEF Inv, Phases, Up
  <2> QED
    BY <2>3, <2>4, <2>5 DEF Inv, TypeOK, MainPlaces, Serving
<1> QED
  BY <1>1, Invariance, PTL

(***************************************************************************)
(* stopRetention has waited for the job before the database is closed.     *)
(***************************************************************************)
THEOREM RetentionNeverMeetsClosedStore == Spec => []RetentionBeforeClose
<1>1. Inv => RetentionBeforeClose
  BY DEF Inv
<1> QED
  BY <1>1, Invariance, PTL
=============================================================================
