------------------------------ MODULE Lifecycle ------------------------------
(***************************************************************************)
(* The process from its start to its exit: main and startRetentionJob      *)
(* (cmd/ai-hub/main.go), Server.Shutdown, and what they mean for handlers  *)
(* whose call is still to be logged (the deferred LogCall of               *)
(* internal/proxy/proxy.go).                                               *)
(*                                                                         *)
(*   main: running -Signal-> retention -RetentionStopped-> drain           *)
(*         -Drained or DrainExpires-> close -CloseStore-> return -Exit->   *)
(*                                                                         *)
(* A handler stays upstream as long as its provider's timeout allows, which*)
(* may be longer than the ten seconds of the drain.                        *)
(***************************************************************************)
EXTENDS Integers, FiniteSets

CONSTANTS
    Handlers,       \* goroutines that serve proxied calls
    MaxRequests,    \* bound: calls accepted
    MaxTicks        \* bound: ticks of the retention job's timer

ASSUME HandlersFinite == IsFiniteSet(Handlers)
ASSUME LifecycleBounds == MaxRequests \in Nat /\ MaxTicks \in Nat

VARIABLES
    main,       \* where the main goroutine is
    listening,  \* the listener accepts connections
    pc,         \* where each handler is
    retention,  \* the retention goroutine, off if there is none
    cancelled,  \* the context of the retention goroutine is
    db,         \* the database handle is open
    late,       \* history: handlers still busy when the drain ran out of time, or
                \* when the listener broke and took the process with it
    requests,   \* calls accepted
    rows,       \* calls logged
    failed,     \* calls whose LogCall failed though the database was open
    ticks       \* ticks of the timer

calls == <<pc, requests, rows, failed>>
job == <<retention, cancelled, ticks>>
vars == <<main, listening, calls, job, db, late>>

MainPlaces == {"running", "retention", "drain", "close", "return", "exited"}

Init ==
    /\ main = "running"
    /\ listening = FALSE
    /\ pc = [h \in Handlers |-> "idle"]
    /\ retention \in {"off", "deleting"}
    /\ cancelled = FALSE
    /\ db = TRUE
    /\ late = 0
    /\ requests = 0
    /\ rows = 0
    /\ failed = 0
    /\ ticks = 0

Up == main # "exited"
Busy == {h \in Handlers : pc[h] # "idle"}

(***************************************************************************)
(* The goroutine of ListenAndServe.  Any error of it ends the process at   *)
(* once: an address in use, or a listener that breaks while calls are in   *)
(* flight, which get no drain.  A server that is being shut down does not  *)
(* listen any more.                                                        *)
(***************************************************************************)
Listen ==
    /\ main \in {"running", "retention"}
    /\ ~listening
    /\ listening' = TRUE
    /\ UNCHANGED <<main, calls, job, db, late>>

ListenFails ==
    /\ main \in {"running", "retention"}
    /\ main' = "exited"
    /\ listening' = FALSE
    /\ late' = Cardinality(Busy)
    /\ UNCHANGED <<calls, job, db>>

-----------------------------------------------------------------------------
(***************************************************************************)
(* A proxied call, reduced to where it is when the process goes down.      *)
(***************************************************************************)
Accept(h) ==
    /\ Up
    /\ listening
    /\ pc[h] = "idle"
    /\ requests < MaxRequests
    /\ requests' = requests + 1
    /\ pc' = [pc EXCEPT ![h] = "upstream"]
    /\ UNCHANGED <<main, listening, rows, failed, job, db, late>>

UpstreamEnds(h) ==
    /\ Up
    /\ pc[h] = "upstream"
    /\ pc' = [pc EXCEPT ![h] = "logging"]
    /\ UNCHANGED <<main, listening, requests, rows, failed, job, db, late>>

(***************************************************************************)
(* The context of LogCall is not the request's: neither the client's going *)
(* nor the shutdown cancels it.  A closed database refuses it.             *)
(***************************************************************************)
LogCall(h) ==
    /\ Up
    /\ pc[h] = "logging"
    /\ pc' = [pc EXCEPT ![h] = "idle"]
    /\ rows' = IF db THEN rows + 1 ELSE rows
    /\ UNCHANGED <<main, listening, requests, failed, job, db, late>>

(***************************************************************************)
(* The insert fails, or takes longer than logCallTimeout.                  *)
(***************************************************************************)
LogCallFails(h) ==
    /\ Up
    /\ pc[h] = "logging"
    /\ db
    /\ pc' = [pc EXCEPT ![h] = "idle"]
    /\ failed' = failed + 1
    /\ UNCHANGED <<main, listening, requests, rows, job, db, late>>

-----------------------------------------------------------------------------
(***************************************************************************)
(* startRetentionJob: one run at the start and one per tick; a run under a *)
(* cancelled context returns at once.  With both the tick and the          *)
(* cancellation ready, select takes either.                                *)
(***************************************************************************)
RetentionRuns ==
    /\ Up
    /\ retention = "deleting"
    /\ retention' = "waiting"
    /\ UNCHANGED <<main, listening, calls, cancelled, ticks, db, late>>

RetentionTick ==
    /\ Up
    /\ retention = "waiting"
    /\ ticks < MaxTicks
    /\ ticks' = ticks + 1
    /\ retention' = "deleting"
    /\ UNCHANGED <<main, listening, calls, cancelled, db, late>>

(***************************************************************************)
(* A definition whose name begins with Mutant is a plausible slip in the   *)
(* one that follows it; no action uses it.  Here: a run that failed ended  *)
(* the goroutine, and not only itself.                                     *)
(***************************************************************************)
MutantRetentionEnds ==
    /\ Up
    /\ retention = "waiting"
    /\ retention' = "stopped"
    /\ UNCHANGED <<main, listening, calls, cancelled, ticks, db, late>>

RetentionEnds ==
    /\ Up
    /\ retention = "waiting"
    /\ cancelled
    /\ retention' = "stopped"
    /\ UNCHANGED <<main, listening, calls, cancelled, ticks, db, late>>

-----------------------------------------------------------------------------
(***************************************************************************)
(* SIGINT or SIGTERM.  A second one stays in the channel.                  *)
(***************************************************************************)
Signal ==
    /\ main = "running"
    /\ main' = "retention"
    /\ cancelled' = (retention # "off")
    /\ UNCHANGED <<listening, calls, retention, ticks, db, late>>

(***************************************************************************)
(* stopRetention returned without the wait for "done".                     *)
(***************************************************************************)
MutantRetentionGone == TRUE

RetentionGone == retention \in {"off", "stopped"}

(***************************************************************************)
(* http.Server.Shutdown closes the listener first.                         *)
(***************************************************************************)
RetentionStopped ==
    /\ main = "retention"
    /\ RetentionGone
    /\ main' = "drain"
    /\ listening' = FALSE
    /\ UNCHANGED <<calls, job, db, late>>

(***************************************************************************)
(* The handlers waited for only until their answer is complete.            *)
(***************************************************************************)
MutantDrained ==
    /\ main = "drain"
    /\ \A h \in Handlers : pc[h] # "upstream"
    /\ main' = "close"
    /\ UNCHANGED <<listening, calls, job, db, late>>

Drained ==
    /\ main = "drain"
    /\ Busy = {}
    /\ main' = "close"
    /\ UNCHANGED <<listening, calls, job, db, late>>

(***************************************************************************)
(* The drain without a deadline.                                           *)
(***************************************************************************)
MutantDrainExpires == FALSE /\ UNCHANGED vars

DrainExpires ==
    /\ main = "drain"
    /\ Busy # {}
    /\ main' = "close"
    /\ late' = Cardinality(Busy)
    /\ UNCHANGED <<listening, calls, job, db>>

CloseStore ==
    /\ main = "close"
    /\ main' = "return"
    /\ db' = FALSE
    /\ UNCHANGED <<listening, calls, job, late>>

(***************************************************************************)
(* The process ends with its main goroutine, whatever the others do.       *)
(***************************************************************************)
Exit ==
    /\ main = "return"
    /\ main' = "exited"
    /\ UNCHANGED <<listening, calls, job, db, late>>

Shutdown == \/ RetentionStopped
            \/ Drained \/ DrainExpires
            \/ CloseStore \/ Exit

Main == Signal \/ Shutdown

Retention == RetentionRuns \/ RetentionTick \/ RetentionEnds

Next == \/ Listen \/ ListenFails
        \/ \E h \in Handlers : Accept(h) \/ UpstreamEnds(h) \/ LogCall(h) \/ LogCallFails(h)
        \/ Retention
        \/ Main

Spec == Init /\ [][Next]_vars

(***************************************************************************)
(* Goroutines that can run do, a retention query whose context is          *)
(* cancelled returns, and select takes either of two ready cases in the    *)
(* long run.  Nothing is assumed of the handlers: their upstreams may be   *)
(* silent longer than anyone waits.                                        *)
(***************************************************************************)
FairSpec == /\ Spec
            /\ WF_vars(Shutdown)
            /\ WF_vars(RetentionRuns)
            /\ SF_vars(RetentionEnds)

-----------------------------------------------------------------------------
TypeOK ==
    /\ main \in MainPlaces
    /\ listening \in BOOLEAN
    /\ pc \in [Handlers -> {"idle", "upstream", "logging"}]
    /\ retention \in {"off", "deleting", "waiting", "stopped"}
    /\ cancelled \in BOOLEAN
    /\ retention = "stopped" => cancelled
    /\ db \in BOOLEAN
    /\ late \in Nat
    /\ requests \in Nat /\ rows \in Nat /\ failed \in Nat
    /\ ticks \in Nat

(***************************************************************************)
(* Every call that was accepted is logged, or its insert failed, or a      *)
(* handler still has it; what is lost beyond that, to the closed database  *)
(* or to the exit, is at most one call of each handler that outlived the   *)
(* drain or was busy when the listener broke.  A drain in time loses       *)
(* nothing.                                                                *)
(***************************************************************************)
Lost == requests - rows - failed - IF Up THEN Cardinality(Busy) ELSE 0

LossBounded == Lost \in 0 .. late

(***************************************************************************)
(* The retention job never meets a closed database, whatever it is doing   *)
(* when the signal comes.                                                  *)
(***************************************************************************)
RetentionBeforeClose == ~db => retention \in {"off", "stopped"}

(***************************************************************************)
(* Once signalled, the process exits, though its handlers never end.       *)
(***************************************************************************)
ShutdownCompletes == main = "retention" ~> main = "exited"
=============================================================================
