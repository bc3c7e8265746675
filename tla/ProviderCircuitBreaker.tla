------------------------ MODULE ProviderCircuitBreaker ------------------------
(***************************************************************************)
(* backend/src/services/providerCircuitBreaker.service.ts: the breaker of  *)
(* one external provider, a row of provider_circuit_breaker_state that     *)
(* requests of any backend instance, the recovery sweep and the admin      *)
(* routes read and write without a transaction.                            *)
(*                                                                         *)
(* An action is one statement on the row, together with the code up to the *)
(* next await that touches the row; what a request read before an await is *)
(* in snap.  Requests for different providers never meet, so one row is    *)
(* enough.  The clock is read with the row: opened is the time since       *)
(* opened_at, cut off at MaxAge, and -1 when opened_at is NULL.  Fallback  *)
(* keys, the other timestamps and the audit log decide nothing here.       *)
(***************************************************************************)
EXTENDS Integers, FiniteSets

CONSTANTS
    Request,        \* concurrent users of callWithBreaker
    Thresholds,     \* values of failureThreshold, the default first
    Timeouts,       \* values of recoveryTimeoutMs
    DefaultThreshold,
    DefaultTimeout,
    MaxAge,         \* the clock stops here, above every timeout
    MaxCalls        \* bound of the model on the number of calls

ASSUME BreakerAssumption ==
    /\ IsFiniteSet(Request)
    /\ DefaultThreshold \in Thresholds /\ Thresholds \subseteq Nat \ {0}
    /\ DefaultTimeout \in Timeouts /\ Timeouts \subseteq 0..MaxAge
    /\ MaxAge \in Nat /\ MaxCalls \in Nat

VARIABLES
    row,        \* the breaker's row
    tripRows,   \* rows of provider_circuit_breaker_transitions to "open"
    calls,      \* calls admitted so far
    pc,         \* where each request stands
    snap,       \* what each request still needs of the row it last read
    sweep       \* "idle", or "flip": the sweep has read an open row

vars == <<row, tripRows, calls, pc, snap, sweep>>

BreakerState == {"closed", "open", "half_open"}
ManualOverride == {"none", "force_open", "force_closed"}

Row == [state : BreakerState, failures : 0..MaxCalls, threshold : Thresholds,
        timeout : Timeouts, trips : 0..MaxCalls, override : ManualOverride,
        opened : -1..MaxAge]

Snap == [state : BreakerState, failures : 0..MaxCalls, threshold : Thresholds]

Calling == {"call", "probe"}
Succeeding == {"s_reset", "s_close", "s_done"}
Failing == {"f_count", "f_trip", "f_log"}

TypeOK ==
    /\ row \in Row
    /\ tripRows \in 0..MaxCalls
    /\ calls \in 0..MaxCalls
    /\ pc \in [Request -> {"idle", "flip"} \cup Calling \cup Succeeding \cup Failing]
    /\ snap \in [Request -> Snap]
    /\ sweep \in {"idle", "flip"}

Go(r, label) == pc' = [pc EXCEPT ![r] = label]

NoSnap == [state |-> "closed", failures |-> 0, threshold |-> DefaultThreshold]

Read(r) ==
    snap' = [snap EXCEPT ![r] = [state |-> row.state, failures |-> row.failures,
                                 threshold |-> row.threshold]]

\* What a request has read and does not need any more is dropped.
Forget(r) == snap' = [snap EXCEPT ![r] = NoSnap]

Elapsed == row.opened = -1 \/ row.opened >= row.timeout

-----------------------------------------------------------------------------
(* callWithBreaker: isAvailable, the call, recordSuccess or recordFailure.  *)
(* A refused call changes nothing.                                          *)

Admit(r) ==
    /\ pc[r] = "idle" /\ calls < MaxCalls
    /\ \/ row.override = "force_closed" /\ Go(r, "call")
       \/ row.override = "none" /\ row.state = "closed" /\ Go(r, "call")
       \/ row.override = "none" /\ row.state = "half_open" /\ Go(r, "probe")
    /\ calls' = calls + 1
    /\ UNCHANGED <<row, tripRows, snap, sweep>>

\* isAvailable has read an open row whose recovery timeout is over.
SeeElapsed(r) ==
    /\ pc[r] = "idle" /\ calls < MaxCalls
    /\ row.override = "none" /\ row.state = "open" /\ Elapsed
    /\ Go(r, "flip")
    /\ calls' = calls + 1
    /\ UNCHANGED <<row, tripRows, snap, sweep>>

\* transition(..., "open", "half_open") names its row by the key alone.
HalfOpen == row' = [row EXCEPT !.state = "half_open"]

Flip(r) ==
    /\ pc[r] = "flip"
    /\ HalfOpen
    /\ Go(r, "probe")
    /\ UNCHANGED <<tripRows, calls, snap, sweep>>

\* The provider answered; recordSuccess reads the row.
Succeed(r) ==
    /\ pc[r] \in Calling
    /\ Read(r)
    /\ Go(r, "s_reset")
    /\ UNCHANGED <<row, tripRows, calls, sweep>>

ResetFailures(r) ==
    /\ pc[r] = "s_reset"
    /\ row' = [row EXCEPT !.failures = 0]
    /\ Go(r, IF snap[r].state = "half_open" THEN "s_close" ELSE "s_done")
    /\ Forget(r)
    /\ UNCHANGED <<tripRows, calls, sweep>>

Close(r) ==
    /\ pc[r] = "s_close"
    /\ row' = [row EXCEPT !.state = "closed", !.opened = -1]
    /\ Go(r, "s_done")
    /\ UNCHANGED <<tripRows, calls, snap, sweep>>

Return(r) ==
    /\ pc[r] = "s_done"
    /\ Go(r, "idle")
    /\ UNCHANGED <<row, tripRows, calls, snap, sweep>>

\* The provider failed, or a statement of recordSuccess did: the catch block
\* calls recordFailure either way, which reads the row.
Fail(r) ==
    /\ pc[r] \in Calling \cup Succeeding
    /\ Read(r)
    /\ Go(r, "f_count")
    /\ UNCHANGED <<row, tripRows, calls, sweep>>

Trips(s) ==
    \/ s.state = "half_open"
    \/ s.state = "closed" /\ s.failures + 1 >= s.threshold

\* Mutant: the catch block and recordFailure both count.
CountFailure_Twice(r) ==
    /\ pc[r] = "f_count"
    /\ row' = [row EXCEPT !.failures = snap[r].failures + 2]
    /\ Go(r, IF Trips(snap[r]) THEN "f_trip" ELSE "idle")
    /\ Forget(r)
    /\ UNCHANGED <<tripRows, calls, sweep>>

CountFailure(r) ==
    /\ pc[r] = "f_count"
    /\ row' = [row EXCEPT !.failures = snap[r].failures + 1]
    /\ Go(r, IF Trips(snap[r]) THEN "f_trip" ELSE "idle")
    /\ Forget(r)
    /\ UNCHANGED <<tripRows, calls, sweep>>

\* Mutant: a breaker that is open already is not counted again.
tripOpen_CountOnce(r) ==
    /\ pc[r] = "f_trip"
    /\ row' = [row EXCEPT !.state = "open", !.opened = 0,
                          !.trips = IF row.state = "open" THEN @ ELSE @ + 1]
    /\ Go(r, "f_log")
    /\ UNCHANGED <<tripRows, calls, snap, sweep>>

\* tripOpen: the row first, with trip_count + 1 computed by the database, ...
tripOpen(r) ==
    /\ pc[r] = "f_trip"
    /\ row' = [row EXCEPT !.state = "open", !.opened = 0, !.trips = @ + 1]
    /\ Go(r, "f_log")
    /\ UNCHANGED <<tripRows, calls, snap, sweep>>

\* ... then its row in the transition history.
recordTransition(r) ==
    /\ pc[r] = "f_log"
    /\ tripRows' = tripRows + 1
    /\ Go(r, "idle")
    /\ UNCHANGED <<row, calls, snap, sweep>>

\* A statement fails or the process stops: the request ends where it is.
Abort(r) ==
    /\ pc[r] # "idle"
    /\ Go(r, "idle")
    /\ Forget(r)
    /\ UNCHANGED <<row, tripRows, calls, sweep>>

-----------------------------------------------------------------------------
(* The recovery sweep and the admin routes.                                 *)

SweepRead ==
    /\ sweep = "idle"
    /\ row.state = "open" /\ row.override # "force_open" /\ Elapsed
    /\ sweep' = "flip"
    /\ UNCHANGED <<row, tripRows, calls, pc, snap>>

SweepFlip ==
    /\ sweep = "flip"
    /\ HalfOpen
    /\ sweep' = "idle"
    /\ UNCHANGED <<tripRows, calls, pc, snap>>

SweepAbort ==
    /\ sweep = "flip"
    /\ sweep' = "idle"
    /\ UNCHANGED <<row, tripRows, calls, pc, snap>>

\* Mutant: a forced-open breaker has no opened_at.
setManualOverride_NoTimer(o) ==
    /\ row' = CASE o = "force_closed" -> [row EXCEPT !.override = o,
                                            !.state = "closed", !.failures = 0]
                [] o = "force_open"   -> [row EXCEPT !.override = o, !.state = "open"]
                [] o = "none"         -> [row EXCEPT !.override = o]
    /\ UNCHANGED <<tripRows, calls, pc, snap, sweep>>

setManualOverride(o) ==
    /\ row' = CASE o = "force_closed" -> [row EXCEPT !.override = o,
                                            !.state = "closed", !.failures = 0]
                [] o = "force_open"   -> [row EXCEPT !.override = o,
                                            !.state = "open", !.opened = 0]
                [] o = "none"         -> [row EXCEPT !.override = o]
    /\ UNCHANGED <<tripRows, calls, pc, snap, sweep>>

\* Mutant: new thresholds also restart the recovery timeout.
configureThresholds_Restart(threshold, timeout) ==
    /\ row' = [row EXCEPT !.threshold = threshold, !.timeout = timeout,
                          !.opened = IF @ > 0 THEN 0 ELSE @]
    /\ UNCHANGED <<tripRows, calls, pc, snap, sweep>>

configureThresholds(threshold, timeout) ==
    /\ row' = [row EXCEPT !.threshold = threshold, !.timeout = timeout]
    /\ UNCHANGED <<tripRows, calls, pc, snap, sweep>>

Tick ==
    /\ row.opened \in 0..(MaxAge - 1)
    /\ row' = [row EXCEPT !.opened = @ + 1]
    /\ UNCHANGED <<tripRows, calls, pc, snap, sweep>>

-----------------------------------------------------------------------------

\* The row as ensureState inserts it.
NewRow == [state |-> "closed", failures |-> 0, threshold |-> DefaultThreshold,
           timeout |-> DefaultTimeout, trips |-> 0, override |-> "none",
           opened |-> -1]

Init ==
    /\ row = NewRow
    /\ tripRows = 0
    /\ calls = 0
    /\ pc = [r \in Request |-> "idle"]
    /\ snap = [r \in Request |-> NoSnap]
    /\ sweep = "idle"

callWithBreaker(r) ==
    \/ Admit(r) \/ SeeElapsed(r) \/ Flip(r)
    \/ Succeed(r) \/ ResetFailures(r) \/ Close(r) \/ Return(r)
    \/ Fail(r) \/ CountFailure(r) \/ tripOpen(r) \/ recordTransition(r)
    \/ Abort(r)

Next ==
    \/ \E r \in Request : callWithBreaker(r)
    \/ SweepRead \/ SweepFlip \/ SweepAbort
    \/ \E o \in ManualOverride : setManualOverride(o)
    \/ \E n \in Thresholds, t \in Timeouts : configureThresholds(n, t)
    \/ Tick

Spec == Init /\ [][Next]_vars

\* Time passes, the sweep is scheduled again and again, and its statement
\* does not fail every time.
Fairness == WF_vars(Tick) /\ WF_vars(SweepRead) /\ SF_vars(SweepFlip)

FairSpec == Spec /\ Fairness

-----------------------------------------------------------------------------
(* Properties.                                                              *)

\* An open breaker always knows since when: a NULL opened_at would count as
\* long ago and let the next request through at once.  Stale writes of
\* requests, of the sweep and of the admin, in any order, keep it so.
OpenHasTimer == row.state = "open" => row.opened # -1

\* No row of the history records a trip that trip_count does not count,
\* however the trips of concurrent requests interleave and wherever a
\* request ends early.
TripsAreCounted ==
    tripRows + Cardinality({r \in Request : pc[r] = "f_log"}) <= row.trips

\* A breaker that nobody forces open does not stay open: the sweep finds it,
\* although late trips restart its timer and the admin changes the timeout.
OpenEnds ==
    row.state = "open" /\ row.override # "force_open" ~>
        row.state # "open" \/ row.override = "force_open"

\* src/backend/src/services/providerCircuitBreaker.service.ts:221 says that
\* the sweep flips open breakers: a breaker becomes half-open only from open.
HalfOpenFromOpen ==
    [][row.state # "half_open" /\ row'.state = "half_open"
          => row.state = "open"]_vars
=============================================================================
