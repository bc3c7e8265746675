------------------------ MODULE BackendServicesProofs ------------------------
(***************************************************************************)
(* The backend's services, for every set of deliveries, alerts, priorities *)
(* and closing requests, every bound on attempts and stalls, and any       *)
(* number of streams and crashes: the supervisor of the Horizon streams,   *)
(* the delivery of webhooks, the windows of alerts and the provider        *)
(* circuit breaker.                                                        *)
(***************************************************************************)
EXTENDS StreamSupervisor, WebhookDelivery, AlertWindows, ProviderCircuitBreaker,
        FiniteSums, SequenceTheorems

(***************************************************************************)
(* The stream supervisor.                                                  *)
(***************************************************************************)

\* What StreamSound needs to be inductive.  An open response was asked for
\* with the current cursor, a failed attempt is counted once, and whatever is
\* scheduled or running belongs to a stream that is supervised.
StreamInv ==
    /\ StreamSound
    /\ status \in {"closed", "connecting", "connected", "reconnecting", "error"}
    /\ conn \in {"none", "fetching", "reading"}
    /\ lastCursor \in 0 .. MaxEvents /\ origin \in 0 .. lastCursor
    /\ pos \in 0 .. MaxEvents /\ sent \in 0 .. MaxEvents
    /\ conn = "reading" => pos = lastCursor
    /\ failures = reconnectCount + (IF outage THEN 1 ELSE 0)
    /\ outage => conn = "none" /\ ~reconnectTimer /\ failures = MaxReconnects + 1
    /\ ~supervised => conn = "none" /\ ~reconnectTimer

\* What zero and one are within, whatever the constants.
LEMMA StreamBounds ==
    /\ MaxReconnects \in Nat /\ MaxEvents \in Nat /\ 1 <= MaxEvents
    /\ 0 \in 0 .. MaxReconnects /\ 0 \in 0 .. MaxReconnects + 1
BY StreamAssumption

\* Two runs of consecutive events that meet are one run.
LEMMA RunsJoin ==
    ASSUME NEW o \in Nat, NEW n \in Nat, NEW m \in Nat
    PROVE  [i \in 1 .. n |-> o + i] \o [i \in 1 .. m |-> o + n + i]
               = [i \in 1 .. n + m |-> o + i]
<1> DEFINE a == [i \in 1 .. n |-> o + i]
           b == [i \in 1 .. m |-> o + n + i]
           c == [i \in 1 .. n + m |-> o + i]
<1>1. a \in Seq(Nat) /\ Len(a) = n
  OBVIOUS
<1>2. b \in Seq(Nat) /\ Len(b) = m
  OBVIOUS
<1>3. c \in Seq(Nat) /\ Len(c) = n + m
  OBVIOUS
<1>4. a \o b \in Seq(Nat) /\ Len(a \o b) = n + m
  BY <1>1, <1>2
<1>5. ASSUME NEW i \in 1 .. n + m
      PROVE  (a \o b)[i] = c[i]
  <2>1. CASE i <= n
    BY <2>1, <1>1, <1>2
  <2>2. CASE i > n
    <3>1. (a \o b)[i] = b[i - n]
      BY <2>2, <1>1, <1>2
    <3>2. i - n \in 1 .. m
      BY <2>2
    <3> QED
      BY <3>1, <3>2
  <2> QED
    BY <2>1, <2>2
<1> HIDE DEF a, b, c
<1>6. a \o b = c
  BY <1>3, <1>4, <1>5, SeqEqual
<1> QED
  BY <1>6 DEF a, b, c

LEMMA StreamInitial == StreamInit => StreamInv
<1> SUFFICES ASSUME StreamInit PROVE StreamInv
  OBVIOUS
<1>1. EventsInOrder
  BY DEF StreamInit, EventsInOrder
<1>2. StreamFlags
  BY DEF StreamInit, StreamFlags
<1>3. StreamTypeOK /\ ReconnectsInTurn
  BY <1>2, StreamBounds DEF StreamInit, StreamTypeOK, ReconnectsInTurn
<1> QED
  BY <1>1, <1>3, StreamBounds DEF StreamInit, StreamInv, StreamSound

\* A flag stays a flag.
LEMMA FlagsStep == StreamFlags /\ [StreamNext]_streamVars => StreamFlags'
BY DEF StreamFlags, StreamNext, streamVars, add, remove, connected, unreachable, badAnswer,
       broken, fail, _scheduleReconnect, abortOwn, abortStray, ended, goSilent, reconnect,
       gapCheck, serverWrites, _processLines

\* An attempt or a connection that fails.
LEMMA StreamFailKeeps ==
    ASSUME StreamInv, StreamFlags', NEW b \in BOOLEAN, conn # "none", fail(b)
    PROVE  StreamInv'
<1>1. ~outage /\ ~reconnectTimer /\ supervised
  BY DEF StreamInv, StreamSound, ReconnectsInTurn
<1>2. EventsInOrder'
  BY DEF StreamInv, StreamSound, EventsInOrder, fail
<1>3. CASE reconnectCount >= MaxReconnects
  BY <1>1, <1>2, <1>3, StreamAssumption
     DEF StreamInv, StreamSound, StreamTypeOK, ReconnectsInTurn, fail, _scheduleReconnect
<1>4. CASE ~(reconnectCount >= MaxReconnects)
  BY <1>1, <1>2, <1>4, StreamAssumption
     DEF StreamInv, StreamSound, StreamTypeOK, ReconnectsInTurn, fail, _scheduleReconnect
<1> QED
  BY <1>3, <1>4

LEMMA StreamStep == StreamInv /\ [StreamNext]_streamVars => StreamInv'
<1> SUFFICES ASSUME StreamInv, [StreamNext]_streamVars PROVE StreamInv'
  OBVIOUS
<1> USE StreamBounds
<1>0. StreamFlags'
  BY FlagsStep DEF StreamInv, StreamSound, StreamTypeOK
<1> USE <1>0
<1>1. ASSUME NEW c \in 0 .. 1, add(c) PROVE StreamInv'
  <2>1. EventsInOrder'
    BY <1>1 DEF add, EventsInOrder
  <2>2. StreamTypeOK' /\ ReconnectsInTurn'
    BY <1>1 DEF add, StreamTypeOK, ReconnectsInTurn
  <2> QED
    BY <1>1, <2>1, <2>2 DEF add, StreamInv, StreamSound
<1>2. CASE remove
  <2>1. EventsInOrder'
    BY <1>2 DEF remove, StreamInv, StreamSound, EventsInOrder
  <2> QED
    BY <1>2, <2>1 DEF remove, StreamInv, StreamSound, StreamTypeOK, ReconnectsInTurn
<1>3. CASE connected
  <2>1. EventsInOrder'
    BY <1>3 DEF connected, StreamInv, StreamSound, EventsInOrder
  <2>2. ~outage /\ ~reconnectTimer /\ supervised
    BY <1>3 DEF connected, StreamInv, StreamSound, ReconnectsInTurn
  <2>3. StreamTypeOK' /\ ReconnectsInTurn'
    BY <1>3, <2>2 DEF connected, StreamInv, StreamSound, StreamTypeOK, ReconnectsInTurn
  <2> QED
    BY <1>3, <2>1, <2>2, <2>3 DEF connected, StreamInv, StreamSound
<1>4. CASE unreachable \/ badAnswer \/ broken
  BY <1>4, StreamFailKeeps DEF unreachable, badAnswer, broken
<1>5. CASE abortOwn \/ abortStray \/ ended
  <2>1. EventsInOrder'
    BY <1>5 DEF abortOwn, abortStray, ended, goSilent, StreamInv, StreamSound, EventsInOrder
  <2> QED
    BY <1>5, <2>1 DEF abortOwn, abortStray, ended, goSilent, StreamInv, StreamSound,
                      StreamTypeOK, ReconnectsInTurn
<1>6. CASE reconnect
  <2>1. EventsInOrder'
    BY <1>6 DEF reconnect, StreamInv, StreamSound, EventsInOrder
  <2> QED
    BY <1>6, <2>1 DEF reconnect, StreamInv, StreamSound, StreamTypeOK, ReconnectsInTurn
<1>7. CASE gapCheck
  <2>1. EventsInOrder'
    BY <1>7 DEF gapCheck, StreamInv, StreamSound, EventsInOrder
  <2> QED
    BY <1>7, <2>1 DEF gapCheck, StreamInv, StreamSound, StreamTypeOK, ReconnectsInTurn
<1>8. ASSUME NEW e \in 1 .. MaxEvents, serverWrites(e) PROVE StreamInv'
  <2>1. EventsInOrder'
    BY <1>8 DEF serverWrites, StreamInv, StreamSound, EventsInOrder
  <2> QED
    BY <1>8, <2>1 DEF serverWrites, StreamInv, StreamSound, StreamTypeOK, ReconnectsInTurn
<1>9. ASSUME NEW e \in 1 .. MaxEvents, _processLines(e) PROVE StreamInv'
  <2>1. pos = lastCursor /\ origin <= pos /\ pos < e /\ e <= sent
    BY <1>9 DEF _processLines, StreamInv
  <2>2. emitted' = [i \in 1 .. pos - origin |-> origin + i]
                     \o [i \in 1 .. e - pos |-> pos + i]
    BY <1>9, <2>1 DEF _processLines, StreamInv, StreamSound, EventsInOrder
  <2>3. [i \in 1 .. e - pos |-> pos + i]
           = [i \in 1 .. e - pos |-> origin + (pos - origin) + i]
    BY <2>1 DEF StreamInv
  <2>4. emitted' = [i \in 1 .. (pos - origin) + (e - pos) |-> origin + i]
    BY <2>1, <2>2, <2>3, RunsJoin DEF StreamInv
  <2>5. (pos - origin) + (e - pos) = e - origin
    BY <2>1 DEF StreamInv
  <2>6. EventsInOrder'
    BY <1>9, <2>4, <2>5 DEF _processLines, EventsInOrder
  <2>7. StreamTypeOK' /\ ReconnectsInTurn'
    BY <1>9, <2>1 DEF _processLines, StreamInv, StreamSound, StreamTypeOK, ReconnectsInTurn
  <2> QED
    BY <1>9, <2>1, <2>6, <2>7 DEF _processLines, StreamInv, StreamSound
<1>10. CASE UNCHANGED streamVars
  BY <1>10 DEF streamVars, StreamInv, StreamSound, StreamTypeOK, EventsInOrder,
               ReconnectsInTurn
<1> QED
  BY <1>1, <1>2, <1>3, <1>4, <1>5, <1>6, <1>7, <1>8, <1>9, <1>10 DEF StreamNext

\* Listeners get the server's events in order and once, and reconnections run
\* one after the other up to their maximum, for any maximum and any stream.
THEOREM StreamSoundHolds == StreamSpec => []StreamSound
<1>1. StreamInv => StreamSound
  BY DEF StreamInv
<1> QED
  BY <1>1, StreamInitial, StreamStep, PTL DEF StreamSpec

-----------------------------------------------------------------------------
(***************************************************************************)
(* The delivery of webhooks.                                               *)
(***************************************************************************)

Rows == {"none", "pending", "success", "failed", "gone"}
Places == {"idle", "queueing", "posting", "answered_ok", "answered_bad", "caught",
           "updating", "done", "thrown", "reporting"}
JobStates == {"none", "waiting", "active", "completed", "failed"}
Job == [state : JobStates, attemptsMade : 0 .. Attempts, stalled : 0 .. MaxStalled]
JobOf(s, a, t) == [state |-> s, attemptsMade |-> a, stalled |-> t]

\* How many runs a job with a attempts and t stalls has had, and where its run
\* may be: a run is an attempt, a stall or still under way.
RunsCounted(s, a, t, r, n) ==
    /\ s = "none" => r \in {"idle", "queueing"} /\ a = 0 /\ t = 0 /\ n = 0
    /\ s = "waiting" => r = "idle" /\ a < Attempts /\ n = a + t
    /\ s = "active" => r \notin {"queueing", "reporting"} /\ a < Attempts /\ n = a + t + 1
    /\ s = "completed" => r = "idle" /\ n <= Attempts + MaxStalled
    /\ s = "failed" => r \in {"idle", "reporting"} /\ n <= Attempts + MaxStalled /\ n >= a + t

\* What a run on its way to the row has seen.
RunKnows(mark, r, acc, log) ==
    /\ r = "answered_ok" => acc
    /\ r \in {"updating", "done"} => acc /\ (mark = "gone" \/ "ok" \in log)
    /\ r = "done" => mark \in {"success", "gone"}

\* What a row says is so.
RowTells(mark, s, r, acc, log, n) ==
    /\ mark = "none" => s = "none" /\ r = "idle"
    /\ mark = "success" => acc /\ "ok" \in log
    /\ mark = "failed" => s = "failed" /\ n >= Attempts
    /\ s = "completed" => mark \in {"success", "gone"}

Fits(mark, j, r, acc, log, n) ==
    /\ RunsCounted(j.state, j.attemptsMade, j.stalled, r, n)
    /\ RunKnows(mark, r, acc, log)
    /\ RowTells(mark, j.state, r, acc, log, n)

WebhookTypes ==
    /\ endpoint \in {"active", "inactive", "deleted"}
    /\ record \in [Delivery -> Rows] /\ job \in [Delivery -> Job]
    /\ run \in [Delivery -> Places] /\ accepted \in [Delivery -> BOOLEAN]
    /\ logged \in [Delivery -> SUBSET Answers] /\ runs \in [Delivery -> Nat]

WebhookInv ==
    /\ WebhookTypes
    /\ \A d \in Delivery :
          Fits(record[d], job[d], run[d], accepted[d], logged[d], runs[d])

\* A delivery becomes this, and nothing else changes.
Becomes(d, mark, j, r, acc, log, n) ==
    /\ endpoint' = endpoint
    /\ record' = [record EXCEPT ![d] = mark] /\ job' = [job EXCEPT ![d] = j]
    /\ run' = [run EXCEPT ![d] = r] /\ accepted' = [accepted EXCEPT ![d] = acc]
    /\ logged' = [logged EXCEPT ![d] = log] /\ runs' = [runs EXCEPT ![d] = n]

LEMMA JobIs ==
    ASSUME NEW s \in JobStates, NEW a \in 0 .. Attempts, NEW t \in 0 .. MaxStalled
    PROVE  /\ JobOf(s, a, t) \in Job /\ JobOf(s, a, t).state = s
           /\ JobOf(s, a, t).attemptsMade = a /\ JobOf(s, a, t).stalled = t
BY DEF JobOf, Job

LEMMA RecordInv == WebhookInv => RecordIsTrue
<1> SUFFICES ASSUME WebhookInv PROVE RecordIsTrue
    OBVIOUS
<1>1. ASSUME NEW d \in Delivery
      PROVE  /\ job[d].state \in JobStates /\ job[d].attemptsMade \in Nat
             /\ job[d].stalled \in Nat /\ job[d].stalled <= MaxStalled
             /\ runs[d] \in Nat
             /\ RunsCounted(job[d].state, job[d].attemptsMade, job[d].stalled, run[d], runs[d])
             /\ RowTells(record[d], job[d].state, run[d], accepted[d], logged[d], runs[d])
    BY WebhookAssumption DEF WebhookInv, WebhookTypes, Fits, Job
<1>2. ASSUME NEW d \in Delivery
      PROVE  runs[d] <= Attempts + MaxStalled
    <2> DEFINE s == job[d].state
               a == job[d].attemptsMade
               t == job[d].stalled
               n == runs[d]
    <2>1. s \in JobStates /\ a \in Nat /\ t \in Nat /\ t <= MaxStalled /\ n \in Nat
          /\ RunsCounted(s, a, t, run[d], n)
        BY <1>1
    <2> HIDE DEF s, a, t, n
    <2>2. n <= Attempts + MaxStalled
        BY <2>1, WebhookAssumption DEF RunsCounted, JobStates
    <2> QED
        BY <2>2 DEF n
<1>3. WebhookTypeOK
    BY <1>2 DEF WebhookInv, WebhookTypes, WebhookTypeOK, Rows, Job, JobStates
<1>4. SuccessWasAnswered /\ CompletedIsSettled /\ FailedWasExhausted
    BY <1>1 DEF RowTells, SuccessWasAnswered, CompletedIsSettled, FailedWasExhausted
<1> QED
    BY <1>3, <1>4 DEF RecordIsTrue

\* One delivery changes.
LEMMA DeliveryKeeps ==
    ASSUME WebhookInv, NEW d \in Delivery,
           NEW mark \in Rows, NEW j \in Job, NEW r \in Places, NEW acc \in BOOLEAN,
           NEW log \in SUBSET Answers, NEW n \in Nat,
           Becomes(d, mark, j, r, acc, log, n), Fits(mark, j, r, acc, log, n)
    PROVE  WebhookInv'
<1>1. WebhookTypes
    BY DEF WebhookInv
<1>2. WebhookTypes'
    BY <1>1 DEF WebhookTypes, Becomes
<1>3. ASSUME NEW e \in Delivery
      PROVE  Fits(record'[e], job'[e], run'[e], accepted'[e], logged'[e], runs'[e])
    <2>1. CASE e = d
        BY <1>1, <2>1 DEF WebhookTypes, Becomes
    <2>2. CASE e # d
        <3>1. /\ record'[e] = record[e] /\ job'[e] = job[e] /\ run'[e] = run[e]
              /\ accepted'[e] = accepted[e] /\ logged'[e] = logged[e] /\ runs'[e] = runs[e]
            BY <1>1, <2>2 DEF WebhookTypes, Becomes
        <3> QED
            BY <3>1 DEF WebhookInv
    <2> QED
        BY <2>1, <2>2
<1> QED
    BY <1>2, <1>3 DEF WebhookInv

\* What becomes of a job.
LEMMA StateWith ==
    ASSUME NEW x \in Job, NEW s
    PROVE  [x EXCEPT !.state = s] = JobOf(s, x.attemptsMade, x.stalled)
BY DEF Job, JobOf

LEMMA AttemptWith ==
    ASSUME NEW x \in Job, NEW s \in JobStates, NEW a \in Nat
    PROVE  [x EXCEPT !.attemptsMade = a, !.state = s] = JobOf(s, a, x.stalled)
<1> DEFINE y == [x EXCEPT !.attemptsMade = a]
<1>1. /\ y \in [state : JobStates, attemptsMade : Nat, stalled : 0 .. MaxStalled]
      /\ y.attemptsMade = a /\ y.stalled = x.stalled
    BY DEF Job
<1> HIDE DEF y
<1>2. [y EXCEPT !.state = s] = JobOf(s, a, x.stalled)
    BY <1>1 DEF JobOf
<1> QED
    BY <1>2 DEF y

LEMMA StallWith ==
    ASSUME NEW x \in Job, NEW s \in JobStates, NEW t \in Nat
    PROVE  [x EXCEPT !.stalled = t, !.state = s] = JobOf(s, x.attemptsMade, t)
<1> DEFINE y == [x EXCEPT !.stalled = t]
<1>1. /\ y \in [state : JobStates, attemptsMade : 0 .. Attempts, stalled : Nat]
      /\ y.attemptsMade = x.attemptsMade /\ y.stalled = t
    BY DEF Job
<1> HIDE DEF y
<1>2. [y EXCEPT !.state = s] = JobOf(s, x.attemptsMade, t)
    BY <1>1 DEF JobOf
<1> QED
    BY <1>2 DEF y

LEMMA JobKeeps ==
    ASSUME WebhookInv, NEW d \in Delivery, NEW mark \in Rows, NEW s \in JobStates,
           NEW a \in 0 .. Attempts, NEW t \in 0 .. MaxStalled, NEW r \in Places, NEW n \in Nat,
           Becomes(d, mark, JobOf(s, a, t), r, accepted[d], logged[d], n),
           RunsCounted(s, a, t, r, n), RunKnows(mark, r, accepted[d], logged[d]),
           RowTells(mark, s, r, accepted[d], logged[d], n)
    PROVE  WebhookInv'
<1> DEFINE j == JobOf(s, a, t)
<1>1. j \in Job /\ j.state = s /\ j.attemptsMade = a /\ j.stalled = t
    BY JobIs
<1>2. accepted[d] \in BOOLEAN /\ logged[d] \in SUBSET Answers
    BY DEF WebhookInv, WebhookTypes
<1> HIDE DEF j
<1>3. Fits(mark, j, r, accepted[d], logged[d], n)
    BY <1>1 DEF Fits
<1>4. Becomes(d, mark, j, r, accepted[d], logged[d], n)
    BY DEF j
<1> QED
    BY <1>1, <1>2, <1>3, <1>4, DeliveryKeeps

\* What a delivery is, in names.
LEMMA DeliveryFacts ==
    ASSUME WebhookInv, NEW d \in Delivery
    PROVE  /\ record[d] \in Rows /\ job[d] \in Job /\ run[d] \in Places
           /\ accepted[d] \in BOOLEAN /\ logged[d] \in SUBSET Answers /\ runs[d] \in Nat
           /\ Fits(record[d], job[d], run[d], accepted[d], logged[d], runs[d])
           /\ record = [record EXCEPT ![d] = record[d]] /\ job = [job EXCEPT ![d] = job[d]]
           /\ run = [run EXCEPT ![d] = run[d]]
           /\ accepted = [accepted EXCEPT ![d] = accepted[d]]
           /\ logged = [logged EXCEPT ![d] = logged[d]] /\ runs = [runs EXCEPT ![d] = runs[d]]
           /\ job[d].state \in JobStates /\ job[d].attemptsMade \in 0 .. Attempts
           /\ job[d].stalled \in 0 .. MaxStalled
           /\ job[d] = JobOf(job[d].state, job[d].attemptsMade, job[d].stalled)
<1>1. WebhookTypes /\ Fits(record[d], job[d], run[d], accepted[d], logged[d], runs[d])
    BY DEF WebhookInv
<1>2. /\ record[d] \in Rows /\ job[d] \in Job /\ run[d] \in Places
      /\ accepted[d] \in BOOLEAN /\ logged[d] \in SUBSET Answers /\ runs[d] \in Nat
    BY <1>1 DEF WebhookTypes
<1>3. /\ job[d].state \in JobStates /\ job[d].attemptsMade \in 0 .. Attempts
      /\ job[d].stalled \in 0 .. MaxStalled
      /\ job[d] = JobOf(job[d].state, job[d].attemptsMade, job[d].stalled)
    BY <1>2 DEF Job, JobOf
<1>4. /\ record = [record EXCEPT ![d] = record[d]] /\ job = [job EXCEPT ![d] = job[d]]
      /\ run = [run EXCEPT ![d] = run[d]]
    BY <1>1 DEF WebhookTypes
<1>5. /\ accepted = [accepted EXCEPT ![d] = accepted[d]]
      /\ logged = [logged EXCEPT ![d] = logged[d]] /\ runs = [runs EXCEPT ![d] = runs[d]]
    BY <1>1 DEF WebhookTypes
<1> QED
    BY <1>1, <1>2, <1>3, <1>4, <1>5

-----------------------------------------------------------------------------
(* The service.                                                             *)

LEMMA InsertKeeps ==
    ASSUME WebhookInv, NEW d \in Delivery, insertDelivery(d)
    PROVE  WebhookInv'
<1>1. /\ endpoint' = endpoint /\ record[d] = "none" /\ run[d] = "idle"
      /\ record' = [record EXCEPT ![d] = "pending"]
      /\ run' = [run EXCEPT ![d] = "queueing"]
      /\ UNCHANGED <<job, accepted, logged, runs>>
    BY DEF insertDelivery
<1>2. Fits("pending", job[d], "queueing", accepted[d], logged[d], runs[d])
    BY <1>1, DeliveryFacts DEF Fits, RunsCounted, RunKnows, RowTells
<1>3. "pending" \in Rows /\ "queueing" \in Places
    BY DEF Rows, Places
<1>4. Becomes(d, "pending", job[d], "queueing", accepted[d], logged[d], runs[d])
    BY <1>1, DeliveryFacts DEF Becomes
<1> QED
    BY <1>2, <1>3, <1>4, DeliveryFacts, DeliveryKeeps

LEMMA AddKeeps ==
    ASSUME WebhookInv, NEW d \in Delivery, addJob(d)
    PROVE  WebhookInv'
<1> DEFINE a == job[d].attemptsMade
           t == job[d].stalled
<1>1. /\ endpoint' = endpoint /\ run[d] = "queueing"
      /\ run' = [run EXCEPT ![d] = "idle"]
      /\ UNCHANGED <<record, accepted, logged, runs>>
    BY DEF addJob
<1>2. job' = job \/ job' = [job EXCEPT ![d].state = "waiting"]
    BY DEF addJob
<1>3. Fits(record[d], job[d], "queueing", accepted[d], logged[d], runs[d])
    BY <1>1, DeliveryFacts
<1>4. job[d].state = "none" /\ record[d] # "none"
    BY <1>3, DeliveryFacts DEF Fits, RunsCounted, RowTells, JobStates
<1>5. a = 0 /\ t = 0 /\ runs[d] = 0
    BY <1>3, <1>4 DEF Fits, RunsCounted
<1>6. "idle" \in Places /\ "waiting" \in JobStates
    BY DEF Places, JobStates
<1>7. CASE job' = job
    <2>1. Fits(record[d], job[d], "idle", accepted[d], logged[d], runs[d])
        BY <1>3, <1>4 DEF Fits, RunsCounted, RunKnows, RowTells
    <2>2. Becomes(d, record[d], job[d], "idle", accepted[d], logged[d], runs[d])
        BY <1>1, <1>7, DeliveryFacts DEF Becomes
    <2> QED
        BY <1>6, <2>1, <2>2, DeliveryFacts, DeliveryKeeps
<1>8. CASE job' = [job EXCEPT ![d].state = "waiting"]
    <2>1. job' = [job EXCEPT ![d] = JobOf("waiting", a, t)]
        BY <1>8, DeliveryFacts, StateWith
    <2>2. Becomes(d, record[d], JobOf("waiting", a, t), "idle", accepted[d], logged[d], runs[d])
        BY <1>1, <2>1, DeliveryFacts DEF Becomes
    <2> HIDE DEF a, t
    <2>3. RunsCounted("waiting", a, t, "idle", runs[d])
        BY <1>5, WebhookAssumption DEF RunsCounted
    <2>4. /\ RunKnows(record[d], "idle", accepted[d], logged[d])
          /\ RowTells(record[d], "waiting", "idle", accepted[d], logged[d], runs[d])
        BY <1>3, <1>4 DEF Fits, RunKnows, RowTells
    <2>5. a \in 0 .. Attempts /\ t \in 0 .. MaxStalled
        BY DeliveryFacts DEF a, t
    <2> QED
        BY <1>6, <2>2, <2>3, <2>4, <2>5, DeliveryFacts, JobKeeps
<1> QED
    BY <1>2, <1>7, <1>8

LEMMA UpdateEndpointKeeps ==
    ASSUME WebhookInv, NEW isActive \in BOOLEAN, updateEndpoint(isActive)
    PROVE  WebhookInv'
BY DEF WebhookInv, WebhookTypes, updateEndpoint

LEMMA DeleteEndpointKeeps == ASSUME WebhookInv, deleteEndpoint PROVE WebhookInv'
<1>1. /\ UNCHANGED <<job, run, accepted, runs>> /\ endpoint' = "deleted"
      /\ record' = [d \in Delivery |-> IF record[d] = "none" THEN "none" ELSE "gone"]
      /\ logged' = [d \in Delivery |-> {}]
    BY DEF deleteEndpoint
<1>2. WebhookTypes'
    BY <1>1 DEF WebhookInv, WebhookTypes, Rows
<1>3. ASSUME NEW d \in Delivery
      PROVE  Fits(record'[d], job'[d], run'[d], accepted'[d], logged'[d], runs'[d])
    <2>1. Fits(record[d], job[d], run[d], accepted[d], logged[d], runs[d])
        BY DEF WebhookInv
    <2>2. record'[d] = IF record[d] = "none" THEN "none" ELSE "gone"
        BY <1>1
    <2>3. RunKnows(record'[d], run[d], accepted[d], logged'[d])
        BY <2>1, <2>2 DEF Fits, RunKnows, RowTells
    <2>4. RowTells(record'[d], job[d].state, run[d], accepted[d], logged'[d], runs[d])
        BY <2>1, <2>2 DEF Fits, RunKnows, RowTells
    <2> QED
        BY <1>1, <2>1, <2>3, <2>4 DEF Fits
<1> QED
    BY <1>2, <1>3 DEF WebhookInv

-----------------------------------------------------------------------------
(* A run of the worker.                                                     *)

\* A run moves on, and with it what it has written and seen.
LEMMA RunMoves ==
    ASSUME WebhookInv, NEW d \in Delivery,
           run[d] \in {"posting", "answered_ok", "answered_bad", "caught", "updating"},
           NEW r \in {"answered_ok", "answered_bad", "caught", "updating", "done", "thrown"},
           NEW mark \in Rows, NEW acc \in BOOLEAN, NEW log \in SUBSET Answers,
           Becomes(d, mark, job[d], r, acc, log, runs[d]),
           accepted[d] => acc, logged[d] \subseteq log, RunKnows(mark, r, acc, log),
           \/ mark = record[d]
           \/ mark = "success" /\ acc /\ "ok" \in log
    PROVE  WebhookInv'
<1>1. r \in Places
    BY DEF Places
<1>2. Fits(record[d], job[d], run[d], accepted[d], logged[d], runs[d])
    BY DeliveryFacts
<1>3. job[d].state = "active" /\ record[d] # "none" /\ record[d] # "failed"
    BY <1>2, DeliveryFacts DEF Fits, RunsCounted, RowTells, JobStates
<1>4. RunsCounted(job[d].state, job[d].attemptsMade, job[d].stalled, r, runs[d])
    BY <1>2, <1>3 DEF Fits, RunsCounted
<1>5. RowTells(mark, job[d].state, r, acc, log, runs[d])
    BY <1>2, <1>3 DEF Fits, RowTells
<1>6. Fits(mark, job[d], r, acc, log, runs[d])
    BY <1>4, <1>5 DEF Fits
<1> QED
    BY <1>1, <1>6, DeliveryFacts, DeliveryKeeps

LEMMA PostKeeps ==
    ASSUME WebhookInv, NEW d \in Delivery, post(d)
    PROVE  WebhookInv'
<1>1. /\ run[d] = "posting" /\ UNCHANGED <<endpoint, job, runs, record, logged>>
      /\ \E r \in {"answered_ok", "answered_bad", "caught"}, acc \in {accepted[d], TRUE} :
            /\ run' = [run EXCEPT ![d] = r] /\ accepted' = [accepted EXCEPT ![d] = acc]
            /\ r = "answered_ok" => acc
    BY DeliveryFacts DEF post
<1>2. PICK r \in {"answered_ok", "answered_bad", "caught"}, acc \in {accepted[d], TRUE} :
            /\ run' = [run EXCEPT ![d] = r] /\ accepted' = [accepted EXCEPT ![d] = acc]
            /\ r = "answered_ok" => acc
    BY <1>1
<1>3. RunKnows(record[d], r, acc, logged[d]) /\ acc \in BOOLEAN /\ (accepted[d] => acc)
    BY <1>2, DeliveryFacts DEF RunKnows
<1>4. Becomes(d, record[d], job[d], r, acc, logged[d], runs[d])
    BY <1>1, <1>2, DeliveryFacts DEF Becomes
<1> QED
    BY <1>1, <1>3, <1>4, RunMoves, DeliveryFacts

LEMMA LogKeeps ==
    ASSUME WebhookInv, NEW d \in Delivery, logAnswer(d)
    PROVE  WebhookInv'
<1>1. /\ run[d] \in {"answered_ok", "answered_bad"}
      /\ UNCHANGED <<endpoint, job, runs, record, accepted>>
    BY DEF logAnswer
<1>2. Fits(record[d], job[d], run[d], accepted[d], logged[d], runs[d])
    BY DeliveryFacts
<1>3. CASE /\ run[d] = "answered_ok" /\ logDeliveryAttempt(d, "ok")
           /\ run' = [run EXCEPT ![d] = "updating"]
    <2> DEFINE log == logged[d] \cup {"ok"}
    <2>1. logged' = [logged EXCEPT ![d] = log]
        BY <1>3 DEF logDeliveryAttempt
    <2>2. log \in SUBSET Answers /\ logged[d] \subseteq log /\ "ok" \in log
        BY DeliveryFacts DEF Answers
    <2> HIDE DEF log
    <2>3. RunKnows(record[d], "updating", accepted[d], log)
        BY <1>2, <1>3, <2>2 DEF Fits, RunKnows
    <2>4. Becomes(d, record[d], job[d], "updating", accepted[d], log, runs[d])
        BY <1>1, <1>3, <2>1, DeliveryFacts DEF Becomes
    <2> QED
        BY <1>1, <2>2, <2>3, <2>4, RunMoves, DeliveryFacts
<1>4. CASE /\ run[d] = "answered_bad" /\ logDeliveryAttempt(d, "bad")
           /\ run' = [run EXCEPT ![d] = "caught"]
    <2> DEFINE log == logged[d] \cup {"bad"}
    <2>1. logged' = [logged EXCEPT ![d] = log]
        BY <1>4 DEF logDeliveryAttempt
    <2>2. log \in SUBSET Answers /\ logged[d] \subseteq log
        BY DeliveryFacts DEF Answers
    <2> HIDE DEF log
    <2>3. RunKnows(record[d], "caught", accepted[d], log)
        BY DEF RunKnows
    <2>4. Becomes(d, record[d], job[d], "caught", accepted[d], log, runs[d])
        BY <1>1, <1>4, <2>1, DeliveryFacts DEF Becomes
    <2> QED
        BY <1>1, <2>2, <2>3, <2>4, RunMoves, DeliveryFacts
<1>5. CASE run' = [run EXCEPT ![d] = "caught"] /\ logged' = logged
    <2>1. RunKnows(record[d], "caught", accepted[d], logged[d])
        BY DEF RunKnows
    <2>2. Becomes(d, record[d], job[d], "caught", accepted[d], logged[d], runs[d])
        BY <1>1, <1>5, DeliveryFacts DEF Becomes
    <2> QED
        BY <1>1, <2>1, <2>2, RunMoves, DeliveryFacts
<1> QED
    BY <1>3, <1>4, <1>5 DEF logAnswer

LEMMA CatchKeeps ==
    ASSUME WebhookInv, NEW d \in Delivery, catchError(d)
    PROVE  WebhookInv'
<1>1. /\ run[d] = "caught" /\ run' = [run EXCEPT ![d] = "thrown"]
      /\ UNCHANGED <<endpoint, job, runs, record, accepted>>
    BY DEF catchError
<1>2. PICK log \in {logged[d], logged[d] \cup {"bad"}} : logged' = [logged EXCEPT ![d] = log]
    <2>1. logged' = logged \/ logged' = [logged EXCEPT ![d] = logged[d] \cup {"bad"}]
        BY DEF catchError, logDeliveryAttempt
    <2> QED
        BY <2>1, DeliveryFacts
<1>3. log \in SUBSET Answers /\ logged[d] \subseteq log
    BY DeliveryFacts DEF Answers
<1>4. RunKnows(record[d], "thrown", accepted[d], log)
    BY DEF RunKnows
<1>5. Becomes(d, record[d], job[d], "thrown", accepted[d], log, runs[d])
    BY <1>1, <1>2, DeliveryFacts DEF Becomes
<1> QED
    BY <1>1, <1>3, <1>4, <1>5, RunMoves, DeliveryFacts

LEMMA UpdateKeeps ==
    ASSUME WebhookInv, NEW d \in Delivery, updateRow(d)
    PROVE  WebhookInv'
<1>1. run[d] = "updating" /\ UNCHANGED <<endpoint, job, runs, accepted, logged>>
    BY DEF updateRow
<1>2. Fits(record[d], job[d], run[d], accepted[d], logged[d], runs[d])
    BY DeliveryFacts
<1>3. accepted[d] /\ (record[d] = "gone" \/ "ok" \in logged[d])
    BY <1>1, <1>2 DEF Fits, RunKnows
<1>4. PICK r \in {"done", "caught"}, mark \in {record[d], "success"} :
          /\ run' = [run EXCEPT ![d] = r] /\ record' = [record EXCEPT ![d] = mark]
          /\ r = "done" => mark \in {"success", "gone"}
          /\ mark = "success" => record[d] # "gone"
    <2>1. \E r \in {"done", "caught"}, mark \in {record[d], "success"} :
              /\ run' = [run EXCEPT ![d] = r] /\ record' = [record EXCEPT ![d] = mark]
              /\ r = "done" => mark \in {"success", "gone"}
              /\ mark = "success" => record[d] # "gone"
        <3>1. CASE /\ run' = [run EXCEPT ![d] = "done"]
                   /\ record' = [record EXCEPT ![d] = IF @ = "gone" THEN @ ELSE "success"]
            BY <3>1, DeliveryFacts
        <3>2. CASE run' = [run EXCEPT ![d] = "caught"] /\ record' = record
            BY <3>2, DeliveryFacts
        <3>3. CASE /\ run' = [run EXCEPT ![d] = "caught"] /\ record[d] # "gone"
                   /\ record' = [record EXCEPT ![d] = "success"]
            BY <3>3
        <3> QED
            BY <3>1, <3>2, <3>3 DEF updateRow
    <2> QED
        BY <2>1
<1>5. /\ mark \in Rows
      /\ mark # record[d] => mark = "success" /\ accepted[d] /\ "ok" \in logged[d]
    BY <1>3, <1>4, DeliveryFacts DEF Rows
<1>6. RunKnows(mark, r, accepted[d], logged[d])
    BY <1>3, <1>4, <1>5 DEF RunKnows
<1>7. Becomes(d, mark, job[d], r, accepted[d], logged[d], runs[d])
    BY <1>1, <1>4, DeliveryFacts DEF Becomes
<1> QED
    BY <1>1, <1>5, <1>6, <1>7, RunMoves, DeliveryFacts

-----------------------------------------------------------------------------
(* The queue.                                                               *)

LEMMA StartKeeps ==
    ASSUME WebhookInv, NEW d \in Delivery, startRun(d)
    PROVE  WebhookInv'
<1> DEFINE a == job[d].attemptsMade
           t == job[d].stalled
           r == IF endpoint = "active" THEN "posting" ELSE "thrown"
<1>1. /\ job[d].state = "waiting" /\ UNCHANGED <<endpoint, record, accepted, logged>>
      /\ job' = [job EXCEPT ![d].state = "active"] /\ run' = [run EXCEPT ![d] = r]
      /\ runs' = [runs EXCEPT ![d] = runs[d] + 1]
    BY DEF startRun
<1>2. Becomes(d, record[d], JobOf("active", a, t), r, accepted[d], logged[d], runs[d] + 1)
    BY <1>1, DeliveryFacts, StateWith DEF Becomes
<1>3. r \in {"posting", "thrown"}
    OBVIOUS
<1>4. Fits(record[d], job[d], run[d], accepted[d], logged[d], runs[d])
    BY DeliveryFacts
<1> HIDE DEF r
<1>5. RunsCounted("active", a, t, r, runs[d] + 1)
    BY <1>1, <1>3, <1>4 DEF Fits, RunsCounted
<1>6. /\ RunKnows(record[d], r, accepted[d], logged[d])
      /\ RowTells(record[d], "active", r, accepted[d], logged[d], runs[d] + 1)
    BY <1>1, <1>3, <1>4 DEF Fits, RunKnows, RowTells
<1>7. /\ "active" \in JobStates /\ r \in Places /\ runs[d] + 1 \in Nat
      /\ a \in 0 .. Attempts /\ t \in 0 .. MaxStalled
    BY <1>3, DeliveryFacts DEF JobStates, Places
<1> QED
    BY <1>2, <1>5, <1>6, <1>7, DeliveryFacts, JobKeeps

LEMMA CompleteKeeps ==
    ASSUME WebhookInv, NEW d \in Delivery, complete(d)
    PROVE  WebhookInv'
<1> DEFINE a == job[d].attemptsMade
           t == job[d].stalled
<1>1. /\ run[d] = "done" /\ UNCHANGED <<endpoint, record, accepted, logged, runs>>
      /\ job' = [job EXCEPT ![d].state = "completed"] /\ run' = [run EXCEPT ![d] = "idle"]
    BY DEF complete
<1>2. Becomes(d, record[d], JobOf("completed", a, t), "idle", accepted[d], logged[d], runs[d])
    BY <1>1, DeliveryFacts, StateWith DEF Becomes
<1>3. Fits(record[d], job[d], run[d], accepted[d], logged[d], runs[d])
    BY DeliveryFacts
<1>4. /\ "completed" \in JobStates /\ "idle" \in Places /\ runs[d] \in Nat
      /\ a \in 0 .. Attempts /\ t \in 0 .. MaxStalled /\ a \in Nat /\ t \in Nat /\ t <= MaxStalled
    BY WebhookAssumption, DeliveryFacts DEF JobStates, Places
<1>5. job[d].state = "active"
    BY <1>1, <1>3, DeliveryFacts DEF Fits, RunsCounted, JobStates
<1>6. a < Attempts /\ runs[d] = a + t + 1
    BY <1>3, <1>5 DEF Fits, RunsCounted
<1> HIDE DEF a, t
<1>7. RunsCounted("completed", a, t, "idle", runs[d])
    BY <1>4, <1>6, WebhookAssumption DEF RunsCounted
<1>8. /\ RunKnows(record[d], "idle", accepted[d], logged[d])
      /\ RowTells(record[d], "completed", "idle", accepted[d], logged[d], runs[d])
    BY <1>1, <1>3, <1>5 DEF Fits, RunKnows, RowTells
<1> QED
    BY <1>2, <1>4, <1>7, <1>8, DeliveryFacts, JobKeeps

LEMMA FailKeeps ==
    ASSUME WebhookInv, NEW d \in Delivery, moveToFailed(d)
    PROVE  WebhookInv'
<1> DEFINE a == job[d].attemptsMade
           t == job[d].stalled
           last == a + 1 >= Attempts
           s == IF last THEN "failed" ELSE "waiting"
           r == IF last THEN "reporting" ELSE "idle"
<1>1. /\ run[d] = "thrown" /\ UNCHANGED <<endpoint, record, accepted, logged, runs>>
      /\ job' = [job EXCEPT ![d].attemptsMade = a + 1, ![d].state = s]
      /\ run' = [run EXCEPT ![d] = r]
    BY DEF moveToFailed
<1> HIDE DEF s, r, last
<1>2. Becomes(d, record[d], JobOf(s, a + 1, t), r, accepted[d], logged[d], runs[d])
    <2>1. job' = [job EXCEPT ![d] = [job[d] EXCEPT !.attemptsMade = a + 1, !.state = s]]
        BY <1>1, DeliveryFacts
    <2>2. s \in JobStates /\ a + 1 \in Nat /\ job[d] \in Job
        BY DeliveryFacts DEF s, JobStates
    <2>3. [job[d] EXCEPT !.attemptsMade = a + 1, !.state = s] = JobOf(s, a + 1, t)
        BY <2>2, AttemptWith
    <2>4. job' = [job EXCEPT ![d] = JobOf(s, a + 1, t)]
        BY <2>1, <2>3
    <2> QED
        BY <1>1, <2>4, DeliveryFacts DEF Becomes
<1>3. Fits(record[d], job[d], run[d], accepted[d], logged[d], runs[d])
    BY DeliveryFacts
<1>4. job[d].state = "active" /\ record[d] # "none" /\ record[d] # "failed"
    BY <1>1, <1>3, DeliveryFacts DEF Fits, RunsCounted, RowTells, JobStates
<1>5. /\ a \in 0 .. Attempts /\ a \in Nat /\ t \in 0 .. MaxStalled /\ t \in Nat
      /\ t <= MaxStalled /\ a < Attempts /\ runs[d] = a + t + 1
    BY <1>3, <1>4, WebhookAssumption, DeliveryFacts DEF Fits, RunsCounted
<1> HIDE DEF a, t
<1>6. s \in JobStates /\ r \in Places /\ a + 1 \in 0 .. Attempts
    BY <1>5, WebhookAssumption DEF s, r, JobStates, Places
<1>7. RunsCounted(s, a + 1, t, r, runs[d])
    BY <1>5, WebhookAssumption DEF RunsCounted, s, r, last
<1>8. /\ RunKnows(record[d], r, accepted[d], logged[d])
      /\ RowTells(record[d], s, r, accepted[d], logged[d], runs[d])
    BY <1>3, <1>4 DEF Fits, RunKnows, RowTells, s, r
<1> QED
    BY <1>2, <1>5, <1>6, <1>7, <1>8, DeliveryFacts, JobKeeps

LEMMA LoseKeeps ==
    ASSUME WebhookInv, NEW d \in Delivery, lose(d)
    PROVE  WebhookInv'
<1>1. /\ job[d].state = "active" /\ run' = [run EXCEPT ![d] = "idle"]
      /\ UNCHANGED <<endpoint, record, job, accepted, logged, runs>>
    BY DEF lose
<1>2. Becomes(d, record[d], job[d], "idle", accepted[d], logged[d], runs[d])
    BY <1>1, DeliveryFacts DEF Becomes
<1>3. Fits(record[d], job[d], run[d], accepted[d], logged[d], runs[d])
    BY DeliveryFacts
<1>4. Fits(record[d], job[d], "idle", accepted[d], logged[d], runs[d])
    BY <1>1, <1>3 DEF Fits, RunsCounted, RunKnows, RowTells
<1>5. "idle" \in Places
    BY DEF Places
<1> QED
    BY <1>2, <1>4, <1>5, DeliveryFacts, DeliveryKeeps

LEMMA StalledKeeps ==
    ASSUME WebhookInv, NEW d \in Delivery, moveStalled(d)
    PROVE  WebhookInv'
<1> DEFINE a == job[d].attemptsMade
           t == job[d].stalled
<1>1. /\ job[d].state = "active" /\ run[d] = "idle"
      /\ UNCHANGED <<endpoint, record, accepted, logged, runs>>
    BY DEF moveStalled
<1>2. \/ /\ t < MaxStalled /\ run' = [run EXCEPT ![d] = "idle"]
         /\ job' = [job EXCEPT ![d].stalled = t + 1, ![d].state = "waiting"]
      \/ /\ ~(t < MaxStalled) /\ run' = [run EXCEPT ![d] = "reporting"]
         /\ job' = [job EXCEPT ![d].state = "failed"]
    BY <1>1, DeliveryFacts DEF moveStalled
<1>3. Fits(record[d], job[d], run[d], accepted[d], logged[d], runs[d])
    BY DeliveryFacts
<1>4. record[d] # "none" /\ record[d] # "failed"
    BY <1>1, <1>3 DEF Fits, RowTells
<1>5. /\ a \in 0 .. Attempts /\ a \in Nat /\ t \in 0 .. MaxStalled /\ t \in Nat
      /\ t <= MaxStalled /\ a < Attempts /\ runs[d] = a + t + 1
    BY <1>1, <1>3, WebhookAssumption, DeliveryFacts DEF Fits, RunsCounted
<1>6. {"waiting", "failed"} \subseteq JobStates /\ {"idle", "reporting"} \subseteq Places
    BY DEF JobStates, Places
<1>7. CASE /\ t < MaxStalled /\ run' = [run EXCEPT ![d] = "idle"]
           /\ job' = [job EXCEPT ![d].stalled = t + 1, ![d].state = "waiting"]
    <2>1. Becomes(d, record[d], JobOf("waiting", a, t + 1), "idle", accepted[d], logged[d],
                  runs[d])
        <3>1. job' = [job EXCEPT ![d] = [job[d] EXCEPT !.stalled = t + 1, !.state = "waiting"]]
            BY <1>7, DeliveryFacts
        <3>2. [job[d] EXCEPT !.stalled = t + 1, !.state = "waiting"]
                = JobOf("waiting", a, t + 1)
            <4>1. t + 1 \in Nat /\ job[d] \in Job /\ "waiting" \in JobStates
                BY <1>5, <1>6, DeliveryFacts
            <4> QED
                BY <4>1, StallWith
        <3>3. job' = [job EXCEPT ![d] = JobOf("waiting", a, t + 1)]
            BY <3>1, <3>2
        <3> QED
            BY <1>1, <1>7, <3>3, DeliveryFacts DEF Becomes
    <2> HIDE DEF a, t
    <2>2. RunsCounted("waiting", a, t + 1, "idle", runs[d]) /\ t + 1 \in 0 .. MaxStalled
        BY <1>5, <1>7, WebhookAssumption DEF RunsCounted
    <2>3. /\ RunKnows(record[d], "idle", accepted[d], logged[d])
          /\ RowTells(record[d], "waiting", "idle", accepted[d], logged[d], runs[d])
        BY <1>3, <1>4 DEF Fits, RunKnows, RowTells
    <2> QED
        BY <1>5, <1>6, <2>1, <2>2, <2>3, DeliveryFacts, JobKeeps
<1>8. CASE /\ run' = [run EXCEPT ![d] = "reporting"]
           /\ job' = [job EXCEPT ![d].state = "failed"]
    <2>1. Becomes(d, record[d], JobOf("failed", a, t), "reporting", accepted[d], logged[d],
                  runs[d])
        BY <1>1, <1>8, DeliveryFacts, StateWith DEF Becomes
    <2> HIDE DEF a, t
    <2>2. RunsCounted("failed", a, t, "reporting", runs[d])
        BY <1>5, WebhookAssumption DEF RunsCounted
    <2>3. /\ RunKnows(record[d], "reporting", accepted[d], logged[d])
          /\ RowTells(record[d], "failed", "reporting", accepted[d], logged[d], runs[d])
        BY <1>3, <1>4 DEF Fits, RunKnows, RowTells
    <2> QED
        BY <1>5, <1>6, <2>1, <2>2, <2>3, DeliveryFacts, JobKeeps
<1> QED
    BY <1>2, <1>7, <1>8

LEMMA ReportKeeps ==
    ASSUME WebhookInv, NEW d \in Delivery, onFailed(d)
    PROVE  WebhookInv'
<1>1. /\ run[d] = "reporting" /\ run' = [run EXCEPT ![d] = "idle"]
      /\ UNCHANGED <<endpoint, job, accepted, logged, runs>>
    BY DEF onFailed
<1>2. Fits(record[d], job[d], run[d], accepted[d], logged[d], runs[d])
    BY DeliveryFacts
<1>3. job[d].state = "failed"
    BY <1>1, <1>2, DeliveryFacts DEF Fits, RunsCounted, JobStates
<1>4. PICK mark \in {record[d], "failed"} :
          /\ record' = [record EXCEPT ![d] = mark]
          /\ mark # record[d] => job[d].attemptsMade >= Attempts
    <2>1. \/ record' = record
          \/ job[d].attemptsMade >= Attempts /\ record' = [record EXCEPT ![d] = "failed"]
        BY DEF onFailed
    <2>2. \E mark \in {record[d], "failed"} :
              /\ record' = [record EXCEPT ![d] = mark]
              /\ mark # record[d] => job[d].attemptsMade >= Attempts
        BY <2>1, DeliveryFacts
    <2> QED
        BY <2>2
<1>5. mark \in Rows /\ "idle" \in Places
    BY <1>4, DeliveryFacts DEF Rows, Places
<1>6. job[d].attemptsMade >= Attempts => runs[d] >= Attempts
    <2> DEFINE a == job[d].attemptsMade
               t == job[d].stalled
               n == runs[d]
    <2>1. a \in Nat /\ t \in Nat /\ n \in Nat /\ n >= a + t
        BY <1>2, <1>3, DeliveryFacts, WebhookAssumption DEF Fits, RunsCounted
    <2> HIDE DEF a, t, n
    <2>2. a >= Attempts => n >= Attempts
        BY <2>1, WebhookAssumption
    <2> QED
        BY <2>2 DEF a, n
<1>7. RowTells(mark, "failed", "idle", accepted[d], logged[d], runs[d])
    BY <1>1, <1>2, <1>3, <1>4, <1>6 DEF Fits, RowTells
<1>8. Fits(mark, job[d], "idle", accepted[d], logged[d], runs[d])
    BY <1>2, <1>3, <1>7 DEF Fits, RunsCounted, RunKnows
<1>9. Becomes(d, mark, job[d], "idle", accepted[d], logged[d], runs[d])
    BY <1>1, <1>4, DeliveryFacts DEF Becomes
<1> QED
    BY <1>5, <1>8, <1>9, DeliveryFacts, DeliveryKeeps

LEMMA WebhookStep == WebhookInv /\ [WebhookNext]_webhookVars => WebhookInv'
<1> SUFFICES ASSUME WebhookInv, [WebhookNext]_webhookVars PROVE WebhookInv'
    OBVIOUS
<1>1. ASSUME NEW d \in Delivery, runStep(d) PROVE WebhookInv'
    BY <1>1, StartKeeps, PostKeeps, LogKeeps, CatchKeeps, UpdateKeeps, CompleteKeeps,
       FailKeeps, StalledKeeps, ReportKeeps DEF runStep
<1>2. ASSUME UNCHANGED webhookVars PROVE WebhookInv'
    BY <1>2 DEF WebhookInv, WebhookTypes, webhookVars
<1> QED
    BY <1>1, <1>2, InsertKeeps, AddKeeps, LoseKeeps, UpdateEndpointKeeps, DeleteEndpointKeeps
       DEF WebhookNext

LEMMA WebhookInitial == WebhookInit => WebhookInv
<1> SUFFICES ASSUME WebhookInit PROVE WebhookInv
    OBVIOUS
<1>1. NoJob \in Job /\ NoJob.state = "none" /\ NoJob.attemptsMade = 0 /\ NoJob.stalled = 0
    BY WebhookAssumption DEF NoJob, Job, JobStates
<1>2. WebhookTypes
    BY <1>1 DEF WebhookInit, WebhookTypes, Rows, Places
<1>3. ASSUME NEW d \in Delivery
      PROVE  Fits(record[d], job[d], run[d], accepted[d], logged[d], runs[d])
    <2>1. record[d] = "none" /\ job[d] = NoJob /\ run[d] = "idle" /\ runs[d] = 0
        BY DEF WebhookInit
    <2> QED
        BY <1>1, <2>1 DEF Fits, RunsCounted, RunKnows, RowTells
<1> QED
    BY <1>2, <1>3 DEF WebhookInv

\* Whatever fails, is lost or stalls, in whatever order: a row says success
\* only of what the endpoint accepted and the log has, a completed job's row
\* says so, and a failed one was tried as often as it may be.
THEOREM RecordIsTrueHolds == WebhookSpec => []RecordIsTrue
<1>1. WebhookInit => WebhookInv
    BY WebhookInitial
<1>2. WebhookInv /\ [WebhookNext]_webhookVars => WebhookInv'
    BY WebhookStep
<1>3. WebhookInv => RecordIsTrue
    BY RecordInv
<1> QED
    BY <1>1, <1>2, <1>3, PTL DEF WebhookSpec

-----------------------------------------------------------------------------
(***************************************************************************)
(* The windows of alerts.                                                  *)
(***************************************************************************)

Window == [bucket : Bucket, count : Nat, status : {"open", "closed"},
           severity : [Priority -> Nat]]
Summary == [window : Nat, total : Nat, severity : [Priority -> Nat]]

\* A row that was read, written or is to be summarised.
CountsUp(mark) == mark \in Window /\ mark.count = Totalled(mark.severity)

\* The alerts in a window, when they are placed like pl.
PlacedIn(pl, w) == {a \in Alert : pl[a] = w}

\* What the request of a has read is no more than what is in the window now.
AssignsWell(a, r, ws, pl) ==
    /\ r.step \in {"idle", "update", "insert"}
    /\ r.step = "update" =>
          /\ r.window \in DOMAIN ws /\ CountsUp(r.row) /\ r.priority \in Priority
          /\ r.row.count <= Cardinality(PlacedIn(pl, r.window)) /\ pl[a] = 0
    /\ r.step = "insert" => r.bucket \in Bucket /\ r.priority \in Priority /\ pl[a] = 0

\* A request that closes windows has closed the one it reads and summarises.
ClosesWell(r, ws) ==
    /\ \/ r \in [step : {"idle", "close", "read"}, todo : Seq(Nat)]
       \/ r \in [step : {"insert"}, todo : Seq(Nat), row : Window] /\ CountsUp(r.row)
    /\ \A i \in DOMAIN r.todo : r.todo[i] \in DOMAIN ws
    /\ r.step \in {"read", "insert"} =>
          r.todo # <<>> /\ ws[Head(r.todo)].status = "closed"

Summarises(s, ws) ==
    /\ s.total = Totalled(s.severity)
    /\ s.window \in DOMAIN ws /\ ws[s.window].status = "closed"

WindowInv ==
    /\ windows \in Seq(Window) /\ placed \in [Alert -> Nat]
    /\ \A w \in DOMAIN windows :
          /\ CountsUp(windows[w]) /\ windows[w].count >= 1
          /\ windows[w].count <= Cardinality(PlacedIn(placed, w))
    /\ DOMAIN assigning = Alert /\ DOMAIN closing = Closer
    /\ \A a \in Alert : AssignsWell(a, assigning[a], windows, placed)
    /\ \A c \in Closer : ClosesWell(closing[c], windows)
    /\ summaries \in Seq(Summary)
    /\ \A s \in DOMAIN summaries : Summarises(summaries[s], windows)

LEMMA PlacedFinite ==
    ASSUME NEW pl, NEW w
    PROVE  /\ IsFiniteSet(PlacedIn(pl, w)) /\ Cardinality(PlacedIn(pl, w)) \in Nat
<1>1. PlacedIn(pl, w) \subseteq Alert
    BY DEF PlacedIn
<1> QED
    BY <1>1, WindowAssumption, FS_Subset, FS_CardinalityType

LEMMA WindowInvSound == WindowInv => WindowsSound
<1> SUFFICES ASSUME WindowInv PROVE WindowsSound
    OBVIOUS
<1>1. CountsAgree
    BY DEF WindowInv, CountsAgree, CountsUp, Summarises
<1>2. ASSUME NEW w \in DOMAIN windows
      PROVE  windows[w].count \in 1 .. Cardinality({a \in Alert : placed[a] = w})
    <2>1. /\ windows[w].count \in Nat /\ windows[w].count >= 1
          /\ windows[w].count <= Cardinality(PlacedIn(placed, w))
        BY DEF WindowInv, CountsUp, Window
    <2> QED
        BY <2>1, PlacedFinite DEF PlacedIn
<1>3. NothingInvented
    BY <1>2 DEF NothingInvented
<1>4. SummarisedIsClosed
    BY DEF WindowInv, SummarisedIsClosed, Summarises
<1> QED
    BY <1>1, <1>3, <1>4 DEF WindowsSound

-----------------------------------------------------------------------------
(* What stays as windows are added, counted and closed.                     *)

\* Windows stay, and closed ones stay closed.
GrowsTo(ws, wt) ==
    /\ DOMAIN ws \subseteq DOMAIN wt
    /\ \A w \in DOMAIN ws : ws[w].status = "closed" => wt[w].status = "closed"

\* Alerts stay where they are.
StaysIn(pl, pm) == \A a \in Alert : pl[a] # 0 => pm[a] = pl[a]

LEMMA PlacedMore ==
    ASSUME NEW pl, NEW pm, StaysIn(pl, pm), NEW w, w # 0
    PROVE  Cardinality(PlacedIn(pl, w)) <= Cardinality(PlacedIn(pm, w))
<1>1. PlacedIn(pl, w) \subseteq PlacedIn(pm, w)
    BY DEF PlacedIn, StaysIn
<1> QED
    BY <1>1, PlacedFinite, FS_Subset

\* An alert that is put into a window makes it one more.
LEMMA PlacedOne ==
    ASSUME NEW pl, NEW pm, StaysIn(pl, pm), NEW w, w # 0, NEW a \in Alert,
           pl[a] = 0, pm[a] = w
    PROVE  Cardinality(PlacedIn(pl, w)) + 1 <= Cardinality(PlacedIn(pm, w))
<1> DEFINE P == PlacedIn(pl, w)
<1>1. P \cup {a} \subseteq PlacedIn(pm, w) /\ a \notin P
    BY DEF PlacedIn, StaysIn
<1>2. Cardinality(P \cup {a}) = Cardinality(P) + 1
    BY <1>1, PlacedFinite, FS_AddElement
<1>3. Cardinality(P \cup {a}) <= Cardinality(PlacedIn(pm, w))
    BY <1>1, PlacedFinite, FS_Subset
<1> QED
    BY <1>2, <1>3

LEMMA AssignsStill ==
    ASSUME NEW a, NEW r, NEW ws \in Seq(Window), NEW wt, NEW pl, NEW pm,
           AssignsWell(a, r, ws, pl), GrowsTo(ws, wt), StaysIn(pl, pm), pm[a] = pl[a]
    PROVE  AssignsWell(a, r, wt, pm)
<1>1. ASSUME r.step = "update"
      PROVE  r.window \in DOMAIN wt /\ r.row.count <= Cardinality(PlacedIn(pm, r.window))
    <2>1. r.window \in DOMAIN ws /\ r.row.count <= Cardinality(PlacedIn(pl, r.window))
          /\ CountsUp(r.row)
        BY <1>1 DEF AssignsWell
    <2>2. r.window # 0 /\ r.window \in DOMAIN wt /\ r.row.count \in Nat
        BY <2>1 DEF GrowsTo, CountsUp, Window
    <2>3. Cardinality(PlacedIn(pl, r.window)) <= Cardinality(PlacedIn(pm, r.window))
        BY <2>2, PlacedMore
    <2> QED
        BY <2>1, <2>2, <2>3, PlacedFinite
<1> QED
    BY <1>1, Zenon DEF AssignsWell

LEMMA ClosesStill ==
    ASSUME NEW r, NEW ws, NEW wt, ClosesWell(r, ws), GrowsTo(ws, wt)
    PROVE  ClosesWell(r, wt)
<1>1. r.todo \in Seq(Nat) /\ \A i \in DOMAIN r.todo : r.todo[i] \in DOMAIN ws
    BY DEF ClosesWell
<1>2. \A i \in DOMAIN r.todo : r.todo[i] \in DOMAIN wt
    BY <1>1 DEF GrowsTo
<1>3. r.todo # <<>> => Head(r.todo) \in DOMAIN ws
    BY <1>1
<1>4. ASSUME r.step \in {"read", "insert"}
      PROVE  r.todo # <<>> /\ wt[Head(r.todo)].status = "closed"
    BY <1>3, <1>4 DEF ClosesWell, GrowsTo
<1> QED
    BY <1>2, <1>4, Zenon DEF ClosesWell

LEMMA SummarisesStill ==
    ASSUME NEW s, NEW ws, NEW wt, Summarises(s, ws), GrowsTo(ws, wt)
    PROVE  Summarises(s, wt)
BY DEF Summarises, GrowsTo

\* The windows and where the alerts are change, by the request of one alert or
\* by none.
LEMMA WindowsKeep ==
    ASSUME WindowInv, windows' \in Seq(Window), placed' \in [Alert -> Nat],
           GrowsTo(windows, windows'), StaysIn(placed, placed'),
           \A w \in DOMAIN windows' :
              /\ CountsUp(windows'[w]) /\ windows'[w].count >= 1
              /\ windows'[w].count <= Cardinality(PlacedIn(placed', w)),
           DOMAIN assigning' = Alert, DOMAIN closing' = Closer,
           \A a \in Alert : \/ assigning'[a] = assigning[a] /\ placed'[a] = placed[a]
                            \/ AssignsWell(a, assigning'[a], windows', placed'),
           \A c \in Closer : closing'[c] = closing[c] \/ ClosesWell(closing'[c], windows'),
           UNCHANGED summaries
    PROVE  WindowInv'
<1>1. ASSUME NEW a \in Alert PROVE AssignsWell(a, assigning'[a], windows', placed')
    <2>1. CASE assigning'[a] = assigning[a] /\ placed'[a] = placed[a]
        BY <2>1, AssignsStill DEF WindowInv
    <2> QED
        BY <2>1
<1>2. ASSUME NEW c \in Closer PROVE ClosesWell(closing'[c], windows')
    <2>1. CASE closing'[c] = closing[c]
        BY <2>1, ClosesStill DEF WindowInv
    <2> QED
        BY <2>1
<1>3. \A s \in DOMAIN summaries' : Summarises(summaries'[s], windows')
    BY SummarisesStill DEF WindowInv
<1> QED
    BY <1>1, <1>2, <1>3 DEF WindowInv

\* No window and no alert moves.
LEMMA RequestsKeep ==
    ASSUME WindowInv, UNCHANGED <<windows, placed, summaries>>,
           DOMAIN assigning' = Alert, DOMAIN closing' = Closer,
           \A a \in Alert : \/ assigning'[a] = assigning[a]
                            \/ AssignsWell(a, assigning'[a], windows, placed),
           \A c \in Closer : closing'[c] = closing[c] \/ ClosesWell(closing'[c], windows)
    PROVE  WindowInv'
BY DEF WindowInv

-----------------------------------------------------------------------------
(* The assignment of an alert.                                              *)

\* A breakdown with one more alert of priority p.
Raised(severity, p) == [severity EXCEPT ![p] = @ + 1]

LEMMA RaisedTotal ==
    ASSUME NEW severity \in [Priority -> Nat], NEW p \in Priority
    PROVE  /\ Raised(severity, p) \in [Priority -> Nat]
           /\ Totalled(Raised(severity, p)) = Totalled(severity) + 1
           /\ Totalled(severity) \in Nat
<1> DEFINE f == severity
           h == Raised(severity, p)
<1>1. h \in [Priority -> Nat] /\ h[p] = f[p] + 1 /\ \A q \in Priority \ {p} : h[q] = f[q]
    BY DEF Raised
<1>2. /\ Totalled(f) = SumFunctionOnSet(f, Priority)
      /\ Totalled(h) = SumFunctionOnSet(h, Priority)
    BY <1>1 DEF Totalled, SumFunction
<1>3. IsFiniteSet(Priority) /\ \A q \in Priority : f[q] \in Nat /\ f[q] \in Int
    BY WindowAssumption
<1>4. SumFunctionOnSet(f, Priority) \in Nat
    BY <1>3, SumNat
<1> HIDE DEF f, h
<1>5. h[p] \in Int
    BY <1>1
<1>6. SumFunctionOnSet(h, Priority) = SumFunctionOnSet(f, Priority) - f[p] + h[p]
    BY <1>1, <1>3, <1>5, SumChange
<1>7. SumFunctionOnSet(h, Priority) = SumFunctionOnSet(f, Priority) + 1
    BY <1>1, <1>3, <1>4, <1>6
<1> QED
    BY <1>1, <1>2, <1>4, <1>7 DEF f, h

LEMMA NoCountsTotal == NoCounts \in [Priority -> Nat] /\ Totalled(NoCounts) = 0
<1>1. NoCounts \in [Priority -> Nat] /\ \A p \in Priority : NoCounts[p] = 0
    BY DEF NoCounts
<1>2. Totalled(NoCounts) = SumFunctionOnSet(NoCounts, Priority)
    BY <1>1 DEF Totalled, SumFunction
<1> HIDE DEF NoCounts
<1>3. SumFunctionOnSet(NoCounts, Priority) = 0
    BY <1>1, SumZero, WindowAssumption
<1> QED
    BY <1>1, <1>2, <1>3

LEMMA FindKeeps ==
    ASSUME WindowInv, NEW a \in Alert, NEW b \in Bucket, NEW p \in Priority,
           findWindow(a, b, p)
    PROVE  WindowInv'
<1>1. placed[a] = 0 /\ UNCHANGED <<windows, placed, summaries, closing>>
    BY DEF findWindow
<1>2. PICK r : assigning' = [assigning EXCEPT ![a] = r] /\ AssignsWell(a, r, windows, placed)
    <2>1. ASSUME NEW w \in DOMAIN windows
          PROVE  AssignsWell(a, [step |-> "update", window |-> w, row |-> windows[w],
                                 priority |-> p], windows, placed)
        <3>1. CountsUp(windows[w]) /\ windows[w].count <= Cardinality(PlacedIn(placed, w))
            BY DEF WindowInv
        <3> QED
            BY <1>1, <3>1 DEF AssignsWell
    <2>2. AssignsWell(a, [step |-> "insert", bucket |-> b, priority |-> p], windows, placed)
        BY <1>1 DEF AssignsWell
    <2> QED
        BY <2>1, <2>2 DEF findWindow
<1>3. DOMAIN assigning = Alert /\ DOMAIN closing = Closer
    BY DEF WindowInv
<1>4. /\ DOMAIN assigning' = Alert /\ DOMAIN closing' = Closer /\ closing' = closing
      /\ assigning'[a] = r /\ \A e \in Alert : e # a => assigning'[e] = assigning[e]
    BY <1>1, <1>2, <1>3
<1>5. \A e \in Alert : \/ assigning'[e] = assigning[e]
                       \/ AssignsWell(e, assigning'[e], windows, placed)
    BY <1>2, <1>4
<1> QED
    BY <1>1, <1>4, <1>5, RequestsKeep

\* Whatever else a's request does, it puts a into the window w and is done.
LEMMA PutKeeps ==
    ASSUME WindowInv, NEW a \in Alert, placed[a] = 0, NEW w \in Nat \ {0},
           windows' \in Seq(Window), GrowsTo(windows, windows'),
           placed' = [placed EXCEPT ![a] = w], assigning' = [assigning EXCEPT ![a] = Idle],
           UNCHANGED <<closing, summaries>>,
           \A v \in DOMAIN windows' \ {w} :
                v \in DOMAIN windows /\ windows'[v] = windows[v],
           CountsUp(windows'[w]), windows'[w].count >= 1,
           windows'[w].count <= Cardinality(PlacedIn(placed, w)) + 1
    PROVE  WindowInv'
<1>1. placed \in [Alert -> Nat] /\ DOMAIN assigning = Alert /\ DOMAIN closing = Closer
    BY DEF WindowInv
<1>2. /\ placed' \in [Alert -> Nat] /\ placed'[a] = w
      /\ \A e \in Alert : e # a => placed'[e] = placed[e]
      /\ StaysIn(placed, placed')
    BY <1>1 DEF StaysIn
<1>3. Cardinality(PlacedIn(placed, w)) + 1 <= Cardinality(PlacedIn(placed', w))
    BY <1>2, PlacedOne
<1>4. ASSUME NEW v \in DOMAIN windows'
      PROVE  /\ CountsUp(windows'[v]) /\ windows'[v].count >= 1
             /\ windows'[v].count <= Cardinality(PlacedIn(placed', v))
    <2>1. CASE v = w
        <3>1. windows'[w].count \in Nat
            BY DEF CountsUp, Window
        <3> QED
            BY <1>3, <2>1, <3>1, PlacedFinite
    <2>2. CASE v # w
        <3>1. v \in DOMAIN windows /\ windows'[v] = windows[v] /\ v # 0
            BY <2>2
        <3>2. /\ CountsUp(windows[v]) /\ windows[v].count >= 1 /\ windows[v].count \in Nat
              /\ windows[v].count <= Cardinality(PlacedIn(placed, v))
            BY <3>1 DEF WindowInv, CountsUp, Window
        <3>3. Cardinality(PlacedIn(placed, v)) <= Cardinality(PlacedIn(placed', v))
            BY <1>2, <3>1, PlacedMore
        <3> QED
            BY <3>1, <3>2, <3>3, PlacedFinite
    <2> QED
        BY <2>1, <2>2
<1>5. DOMAIN assigning' = Alert /\ DOMAIN closing' = Closer /\ assigning'[a] = Idle
      /\ \A e \in Alert : e # a => assigning'[e] = assigning[e]
    BY <1>1
<1>6. AssignsWell(a, Idle, windows', placed')
    BY DEF AssignsWell, Idle
<1>7. \A e \in Alert : \/ assigning'[e] = assigning[e] /\ placed'[e] = placed[e]
                       \/ AssignsWell(e, assigning'[e], windows', placed')
    BY <1>2, <1>5, <1>6
<1> QED
    BY <1>2, <1>4, <1>5, <1>7, WindowsKeep

LEMMA CountKeeps ==
    ASSUME WindowInv, NEW a \in Alert, countAlert(a)
    PROVE  WindowInv'
<1> DEFINE r == assigning[a]
           w == r.window
           old == windows[w]
           severity == Raised(r.row.severity, r.priority)
           n == r.row.count + 1
           new == [old EXCEPT !.count = n, !.severity = severity]
<1>1. /\ r.step = "update" /\ placed' = [placed EXCEPT ![a] = w]
      /\ assigning' = [assigning EXCEPT ![a] = Idle] /\ UNCHANGED <<closing, summaries>>
      /\ windows' = [windows EXCEPT ![w].count = n, ![w].severity = severity]
    BY DEF countAlert, Raised
<1>2. AssignsWell(a, r, windows, placed) /\ windows \in Seq(Window)
    BY DEF WindowInv
<1>3. /\ w \in DOMAIN windows /\ CountsUp(r.row) /\ r.priority \in Priority
      /\ r.row.count <= Cardinality(PlacedIn(placed, w)) /\ placed[a] = 0
    BY <1>1, <1>2 DEF AssignsWell
<1>4. /\ w \in Nat \ {0} /\ old \in Window
      /\ r.row.count \in Nat /\ r.row.severity \in [Priority -> Nat]
      /\ r.row.count = Totalled(r.row.severity)
    <2>1. w \in Nat \ {0} /\ old \in Window
        <3> HIDE DEF w
        <3> QED
            BY <1>2, <1>3
    <2>2. r.row \in Window /\ r.row.count = Totalled(r.row.severity)
        BY <1>3 DEF CountsUp
    <2>3. r.row.count \in Nat /\ r.row.severity \in [Priority -> Nat]
        BY <2>2 DEF Window
    <2> QED
        BY <2>1, <2>2, <2>3
<1>5. severity \in [Priority -> Nat] /\ n \in Nat /\ n = Totalled(severity) /\ n >= 1
      /\ n <= Cardinality(PlacedIn(placed, w)) + 1
    BY <1>3, <1>4, RaisedTotal, PlacedFinite
<1>6. windows' = [windows EXCEPT ![w] = new]
    BY <1>1, <1>2, <1>3
<1> HIDE DEF severity, n, old
<1>7. /\ new \in Window /\ new.count = n /\ new.severity = severity
      /\ new.status = old.status
    BY <1>4, <1>5 DEF Window
<1> HIDE DEF new, r, w
<1>8. /\ windows' \in Seq(Window) /\ DOMAIN windows' = DOMAIN windows /\ windows'[w] = new
      /\ \A v \in DOMAIN windows : v # w => windows'[v] = windows[v]
    BY <1>2, <1>3, <1>6, <1>7
<1>9. GrowsTo(windows, windows')
    BY <1>7, <1>8 DEF GrowsTo, old
<1>10. CountsUp(windows'[w]) /\ windows'[w].count = n
    BY <1>5, <1>7, <1>8 DEF CountsUp
<1> QED
    BY <1>1, <1>3, <1>4, <1>5, <1>8, <1>9, <1>10, PutKeeps

LEMMA OpenKeeps ==
    ASSUME WindowInv, NEW a \in Alert, openWindow(a)
    PROVE  WindowInv'
<1> DEFINE r == assigning[a]
           w == Len(windows) + 1
           severity == Raised(NoCounts, r.priority)
           new == [bucket |-> r.bucket, count |-> 1, status |-> "open", severity |-> severity]
<1>1. /\ windows \in Seq(Window) /\ AssignsWell(a, r, windows, placed) /\ r.step = "insert"
    BY DEF WindowInv, openWindow
<1>2. r.bucket \in Bucket /\ r.priority \in Priority /\ placed[a] = 0
    BY <1>1 DEF AssignsWell
<1>3. severity = [NoCounts EXCEPT ![r.priority] = 1]
    <2> DEFINE p == r.priority
    <2>1. p \in Priority
        BY <1>2
    <2>2. Raised(NoCounts, p) = [NoCounts EXCEPT ![p] = NoCounts[p] + 1]
        BY DEF Raised
    <2>3. NoCounts[p] + 1 = 1
        BY <2>1 DEF NoCounts
    <2> QED
        BY <2>2, <2>3
<1>4. /\ windows' = Append(windows, new) /\ placed' = [placed EXCEPT ![a] = Len(windows')]
      /\ assigning' = [assigning EXCEPT ![a] = Idle] /\ UNCHANGED <<closing, summaries>>
    BY <1>3 DEF openWindow
<1>5. severity \in [Priority -> Nat] /\ Totalled(severity) = 1
    BY <1>2, NoCountsTotal, RaisedTotal
<1> HIDE DEF severity
<1>6. new \in Window /\ new.count = 1 /\ CountsUp(new)
    BY <1>2, <1>5 DEF CountsUp, Window
<1> HIDE DEF new
<1>7. /\ windows' \in Seq(Window) /\ Len(windows') = w /\ windows'[w] = new
      /\ w \in Nat \ {0} /\ DOMAIN windows' = DOMAIN windows \cup {w}
      /\ \A v \in DOMAIN windows : windows'[v] = windows[v]
    BY <1>1, <1>4, <1>6
<1> HIDE DEF w
<1>8. GrowsTo(windows, windows')
    BY <1>7 DEF GrowsTo
<1>9. /\ CountsUp(windows'[w]) /\ windows'[w].count >= 1
      /\ windows'[w].count <= Cardinality(PlacedIn(placed, w)) + 1
    BY <1>6, <1>7, PlacedFinite
<1>10. \A v \in DOMAIN windows' \ {w} : v \in DOMAIN windows /\ windows'[v] = windows[v]
    BY <1>7
<1>11. placed' = [placed EXCEPT ![a] = w]
    BY <1>4, <1>7
<1> QED
    BY <1>2, <1>4, <1>7, <1>8, <1>9, <1>10, <1>11, PutKeeps

-----------------------------------------------------------------------------
(* The closing of windows.                                                  *)

\* Whatever the request of c does, it alone moves on.
LEMMA CloserIs ==
    ASSUME WindowInv, NEW c \in Closer, NEW r, closing' = [closing EXCEPT ![c] = r],
           NEW ws, ClosesWell(r, ws)
    PROVE  /\ DOMAIN closing' = Closer
           /\ \A d \in Closer : closing'[d] = closing[d] \/ ClosesWell(closing'[d], ws)
BY DEF WindowInv

LEMMA CloserKeeps ==
    ASSUME WindowInv, NEW c \in Closer, NEW r, closing' = [closing EXCEPT ![c] = r],
           ClosesWell(r, windows), UNCHANGED <<windows, placed, summaries, assigning>>
    PROVE  WindowInv'
<1>1. /\ DOMAIN closing' = Closer
      /\ \A d \in Closer : closing'[d] = closing[d] \/ ClosesWell(closing'[d], windows)
    BY CloserIs
<1>2. DOMAIN assigning = Alert
    BY DEF WindowInv
<1> QED
    BY <1>1, <1>2, RequestsKeep

LEMMA Counting == ASSUME NEW n \in Nat PROVE IsFiniteSet(1 .. n)
<1>1. 1 \in Int /\ n \in Int
    OBVIOUS
<1> QED
    BY <1>1, FS_Interval

LEMMA Listing ==
    ASSUME NEW S, NEW n \in Nat, NEW list \in [1 .. n -> S]
    PROVE  list \in Seq(S)
OBVIOUS

LEMMA StartClosingKeeps ==
    ASSUME WindowInv, NEW c \in Closer, startClosing(c)
    PROVE  WindowInv'
<1> DEFINE W == DOMAIN windows
           over == {w \in W : windows[w].status = "open" /\ windows[w].bucket \in expired}
<1>1. PICK todo \in {<<w>> : w \in W} \cup SetToSeqs(over) :
          closing' = [closing EXCEPT ![c] = [step |-> "close", todo |-> todo]]
    BY DEF startClosing
<1>2. UNCHANGED <<windows, placed, summaries, assigning>>
    BY DEF startClosing
<1>3. windows \in Seq(Window)
    BY DEF WindowInv
<1>4. IsFiniteSet(over) /\ over \subseteq W /\ W \subseteq Nat
    <2>1. W = 1 .. Len(windows) /\ Len(windows) \in Nat
        BY <1>3
    <2>2. IsFiniteSet(1 .. Len(windows))
        BY <2>1, Counting
    <2> QED
        BY <2>1, <2>2, FS_Subset
<1>5. todo \in Seq(W)
    <2>1. CASE todo \in {<<w>> : w \in W}
        <3>1. PICK w \in W : todo = <<w>>
            BY <2>1
        <3> HIDE DEF W
        <3> QED
            BY <3>1
    <2>2. CASE todo \in SetToSeqs(over)
        <3>1. Cardinality(over) \in Nat /\ todo \in [1 .. Cardinality(over) -> over]
            BY <1>4, <2>2, FS_CardinalityType DEF SetToSeqs
        <3> HIDE DEF over, W
        <3>2. todo \in [1 .. Cardinality(over) -> W]
            BY <1>4, <3>1
        <3> QED
            BY <3>1, <3>2, Listing
    <2> QED
        BY <2>1, <2>2
<1> DEFINE r == [step |-> "close", todo |-> todo]
<1> HIDE DEF W, over
<1>6. todo \in Seq(Nat) /\ \A i \in DOMAIN todo : todo[i] \in W
    <2>1. \A i \in DOMAIN todo : todo[i] \in W
        BY <1>5
    <2>2. Len(todo) \in Nat /\ DOMAIN todo = 1 .. Len(todo) /\ todo \in [1 .. Len(todo) -> W]
        BY <1>5
    <2>3. todo \in [1 .. Len(todo) -> Nat]
        BY <1>4, <2>2
    <2>4. todo \in Seq(Nat)
        BY <2>2, <2>3
    <2> QED
        BY <2>1, <2>4
<1>7. ClosesWell(r, windows)
    BY <1>6 DEF ClosesWell, W
<1> QED
    BY <1>1, <1>2, <1>7, CloserKeeps

LEMMA CloseKeeps ==
    ASSUME WindowInv, NEW c \in Closer, closeWindow(c)
    PROVE  WindowInv'
<1> DEFINE r == closing[c]
           todo == r.todo
<1>1. /\ r.step = "close" /\ UNCHANGED <<placed, summaries, assigning>>
      /\ ClosesWell(r, windows) /\ windows \in Seq(Window)
      /\ DOMAIN closing = Closer /\ DOMAIN assigning = Alert
    BY DEF closeWindow, WindowInv
<1>2. /\ r \in [step : {"idle", "close", "read"}, todo : Seq(Nat)]
      /\ \A i \in DOMAIN todo : todo[i] \in DOMAIN windows
    BY <1>1 DEF ClosesWell
<1>3. CASE todo = <<>> /\ windows' = windows /\ closing' = [closing EXCEPT ![c].step = "idle"]
    <2> DEFINE new == [step |-> "idle", todo |-> todo]
    <2>1. new = [r EXCEPT !.step = "idle"]
        BY <1>2
    <2>2. closing' = [closing EXCEPT ![c] = new]
        BY <1>1, <1>3, <2>1
    <2>3. ClosesWell(new, windows)
        BY <1>2 DEF ClosesWell
    <2> QED
        BY <1>1, <1>3, <2>2, <2>3, CloserKeeps
<1>4. CASE /\ todo # <<>> /\ windows' = [windows EXCEPT ![Head(todo)].status = "closed"]
           /\ closing' = [closing EXCEPT ![c].step = "read"]
    <2> DEFINE w == Head(todo)
               old == windows[w]
               entry == [old EXCEPT !.status = "closed"]
               new == [step |-> "read", todo |-> todo]
    <2>1. new = [r EXCEPT !.step = "read"]
        BY <1>2
    <2>2. closing' = [closing EXCEPT ![c] = new] /\ windows' = [windows EXCEPT ![w] = entry]
        BY <1>1, <1>4, <2>1
    <2>3. w \in DOMAIN windows /\ old \in Window
        BY <1>1, <1>2, <1>4
    <2>4. /\ entry \in Window /\ entry.count = old.count /\ entry.severity = old.severity
          /\ entry.status = "closed"
        <3> HIDE DEF old
        <3> QED
            BY <2>3 DEF Window
    <2> HIDE DEF entry, w
    <2>5. /\ windows' \in Seq(Window) /\ DOMAIN windows' = DOMAIN windows /\ windows'[w] = entry
          /\ \A v \in DOMAIN windows : v # w => windows'[v] = windows[v]
        BY <1>1, <2>2, <2>3, <2>4
    <2>6. GrowsTo(windows, windows') /\ StaysIn(placed, placed')
        BY <1>1, <2>4, <2>5 DEF GrowsTo, StaysIn
    <2>7. ASSUME NEW v \in DOMAIN windows'
          PROVE  /\ CountsUp(windows'[v]) /\ windows'[v].count >= 1
                 /\ windows'[v].count <= Cardinality(PlacedIn(placed', v))
        <3>1. /\ CountsUp(windows[v]) /\ windows[v].count >= 1
              /\ windows[v].count <= Cardinality(PlacedIn(placed, v))
            BY <2>5, <2>7 DEF WindowInv
        <3>2. windows'[v] \in Window /\ windows'[v].count = windows[v].count
              /\ windows'[v].severity = windows[v].severity
            BY <2>4, <2>5, <2>7
        <3> QED
            BY <1>1, <3>1, <3>2 DEF CountsUp
    <2>8. ClosesWell(new, windows')
        BY <1>2, <1>4, <2>4, <2>5 DEF ClosesWell, w
    <2> HIDE DEF new
    <2>9. /\ DOMAIN closing' = Closer
          /\ \A d \in Closer : closing'[d] = closing[d] \/ ClosesWell(closing'[d], windows')
        BY <2>2, <2>8, CloserIs
    <2>10. placed' \in [Alert -> Nat] /\ DOMAIN assigning' = Alert /\ UNCHANGED summaries
           /\ \A a \in Alert : assigning'[a] = assigning[a] /\ placed'[a] = placed[a]
        BY <1>1 DEF WindowInv
    <2> QED
        BY <2>5, <2>6, <2>7, <2>9, <2>10, WindowsKeep
<1> QED
    BY <1>3, <1>4 DEF closeWindow

LEMMA ReadKeeps ==
    ASSUME WindowInv, NEW c \in Closer, readWindow(c)
    PROVE  WindowInv'
<1> DEFINE todo == closing[c].todo
           entry == windows[Head(todo)]
           new == [step |-> "insert", todo |-> todo, row |-> entry]
<1>1. /\ closing[c].step = "read" /\ UNCHANGED <<windows, placed, summaries, assigning>>
      /\ ClosesWell(closing[c], windows) /\ windows \in Seq(Window)
      /\ DOMAIN closing = Closer
    BY DEF readWindow, WindowInv
<1>2. closing' = [closing EXCEPT ![c] = new]
    BY <1>1 DEF readWindow
<1>3. /\ todo \in Seq(Nat) /\ todo # <<>> /\ entry.status = "closed"
      /\ \A i \in DOMAIN todo : todo[i] \in DOMAIN windows
    BY <1>1 DEF ClosesWell
<1>4. Head(todo) \in DOMAIN windows
    BY <1>3
<1>5. CountsUp(entry) /\ entry \in Window
    BY <1>4 DEF WindowInv, CountsUp
<1> HIDE DEF todo
<1>6. ClosesWell(new, windows)
    BY <1>3, <1>5 DEF ClosesWell
<1> QED
    BY <1>1, <1>2, <1>6, CloserKeeps

LEMMA SummaryKeeps ==
    ASSUME WindowInv, NEW c \in Closer, insertSummary(c)
    PROVE  WindowInv'
<1> DEFINE r == closing[c]
           todo == r.todo
           w == Head(todo)
           s == [window |-> w, total |-> r.row.count, severity |-> r.row.severity]
           new == [step |-> "close", todo |-> Tail(todo)]
<1>1. /\ r.step = "insert" /\ UNCHANGED <<windows, placed, assigning>>
      /\ summaries' = Append(summaries, s) /\ closing' = [closing EXCEPT ![c] = new]
      /\ ClosesWell(r, windows) /\ summaries \in Seq(Summary) /\ DOMAIN closing = Closer
    BY DEF insertSummary, WindowInv
<1>2. /\ todo \in Seq(Nat) /\ todo # <<>> /\ windows[w].status = "closed"
      /\ \A i \in DOMAIN todo : todo[i] \in DOMAIN windows /\ CountsUp(r.row)
    BY <1>1 DEF ClosesWell
<1>3. w \in DOMAIN windows /\ w \in Nat /\ CountsUp(r.row)
    BY <1>2
<1>4. s \in Summary /\ Summarises(s, windows)
    BY <1>2, <1>3 DEF CountsUp, Window, Summary, Summarises
<1>5. /\ Tail(todo) \in Seq(Nat)
      /\ \A i \in DOMAIN Tail(todo) : Tail(todo)[i] \in DOMAIN windows
    <2> HIDE DEF todo
    <2>1. /\ Tail(todo) \in Seq(Nat)
          /\ \A i \in DOMAIN Tail(todo) : i + 1 \in DOMAIN todo /\ Tail(todo)[i] = todo[i + 1]
        BY <1>2
    <2> QED
        BY <1>2, <2>1
<1> HIDE DEF todo, s, w
<1>6. ClosesWell(new, windows)
    BY <1>5 DEF ClosesWell
<1> HIDE DEF new
<1>7. \A d \in Closer : ClosesWell(closing'[d], windows)
    BY <1>1, <1>6, CloserIs DEF WindowInv
<1>8. /\ summaries' \in Seq(Summary)
      /\ \A i \in DOMAIN summaries' : Summarises(summaries'[i], windows)
    <2>1. /\ summaries' \in Seq(Summary)
          /\ DOMAIN summaries' = DOMAIN summaries \cup {Len(summaries')}
          /\ summaries'[Len(summaries')] = s
          /\ \A i \in DOMAIN summaries : summaries'[i] = summaries[i]
        BY <1>1, <1>4
    <2> QED
        BY <1>4, <2>1 DEF WindowInv
<1>9. DOMAIN closing' = Closer
    BY <1>1
<1> QED
    BY <1>1, <1>7, <1>8, <1>9 DEF WindowInv

LEMMA WindowStep == WindowInv /\ [WindowNext]_windowVars => WindowInv'
<1> SUFFICES ASSUME WindowInv, [WindowNext]_windowVars PROVE WindowInv'
    OBVIOUS
<1>1. ASSUME NEW b \in Bucket, elapse(b) PROVE WindowInv'
    BY <1>1 DEF elapse, WindowInv
<1>2. ASSUME UNCHANGED windowVars PROVE WindowInv'
    BY <1>2 DEF windowVars, WindowInv
<1> QED
    BY <1>1, <1>2, FindKeeps, CountKeeps, OpenKeeps, StartClosingKeeps, CloseKeeps, ReadKeeps,
       SummaryKeeps DEF WindowNext

LEMMA WindowInitial == WindowInit => WindowInv
<1> SUFFICES ASSUME WindowInit PROVE WindowInv
    OBVIOUS
<1>1. windows = <<>> /\ summaries = <<>> /\ placed = [a \in Alert |-> 0]
    BY DEF WindowInit
<1>2. /\ windows \in Seq(Window) /\ summaries \in Seq(Summary)
      /\ DOMAIN windows = {} /\ DOMAIN summaries = {}
    BY <1>1
<1>3. ASSUME NEW a \in Alert PROVE AssignsWell(a, assigning[a], windows, placed)
    BY DEF WindowInit, AssignsWell, Idle
<1>4. ASSUME NEW c \in Closer PROVE ClosesWell(closing[c], windows)
    <2>1. closing[c] = [step |-> "idle", todo |-> <<>>]
        BY DEF WindowInit
    <2> QED
        BY <2>1 DEF ClosesWell
<1>5. DOMAIN assigning = Alert /\ DOMAIN closing = Closer
    BY DEF WindowInit
<1> QED
    BY <1>1, <1>2, <1>3, <1>4, <1>5 DEF WindowInv

\* However the requests interleave: a window's count is the sum of its
\* breakdown and no more than was put into it, and what has a summary is
\* closed.
THEOREM WindowsSoundHolds == WindowSpec => []WindowsSound
<1>1. WindowInit => WindowInv
    BY WindowInitial
<1>2. WindowInv /\ [WindowNext]_windowVars => WindowInv'
    BY WindowStep
<1>3. WindowInv => WindowsSound
    BY WindowInvSound
<1> QED
    BY <1>1, <1>2, <1>3, PTL DEF WindowSpec

(***************************************************************************)
(* The provider circuit breaker: TypeOK, OpenHasTimer and TripsAreCounted  *)
(* for every number of concurrent requests, threshold and timeout.         *)
(***************************************************************************)

\* The row without the bounds that only the number of calls sets.
LooseRow ==
    [state : BreakerState, failures : Nat, threshold : Thresholds, timeout : Timeouts,
     trips : Nat, override : ManualOverride, opened : Nat \cup {-1}]

LooseSnap == [state : BreakerState, failures : Nat, threshold : Thresholds]

Label ==
    {"idle", "flip", "call", "probe", "s_reset", "s_close", "s_done",
     "f_count", "f_trip", "f_log"}

\* The part of the types that the invariants need.
Loose ==
    /\ row \in LooseRow
    /\ tripRows \in Nat
    /\ pc \in [Request -> Label]
    /\ snap \in [Request -> LooseSnap]

\* The requests that have tripped the breaker and not yet recorded it.
Logging == {r \in Request : pc[r] = "f_log"}

-----------------------------------------------------------------------------
(* Types and the timer.                                                     *)

LEMMA GoLoose ==
    ASSUME pc \in [Request -> Label], NEW r \in Request, NEW label \in Label, Go(r, label)
    PROVE  pc' \in [Request -> Label]
BY DEF Go

LEMMA ReadLoose ==
    ASSUME Loose, NEW r \in Request, Read(r)
    PROVE  snap' \in [Request -> LooseSnap]
BY DEF Loose, LooseRow, LooseSnap, Read

LEMMA NoSnapLoose == NoSnap \in LooseSnap
BY BreakerAssumption DEF NoSnap, BreakerState, LooseSnap

LEMMA ForgetLoose ==
    ASSUME Loose, NEW r \in Request, Forget(r)
    PROVE  snap' \in [Request -> LooseSnap]
BY NoSnapLoose DEF Loose, Forget

LEMMA RequestLoose ==
    ASSUME Loose, NEW r \in Request, callWithBreaker(r)
    PROVE  Loose'
<1>1. /\ row \in LooseRow /\ tripRows \in Nat
      /\ pc \in [Request -> Label] /\ snap \in [Request -> LooseSnap]
  BY DEF Loose
<1>2. pc' \in [Request -> Label]
  <2>1. \E label \in Label : Go(r, label)
    <3>1. CASE ResetFailures(r)
      <4>1. (IF snap[r].state = "half_open" THEN "s_close" ELSE "s_done") \in Label
        BY DEF Label
      <4> QED
        BY <3>1, <4>1 DEF ResetFailures
    <3>2. CASE CountFailure(r)
      <4>1. (IF Trips(snap[r]) THEN "f_trip" ELSE "idle") \in Label
        BY DEF Label
      <4> QED
        BY <3>2, <4>1 DEF CountFailure
    <3>3. CASE Admit(r) \/ SeeElapsed(r) \/ Flip(r)
      BY <3>3 DEF Label, Admit, SeeElapsed, Flip
    <3>4. CASE Succeed(r) \/ Return(r) \/ Fail(r) \/ Abort(r)
      BY <3>4 DEF Label, Succeed, Return, Fail, Abort
    <3>5. CASE Close(r) \/ tripOpen(r) \/ recordTransition(r)
      BY <3>5 DEF Label, Close, tripOpen, recordTransition
    <3> QED
      BY <3>1, <3>2, <3>3, <3>4, <3>5 DEF callWithBreaker
  <2> QED
    BY <1>1, <2>1, GoLoose
<1>3. snap' \in [Request -> LooseSnap]
  <2>1. snap' = snap \/ Read(r) \/ Forget(r)
    BY DEF callWithBreaker, Admit, SeeElapsed, Flip, Succeed, ResetFailures, Close, Return,
           Fail, CountFailure, tripOpen, recordTransition, Abort
  <2> QED
    BY <1>1, <2>1, ReadLoose, ForgetLoose
<1>4. tripRows' \in Nat
  BY <1>1 DEF callWithBreaker, Admit, SeeElapsed, Flip, Succeed, ResetFailures, Close,
              Return, Fail, CountFailure, tripOpen, recordTransition, Abort
<1>5. row' \in LooseRow
  <2>1. CASE row' = row
    BY <1>1, <2>1
  <2>2. CASE Flip(r)
    BY <1>1, <2>2 DEF Flip, HalfOpen, LooseRow, BreakerState
  <2>3. CASE ResetFailures(r)
    BY <1>1, <2>3 DEF ResetFailures, LooseRow
  <2>4. CASE Close(r)
    BY <1>1, <2>4 DEF Close, LooseRow, BreakerState
  <2>5. CASE CountFailure(r)
    <3>1. snap[r].failures + 1 \in Nat
      BY <1>1 DEF LooseSnap
    <3> QED
      BY <1>1, <2>5, <3>1 DEF CountFailure, LooseRow
  <2>6. CASE tripOpen(r)
    <3>1. row.trips + 1 \in Nat /\ 0 \in Nat \cup {-1} /\ "open" \in BreakerState
      BY <1>1 DEF LooseRow, BreakerState
    <3> QED
      BY <1>1, <2>6, <3>1 DEF tripOpen, LooseRow
  <2> QED
    BY <2>1, <2>2, <2>3, <2>4, <2>5, <2>6
       DEF callWithBreaker, Admit, SeeElapsed, Succeed, Return, Fail, recordTransition, Abort
<1> QED
  BY <1>2, <1>3, <1>4, <1>5 DEF Loose

\* What the sweep, the admin and the clock do.
Elsewhere ==
    \/ SweepRead \/ SweepFlip \/ SweepAbort \/ Tick
    \/ \E o \in ManualOverride : setManualOverride(o)
    \/ \E n \in Thresholds, t \in Timeouts : configureThresholds(n, t)

LEMMA ElsewhereLoose ==
    ASSUME Loose, Elsewhere
    PROVE  Loose' /\ Logging' = Logging /\ row'.trips = row.trips /\ tripRows' = tripRows
<1>1. pc' = pc /\ snap' = snap /\ tripRows' = tripRows
  BY DEF Elsewhere, SweepRead, SweepAbort, SweepFlip, Tick, setManualOverride,
         configureThresholds
<1>2. row \in LooseRow
  BY DEF Loose
<1>3. row' \in LooseRow /\ row'.trips = row.trips
  <2>1. CASE row' = row
    BY <1>2, <2>1
  <2>2. CASE SweepFlip
    BY <1>2, <2>2 DEF SweepFlip, HalfOpen, LooseRow, BreakerState
  <2>3. CASE Tick
    BY <1>2, <2>3 DEF Tick, LooseRow
  <2>4. ASSUME NEW o \in ManualOverride, setManualOverride(o)
        PROVE  row' \in LooseRow /\ row'.trips = row.trips
    <3>1. CASE o = "force_closed"
      BY <1>2, <2>4, <3>1 DEF setManualOverride, LooseRow, BreakerState, ManualOverride
    <3>2. CASE o = "force_open"
      BY <1>2, <2>4, <3>2 DEF setManualOverride, LooseRow, BreakerState, ManualOverride
    <3>3. CASE o = "none"
      BY <1>2, <2>4, <3>3 DEF setManualOverride, LooseRow, BreakerState, ManualOverride
    <3> QED
      BY <2>4, <3>1, <3>2, <3>3 DEF ManualOverride
  <2>5. ASSUME NEW n \in Thresholds, NEW t \in Timeouts, configureThresholds(n, t)
        PROVE  row' \in LooseRow /\ row'.trips = row.trips
    BY <1>2, <2>5 DEF configureThresholds, LooseRow
  <2> QED
    BY <2>1, <2>2, <2>3, <2>4, <2>5 DEF Elsewhere, SweepRead, SweepAbort
<1> QED
  BY <1>1, <1>3 DEF Loose, Logging

LEMMA TimerKeeps ==
    ASSUME Loose, OpenHasTimer, Elsewhere \/ \E r \in Request : callWithBreaker(r)
    PROVE  OpenHasTimer'
<1>1. row \in LooseRow /\ (row.state = "open" => row.opened # -1)
  BY DEF Loose, OpenHasTimer
<1> USE <1>1 DEF LooseRow, OpenHasTimer
<1>2. CASE row' = row
  BY <1>2
<1>3. CASE Tick
  BY <1>3 DEF Tick
<1>4. CASE SweepFlip
  BY <1>4 DEF SweepFlip, HalfOpen
<1>5. ASSUME NEW r \in Request, Flip(r) \/ ResetFailures(r) \/ CountFailure(r)
      PROVE  OpenHasTimer'
  BY <1>5 DEF Flip, HalfOpen, ResetFailures, CountFailure
<1>6. ASSUME NEW r \in Request, Close(r) \/ tripOpen(r)
      PROVE  OpenHasTimer'
  <2>1. CASE Close(r)
    BY <2>1 DEF Close
  <2>2. CASE tripOpen(r)
    <3>1. row'.opened = 0
      BY <2>2 DEF tripOpen
    <3> QED
      BY <3>1
  <2> QED
    BY <1>6, <2>1, <2>2
<1>7. ASSUME NEW o \in ManualOverride, setManualOverride(o)
      PROVE  OpenHasTimer'
  <2>1. CASE o = "force_closed"
    BY <1>7, <2>1 DEF setManualOverride, ManualOverride
  <2>2. CASE o = "force_open"
    <3>1. row'.opened = 0
      BY <1>7, <2>2 DEF setManualOverride, ManualOverride
    <3> QED
      BY <3>1
  <2>3. CASE o = "none"
    BY <1>7, <2>3 DEF setManualOverride, ManualOverride
  <2> QED
    BY <1>7, <2>1, <2>2, <2>3 DEF ManualOverride
<1>8. ASSUME NEW n \in Thresholds, NEW t \in Timeouts, configureThresholds(n, t)
      PROVE  OpenHasTimer'
  BY <1>8 DEF configureThresholds
<1> QED
  BY <1>2, <1>3, <1>4, <1>5, <1>6, <1>7, <1>8
     DEF Elsewhere, SweepRead, SweepAbort, callWithBreaker, Admit, SeeElapsed, Succeed,
         Return, Fail, recordTransition, Abort

-----------------------------------------------------------------------------
(* The trips.                                                               *)

\* No set of requests is infinite.
LEMMA LoggingFinite == IsFiniteSet(Logging) /\ Cardinality(Logging) \in Nat
BY BreakerAssumption, FS_Subset, FS_CardinalityType DEF Logging

\* A step that leaves the count alone and sends nobody to record a trip.
LEMMA TripCountKeeps ==
    ASSUME Loose, TripsAreCounted, Logging' \subseteq Logging,
           tripRows' = tripRows, row'.trips = row.trips
    PROVE  TripsAreCounted'
<1>1. Cardinality(Logging') \in Nat /\ Cardinality(Logging') <= Cardinality(Logging)
  BY LoggingFinite, FS_Subset, FS_CardinalityType
<1>2. tripRows + Cardinality(Logging) <= row.trips
  BY DEF TripsAreCounted, Logging
<1>3. row.trips \in Nat /\ tripRows \in Nat
  BY DEF Loose, LooseRow
<1>4. tripRows' + Cardinality(Logging') <= row'.trips
  BY <1>1, <1>2, <1>3, LoggingFinite
<1> QED
  BY <1>4 DEF TripsAreCounted, Logging

LEMMA TripsKeep ==
    ASSUME Loose, TripsAreCounted, NEW r \in Request, callWithBreaker(r)
    PROVE  TripsAreCounted'
<1>1. row.trips \in Nat /\ tripRows \in Nat /\ pc \in [Request -> Label]
  BY DEF Loose, LooseRow
<1>2. tripRows + Cardinality(Logging) <= row.trips
  BY DEF TripsAreCounted, Logging
\* The trip is counted before it is recorded ...
<1>3. CASE tripOpen(r)
  <2>1. Logging' = Logging \cup {r} /\ r \notin Logging
    BY <1>1, <1>3 DEF tripOpen, Go, Logging
  <2>2. Cardinality(Logging') = Cardinality(Logging) + 1
    BY <2>1, LoggingFinite, FS_AddElement
  <2>3. row'.trips = row.trips + 1 /\ tripRows' = tripRows
    BY <1>3 DEF Loose, LooseRow, tripOpen
  <2>4. tripRows' + Cardinality(Logging') <= row'.trips
    BY <1>1, <1>2, <2>2, <2>3, LoggingFinite
  <2> QED
    BY <2>4 DEF TripsAreCounted, Logging
\* ... and what is recorded has been counted.
<1>4. CASE recordTransition(r)
  <2>1. Logging' = Logging \ {r} /\ r \in Logging
    BY <1>1, <1>4 DEF recordTransition, Go, Logging
  <2>2. Cardinality(Logging') = Cardinality(Logging) - 1
    BY <2>1, LoggingFinite, FS_RemoveElement
  <2>3. row' = row /\ tripRows' = tripRows + 1
    BY <1>4 DEF recordTransition
  <2>4. tripRows' + Cardinality(Logging') <= row'.trips
    BY <1>1, <1>2, <2>2, <2>3, LoggingFinite
  <2> QED
    BY <2>4 DEF TripsAreCounted, Logging
<1>5. CASE Admit(r) \/ SeeElapsed(r) \/ Succeed(r) \/ Return(r) \/ Fail(r) \/ Abort(r)
  <2>1. Logging' \subseteq Logging
    BY <1>1, <1>5 DEF Admit, SeeElapsed, Succeed, Return, Fail, Abort, Go, Logging
  <2>2. row' = row /\ tripRows' = tripRows
    BY <1>5 DEF Admit, SeeElapsed, Succeed, Return, Fail, Abort
  <2> QED
    BY <2>1, <2>2, TripCountKeeps
<1>6. CASE Flip(r) \/ ResetFailures(r) \/ Close(r) \/ CountFailure(r)
  <2>1. Logging' \subseteq Logging
    BY <1>1, <1>6 DEF Flip, ResetFailures, Close, CountFailure, Go, Logging
  <2>2. row'.trips = row.trips /\ tripRows' = tripRows
    BY <1>6 DEF Loose, LooseRow, Flip, HalfOpen, ResetFailures, Close, CountFailure
  <2> QED
    BY <2>1, <2>2, TripCountKeeps
<1> QED
  BY <1>3, <1>4, <1>5, <1>6 DEF callWithBreaker

-----------------------------------------------------------------------------
(* The bounds: a call counts at most one failure and at most one trip.      *)

\* The requests that may still count a failure, and those that may still trip
\* the breaker.
Uncounted == {r \in Request : pc[r] \notin {"idle", "f_trip", "f_log"}}
Untripped == {r \in Request : pc[r] \notin {"idle", "f_log"}}

\* A failure count that was read can be written back, one higher, by each
\* request that read it; so what every request has read is bounded, too.
Bounded ==
    /\ calls \in Nat /\ calls <= MaxCalls
    /\ row.failures + Cardinality(Uncounted) <= calls
    /\ \A r \in Request : snap[r].failures + Cardinality(Uncounted) <= calls
    /\ row.trips + Cardinality(Untripped) <= calls

Enumerated == row.opened <= MaxAge /\ sweep \in {"idle", "flip"}

LEMMA CountsAreNat ==
    /\ IsFiniteSet(Uncounted) /\ Cardinality(Uncounted) \in Nat
    /\ IsFiniteSet(Untripped) /\ Cardinality(Untripped) \in Nat
BY BreakerAssumption, FS_Subset, FS_CardinalityType DEF Uncounted, Untripped

LEMMA LooseParts ==
    ASSUME Loose
    PROVE  /\ row.failures \in Nat /\ row.trips \in Nat /\ tripRows \in Nat
           /\ row.opened \in Int
           /\ pc \in [Request -> Label]
           /\ \A r \in Request : snap[r].failures \in Nat
BY DEF Loose, LooseRow, LooseSnap

\* Nobody enters, and nothing is counted.
Lessens ==
    /\ Uncounted' \subseteq Uncounted /\ Untripped' \subseteq Untripped
    /\ calls' = calls /\ row'.trips = row.trips
    /\ row'.failures \in {row.failures, 0}
    /\ \A r \in Request : snap'[r].failures \in {snap[r].failures, row.failures, 0}

LEMMA LessensBounded ==
    ASSUME Loose, Bounded, Lessens
    PROVE  Bounded'
<1> DEFINE u == Cardinality(Uncounted)
           v == Cardinality(Uncounted')
           t == Cardinality(Untripped)
           w == Cardinality(Untripped')
<1>1. /\ u \in Nat /\ v \in Nat /\ t \in Nat /\ w \in Nat /\ v <= u /\ w <= t
  BY CountsAreNat, FS_Subset, FS_CardinalityType DEF Lessens
<1>2. /\ calls \in Nat /\ calls <= MaxCalls /\ row.failures + u <= calls
      /\ \A r \in Request : snap[r].failures + u <= calls
      /\ row.trips + t <= calls
  BY DEF Bounded
<1> HIDE DEF u, v, t, w
<1>3. /\ calls' = calls /\ row'.trips = row.trips
      /\ row'.failures \in {row.failures, 0}
      /\ \A r \in Request : snap'[r].failures \in {snap[r].failures, row.failures, 0}
  BY DEF Lessens
<1>4. /\ row'.failures + v <= calls' /\ row'.trips + w <= calls'
  BY <1>1, <1>2, <1>3, LooseParts
<1>5. ASSUME NEW r \in Request PROVE snap'[r].failures + v <= calls'
  BY <1>1, <1>2, <1>3, LooseParts
<1> QED
  BY <1>2, <1>3, <1>4, <1>5 DEF Bounded, v, w

LEMMA EnterBounded ==
    ASSUME Loose, Bounded, NEW r \in Request, pc[r] = "idle", calls < MaxCalls,
           NEW label \in {"call", "probe", "flip"}, Go(r, label),
           calls' = calls + 1, UNCHANGED <<row, snap>>
    PROVE  Bounded'
<1>1. /\ Uncounted' = Uncounted \cup {r} /\ r \notin Uncounted
      /\ Untripped' = Untripped \cup {r} /\ r \notin Untripped
  BY DEF Loose, Go, Uncounted, Untripped
<1> DEFINE u == Cardinality(Uncounted)
           t == Cardinality(Untripped)
<1>2. /\ u \in Nat /\ t \in Nat
      /\ Cardinality(Uncounted') = u + 1 /\ Cardinality(Untripped') = t + 1
  BY <1>1, CountsAreNat, FS_AddElement
<1>3. /\ calls \in Nat /\ row.failures + u <= calls
      /\ \A q \in Request : snap[q].failures + u <= calls
      /\ row.trips + t <= calls
  BY DEF Bounded
<1> HIDE DEF u, t
<1>4. /\ row'.failures + (u + 1) <= calls' /\ row'.trips + (t + 1) <= calls'
      /\ calls' \in Nat /\ calls' <= MaxCalls
  BY <1>2, <1>3, LooseParts, BreakerAssumption
<1>5. ASSUME NEW q \in Request PROVE snap'[q].failures + (u + 1) <= calls'
  BY <1>2, <1>3, LooseParts
<1> QED
  BY <1>2, <1>4, <1>5 DEF Bounded

LEMMA CountBounded ==
    ASSUME Loose, Bounded, NEW r \in Request, CountFailure(r)
    PROVE  Bounded'
<1>1. /\ Uncounted' = Uncounted \ {r} /\ r \in Uncounted
      /\ Untripped' \in SUBSET Untripped
  BY DEF Loose, CountFailure, Go, Uncounted, Untripped
<1> DEFINE u == Cardinality(Uncounted)
           t == Cardinality(Untripped)
           w == Cardinality(Untripped')
<1>2. u \in Nat /\ Cardinality(Uncounted') = u - 1 /\ Cardinality(Uncounted') \in Nat
  BY <1>1, CountsAreNat, FS_RemoveElement, FS_CardinalityType
<1>3. t \in Nat /\ w \in Nat /\ w <= t
  BY <1>1, CountsAreNat, FS_Subset, FS_CardinalityType
<1>4. /\ calls \in Nat /\ calls <= MaxCalls
      /\ \A q \in Request : snap[q].failures + u <= calls
      /\ row.trips + t <= calls
  BY DEF Bounded
<1> HIDE DEF u, t, w
<1>5. /\ row'.failures = snap[r].failures + 1 /\ row'.trips = row.trips /\ calls' = calls
      /\ \A q \in Request : snap'[q].failures \in {snap[q].failures, 0}
  BY DEF CountFailure, Forget, NoSnap, Loose, LooseRow
<1>6. row'.failures + (u - 1) <= calls' /\ row'.trips + w <= calls'
  BY <1>2, <1>3, <1>4, <1>5, LooseParts
<1>7. ASSUME NEW q \in Request PROVE snap'[q].failures + (u - 1) <= calls'
  BY <1>2, <1>4, <1>5, LooseParts
<1> QED
  BY <1>2, <1>4, <1>5, <1>6, <1>7 DEF Bounded, w

LEMMA TripBounded ==
    ASSUME Loose, Bounded, NEW r \in Request, tripOpen(r)
    PROVE  Bounded'
<1>1. /\ Uncounted' = Uncounted
      /\ Untripped' = Untripped \ {r} /\ r \in Untripped
  BY DEF Loose, tripOpen, Go, Uncounted, Untripped
<1> DEFINE t == Cardinality(Untripped)
<1>2. t \in Nat /\ Cardinality(Untripped') = t - 1
  BY <1>1, CountsAreNat, FS_RemoveElement
<1>3. /\ row'.failures = row.failures /\ row'.trips = row.trips + 1
      /\ calls' = calls /\ snap' = snap
  BY DEF tripOpen, Loose, LooseRow
<1>4. row.trips + t <= calls /\ calls \in Nat
  BY DEF Bounded
<1> HIDE DEF t
<1>5. row'.trips + (t - 1) <= calls'
  BY <1>2, <1>3, <1>4, LooseParts
<1> QED
  BY <1>1, <1>2, <1>3, <1>5 DEF Bounded

LEMMA RequestBounded ==
    ASSUME Loose, Bounded, NEW r \in Request, callWithBreaker(r)
    PROVE  Bounded'
<1>1. CASE Admit(r) \/ SeeElapsed(r)
  <2>1. \E label \in {"call", "probe", "flip"} : Go(r, label)
    BY <1>1 DEF Admit, SeeElapsed
  <2>2. pc[r] = "idle" /\ calls < MaxCalls /\ calls' = calls + 1 /\ UNCHANGED <<row, snap>>
    BY <1>1 DEF Admit, SeeElapsed
  <2> QED
    BY <2>1, <2>2, EnterBounded
<1>2. CASE CountFailure(r)
  BY <1>2, CountBounded
<1>3. CASE tripOpen(r)
  BY <1>3, TripBounded
<1>4. CASE Succeed(r) \/ Fail(r)
  <2>1. /\ Uncounted' \subseteq Uncounted /\ Untripped' \subseteq Untripped
    BY <1>4 DEF Loose, Succeed, Fail, Go, Calling, Succeeding, Uncounted, Untripped
  <2>2. /\ calls' = calls /\ row' = row
        /\ \A q \in Request : snap'[q].failures \in {snap[q].failures, row.failures, 0}
    BY <1>4 DEF Loose, Succeed, Fail, Read
  <2>3. Lessens
    BY <2>1, <2>2 DEF Lessens
  <2> QED
    BY <2>3, LessensBounded
<1>5. CASE Flip(r) \/ ResetFailures(r) \/ Close(r)
  <2>1. /\ Uncounted' \subseteq Uncounted /\ Untripped' \subseteq Untripped
    BY <1>5 DEF Loose, Flip, ResetFailures, Close, Go, Uncounted, Untripped
  <2>2. /\ calls' = calls /\ row'.trips = row.trips /\ row'.failures \in {row.failures, 0}
        /\ \A q \in Request : snap'[q].failures \in {snap[q].failures, row.failures, 0}
    <3>1. row \in LooseRow /\ snap \in [Request -> LooseSnap]
      BY DEF Loose
    <3>2. calls' = calls /\ row'.trips = row.trips
      BY <1>5, <3>1 DEF LooseRow, Flip, HalfOpen, ResetFailures, Close
    <3>3. row'.failures \in {row.failures, 0}
      BY <1>5, <3>1 DEF LooseRow, Flip, HalfOpen, ResetFailures, Close
    <3>4. \A q \in Request : snap'[q].failures \in {snap[q].failures, row.failures, 0}
      <4>1. snap' = snap \/ Forget(r)
        BY <1>5 DEF Flip, ResetFailures, Close
      <4> QED
        BY <3>1, <4>1 DEF Forget, NoSnap
    <3> QED
      BY <3>2, <3>3, <3>4
  <2>3. Lessens
    BY <2>1, <2>2 DEF Lessens
  <2> QED
    BY <2>3, LessensBounded
<1>6. CASE Return(r) \/ recordTransition(r) \/ Abort(r)
  <2>1. /\ Uncounted' \subseteq Uncounted /\ Untripped' \subseteq Untripped
    BY <1>6 DEF Loose, Return, recordTransition, Abort, Go, Uncounted, Untripped
  <2>2. /\ calls' = calls /\ row' = row
        /\ \A q \in Request : snap'[q].failures \in {snap[q].failures, row.failures, 0}
    BY <1>6 DEF Loose, Return, recordTransition, Abort, Forget, NoSnap
  <2>3. Lessens
    BY <2>1, <2>2 DEF Lessens
  <2> QED
    BY <2>3, LessensBounded
<1> QED
  BY <1>1, <1>2, <1>3, <1>4, <1>5, <1>6 DEF callWithBreaker

LEMMA ElsewhereBounded ==
    ASSUME Loose, Bounded, Elsewhere
    PROVE  Bounded'
<1>1. UNCHANGED <<pc, snap, calls>>
  BY DEF Elsewhere, SweepRead, SweepAbort, SweepFlip, Tick, setManualOverride,
         configureThresholds
<1>2. row'.trips = row.trips
  BY ElsewhereLoose
<1>3. row'.failures \in {row.failures, 0}
  <2>1. row \in LooseRow
    BY DEF Loose
  <2>2. ASSUME NEW o \in ManualOverride, setManualOverride(o)
        PROVE  row'.failures \in {row.failures, 0}
    <3>1. CASE o = "force_closed"
      BY <2>1, <2>2, <3>1 DEF setManualOverride, LooseRow
    <3>2. CASE o = "force_open"
      BY <2>1, <2>2, <3>2 DEF setManualOverride, LooseRow
    <3>3. CASE o = "none"
      BY <2>1, <2>2, <3>3 DEF setManualOverride, LooseRow
    <3> QED
      BY <3>1, <3>2, <3>3 DEF ManualOverride
  <2>3. CASE SweepRead \/ SweepAbort \/ SweepFlip \/ Tick
    BY <2>1, <2>3 DEF SweepRead, SweepAbort, SweepFlip, HalfOpen, Tick, LooseRow
  <2>4. ASSUME NEW n \in Thresholds, NEW t \in Timeouts, configureThresholds(n, t)
        PROVE  row'.failures \in {row.failures, 0}
    BY <2>1, <2>4 DEF configureThresholds, LooseRow
  <2> QED
    BY <2>2, <2>3, <2>4 DEF Elsewhere
<1>4. Lessens
  BY <1>1, <1>2, <1>3 DEF Lessens, Uncounted, Untripped
<1> QED
  BY <1>4, LessensBounded

LEMMA EnumeratedKeeps ==
    ASSUME Loose, Enumerated, Elsewhere \/ \E r \in Request : callWithBreaker(r)
    PROVE  Enumerated'
<1>1. row \in LooseRow /\ row.opened <= MaxAge /\ sweep \in {"idle", "flip"}
      /\ row.opened \in Int /\ MaxAge \in Nat
  BY BreakerAssumption, LooseParts DEF Loose, Enumerated
<1>2. sweep' \in {"idle", "flip"}
  BY <1>1 DEF Elsewhere, SweepRead, SweepFlip, SweepAbort, Tick, setManualOverride,
       configureThresholds, callWithBreaker, Admit, SeeElapsed, Flip, Succeed, ResetFailures,
       Close, Return, Fail, CountFailure, tripOpen, recordTransition, Abort
<1>3. row'.opened <= MaxAge
  <2>1. CASE row' = row
    BY <1>1, <2>1
  <2>2. CASE Tick
    BY <1>1, <2>2 DEF Tick, LooseRow
  <2>3. CASE SweepFlip
    BY <1>1, <2>3 DEF SweepFlip, HalfOpen, LooseRow
  <2>4. ASSUME NEW r \in Request, Flip(r) \/ ResetFailures(r) \/ CountFailure(r)
        PROVE  row'.opened <= MaxAge
    BY <1>1, <2>4 DEF Flip, HalfOpen, ResetFailures, CountFailure, LooseRow
  <2>5. ASSUME NEW r \in Request, Close(r) \/ tripOpen(r)
        PROVE  row'.opened <= MaxAge
    <3>1. row'.opened \in {-1, 0}
      BY <1>1, <2>5 DEF Close, tripOpen, LooseRow
    <3> QED
      BY <1>1, <3>1
  <2>6. ASSUME NEW o \in ManualOverride, setManualOverride(o)
        PROVE  row'.opened <= MaxAge
    <3>1. row'.opened \in {row.opened, 0}
      <4>1. CASE o = "force_closed"
        BY <1>1, <2>6, <4>1 DEF setManualOverride, LooseRow
      <4>2. CASE o = "force_open"
        BY <1>1, <2>6, <4>2 DEF setManualOverride, LooseRow
      <4>3. CASE o = "none"
        BY <1>1, <2>6, <4>3 DEF setManualOverride, LooseRow
      <4> QED
        BY <4>1, <4>2, <4>3 DEF ManualOverride
    <3> QED
      BY <1>1, <3>1
  <2>7. ASSUME NEW n \in Thresholds, NEW t \in Timeouts, configureThresholds(n, t)
        PROVE  row'.opened <= MaxAge
    BY <1>1, <2>7 DEF configureThresholds, LooseRow
  <2> QED
    BY <2>1, <2>2, <2>3, <2>4, <2>5, <2>6, <2>7
       DEF Elsewhere, SweepRead, SweepAbort, callWithBreaker, Admit, SeeElapsed, Succeed,
           Return, Fail, recordTransition, Abort
<1> QED
  BY <1>2, <1>3 DEF Enumerated

LEMMA TypesFollow ==
    ASSUME Loose, TripsAreCounted, Bounded, Enumerated
    PROVE  TypeOK
<1>1. /\ row \in LooseRow /\ pc \in [Request -> Label] /\ snap \in [Request -> LooseSnap]
      /\ MaxCalls \in Nat /\ MaxAge \in Nat
  BY BreakerAssumption DEF Loose
<1> DEFINE u == Cardinality(Uncounted)
           t == Cardinality(Untripped)
           l == Cardinality(Logging)
<1>2. u \in Nat /\ t \in Nat /\ l \in Nat
  BY CountsAreNat, LoggingFinite
<1>3. /\ calls \in Nat /\ calls <= MaxCalls /\ row.failures + u <= calls
      /\ \A r \in Request : snap[r].failures + u <= calls
      /\ row.trips + t <= calls /\ tripRows + l <= row.trips
  BY DEF Bounded, TripsAreCounted, Logging
<1> HIDE DEF u, t, l
<1>4. /\ row.failures \in 0..MaxCalls /\ row.trips \in 0..MaxCalls
      /\ tripRows \in 0..MaxCalls /\ calls \in 0..MaxCalls
  BY <1>1, <1>2, <1>3, LooseParts
<1>5. ASSUME NEW r \in Request PROVE snap[r].failures \in 0..MaxCalls
  BY <1>1, <1>2, <1>3, LooseParts
<1>6. row.opened \in -1..MaxAge
  BY <1>1 DEF LooseRow, Enumerated
<1>7. row \in Row
  BY <1>1, <1>4, <1>6 DEF LooseRow, Row
<1>8. snap \in [Request -> Snap]
  BY <1>1, <1>5 DEF LooseSnap, Snap
<1>9. pc \in [Request -> {"idle", "flip"} \cup Calling \cup Succeeding \cup Failing]
  BY <1>1 DEF Label, Calling, Succeeding, Failing
<1> QED
  BY <1>4, <1>7, <1>8, <1>9 DEF TypeOK, Enumerated

-----------------------------------------------------------------------------

BreakerInv == Loose /\ OpenHasTimer /\ TripsAreCounted /\ Bounded /\ Enumerated

LEMMA BreakerInitial == Init => BreakerInv
<1> SUFFICES ASSUME Init PROVE BreakerInv
  OBVIOUS
<1>1. Logging = {}
  BY DEF Init, Logging
<1>2. tripRows + Cardinality(Logging) <= row.trips
  BY <1>1, FS_EmptySet DEF Init, NewRow
<1>3. TripsAreCounted
  BY <1>2 DEF TripsAreCounted, Logging
<1>4. row \in LooseRow /\ OpenHasTimer
  BY BreakerAssumption DEF Init, NewRow, LooseRow, BreakerState, ManualOverride, OpenHasTimer
<1>5. tripRows \in Nat /\ pc \in [Request -> Label] /\ snap \in [Request -> LooseSnap]
  BY NoSnapLoose DEF Init, Label
<1>6. Loose
  BY <1>4, <1>5 DEF Loose
<1>7. Bounded
  <2>1. Uncounted = {} /\ Untripped = {}
    BY DEF Init, Uncounted, Untripped
  <2>2. Cardinality(Uncounted) = 0 /\ Cardinality(Untripped) = 0
    BY <2>1, FS_EmptySet
  <2> QED
    BY <2>2, BreakerAssumption DEF Init, NewRow, NoSnap, Bounded
<1>8. Enumerated
  BY BreakerAssumption DEF Init, NewRow, Enumerated
<1> QED
  BY <1>3, <1>4, <1>6, <1>7, <1>8 DEF BreakerInv

LEMMA BreakerStep == BreakerInv /\ [Next]_vars => BreakerInv'
<1> SUFFICES ASSUME BreakerInv, [Next]_vars PROVE BreakerInv'
  OBVIOUS
<1>1. ASSUME NEW r \in Request, callWithBreaker(r) PROVE BreakerInv'
  BY <1>1, RequestLoose, TimerKeeps, TripsKeep, RequestBounded, EnumeratedKeeps DEF BreakerInv
<1>2. CASE Elsewhere
  BY <1>2, ElsewhereLoose, TimerKeeps, TripCountKeeps, ElsewhereBounded, EnumeratedKeeps
     DEF BreakerInv
<1>3. CASE UNCHANGED vars
  BY <1>3 DEF vars, BreakerInv, Loose, OpenHasTimer, TripsAreCounted, Bounded, Uncounted,
              Untripped, Enumerated
<1> QED
  BY <1>1, <1>2, <1>3 DEF Next, Elsewhere

LEMMA BreakerInvHolds == Spec => []BreakerInv
BY BreakerInitial, BreakerStep, PTL DEF Spec

\* Row, snapshots and requests keep their types; in particular the failures
\* and the trips stay within the number of calls, although requests write
\* back what they read before others wrote.
THEOREM TypeCorrect == Spec => []TypeOK
<1>1. BreakerInv => TypeOK
  BY TypesFollow DEF BreakerInv
<1> QED
  BY <1>1, BreakerInvHolds, PTL

\* An open breaker knows since when, for any number of requests.
THEOREM OpenHasTimerHolds == Spec => []OpenHasTimer
<1>1. BreakerInv => OpenHasTimer
  BY DEF BreakerInv
<1> QED
  BY <1>1, BreakerInvHolds, PTL

\* The history never records more trips than trip_count, for any number of
\* requests that trip the breaker at once.
THEOREM TripsAreCountedHolds == Spec => []TripsAreCounted
<1>1. BreakerInv => TripsAreCounted
  BY DEF BreakerInv
<1> QED
  BY <1>1, BreakerInvHolds, PTL
=============================================================================
