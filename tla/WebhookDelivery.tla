--------------------------- MODULE WebhookDelivery ---------------------------
(***************************************************************************)
(* The delivery of webhooks: the service that records a delivery and       *)
(* queues its job, and the worker that posts it (src/backend/src/services/ *)
(* webhook.service.ts and src/backend/src/workers/                         *)
(* webhookDelivery.worker.ts).                                             *)
(*                                                                         *)
(* The queue is BullMQ's.  A run that throws counts as an attempt and is   *)
(* tried again or, after Attempts of them, failed - or it is lost: the     *)
(* jobs ask for a backoff of type "custom" that no worker defines, so the  *)
(* queue may find no delay for the next attempt and leave the job active,  *)
(* as it does when the worker dies.  A job left active is found stalled    *)
(* and given back to the workers, MaxStalled times, and failed after that. *)
(***************************************************************************)
EXTENDS Naturals, FiniteSets

CONSTANTS
    Delivery,     \* the deliveries that are requested
    Attempts,     \* MAX_RETRY_ATTEMPTS, also the worker's maxRetries
    MaxStalled    \* how often the queue hands out a stalled job again

ASSUME WebhookAssumption == Attempts \in Nat \ {0} /\ MaxStalled \in Nat

VARIABLES
    endpoint,       \* "active", "inactive" or "deleted"
    record,         \* Delivery -> the status of its row, or "none"
    job,            \* Delivery -> [state, attemptsMade, stalled]
    run,            \* Delivery -> where the worker's run of its job is
    accepted,       \* Delivery -> 2xx answers of the endpoint (history)
    logged,         \* Delivery -> the answers in webhook_delivery_logs
    runs            \* Delivery -> runs started (history)

webhookVars == <<endpoint, record, job, run, accepted, logged, runs>>

Answers == {"ok", "bad"}
NoJob == [state |-> "none", attemptsMade |-> 0, stalled |-> 0]

WebhookInit ==
    /\ endpoint = "active"
    /\ record = [d \in Delivery |-> "none"]
    /\ job = [d \in Delivery |-> NoJob]
    /\ run = [d \in Delivery |-> "idle"]
    /\ accepted = [d \in Delivery |-> FALSE]
    /\ logged = [d \in Delivery |-> {}]
    /\ runs = [d \in Delivery |-> 0]

\* queueDelivery and queueBatchDelivery insert the row; whether the rate
\* limit lets them is left open.
insertDelivery(d) ==
    /\ endpoint # "deleted" /\ record[d] = "none" /\ run[d] = "idle"
    /\ record' = [record EXCEPT ![d] = "pending"]
    /\ run' = [run EXCEPT ![d] = "queueing"]
    /\ UNCHANGED <<endpoint, job, accepted, logged, runs>>

\* Then they add the job, or fail to: the row stays behind without one.
addJob(d) ==
    /\ run[d] = "queueing"
    /\ run' = [run EXCEPT ![d] = "idle"]
    /\ job' \in {job, [job EXCEPT ![d].state = "waiting"]}
    /\ UNCHANGED <<endpoint, record, accepted, logged, runs>>

\* updateEndpoint; on a deleted endpoint it changes nothing.
updateEndpoint(isActive) ==
    /\ endpoint' = IF endpoint = "deleted" THEN endpoint
                   ELSE IF isActive THEN "active" ELSE "inactive"
    /\ UNCHANGED <<record, job, run, accepted, logged, runs>>

\* The rows and logs of a deleted endpoint's deliveries go with it.
deleteEndpoint ==
    /\ endpoint # "deleted" /\ endpoint' = "deleted"
    /\ record' = [d \in Delivery |->
                    IF record[d] = "none" THEN "none" ELSE "gone"]
    /\ logged' = [d \in Delivery |-> {}]
    /\ UNCHANGED <<job, run, accepted, runs>>

\* Mutant: the deliveries to an inactive endpoint wait until it is active.
startRun_Waits(d) ==
    /\ job[d].state = "waiting" /\ endpoint # "inactive"
    /\ job' = [job EXCEPT ![d].state = "active"]
    /\ run' = [run EXCEPT ![d] = IF endpoint = "active" THEN "posting"
                                                        ELSE "thrown"]
    /\ runs' = [runs EXCEPT ![d] = @ + 1]
    /\ UNCHANGED <<endpoint, record, accepted, logged>>

\* A worker takes the job and processDelivery reads the endpoint.
startRun(d) ==
    /\ job[d].state = "waiting"
    /\ job' = [job EXCEPT ![d].state = "active"]
    /\ run' = [run EXCEPT ![d] = IF endpoint = "active" THEN "posting"
                                                        ELSE "thrown"]
    /\ runs' = [runs EXCEPT ![d] = @ + 1]
    /\ UNCHANGED <<endpoint, record, accepted, logged>>

\* The endpoint answers, or the post fails or times out.  A post that timed
\* out may have been accepted all the same.
post(d) ==
    /\ run[d] = "posting"
    /\ \/ /\ run' = [run EXCEPT ![d] = "answered_ok"]
          /\ accepted' = [accepted EXCEPT ![d] = TRUE]
       \/ run' = [run EXCEPT ![d] = "answered_bad"] /\ accepted' = accepted
       \/ /\ run' = [run EXCEPT ![d] = "caught"]
          /\ accepted' \in {accepted, [accepted EXCEPT ![d] = TRUE]}
    /\ UNCHANGED <<endpoint, record, job, logged, runs>>

\* logDeliveryAttempt can only insert while the delivery's row exists.
logDeliveryAttempt(d, answer) ==
    /\ record[d] # "gone"
    /\ logged' = [logged EXCEPT ![d] = @ \cup {answer}]

\* The answer is logged and a bad one thrown; a failed insert is caught too.
logAnswer(d) ==
    /\ run[d] \in {"answered_ok", "answered_bad"}
    /\ \/ /\ run[d] = "answered_ok" /\ logDeliveryAttempt(d, "ok")
          /\ run' = [run EXCEPT ![d] = "updating"]
       \/ /\ run[d] = "answered_bad" /\ logDeliveryAttempt(d, "bad")
          /\ run' = [run EXCEPT ![d] = "caught"]
       \/ run' = [run EXCEPT ![d] = "caught"] /\ logged' = logged
    /\ UNCHANGED <<endpoint, record, job, accepted, runs>>

\* The catch block logs the failure, whether or not that succeeds, and throws.
catchError(d) ==
    /\ run[d] = "caught"
    /\ run' = [run EXCEPT ![d] = "thrown"]
    /\ logged' = logged \/ logDeliveryAttempt(d, "bad")
    /\ UNCHANGED <<endpoint, record, job, accepted, runs>>

\* Mutant: a failing update is only logged and the run ends well.
updateRow_Swallowed(d) ==
    /\ run[d] = "updating"
    /\ run' = [run EXCEPT ![d] = "done"]
    /\ \/ record' = record
       \/ record' = [record EXCEPT ![d] = IF @ = "gone" THEN @ ELSE "success"]
    /\ UNCHANGED <<endpoint, job, accepted, logged, runs>>

\* updateDeliveryStatusFromResponse; a deleted row is left alone silently.
\* The statement may take effect and still be reported as failed.
updateRow(d) ==
    /\ run[d] = "updating"
    /\ \/ /\ run' = [run EXCEPT ![d] = "done"]
          /\ record' = [record EXCEPT ![d] = IF @ = "gone" THEN @ ELSE "success"]
       \/ /\ run' = [run EXCEPT ![d] = "caught"]
          /\ \/ record' = record
             \/ record[d] # "gone"
                /\ record' = [record EXCEPT ![d] = "success"]
    /\ UNCHANGED <<endpoint, job, accepted, logged, runs>>

\* The queue completes a job whose run returned.
complete(d) ==
    /\ run[d] = "done"
    /\ job' = [job EXCEPT ![d].state = "completed"]
    /\ run' = [run EXCEPT ![d] = "idle"]
    /\ UNCHANGED <<endpoint, record, accepted, logged, runs>>

\* The queue takes a run that threw as an attempt: another try, or failed.
moveToFailed(d) ==
    /\ run[d] = "thrown"
    /\ LET made == job[d].attemptsMade + 1
           last == made >= Attempts
       IN  /\ job' = [job EXCEPT ![d].attemptsMade = made,
                         ![d].state = IF last THEN "failed" ELSE "waiting"]
           /\ run' = [run EXCEPT ![d] = IF last THEN "reporting" ELSE "idle"]
    /\ UNCHANGED <<endpoint, record, accepted, logged, runs>>

\* The worker dies, or the queue finds no delay for the next attempt: the
\* job stays active with nobody running it.
lose(d) ==
    /\ job[d].state = "active" /\ run[d] # "idle"
    /\ run' = [run EXCEPT ![d] = "idle"]
    /\ UNCHANGED <<endpoint, record, job, accepted, logged, runs>>

\* The stalled check finds an active job that nobody runs.
moveStalled(d) ==
    /\ job[d].state = "active" /\ run[d] = "idle"
    /\ IF job[d].stalled < MaxStalled
       THEN /\ job' = [job EXCEPT ![d].stalled = @ + 1, ![d].state = "waiting"]
            /\ run' = run
       ELSE /\ job' = [job EXCEPT ![d].state = "failed"]
            /\ run' = [run EXCEPT ![d] = "reporting"]
    /\ UNCHANGED <<endpoint, record, accepted, logged, runs>>

\* The worker's "failed" handler marks the row, if the attempts are used up.
\* Its error is only logged.
onFailed(d) ==
    /\ run[d] = "reporting"
    /\ run' = [run EXCEPT ![d] = "idle"]
    /\ \/ record' = record
       \/ /\ job[d].attemptsMade >= Attempts /\ record[d] # "gone"
          /\ record' = [record EXCEPT ![d] = "failed"]
    /\ UNCHANGED <<endpoint, job, accepted, logged, runs>>

runStep(d) ==
    \/ startRun(d) \/ post(d) \/ logAnswer(d) \/ catchError(d) \/ updateRow(d)
    \/ complete(d) \/ moveToFailed(d) \/ moveStalled(d) \/ onFailed(d)

WebhookNext ==
    \/ \E d \in Delivery : insertDelivery(d) \/ addJob(d) \/ runStep(d) \/ lose(d)
    \/ \E a \in BOOLEAN : updateEndpoint(a)
    \/ deleteEndpoint

\* The deliveries by themselves.
WebhookSpec == WebhookInit /\ [][WebhookNext]_webhookVars

-----------------------------------------------------------------------------
\* The shape of the deliveries' state; the runs of a job are at most its
\* attempts and the times it may stall.
WebhookTypeOK ==
    /\ endpoint \in {"active", "inactive", "deleted"}
    /\ record \in [Delivery -> {"none", "pending", "success", "failed", "gone"}]
    /\ job \in [Delivery ->
          [state : {"none", "waiting", "active", "completed", "failed"},
           attemptsMade : 0 .. Attempts, stalled : 0 .. MaxStalled]]
    /\ \A d \in Delivery : runs[d] <= Attempts + MaxStalled

\* A delivery is marked successful only when the endpoint accepted it, and
\* the log has that answer, whichever of post, log and update failed before.
SuccessWasAnswered ==
    \A d \in Delivery :
        record[d] = "success" => accepted[d] /\ "ok" \in logged[d]

\* When the queue completes a job its row says success, unless its endpoint
\* was deleted: no error between the answer and the row is lost.
CompletedIsSettled ==
    \A d \in Delivery :
        job[d].state = "completed" => record[d] \in {"success", "gone"}

\* A row marked failed was tried as often as it may be.
FailedWasExhausted ==
    \A d \in Delivery : record[d] = "failed" =>
        job[d].state = "failed" /\ runs[d] >= Attempts

\* What the rows say of the deliveries is true, and so is what the queue says.
RecordIsTrue ==
    WebhookTypeOK /\ SuccessWasAnswered /\ CompletedIsSettled /\ FailedWasExhausted

\* Every queued job is completed or failed, though runs throw and are lost.
JobsEnd ==
    \A d \in Delivery :
        (job[d].state = "waiting") ~> (job[d].state \in {"completed", "failed"})
=============================================================================
