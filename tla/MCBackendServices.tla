-------------------------- MODULE MCBackendServices --------------------------
(***************************************************************************)
(* Three services of the backend that share nothing - the Horizon stream   *)
(* supervisor, the delivery of webhooks and the windows of alerts - for    *)
(* TLC.  One of them, inUse, runs while the others rest: what a behaviour  *)
(* of all three does to one of them, a behaviour of that one does too.     *)
(*                                                                         *)
(* Fairness: timers fire, the stalled check runs and a worker goes on with *)
(* the run it has started; the network, the database and the endpoint's    *)
(* owner promise nothing.                                                  *)
(***************************************************************************)
EXTENDS StreamSupervisor, WebhookDelivery, AlertWindows

VARIABLE inUse

backendVars == <<streamVars, webhookVars, windowVars, inUse>>

BackendInit ==
    /\ StreamInit /\ WebhookInit /\ WindowInit
    /\ inUse \in {"stream", "webhooks", "windows"}

BackendNext ==
    /\ inUse' = inUse
    /\ \/ inUse = "stream" /\ StreamNext /\ UNCHANGED <<webhookVars, windowVars>>
       \/ inUse = "webhooks" /\ WebhookNext /\ UNCHANGED <<streamVars, windowVars>>
       \/ inUse = "windows" /\ WindowNext /\ UNCHANGED <<streamVars, webhookVars>>

BackendFairness ==
    /\ WF_backendVars(inUse = "stream" /\ gapCheck
                        /\ UNCHANGED <<webhookVars, windowVars, inUse>>)
    /\ \A d \in Delivery :
          WF_backendVars(inUse = "webhooks" /\ runStep(d)
                        /\ UNCHANGED <<streamVars, windowVars, inUse>>)

BackendSpec == BackendInit /\ [][BackendNext]_backendVars /\ BackendFairness
=============================================================================
