-------------------------- MODULE TransferLifecycle --------------------------
(***************************************************************************)
(* What transfer_state_machine promises to somebody who watches the funds  *)
(* of a transfer and knows nothing of callers, deadlines or history rows:  *)
(* funds are locked before they are cleared and cleared before they are    *)
(* released, a transfer has at most one outcome, and only a parked         *)
(* transfer (one that timed out) is ever brought back.                     *)
(***************************************************************************)
EXTENDS Naturals

CONSTANT MaxTransfers

VARIABLE phase      \* the phase of every transfer, "none" before it starts

Outcome == {"released", "failed", "refunded"}
Active  == {"pending", "locked", "cleared"}
Phase   == {"none", "parked", "unwinding"} \cup Active \cup Outcome

Become(id, p) == phase' = [phase EXCEPT ![id] = p]

Start(id) == phase[id] = "none" /\ Become(id, "pending")

Lock(id) == phase[id] = "pending" /\ Become(id, "locked")

Clear(id) == phase[id] = "locked" /\ Become(id, "cleared")

Release(id) == phase[id] = "cleared" /\ Become(id, "released")

Park(id) == phase[id] \in Active /\ Become(id, "parked")

Recover(id) ==
    /\ phase[id] = "parked"
    /\ \E p \in {"locked", "cleared"} : Become(id, p)

Unwind(id) == phase[id] \in Active /\ Become(id, "unwinding")

Refund(id) ==
    /\ phase[id] \in Active \cup {"unwinding", "parked"}
    /\ Become(id, "refunded")

Fail(id) == phase[id] \in Active \cup {"parked"} /\ Become(id, "failed")

Init == phase = [id \in 1..MaxTransfers |-> "none"]

Next == \E id \in 1..MaxTransfers :
    \/ Start(id) \/ Lock(id) \/ Clear(id) \/ Release(id)
    \/ Park(id) \/ Recover(id)
    \/ Unwind(id) \/ Refund(id) \/ Fail(id)

Spec == Init /\ [][Next]_phase
=============================================================================
