----------------------------- MODULE LedgerClock -----------------------------
(***************************************************************************)
(* env.ledger().timestamp() of the Soroban contracts: one clock for every  *)
(* contract on the ledger, advanced by the network between two calls.  A   *)
(* call sees one value throughout.                                         *)
(***************************************************************************)
EXTENDS Naturals

CONSTANT MaxTime    \* the clock stops here

ASSUME ClockAssumption == MaxTime \in Nat

VARIABLE now

ClockInit == now = 0

Tick == now < MaxTime /\ now' = now + 1
=============================================================================
