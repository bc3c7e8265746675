------------------------------- MODULE MCOutbox -------------------------------
(* Small instances of Outbox for TLC.                                       *)
EXTENDS Outbox, TLC

\* Producers, slots and admins are interchangeable.
Interchangeable ==
    Permutations(Producer) \cup Permutations(Slot) \cup Permutations(Admin)
=============================================================================
