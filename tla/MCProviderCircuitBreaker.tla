---------------------- MODULE MCProviderCircuitBreaker ----------------------
(* Small instances of ProviderCircuitBreaker for TLC.                       *)
EXTENDS ProviderCircuitBreaker, TLC

\* Requests are interchangeable.
Interchangeable == Permutations(Request)
=============================================================================
