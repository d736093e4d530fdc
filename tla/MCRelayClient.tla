--------------------------- MODULE MCRelayClient ---------------------------
(***************************************************************************)
(* Processes and tokens are interchangeable in the run of RelayClient.     *)
(***************************************************************************)
EXTENDS RelayClient, TLC

Symmetry == Permutations(Procs) \cup Permutations(Tokens)

=============================================================================
