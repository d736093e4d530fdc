------------------------------ MODULE Cluster ------------------------------
(***************************************************************************)
(* The Solana cluster and an honest RPC endpoint, as payment.py and        *)
(* settlement.py use them: submit a signed transaction, ask for the status *)
(* of a signature, ask whether a blockhash is still valid.  None of this   *)
(* is code of the repository.                                              *)
(*                                                                         *)
(* A transaction in flight may be executed by one validator ("processed",  *)
(* or "errored" when it fails), be forked away again, and at last be       *)
(* confirmed or fail at a durable commitment.  When its blockhash dies     *)
(* before that, it can no longer land.                                     *)
(***************************************************************************)
EXTENDS FiniteSets

CONSTANTS Txs     \* the transactions the clients sign

VARIABLES
    tx,     \* where each transaction is
    seen,   \* the statuses it has had on some fork
    dead    \* the transactions whose blockhash has expired

clusterVars == <<tx, seen, dead>>

Durable == {"confirmed", "failed"}
Landed == {"processed", "errored"} \cup Durable
TxStates == {"none", "flight", "expired"} \cup Landed

ClusterTypeOK ==
    /\ tx \in [Txs -> TxStates]
    /\ seen \in [Txs -> SUBSET Landed]
    /\ dead \subseteq Txs

ClusterInit ==
    /\ tx = [t \in Txs |-> "none"]
    /\ seen = [t \in Txs |-> {}]
    /\ dead = {}

Become(t, s) ==
    /\ tx' = [tx EXCEPT ![t] = s]
    /\ seen' = [seen EXCEPT ![t] = @ \cup ({s} \cap Landed)]

\* An endpoint hands a transaction to the cluster.
Forward(t) ==
    /\ Become(t, IF t \in dead THEN "expired" ELSE "flight")
    /\ UNCHANGED dead

\* A validator executes it, well or not.
Process(t) ==
    /\ tx[t] = "flight"
    /\ \E s \in {"processed", "errored"} : Become(t, s)
    /\ UNCHANGED dead

\* The fork it was executed on is abandoned.
Abandon(t) ==
    /\ tx[t] \in {"processed", "errored"}
    /\ Become(t, IF t \in dead THEN "expired" ELSE "flight")
    /\ UNCHANGED dead

\* The fork it was executed on is voted in.
Confirm(t) ==
    /\ tx[t] = "processed"
    /\ Become(t, "confirmed")
    /\ UNCHANGED dead

Fail(t) ==
    /\ tx[t] = "errored"
    /\ Become(t, "failed")
    /\ UNCHANGED dead

\* A signed transaction's blockhash falls out of the recent ones (which no
\* longer matters to one that is durable).
Expire(t) ==
    /\ t \notin dead /\ tx[t] \notin Durable
    /\ dead' = dead \cup {t}
    /\ IF tx[t] = "flight" THEN Become(t, "expired") ELSE UNCHANGED <<tx, seen>>

ClusterStep(t) == Process(t) \/ Abandon(t) \/ Confirm(t) \/ Fail(t)

\* What an honest endpoint may answer about a signature: it may lag behind, or
\* still be on a fork that was abandoned.
Reports(t) == {"none"} \cup seen[t]

=============================================================================
