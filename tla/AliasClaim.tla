----------------------------- MODULE AliasClaim -----------------------------
(***************************************************************************)
(* Claiming a %name: xete_alias_claim (src/src/xete_mcp/server.py), with   *)
(* the permit server that builds and co-signs the transaction, the checks  *)
(* of TxGuard, the simulation, the spend limits, the cluster and the       *)
(* registry.                                                               *)
(*                                                                         *)
(* The agent wants one name.  Each call signs at most one transaction,     *)
(* named after the call.  Another wallet may claim the name at any time.   *)
(* The permit server may offer any transaction and report anything; the    *)
(* RPC endpoint is honest but may be slow, behind, or not answer.          *)
(***************************************************************************)
EXTENDS TxGuard

CONSTANTS
    Claims,     \* the calls the agent may make
    Name,       \* the name it wants, in canonical form
    Prices,     \* the prices the permit server may quote
    Caps,       \* the values of max_price_lamports
    NoCap,      \* max_price_lamports is omitted
    Offers,     \* the transactions the permit server may offer
    NoOffer,
    Treasury    \* the registry's treasury, config.names_wallet

ASSUME CapsAssumption == Caps \subseteq Nat \cup {NoCap}
ASSUME UsAssumption == Us \notin {"nobody", "rival"}
ASSUME TreasuryAssumption == Treasury # NoTreasury
\* Instructions are a list; the numbers in them are unsigned.
ASSUME OffersAssumption ==
    \A t \in Offers :
        /\ DOMAIN t.ixs = 1 .. Len(t.ixs)
        /\ \A i \in DOMAIN t.ixs :
              /\ t.ixs[i].prog = "registry" => t.ixs[i].price \in Nat
              /\ t.ixs[i].prog = "budget" => t.ixs[i].value \in Nat

VARIABLES
    pc,         \* where each call is
    verdict,    \* the answer the agent got
    cap,        \* the max_price_lamports the agent passes
    quote,      \* the price quoted to it
    offer,      \* the transaction it is about to sign, or has signed
    charge,     \* what it has on the spend ledger, 0 when nothing
    required,   \* XETE_ALIAS_REQUIRE_SIMULATION
    owner,      \* the owner and agent in the registry's record of the name
    tx, seen, dead  \* the cluster

C == INSTANCE Cluster WITH Txs <- Claims

chain == <<owner, tx, seen, dead>>
deal == <<quote, offer>>
config == <<cap, required>>
vars == <<pc, verdict, deal, charge, config, chain>>

\* The record of a name that is not ours.
HeldBy(someone) == [name |-> Name, owner |-> someone, agent |-> someone]

Init ==
    /\ pc = [c \in Claims |-> "idle"]
    /\ verdict = [c \in Claims |-> "none"]
    /\ cap \in Caps
    /\ quote = [c \in Claims |-> 0]
    /\ offer = [c \in Claims |-> NoOffer]
    /\ charge = [c \in Claims |-> 0]
    /\ required \in BOOLEAN
    /\ owner = HeldBy("nobody")
    /\ C!ClusterInit

\* The permit server's word for the outcome, which two answers repeat as it is,
\* sorted by what an agent makes of it: "denied" is any refusal or failure,
\* "claimed" also its "confirmed", and "submitted" everything else.
PermitWords == {"claimed", "denied", "submitted"}

-----------------------------------------------------------------------------
Goto(c, p) == pc' = [pc EXCEPT ![c] = p] /\ UNCHANGED verdict

Answer(c, v) ==
    /\ pc' = [pc EXCEPT ![c] = "answered"]
    /\ verdict' = [verdict EXCEPT ![c] = v]

\* An answer before anything is signed; the deal is off.
Decline(c, v) ==
    /\ Answer(c, v)
    /\ quote' = [quote EXCEPT ![c] = 0]
    /\ offer' = [offer EXCEPT ![c] = NoOffer]

\* The agent's reading of an earlier call: it did not get the name.
ReadsAsUnclaimed(c) ==
    \/ verdict[c] \in {"failed", "refused", "denied", "failed_on_chain"}
    \/ verdict[c] = "submitted_unconfirmed" /\ tx[c] \in {"failed", "expired"}

MayCall(c) == \A d \in Claims \ {c} : pc[d] = "idle" \/ ReadsAsUnclaimed(d)

\* The caller's own ceiling: omitted is no opinion, zero is a ceiling.
WithinCap(q) == cap # NoCap => q <= cap

\* treasury_for_claim: read from the chain, or unknown, which is fatal unless
\* the operator said otherwise.
Treasuries == IF required THEN {Treasury} ELSE {Treasury, NoTreasury}

\* The name, the agent id or the challenge is refused, or a request fails; or the
\* permit server does not approve, and its word is the answer, with no signature.
Refused(c) ==
    /\ pc[c] = "idle"
    /\ MayCall(c)
    /\ \E v \in {"failed", "refused"} \cup PermitWords : Decline(c, v)
    /\ UNCHANGED <<charge, config, chain>>

\* It quotes a price and offers a transaction, which passes the checks.
Inspect(c) ==
    /\ pc[c] = "idle"
    /\ MayCall(c)
    /\ \E q \in Prices, t \in Offers, w \in Treasuries :
          /\ WithinCap(q)
          /\ Approved(t, Name, q, w)
          /\ quote' = [quote EXCEPT ![c] = q]
          /\ offer' = [offer EXCEPT ![c] = t]
    /\ Goto(c, "inspected")
    /\ UNCHANGED <<charge, config, chain>>

\* bounded_simulated_debit.  An honest simulation sees what the transaction
\* moves, but no fee; -1 stands for no simulation.
Simulations(c) ==
    {m \in {Moves(offer[c])} : owner = HeldBy("nobody") /\ m <= Ceiling(quote[c])}
        \cup {m \in {-1} : ~required}

\* The simulation and the spend gate.
Authorize(c) ==
    /\ pc[c] = "inspected"
    /\ \/ \E v \in {"refused", "failed"} : Decline(c, v) /\ UNCHANGED charge
       \/ \E m \in Simulations(c) :
             /\ Goto(c, "charged")
             /\ charge' = [charge EXCEPT ![c] = SpendCharge(offer[c], quote[c], m)]
             /\ UNCHANGED deal
    /\ UNCHANGED <<config, chain>>

\* approve_and_sign or the connection raises: nothing was submitted, and the
\* charge is given back, or stays when the release fails.
SignFails(c) ==
    /\ pc[c] = "charged"
    /\ \E v \in {"refused", "failed"} : Decline(c, v)
    /\ charge' \in {charge, [charge EXCEPT ![c] = 0]}
    /\ UNCHANGED <<config, chain>>

Sign(c) ==
    /\ pc[c] = "charged"
    /\ Goto(c, "signed")
    /\ UNCHANGED <<deal, charge, config, chain>>

Pass(c) == C!Forward(c) /\ UNCHANGED owner

Accepted(c) ==
    /\ pc[c] = "signed"
    /\ Goto(c, "polling")
    /\ Pass(c)
    /\ UNCHANGED <<deal, charge, config>>

Unanswered_Refused(c) ==
    /\ pc[c] = "signed"
    /\ Answer(c, "refused")
    /\ Pass(c) \/ UNCHANGED chain
    /\ UNCHANGED <<deal, charge, config>>

\* The submit raises: refused by the preflight, a duplicate, or no answer.
Unanswered(c) ==
    /\ pc[c] = "signed"
    /\ Answer(c, "submitted_unconfirmed")
    /\ Pass(c) \/ UNCHANGED chain
    /\ UNCHANGED <<deal, charge, config>>

\* A status request raises, into the handler of everything else.
PollRaises(c) ==
    /\ pc[c] = "polling"
    /\ Answer(c, "failed")
    /\ UNCHANGED <<deal, charge, config, chain>>

\* An error, at whatever commitment.
PollError(c) ==
    /\ pc[c] = "polling"
    /\ C!Reports(c) \cap {"errored", "failed"} # {}
    /\ Answer(c, "failed_on_chain")
    /\ UNCHANGED <<deal, charge, config, chain>>

\* A durable status, or 15 seconds without one.
PollDurable_AcceptsProcessed(c) ==
    /\ pc[c] = "polling"
    /\ \/ C!Reports(c) \cap {"processed", "confirmed"} # {} /\ Goto(c, "durable")
       \/ Goto(c, "unseen")
    /\ UNCHANGED <<deal, charge, config, chain>>
PollDurable(c) ==
    /\ pc[c] = "polling"
    /\ \/ "confirmed" \in C!Reports(c) /\ Goto(c, "durable")
       \/ Goto(c, "unseen")
    /\ UNCHANGED <<deal, charge, config, chain>>

\* /alias/claim/confirm: the request raises, or the server says something: after
\* a durable status that is the answer, otherwise it does not decide.
ConfirmClaim_PermitDecides(c) ==
    /\ pc[c] \in {"durable", "unseen"}
    /\ \E v \in PermitWords \cup {"failed"} : Answer(c, v)
    /\ UNCHANGED <<deal, charge, config, chain>>
ConfirmClaim(c) ==
    /\ pc[c] \in {"durable", "unseen"}
    /\ \/ Answer(c, "failed")
       \/ pc[c] = "unseen" /\ Answer(c, "submitted_unconfirmed")
       \/ pc[c] = "durable" /\ \E v \in PermitWords : Answer(c, v)
    /\ UNCHANGED <<deal, charge, config, chain>>

\* The server process dies, perhaps while it submits.
Crash(c) ==
    /\ pc[c] \notin {"idle", "answered", "crashed"}
    /\ Goto(c, "crashed")
    /\ UNCHANGED chain \/ (pc[c] = "signed" /\ Pass(c))
    /\ UNCHANGED <<deal, charge, config>>

-----------------------------------------------------------------------------
(***************************************************************************)
(* The chain.                                                              *)
(***************************************************************************)
\* The registry writes the record, if the name is still free.
Land(c) ==
    /\ C!Confirm(c)
    /\ owner = HeldBy("nobody")
    /\ owner' = The(Records(offer[c]))
    /\ UNCHANGED <<pc, verdict, deal, charge, config>>

\* Somebody else claims the name.
Rival ==
    /\ owner = HeldBy("nobody")
    /\ owner' = HeldBy("rival")
    /\ UNCHANGED <<pc, verdict, deal, charge, config, tx, seen, dead>>

Chain(c) ==
    /\ \/ C!Process(c) \/ C!Abandon(c) \/ C!Fail(c)
       \/ pc[c] \notin {"idle", "inspected", "charged"} /\ C!Expire(c)
    /\ UNCHANGED <<owner, pc, verdict, deal, charge, config>>

Step(c) ==
    \/ Refused(c) \/ Inspect(c) \/ Authorize(c) \/ SignFails(c) \/ Sign(c)
    \/ Accepted(c) \/ Unanswered(c)
    \/ PollRaises(c) \/ PollError(c) \/ PollDurable(c) \/ ConfirmClaim(c)

Next == Rival \/ \E c \in Claims : Step(c) \/ Crash(c) \/ Land(c) \/ Chain(c)

Spec == Init /\ [][Next]_vars

-----------------------------------------------------------------------------
(***************************************************************************)
(* Properties.                                                             *)
(***************************************************************************)
OurRecord == [name |-> Name, owner |-> Us, agent |-> OurAgent]

TypeOK ==
    /\ pc \in [Claims -> {"idle", "inspected", "charged", "signed", "polling",
                          "durable", "unseen", "answered", "crashed"}]
    /\ verdict \in [Claims -> PermitWords \cup {"none", "failed", "refused", "failed_on_chain",
                                                "submitted_unconfirmed"}]
    /\ cap \in Caps
    /\ quote \in [Claims -> Prices \cup {0}]
    /\ offer \in [Claims -> Offers \cup {NoOffer}]
    /\ charge \in [Claims -> Nat]
    /\ required \in BOOLEAN
    /\ owner \in {HeldBy("nobody"), HeldBy("rival"), OurRecord}
    /\ C!ClusterTypeOK

\* The calls whose transaction carries our signature.
Signed == {c \in Claims : pc[c] \in {"signed", "polling", "durable", "unseen"} \/ tx[c] # "none"}

\* Whatever the permit server offers, what is signed does one thing when it
\* runs: it writes the name we asked for, to our wallet and our agent.
SignedIsOurClaim == \A c \in Signed : Records(offer[c]) = {OurRecord}

\* What is signed moves the price the caller allowed and the account's rent out
\* of our wallet, and nothing else; the price goes to the treasury, unless the
\* operator let an unanswering endpoint leave it unpinned.
SignedCostsTheQuote ==
    \A c \in Signed :
        /\ Moves(offer[c]) = quote[c] + Rent
        /\ cap # NoCap => quote[c] <= cap
        /\ required => ClaimIn(offer[c]).treasury = Treasury

\* What leaves the wallet is on the spend ledger, up to the fee, which no
\* simulation shows and which is bounded on its own.
SpentIsCharged ==
    \A c \in Claims :
        /\ tx[c] # "none" => RuntimeFee(offer[c]) <= Min({charge[c], 2 * SigFee + MaxPriorityFee})
        /\ tx[c] = "confirmed" => Moves(offer[c]) <= charge[c]

\* "claimed" about a transaction that was submitted rests on the chain: the name
\* is ours, durably.  (Without one it is the permit server's word alone, and the
\* answer names no transaction.)
ClaimedIsOurs ==
    \A c \in Claims : verdict[c] = "claimed" /\ tx[c] # "none" => owner = OurRecord

\* An agent that heeds the answers has a second transaction out only after the
\* first is dead, or after an answer that denied it: failed_on_chain, which a
\* fork may take back, the plain "failed" of the run claim_failed, or the permit
\* server's denial of a claim that is durable, so that the second can only fail.
OneClaimInDoubt ==
    \A c, d \in Claims :
        c # d /\ tx[c] # "none" /\ tx[d] # "none"
            => \E e \in {c, d} :
                  \/ verdict[e] \in {"failed", "failed_on_chain"}
                  \/ verdict[e] = "denied" /\ tx[e] = "confirmed"
                  \/ tx[e] \in {"failed", "expired"}

\* server.py says of a submit that raises that the generic handler's "failed",
\* without a signature, would tell an agent that nothing happened.
FailedNeverSwallowsAClaim ==
    \A c \in Claims : verdict[c] = "failed" => tx[c] = "none"

=============================================================================
