------------------------------ MODULE Payment ------------------------------
(***************************************************************************)
(* Paying for a message: xete_send_message (src/src/xete_mcp/server.py)    *)
(* around pay_herd (payment.py), with the cluster, the relay and the agent *)
(* that reads the answers.                                                 *)
(*                                                                         *)
(* The agent wants one message delivered.  Each call of the tool gets a    *)
(* fresh invoice, so each pays with a transaction of its own, named after  *)
(* the call.  The agent calls again only when an answer, or its own look   *)
(* at the chain, tells it that the calls before did not pay.               *)
(*                                                                         *)
(* The spend ledger is the set booked: what authorize records and what     *)
(* _release_recorded_spend gives back.  SpendGuard models both in detail;  *)
(* here a refusal and a swallowed release are choices.                     *)
(***************************************************************************)
EXTENDS Integers, FiniteSets

CONSTANTS
    Calls,      \* the calls the agent may make
    MaxPolls    \* bound: the polls of one call (30 in the code)

ASSUME PollsAssumption == MaxPolls \in Nat

VARIABLES
    pc,         \* where each call is
    polls,      \* status polls made
    verdict,    \* the answer the agent got
    booked,     \* the calls whose charge stands on the spend ledger
    tx, seen, dead  \* the cluster

C == INSTANCE Cluster WITH Txs <- Calls

callVars == <<pc, polls, verdict, booked>>
chain == <<tx, seen, dead>>
vars == <<pc, polls, verdict, booked, tx, seen, dead>>

Init ==
    /\ pc = [c \in Calls |-> "idle"]
    /\ polls = [c \in Calls |-> 0]
    /\ verdict = [c \in Calls |-> "none"]
    /\ booked = {}
    /\ C!ClusterInit

-----------------------------------------------------------------------------
Goto(c, p) ==
    /\ pc' = [pc EXCEPT ![c] = p]
    /\ UNCHANGED <<polls, verdict>>

Answer(c, v) ==
    /\ pc' = [pc EXCEPT ![c] = "answered"]
    /\ verdict' = [verdict EXCEPT ![c] = v]
    /\ UNCHANGED polls

\* The agent's reading of an earlier call: nothing was paid by it.
ReadsAsUnpaid(c) ==
    \/ verdict[c] \in {"failed", "rejected", "definitively_failed"}
    \/ verdict[c] = "unconfirmed" /\ tx[c] \in {"failed", "expired"}

MayCall(c) == \A d \in Calls \ {c} : pc[d] = "idle" \/ ReadsAsUnpaid(d)

\* The relay is down, answers that the message was free, or quotes an invoice.
SendMulti(c) ==
    /\ pc[c] = "idle"
    /\ MayCall(c)
    /\ \/ \E v \in {"failed", "free", "payment_required"} : Answer(c, v)
       \/ Goto(c, "priced")
    /\ UNCHANGED <<booked, chain>>

\* pay_herd's spend gate: refused, or recorded before anything is built.
Authorize(c) ==
    /\ pc[c] = "priced"
    /\ \/ Answer(c, "failed") /\ UNCHANGED booked
       \/ Goto(c, "building") /\ booked' = booked \cup {c}
    /\ UNCHANGED chain

\* _release_recorded_spend, which may fail and then says nothing.
Release(c) == booked' \in {booked, booked \ {c}}

\* Connecting, fetching the blockhash or signing raises.
BuildFails(c) ==
    /\ pc[c] = "building"
    /\ Answer(c, "failed")
    /\ Release(c)
    /\ UNCHANGED chain

Build(c) ==
    /\ pc[c] = "building"
    /\ Goto(c, "signed")
    /\ UNCHANGED <<booked, chain>>

\* send_transaction: the endpoint forwards it and returns its signature.
Accepted(c) ==
    /\ pc[c] = "signed"
    /\ Goto(c, "polling")
    /\ C!Forward(c)
    /\ UNCHANGED booked

\* It simulates the transaction and refuses to forward it.
Rejected(c) ==
    /\ pc[c] = "signed"
    /\ Answer(c, "rejected")
    /\ Release(c)
    /\ UNCHANGED chain

AlreadyProcessed_AsRejection(c) ==
    /\ pc[c] = "signed"
    /\ Answer(c, "rejected")
    /\ Release(c)
    /\ C!Forward(c)

\* A retrying endpoint forwarded it, and then refuses it as a duplicate.
AlreadyProcessed(c) ==
    /\ pc[c] = "signed"
    /\ Answer(c, "unconfirmed")
    /\ C!Forward(c)
    /\ UNCHANGED booked

Unanswered_Failed(c) ==
    /\ pc[c] = "signed"
    /\ Answer(c, "failed")
    /\ C!Forward(c) \/ UNCHANGED chain
    /\ UNCHANGED booked

Unanswered_Released(c) ==
    /\ pc[c] = "signed"
    /\ Answer(c, "unconfirmed")
    /\ C!Forward(c) \/ UNCHANGED chain
    /\ Release(c)

\* No answer, or another transaction's signature: it may or may not be live.
Unanswered(c) ==
    /\ pc[c] = "signed"
    /\ Answer(c, "unconfirmed")
    /\ C!Forward(c) \/ UNCHANGED chain
    /\ UNCHANGED booked

Submit(c) == Accepted(c) \/ Rejected(c) \/ AlreadyProcessed(c) \/ Unanswered(c)

PollAgain_Uncounted(c) ==
    /\ pc[c] = "polling"
    /\ C!Reports(c) \cap {"none", "processed"} # {}
    /\ UNCHANGED vars

\* A poll that raises, has no status, or has only a Processed one.
PollAgain(c) ==
    /\ pc[c] = "polling"
    /\ polls[c] < MaxPolls
    /\ polls' = [polls EXCEPT ![c] = @ + 1]
    /\ UNCHANGED <<pc, verdict, booked, chain>>

\* An error at any commitment ends the call.
PollError(c) ==
    /\ pc[c] = "polling"
    /\ polls[c] < MaxPolls
    /\ C!Reports(c) \cap {"errored", "failed"} # {}
    /\ Answer(c, "definitively_failed")
    /\ UNCHANGED <<booked, chain>>

PollDurable_AcceptsProcessed(c) ==
    /\ pc[c] = "polling"
    /\ polls[c] < MaxPolls
    /\ C!Reports(c) \cap {"processed", "confirmed"} # {}
    /\ Goto(c, "paid")
    /\ UNCHANGED <<booked, chain>>

PollDurable(c) ==
    /\ pc[c] = "polling"
    /\ polls[c] < MaxPolls
    /\ "confirmed" \in C!Reports(c)
    /\ Goto(c, "paid")
    /\ UNCHANGED <<booked, chain>>

\* 15 seconds without a durable status.
TimeOut(c) ==
    /\ pc[c] = "polling"
    /\ polls[c] = MaxPolls
    /\ Answer(c, "unconfirmed")
    /\ UNCHANGED <<booked, chain>>

Poll(c) == PollAgain(c) \/ PollError(c) \/ PollDurable(c) \/ TimeOut(c)

\* The relay takes the receipt, or the request for it raises.
ConfirmPayment(c) ==
    /\ pc[c] = "paid"
    /\ \E v \in {"sent", "failed"} : Answer(c, v)
    /\ UNCHANGED <<booked, chain>>

Step(c) ==
    \/ Authorize(c) \/ BuildFails(c) \/ Build(c)
    \/ Submit(c) \/ Poll(c) \/ ConfirmPayment(c)

\* The server process dies, perhaps while it submits, and the agent gets no
\* answer.
Crash(c) ==
    /\ pc[c] \notin {"idle", "answered", "crashed"}
    /\ Goto(c, "crashed")
    /\ UNCHANGED chain \/ (pc[c] = "signed" /\ C!Forward(c))
    /\ UNCHANGED booked

\* The cluster acts on what was signed.
Chain(c) ==
    /\ C!ClusterStep(c) \/ (pc[c] \notin {"idle", "priced", "building"} /\ C!Expire(c))
    /\ UNCHANGED callVars

Next == \E c \in Calls : SendMulti(c) \/ Step(c) \/ Crash(c) \/ Chain(c)

Spec == Init /\ [][Next]_vars

\* A running call keeps executing; each of its requests has a timeout.
FairSpec == Spec /\ \A c \in Calls : WF_vars(Step(c))

-----------------------------------------------------------------------------
(***************************************************************************)
(* Properties.                                                             *)
(***************************************************************************)
TypeOK ==
    /\ pc \in [Calls -> {"idle", "priced", "building", "signed", "polling",
                         "paid", "answered", "crashed"}]
    /\ polls \in [Calls -> 0 .. MaxPolls]
    /\ verdict \in [Calls -> {"none", "failed", "free", "payment_required", "rejected",
                              "definitively_failed", "unconfirmed", "sent"}]
    /\ booked \subseteq Calls
    /\ C!ClusterTypeOK

\* "sent" is only ever said of a payment that can no longer be undone.
SentMeansPaid == \A c \in Calls : verdict[c] = "sent" => tx[c] = "confirmed"

\* What is or may still come to be on the chain is charged to the window:
\* no path through a refusal, a lost answer or a crash gives its budget back.
LiveIsCharged == \A c \in Calls : tx[c] # "none" => c \in booked

\* A plain "failed", which carries no signature, is never said of a
\* transaction whose fate is still open.
FailedIsNotInDoubt ==
    \A c \in Calls : verdict[c] = "failed" => tx[c] \in {"none", "confirmed"}

\* An agent that heeds the answers pays for a message once, but for two of
\* them: a "failed" given when the relay's receipt failed (run `relay_failure`)
\* and a "definitively_failed" read from a fork that is abandoned.
PaidAtMostOnce ==
    \A c, d \in Calls :
        c # d /\ tx[c] = "confirmed" /\ tx[d] = "confirmed"
            => \E e \in {c, d} : verdict[e] \in {"failed", "definitively_failed"}

\* Every call that asked for an invoice ends, whatever endpoint and relay do.
CallEnds ==
    \A c \in Calls : pc[c] = "priced" ~> pc[c] \in {"answered", "crashed"}

\* server.py says its handler for a submitted payment exists so that the
\* generic one, which answers "failed" without a signature, can never swallow
\* one.
FailedNeverSwallowsAPayment ==
    \A c \in Calls : verdict[c] = "failed" => tx[c] = "none"

=============================================================================
