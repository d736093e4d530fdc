----------------------------- MODULE Settlement -----------------------------
(***************************************************************************)
(* Settlements (src/src/xete_mcp/settlement.py and the xete_settle_ tools  *)
(* of server.py): a depositor locks money in an on-chain escrow, the       *)
(* hidden beneficiary claims it with the ticket, or the depositor takes it *)
(* back.  Both use this code, and both decide what to do next from its     *)
(* answers.                                                                *)
(*                                                                         *)
(* Every call signs one transaction, named after the call.  A deposit      *)
(* draws a fresh escrow id, so its escrow is named after it too.  The      *)
(* on-chain program and the agents are external.                           *)
(*                                                                         *)
(* Money can be lost here without anything failing: an answer that says    *)
(* "it did not happen" of a transaction that then lands makes the agent    *)
(* deposit again, or throw away the only copy of the salt.                 *)
(***************************************************************************)
EXTENDS FiniteSets

CONSTANTS
    Deposits,   \* calls of xete_settle_create
    Claims,     \* calls of xete_settle_claim
    Reclaims,   \* calls of xete_settle_reclaim
    Target,     \* the escrow each claim and reclaim names
    SecondRpc,  \* whether XETE_RPC_URL_2 names a second endpoint
    Suspects    \* which endpoint may be lying: "none", "primary" or "second"

Calls == Deposits \cup Claims \cup Reclaims

ASSUME CallsAssumption ==
    /\ Deposits \cap Claims = {}
    /\ Reclaims \cap (Deposits \cup Claims) = {}
    /\ Target \in [Claims \cup Reclaims -> Deposits]
ASSUME EndpointsAssumption ==
    /\ SecondRpc \in BOOLEAN
    /\ Suspects \subseteq {"none", "primary", "second"}

VARIABLES
    pc,         \* where each call is
    outcome,    \* what the tool answered
    watched,    \* _await_confirmation's seen: some endpoint has a status
    booked,     \* deposits whose charge stands on the spend ledger
    tickets,    \* the tickets the depositor holds, for it to keep or hand over
    delivered,  \* the tickets the beneficiary has
    readClosed, \* unconfirmed calls whose escrow xete_settle_status read as closed
    liar,       \* the endpoint that makes up its answers, fixed from the start
    handed,     \* the transactions the primary endpoint was handed
    escrow,     \* the escrow accounts
    tx, seen, dead  \* the cluster

C == INSTANCE Cluster WITH Txs <- Calls

chain == <<tx, seen, dead>>
callVars == <<pc, outcome, watched, booked, tickets>>
bystanders == <<delivered, readClosed, liar>>
agentVars == <<bystanders, handed>>
vars == <<callVars, agentVars, escrow, chain>>

Init ==
    /\ pc = [c \in Calls |-> "idle"]
    /\ outcome = [c \in Calls |-> "none"]
    /\ watched = {}
    /\ booked = {}
    /\ tickets = {}
    /\ delivered = {}
    /\ readClosed = {}
    /\ liar \in Suspects
    /\ handed = {}
    /\ escrow = [d \in Deposits |-> "absent"]
    /\ C!ClusterInit

Lies(endpoint) == liar = endpoint

-----------------------------------------------------------------------------
(***************************************************************************)
(* The calls.                                                              *)
(***************************************************************************)
Goto(c, p) ==
    /\ pc' = [pc EXCEPT ![c] = p]
    /\ UNCHANGED <<outcome, watched, tickets>>

\* The answer ends the call, and a deposit's carries the ticket.
End(c, o) ==
    /\ pc' = [pc EXCEPT ![c] = "answered"]
    /\ outcome' = [outcome EXCEPT ![c] = o]
    /\ watched' = watched \ {c}
    /\ tickets' = tickets \cup ({c} \cap Deposits)

\* A failure before there is a ticket.
EndBare(c, o) ==
    /\ pc' = [pc EXCEPT ![c] = "answered"]
    /\ outcome' = [outcome EXCEPT ![c] = o]
    /\ UNCHANGED <<watched, tickets>>

\* A depositor that heeds the answers opens another escrow only when told that
\* the ones before it hold nothing.
ReadsAsUnfunded(d) ==
    outcome[d] \in {"refused", "failed", "dropped"} \/ d \in readClosed

\* xete_settle_create up to _send: the amount or the spend limits refuse, or
\* the charge is recorded and the ticket drawn.
Create(c) ==
    /\ pc[c] = "idle"
    /\ \A d \in Deposits \ {c} : pc[d] = "idle" \/ ReadsAsUnfunded(d)
    /\ \/ EndBare(c, "refused") /\ UNCHANGED booked
       \/ Goto(c, "building") /\ booked' = booked \cup {c}
    /\ UNCHANGED <<agentVars, escrow, chain>>

\* claim and reclaim move no money of the signer's: no spend gate.
Claim(c) ==
    /\ pc[c] = "idle"
    /\ Target[c] \in delivered
    /\ Goto(c, "building")
    /\ UNCHANGED <<booked, agentVars, escrow, chain>>

Reclaim(c) ==
    /\ pc[c] = "idle"
    /\ Target[c] \in tickets
    /\ Goto(c, "building")
    /\ UNCHANGED <<booked, agentVars, escrow, chain>>

Start(c) ==
    \/ c \in Deposits /\ Create(c)
    \/ c \in Claims /\ Claim(c)
    \/ c \in Reclaims /\ Reclaim(c)

\* _release_recorded_spend never takes back more than its own charge, and may
\* fail to take even that.
Release(c) == booked' \in {booked, booked \ {c}}

\* get_latest_blockhash or signing raises: nothing was signed.
BuildFails(c) ==
    /\ pc[c] = "building"
    /\ End(c, "failed") \/ EndBare(c, "failed")
    /\ Release(c)
    /\ UNCHANGED <<agentVars, escrow, chain>>

Build(c) ==
    /\ pc[c] = "building"
    /\ Goto(c, "signed")
    /\ UNCHANGED <<booked, agentVars, escrow, chain>>

\* The endpoint may or may not pass the transaction on.
MaybeForward(c) == C!Forward(c) \/ UNCHANGED chain

Accepted(c) ==
    /\ pc[c] = "signed"
    /\ Goto(c, "polling")
    /\ IF Lies("primary") THEN MaybeForward(c) ELSE C!Forward(c)
    /\ UNCHANGED <<booked, bystanders, escrow>>

\* The endpoint simulates the transaction and declines to forward it.
Rejected(c) ==
    /\ pc[c] = "signed"
    /\ End(c, "failed")
    /\ IF Lies("primary") THEN MaybeForward(c) ELSE UNCHANGED chain
    /\ UNCHANGED <<booked, bystanders, escrow>>

AlreadyProcessed(c) ==
    /\ pc[c] = "signed"
    /\ End(c, "unconfirmed")
    /\ IF Lies("primary") THEN MaybeForward(c) ELSE C!Forward(c)
    /\ UNCHANGED <<booked, bystanders, escrow>>

Unanswered_Bare(c) ==
    /\ pc[c] = "signed"
    /\ EndBare(c, "unconfirmed")
    /\ MaybeForward(c)
    /\ UNCHANGED <<booked, bystanders, escrow>>

\* No answer to the submit, or another transaction's signature.
Unanswered(c) ==
    /\ pc[c] = "signed"
    /\ End(c, "unconfirmed")
    /\ MaybeForward(c)
    /\ UNCHANGED <<booked, bystanders, escrow>>

Submit(c) ==
    /\ handed' = handed \cup {c}
    /\ Accepted(c) \/ Rejected(c) \/ AlreadyProcessed(c) \/ Unanswered(c)

\* What the primary endpoint may answer a status poll.
Status(c) == IF Lies("primary") THEN {"none"} \cup C!Landed ELSE C!Reports(c)

\* An endpoint that says the blockhash is dead says it of a finalized slot.
\* An honest one has then seen every transaction that could use it.
Gone(c) == c \in dead /\ tx[c] \in {"none", "expired"}
MaySayGone(endpoint, c) == Lies(endpoint) \/ Gone(c)
MaySaySeen(endpoint, c) == Lies(endpoint) \/ seen[c] # {}

PollDurable_AcceptsProcessed(c) ==
    /\ pc[c] = "polling"
    /\ \/ "failed" \in Status(c) /\ End(c, "failed")
       \/ Status(c) \cap {"processed", "confirmed"} # {} /\ End(c, "confirmed")
    /\ UNCHANGED <<booked, agentVars, escrow, chain>>

PollDurable_AcceptsErrored(c) ==
    /\ pc[c] = "polling"
    /\ \/ Status(c) \cap {"errored", "failed"} # {} /\ End(c, "failed")
       \/ "confirmed" \in Status(c) /\ End(c, "confirmed")
    /\ UNCHANGED <<booked, agentVars, escrow, chain>>

\* Only a durable status decides, for better or for worse.
PollDurable(c) ==
    /\ pc[c] = "polling"
    /\ \/ "failed" \in Status(c) /\ End(c, "failed")
       \/ "confirmed" \in Status(c) /\ End(c, "confirmed")
    /\ UNCHANGED <<booked, agentVars, escrow, chain>>

\* A status at a commitment that can be forked away.
PollForkable(c) ==
    /\ pc[c] = "polling"
    /\ Status(c) \cap {"processed", "errored"} # {}
    /\ watched' = watched \cup {c}
    /\ UNCHANGED <<pc, outcome, booked, tickets, agentVars, escrow, chain>>

Corroborate_OneSource(c) == {"dropped"}

\* _corroborate_dropped: what the second endpoint can make of it.
Corroborate(c) ==
    {"unknown"}
        \cup {v \in {"dropped"} : SecondRpc /\ MaySayGone("second", c)}
        \cup {v \in {"seen"} : SecondRpc /\ MaySaySeen("second", c)}

\* The primary has no status and calls the blockhash dead.
PollGone(c) ==
    /\ pc[c] = "polling"
    /\ c \notin watched
    /\ MaySayGone("primary", c)
    /\ \E v \in Corroborate(c) :
          IF v = "seen"
          THEN watched' = watched \cup {c} /\ UNCHANGED <<pc, outcome, tickets>>
          ELSE End(c, IF v = "dropped" THEN "dropped" ELSE "unconfirmed")
    /\ UNCHANGED <<booked, agentVars, escrow, chain>>

GiveUp_Failed(c) ==
    /\ pc[c] = "polling"
    /\ End(c, "failed")
    /\ UNCHANGED <<booked, agentVars, escrow, chain>>

\* A poll raises, or the confirmation budget is spent.
GiveUp(c) ==
    /\ pc[c] = "polling"
    /\ End(c, "unconfirmed")
    /\ UNCHANGED <<booked, agentVars, escrow, chain>>

Await(c) == PollDurable(c) \/ PollForkable(c) \/ PollGone(c) \/ GiveUp(c)

\* The server process dies, perhaps while it submits; the only ticket may die
\* with it.
Crash(c) ==
    /\ pc[c] \in {"building", "signed", "polling"}
    /\ Goto(c, "crashed")
    /\ \/ UNCHANGED <<handed, chain>>
       \/ pc[c] = "signed" /\ handed' = handed \cup {c} /\ MaybeForward(c)
    /\ UNCHANGED <<booked, bystanders, escrow>>

-----------------------------------------------------------------------------
(***************************************************************************)
(* The agents, the lying endpoint and the chain.                           *)
(***************************************************************************)
\* The ticket reaches the beneficiary: notify, or the depositor's own message.
Deliver(d) ==
    /\ d \in tickets
    /\ delivered' = delivered \cup {d}
    /\ UNCHANGED <<callVars, readClosed, liar, handed, escrow, chain>>

EscrowOf(c) == IF c \in Deposits THEN c ELSE Target[c]

\* The next_step of an unconfirmed answer: ask xete_settle_status, read
\* determinate first, then open.  Here determinate is true and open is false;
\* an open or an indeterminate answer changes nothing that matters below.
ReadClosed(c) ==
    /\ outcome[c] = "unconfirmed"
    /\ ~Lies("primary")
    /\ escrow[EscrowOf(c)] # "open"
    /\ readClosed' = readClosed \cup {c}
    /\ UNCHANGED <<callVars, delivered, liar, handed, escrow, chain>>

\* A lying endpoint that kept the transaction passes it on after all.
ForwardLate(c) ==
    /\ Lies("primary")
    /\ c \in handed
    /\ tx[c] = "none"
    /\ c \notin dead
    /\ C!Forward(c)
    /\ UNCHANGED <<callVars, agentVars, escrow>>

\* The program: a deposit opens its escrow, a claim or a reclaim closes it.
Land(c) ==
    /\ C!Confirm(c)
    /\ IF c \in Deposits
       THEN escrow' = [escrow EXCEPT ![c] = "open"]
       ELSE /\ escrow[Target[c]] = "open"
            /\ escrow' = [escrow EXCEPT ![Target[c]] =
                             IF c \in Claims THEN "claimed" ELSE "reclaimed"]
    /\ UNCHANGED <<callVars, agentVars>>

Chain(c) ==
    \/ Land(c)
    \/ /\ \/ C!Process(c) \/ C!Abandon(c) \/ C!Fail(c)
          \/ pc[c] \notin {"idle", "building"} /\ C!Expire(c)
       /\ UNCHANGED <<callVars, agentVars, escrow>>

Step(c) == Start(c) \/ BuildFails(c) \/ Build(c) \/ Submit(c) \/ Await(c)

Next ==
    \/ \E c \in Calls : Step(c) \/ Crash(c) \/ ReadClosed(c) \/ ForwardLate(c) \/ Chain(c)
    \/ \E d \in Deposits : Deliver(d)

Spec == Init /\ [][Next]_vars

-----------------------------------------------------------------------------
(***************************************************************************)
(* Properties.                                                             *)
(***************************************************************************)
TypeOK ==
    /\ pc \in [Calls -> {"idle", "building", "signed", "polling", "answered", "crashed"}]
    /\ outcome \in [Calls -> {"none", "refused", "failed", "dropped", "unconfirmed",
                              "confirmed"}]
    /\ watched \subseteq Calls
    /\ booked \subseteq Deposits
    /\ tickets \subseteq Deposits
    /\ delivered \subseteq tickets
    /\ readClosed \subseteq Calls
    /\ liar \in Suspects
    /\ handed \subseteq Calls
    /\ escrow \in [Deposits -> {"absent", "open", "claimed", "reclaimed"}]
    /\ C!ClusterTypeOK

\* "open", "claimed" and "reclaimed" are only said of what cannot be forked
\* away again; in particular both sides of an escrow are never told they got it.
SuccessIsFinal ==
    \A c \in Calls : outcome[c] = "confirmed" =>
        \/ c \in Deposits /\ escrow[c] # "absent"
        \/ c \in Claims /\ escrow[Target[c]] = "claimed"
        \/ c \in Reclaims /\ escrow[Target[c]] = "reclaimed"

\* A flat "failed" is never said of a transaction that lands: not then, and
\* not later.
FailedNeverLands ==
    \A c \in Calls : outcome[c] \in {"failed", "dropped"} => tx[c] # "confirmed"

\* "dropped" is never said of a transaction that lands, even when one of the
\* two endpoints, whichever, makes up everything it answers.
DroppedNeverLands == \A c \in Calls : outcome[c] = "dropped" => tx[c] # "confirmed"

\* What a deposit has put, or may yet put, on the chain stays charged to the
\* window; and whatever became of the submit, once it is answered the depositor
\* has its ticket: the salt exists nowhere else.
LiveDepositIsKept ==
    \A d \in Deposits : tx[d] # "none" =>
        /\ d \in booked
        /\ pc[d] = "answered" => d \in tickets

\* While the endpoint that submits is honest, two escrows are funded for one
\* settlement only when xete_settle_status said of one that it never happened
\* (see the run in_flight_status).
FundedAtMostOnce ==
    \A c, d \in Deposits :
        c # d /\ tx[c] = "confirmed" /\ tx[d] = "confirmed" /\ ~Lies("primary")
            => \E e \in {c, d} : e \in readClosed

\* xete_settle_create says of an unconfirmed deposit that determinate=true and
\* open=false means the deposit did not happen and the funds never left.
ClosedMeansNeverFunded ==
    \A d \in Deposits \cap readClosed : tx[d] # "confirmed"

=============================================================================
