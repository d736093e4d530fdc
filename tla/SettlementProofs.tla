-------------------------- MODULE SettlementProofs --------------------------
(***************************************************************************)
(* Proofs about Settlement for any number of calls, any escrows they name  *)
(* and any set of endpoints one of which may lie.                          *)
(***************************************************************************)
EXTENDS Settlement, TLAPS

\* Nothing is on the chain that no endpoint was handed, and a durable status
\* was only ever shown by a transaction that keeps it.
Landing(c) ==
    /\ "confirmed" \in seen[c] => tx[c] = "confirmed"
    /\ "failed" \in seen[c] => tx[c] = "failed"
    /\ c \notin handed => tx[c] = "none"
    /\ pc[c] \in {"idle", "building", "signed"} => c \notin handed

\* The charge and the ticket of a deposit that an endpoint was handed.
Keeping(c) ==
    c \in Deposits =>
        /\ pc[c] \in {"building", "signed", "polling"} \/ c \in handed => c \in booked
        /\ pc[c] = "answered" /\ c \in handed => c \in tickets

\* What is true for good once it was answered.
Answering(c) ==
    /\ outcome[c] # "none" => pc[c] = "answered"
    /\ outcome[c] = "refused" => c \notin handed
    /\ outcome[c] = "dropped" => Gone(c)
    /\ ~Lies("primary") =>
          /\ outcome[c] = "failed" => tx[c] \in {"none", "failed"}
          /\ outcome[c] = "confirmed" => tx[c] = "confirmed"

Own(c) == Landing(c) /\ Keeping(c) /\ Answering(c)

\* The escrows are what the confirmed transactions made of them.
EscrowInv ==
    /\ \A d \in Deposits : escrow[d] # "absent" <=> tx[d] = "confirmed"
    /\ \A c \in Claims : tx[c] = "confirmed" => escrow[Target[c]] = "claimed"
    /\ \A c \in Reclaims : tx[c] = "confirmed" => escrow[Target[c]] = "reclaimed"

\* Of two deposits that have both begun, one read as unfunded.
Serial ==
    \A c, d \in Deposits :
        \/ c = d \/ pc[c] = "idle" \/ pc[d] = "idle"
        \/ ReadsAsUnfunded(c) \/ ReadsAsUnfunded(d)

SettlementInv ==
    /\ TypeOK
    /\ \A c \in Calls : Own(c)
    /\ EscrowInv
    /\ Serial

LEMMA InitSettlement == Init => SettlementInv
<1> SUFFICES ASSUME Init
             PROVE  SettlementInv
  OBVIOUS
<1>1. TypeOK
  BY EndpointsAssumption
  DEF Init, TypeOK, C!ClusterInit, C!ClusterTypeOK, C!TxStates, C!Landed
<1>2. \A c \in Calls : Own(c)
  BY DEF Init, C!ClusterInit, Own, Landing, Keeping, Answering
<1>3. EscrowInv /\ Serial
  BY DEF Init, C!ClusterInit, Calls, EscrowInv, Serial
<1>4. QED
  BY <1>1, <1>2, <1>3 DEF SettlementInv

-----------------------------------------------------------------------------
\* What a step of one call leaves alone: the other calls.
Apart(c) ==
    \A d \in Calls \ {c} :
        /\ pc'[d] = pc[d] /\ outcome'[d] = outcome[d]
        /\ tx'[d] = tx[d] /\ seen'[d] = seen[d]
        /\ d \in booked' <=> d \in booked
        /\ d \in tickets' <=> d \in tickets
        /\ d \in handed' <=> d \in handed
        /\ d \in dead' <=> d \in dead

\* A step of one call, or of the cluster on its transaction, keeps the types,
\* its own facts and the other calls, and takes back no answer.
StepKeeps(c) ==
    /\ TypeOK'
    /\ Own(c)'
    /\ Apart(c)
    /\ liar' = liar
    /\ pc[c] # "idle" => pc'[c] # "idle"
    /\ outcome[c] # "none" => outcome'[c] = outcome[c]
    /\ readClosed \subseteq readClosed'

\* What no step but Land changes.
EscrowsKept(c) == escrow' = escrow /\ (tx'[c] = "confirmed" <=> tx[c] = "confirmed")

LEMMA StartSteps ==
    ASSUME TypeOK, NEW c \in Calls, Own(c), Start(c) \/ BuildFails(c) \/ Build(c)
    PROVE  StepKeeps(c) /\ EscrowsKept(c)
<1> USE DEF TypeOK, StepKeeps, EscrowsKept, Apart, Own, Landing, Keeping, Answering, Goto, End,
            EndBare, Lies, Gone, C!ClusterTypeOK, chain, agentVars, bystanders
<1>1. CASE c \in Deposits /\ Create(c)
  BY <1>1 DEF Create
<1>2. CASE c \in Claims /\ Claim(c)
  BY <1>2, CallsAssumption DEF Claim
<1>3. CASE c \in Reclaims /\ Reclaim(c)
  BY <1>3, CallsAssumption DEF Reclaim
<1>4. CASE BuildFails(c)
  BY <1>4 DEF BuildFails, Release
<1>5. CASE Build(c)
  BY <1>5 DEF Build
<1>6. QED
  BY <1>1, <1>2, <1>3, <1>4, <1>5 DEF Start

LEMMA SubmitSteps ==
    ASSUME TypeOK, NEW c \in Calls, Own(c), Submit(c) \/ Crash(c)
    PROVE  StepKeeps(c) /\ EscrowsKept(c)
<1> USE DEF TypeOK, StepKeeps, EscrowsKept, Apart, Own, Landing, Keeping, Answering, Goto, End,
            Lies, Gone, C!ClusterTypeOK, C!TxStates, C!Landed, C!Durable, C!Forward, C!Become,
            MaybeForward, chain, bystanders
<1>1. CASE Submit(c) /\ Accepted(c)
  BY <1>1 DEF Submit, Accepted
<1>2. CASE Submit(c) /\ Rejected(c)
  BY <1>2 DEF Submit, Rejected
<1>3. CASE Submit(c) /\ AlreadyProcessed(c)
  BY <1>3 DEF Submit, AlreadyProcessed
<1>4. CASE Submit(c) /\ Unanswered(c)
  BY <1>4 DEF Submit, Unanswered
<1>5. CASE Crash(c)
  BY <1>5 DEF Crash
<1>6. QED
  BY <1>1, <1>2, <1>3, <1>4, <1>5 DEF Submit

LEMMA AwaitSteps ==
    ASSUME TypeOK, NEW c \in Calls, Own(c), Await(c)
    PROVE  StepKeeps(c) /\ EscrowsKept(c)
<1> USE DEF TypeOK, StepKeeps, EscrowsKept, Apart, Own, Landing, Keeping, Answering, End,
            Lies, Gone, C!ClusterTypeOK, chain, agentVars, bystanders
<1>1. CASE PollDurable(c)
  BY <1>1 DEF PollDurable, Status, C!Reports
<1>2. CASE PollForkable(c)
  BY <1>2 DEF PollForkable
<1>3. CASE PollGone(c)
  BY <1>3 DEF PollGone, Corroborate, MaySayGone
<1>4. CASE GiveUp(c)
  BY <1>4 DEF GiveUp
<1>5. QED
  BY <1>1, <1>2, <1>3, <1>4 DEF Await

LEMMA AgentSteps ==
    ASSUME TypeOK, NEW c \in Calls, Own(c), ReadClosed(c) \/ ForwardLate(c)
    PROVE  StepKeeps(c) /\ EscrowsKept(c)
<1> USE DEF TypeOK, StepKeeps, EscrowsKept, Apart, Own, Landing, Keeping, Answering, Lies, Gone,
            C!ClusterTypeOK, callVars, chain
<1>1. CASE ReadClosed(c)
  BY <1>1 DEF ReadClosed
<1>2. CASE ForwardLate(c)
  BY <1>2 DEF ForwardLate, C!Forward, C!Become, C!TxStates, C!Landed, C!Durable, agentVars,
      bystanders
<1>3. QED
  BY <1>1, <1>2

LEMMA ClusterSteps ==
    ASSUME TypeOK, NEW c \in Calls, Own(c), Chain(c), ~Land(c)
    PROVE  StepKeeps(c) /\ EscrowsKept(c)
<1> USE DEF TypeOK, StepKeeps, EscrowsKept, Apart, Own, Landing, Keeping, Answering, Lies, Gone,
            C!ClusterTypeOK, C!TxStates, C!Landed, C!Durable, C!Become, callVars, agentVars,
            bystanders
<1>1. CASE C!Process(c) /\ UNCHANGED <<callVars, agentVars, escrow>>
  BY <1>1 DEF C!Process
<1>2. CASE C!Abandon(c) /\ UNCHANGED <<callVars, agentVars, escrow>>
  BY <1>2 DEF C!Abandon
<1>3. CASE C!Fail(c) /\ UNCHANGED <<callVars, agentVars, escrow>>
  BY <1>3 DEF C!Fail
<1>4. CASE C!Expire(c) /\ UNCHANGED <<callVars, agentVars, escrow>>
  BY <1>4 DEF C!Expire
<1>5. QED
  BY <1>1, <1>2, <1>3, <1>4 DEF Chain

\* Land confirms a transaction that was processed, so its call was submitted,
\* and it was neither dropped nor, by an honest endpoint, failed.
LEMMA LandStep ==
    ASSUME TypeOK, NEW c \in Calls, Own(c), EscrowInv, Land(c)
    PROVE  StepKeeps(c) /\ EscrowInv'
<1>1. /\ tx[c] = "processed"
      /\ tx' = [tx EXCEPT ![c] = "confirmed"]
      /\ seen' = [seen EXCEPT ![c] = @ \cup ({"confirmed"} \cap C!Landed)]
      /\ dead' = dead /\ UNCHANGED <<callVars, agentVars>>
  BY DEF Land, C!Confirm, C!Become
<1>2. TypeOK'
  <2>1. escrow' \in [Deposits -> {"absent", "open", "claimed", "reclaimed"}]
    BY CallsAssumption DEF TypeOK, Land
  <2>2. QED
    BY <1>1, <2>1 DEF TypeOK, callVars, agentVars, bystanders, C!ClusterTypeOK, C!TxStates,
        C!Landed, C!Durable
<1>3. StepKeeps(c)
  BY <1>1, <1>2 DEF TypeOK, StepKeeps, Apart, Own, Landing, Keeping, Answering, Lies, Gone,
      C!ClusterTypeOK, C!Landed, C!Durable, callVars, agentVars, bystanders
<1>4. CASE c \in Deposits
  <2>1. escrow[c] = "absent" /\ escrow' = [escrow EXCEPT ![c] = "open"]
    BY <1>1, <1>4 DEF EscrowInv, Land
  <2>2. QED
    BY <1>1, <1>3, <1>4, <2>1, CallsAssumption DEF TypeOK, EscrowInv, C!ClusterTypeOK, Calls
<1>5. CASE c \notin Deposits
  <2>1. /\ escrow[Target[c]] = "open"
        /\ escrow' = [escrow EXCEPT ![Target[c]] = IF c \in Claims THEN "claimed" ELSE "reclaimed"]
        /\ Target[c] \in Deposits
    BY <1>5, CallsAssumption DEF Land, Calls
  <2>2. QED
    BY <1>1, <1>3, <1>5, <2>1, CallsAssumption DEF TypeOK, EscrowInv, C!ClusterTypeOK, Calls
<1>6. QED
  BY <1>3, <1>4, <1>5

-----------------------------------------------------------------------------
LEMMA NextSettlement == SettlementInv /\ [Next]_vars => SettlementInv'
<1> SUFFICES ASSUME SettlementInv, [Next]_vars
             PROVE  SettlementInv'
  OBVIOUS
<1>0. TypeOK /\ EscrowInv /\ Serial /\ \A c \in Calls : Own(c)
  BY DEF SettlementInv
<1>1. ASSUME NEW c \in Calls, Step(c) \/ Crash(c) \/ ReadClosed(c) \/ ForwardLate(c) \/ Chain(c)
      PROVE  SettlementInv'
  <2>1. StepKeeps(c) /\ EscrowInv'
    <3>1. CASE Land(c)
      BY <1>0, <3>1, LandStep
    <3>2. CASE ~Land(c)
      <4>1. StepKeeps(c) /\ EscrowsKept(c)
        BY <1>0, <1>1, <3>2, StartSteps, SubmitSteps, AwaitSteps, AgentSteps, ClusterSteps DEF Step
      <4>2. \A d \in Calls : tx'[d] = "confirmed" <=> tx[d] = "confirmed"
        BY <4>1 DEF StepKeeps, Apart, EscrowsKept
      <4>3. QED
        BY <1>0, <4>1, <4>2 DEF EscrowsKept, EscrowInv, Calls
    <3>3. QED
      BY <3>1, <3>2
  <2>2. ASSUME NEW d \in Calls
        PROVE  Own(d)'
    BY <1>0, <2>1 DEF StepKeeps, Apart, Own, Landing, Keeping, Answering, Lies, Gone
  <2>3. ASSUME NEW d \in Deposits
        PROVE  /\ ReadsAsUnfunded(d) => ReadsAsUnfunded(d)'
               /\ d # c => pc'[d] = pc[d]
    BY <2>1 DEF StepKeeps, Apart, ReadsAsUnfunded, Calls
  <2>4. Serial'
    <3>1. CASE c \in Deposits /\ Create(c)
      BY <1>0, <2>3, <3>1 DEF Create, Serial
    <3>2. CASE c \notin Deposits \/ pc[c] # "idle"
      BY <1>0, <2>3, <3>2 DEF Serial
    <3>3. CASE c \in Deposits /\ pc[c] = "idle" /\ ~Create(c)
      <4>1. pc'[c] = "idle"
        <5>1. tx[c] = "none" /\ outcome[c] = "none" /\ c \notin handed
          BY <1>0, <3>3 DEF Own, Landing, Answering
        <5>2. QED
          BY <1>1, <3>3, <5>1, CallsAssumption DEF Step, Start, BuildFails, Build, Submit, Accepted,
              Rejected, AlreadyProcessed, Unanswered, Await, PollDurable, PollForkable, PollGone,
              GiveUp, Crash, ReadClosed, ForwardLate, Chain, Land, callVars
      <4>2. QED
        BY <1>0, <2>3, <3>3, <4>1 DEF Serial
    <3>4. QED
      BY <3>1, <3>2, <3>3
  <2>5. QED
    BY <2>1, <2>2, <2>4 DEF StepKeeps, SettlementInv
<1>2. ASSUME NEW d \in Deposits, Deliver(d)
      PROVE  SettlementInv'
  BY <1>0, <1>2 DEF Deliver, callVars, chain, SettlementInv, TypeOK, C!ClusterTypeOK, Own, Landing,
      Keeping, Answering, Lies, Gone, EscrowInv, Serial, ReadsAsUnfunded
<1>3. CASE UNCHANGED vars
  BY <1>0, <1>3 DEF vars, callVars, agentVars, bystanders, chain, SettlementInv, TypeOK,
      C!ClusterTypeOK, Own, Landing, Keeping, Answering, Lies, Gone, EscrowInv, Serial,
      ReadsAsUnfunded
<1>4. QED
  BY <1>1, <1>2, <1>3 DEF Next

-----------------------------------------------------------------------------
\* The invariant holds in every reachable state.
THEOREM SettlementInvariant == Spec => []SettlementInv
<1>1. QED
  BY InitSettlement, NextSettlement, PTL DEF Spec

\* The variables always have their types.
THEOREM SettlementTypes == Spec => []TypeOK
<1>1. SettlementInv => TypeOK
  BY DEF SettlementInv
<1>2. QED
  BY <1>1, SettlementInvariant, PTL

\* Of any number of deposits, each that may be live stays charged, and its
\* ticket is the depositor's once it is answered, whoever lies.
THEOREM LiveDepositsAreKept == Spec => []LiveDepositIsKept
<1>1. SettlementInv => LiveDepositIsKept
  BY DEF SettlementInv, Own, Landing, Keeping, LiveDepositIsKept, Calls
<1>2. QED
  BY <1>1, SettlementInvariant, PTL

\* "dropped" is never said of a transaction that lands, whichever one of the
\* two endpoints lies.
THEOREM DroppedStaysDropped == Spec => []DroppedNeverLands
<1>1. SettlementInv => DroppedNeverLands
  BY DEF SettlementInv, Own, Answering, Gone, DroppedNeverLands
<1>2. QED
  BY <1>1, SettlementInvariant, PTL

\* When the endpoint that submits is honest, no transaction that was answered
\* failed or dropped ever lands.
THEOREM FailedStaysFailed == Spec => [](~Lies("primary") => FailedNeverLands)
<1>1. SettlementInv => (~Lies("primary") => FailedNeverLands)
  BY DEF SettlementInv, Own, Answering, Gone, FailedNeverLands
<1>2. QED
  BY <1>1, SettlementInvariant, PTL

\* When the endpoint that submits is honest, whatever was called confirmed has
\* happened for good: however many claims and reclaims name one escrow, at most
\* one side is told it got it.
THEOREM ConfirmedIsFinal == Spec => [](~Lies("primary") => SuccessIsFinal)
<1>1. SettlementInv => (~Lies("primary") => SuccessIsFinal)
  BY DEF SettlementInv, Own, Answering, EscrowInv, SuccessIsFinal, Calls
<1>2. QED
  BY <1>1, SettlementInvariant, PTL

\* However often the depositor tries again, heeding the answers funds one escrow,
\* unless xete_settle_status called another one closed that was not.
THEOREM HeedingFundsOnce == Spec => []FundedAtMostOnce
<1>1. SettlementInv => FundedAtMostOnce
  BY DEF SettlementInv, Own, Landing, Answering, Gone, Serial, ReadsAsUnfunded, FundedAtMostOnce, Calls
<1>2. QED
  BY <1>1, SettlementInvariant, PTL
=============================================================================
