--------------------------- MODULE PaymentProofs ---------------------------
(***************************************************************************)
(* Proofs about Payment for any number of calls and polls.                 *)
(***************************************************************************)
EXTENDS Payment, TLAPS

\* A confirmed status was only ever shown by a transaction that stays
\* confirmed, and nothing is on the chain before it was submitted.
ChainInv ==
    \A c \in Calls :
        /\ "confirmed" \in seen[c] => tx[c] = "confirmed"
        /\ pc[c] \in {"idle", "priced", "building", "signed"} => tx[c] = "none"
        /\ pc[c] = "paid" => tx[c] = "confirmed"

AnswerInv ==
    \A c \in Calls :
        /\ verdict[c] # "none" => pc[c] = "answered"
        /\ verdict[c] = "rejected" => tx[c] = "none"

ChargeInv ==
    \A c \in Calls : pc[c] \in {"building", "signed", "polling", "paid"} => c \in booked

\* Of two calls that have both begun, one has told the agent it did not pay.
Serial ==
    \A c, d \in Calls :
        \/ c = d \/ pc[c] = "idle" \/ pc[d] = "idle"
        \/ ReadsAsUnpaid(c) \/ ReadsAsUnpaid(d)

PaymentInv ==
    /\ TypeOK
    /\ ChainInv
    /\ AnswerInv
    /\ ChargeInv
    /\ SentMeansPaid
    /\ LiveIsCharged
    /\ FailedIsNotInDoubt
    /\ Serial

LEMMA InitPayment == Init => PaymentInv
<1> SUFFICES ASSUME Init
             PROVE  PaymentInv
  OBVIOUS
<1>1. TypeOK
  BY PollsAssumption DEF Init, TypeOK, C!ClusterInit, C!ClusterTypeOK, C!TxStates, C!Landed
<1>2. ChainInv /\ AnswerInv /\ ChargeInv /\ Serial
  BY DEF Init, C!ClusterInit, ChainInv, AnswerInv, ChargeInv, Serial
<1>3. SentMeansPaid /\ LiveIsCharged /\ FailedIsNotInDoubt
  BY DEF Init, C!ClusterInit, SentMeansPaid, LiveIsCharged, FailedIsNotInDoubt
<1>4. QED
  BY <1>1, <1>2, <1>3 DEF PaymentInv

-----------------------------------------------------------------------------
\* What any step of one call, or of the cluster on its transaction, leaves
\* alone: the other calls.
Apart(c) ==
    \A d \in Calls \ {c} :
        /\ pc'[d] = pc[d] /\ verdict'[d] = verdict[d]
        /\ tx'[d] = tx[d] /\ seen'[d] = seen[d]
        /\ d \in booked' <=> d \in booked

\* The facts about one call that its own steps have to restore.
Own(c) ==
    /\ "confirmed" \in seen[c] => tx[c] = "confirmed"
    /\ pc[c] \in {"idle", "priced", "building", "signed"} => tx[c] = "none"
    /\ pc[c] = "paid" => tx[c] = "confirmed"
    /\ verdict[c] # "none" => pc[c] = "answered"
    /\ verdict[c] = "rejected" => tx[c] = "none"
    /\ pc[c] \in {"building", "signed", "polling", "paid"} => c \in booked
    /\ verdict[c] = "sent" => tx[c] = "confirmed"
    /\ tx[c] # "none" => c \in booked
    /\ verdict[c] = "failed" => tx[c] \in {"none", "confirmed"}

LEMMA OwnIsAll ==
    (\A c \in Calls : Own(c)) <=>
        ChainInv /\ AnswerInv /\ ChargeInv /\ SentMeansPaid /\ LiveIsCharged /\ FailedIsNotInDoubt
BY DEF Own, ChainInv, AnswerInv, ChargeInv, SentMeansPaid, LiveIsCharged, FailedIsNotInDoubt

\* One step of a call keeps the types, the other calls and its own facts, and
\* never takes back an answer that read as unpaid.
StepKeeps(c) ==
    /\ TypeOK'
    /\ Apart(c)
    /\ Own(c)'
    /\ pc[c] # "idle" => pc'[c] # "idle"
    /\ ReadsAsUnpaid(c) => ReadsAsUnpaid(c)'

LEMMA CallSteps ==
    ASSUME TypeOK, NEW c \in Calls, Own(c), Step(c) \/ Crash(c)
    PROVE  StepKeeps(c)
<1> USE DEF TypeOK, C!ClusterTypeOK, C!TxStates, C!Landed, C!Durable, StepKeeps, Apart, Own,
            ReadsAsUnpaid, Goto, Answer, chain
<1>1. CASE Authorize(c)
  BY <1>1 DEF Authorize
<1>2. CASE BuildFails(c)
  BY <1>2 DEF BuildFails, Release
<1>3. CASE Build(c)
  BY <1>3 DEF Build
<1>4. CASE Accepted(c)
  BY <1>4 DEF Accepted, C!Forward, C!Become
<1>5. CASE Rejected(c)
  BY <1>5 DEF Rejected, Release
<1>6. CASE AlreadyProcessed(c)
  BY <1>6 DEF AlreadyProcessed, C!Forward, C!Become
<1>7. CASE Unanswered(c)
  BY <1>7 DEF Unanswered, C!Forward, C!Become
<1>8. CASE PollAgain(c)
  BY <1>8, PollsAssumption DEF PollAgain
<1>9. CASE PollError(c)
  BY <1>9 DEF PollError
<1>10. CASE PollDurable(c)
  BY <1>10 DEF PollDurable, C!Reports
<1>11. CASE TimeOut(c)
  BY <1>11 DEF TimeOut
<1>12. CASE ConfirmPayment(c)
  BY <1>12 DEF ConfirmPayment
<1>13. CASE Crash(c)
  BY <1>13 DEF Crash, C!Forward, C!Become
<1>14. QED
  BY <1>1, <1>2, <1>3, <1>4, <1>5, <1>6, <1>7, <1>8, <1>9, <1>10, <1>11, <1>12, <1>13
  DEF Step, Submit, Poll

LEMMA ChainSteps ==
    ASSUME TypeOK, NEW c \in Calls, Own(c), Chain(c)
    PROVE  StepKeeps(c)
<1> USE DEF TypeOK, C!ClusterTypeOK, C!TxStates, C!Landed, C!Durable, StepKeeps, Apart, Own,
            ReadsAsUnpaid, callVars, C!Become
<1>1. CASE C!Process(c) /\ UNCHANGED callVars
  BY <1>1 DEF C!Process
<1>2. CASE C!Abandon(c) /\ UNCHANGED callVars
  BY <1>2 DEF C!Abandon
<1>3. CASE C!Confirm(c) /\ UNCHANGED callVars
  BY <1>3 DEF C!Confirm
<1>4. CASE C!Fail(c) /\ UNCHANGED callVars
  BY <1>4 DEF C!Fail
<1>5. CASE C!Expire(c) /\ UNCHANGED callVars /\ pc[c] \notin {"idle", "priced", "building"}
  BY <1>5 DEF C!Expire
<1>6. QED
  BY <1>1, <1>2, <1>3, <1>4, <1>5 DEF Chain, C!ClusterStep

LEMMA BeginStep ==
    ASSUME TypeOK, NEW c \in Calls, Own(c), SendMulti(c)
    PROVE  StepKeeps(c)
BY DEF TypeOK, C!ClusterTypeOK, StepKeeps, Apart, Own, ReadsAsUnpaid, Goto, Answer, SendMulti, chain

LEMMA NextPayment == PaymentInv /\ [Next]_vars => PaymentInv'
<1> SUFFICES ASSUME PaymentInv, [Next]_vars
             PROVE  PaymentInv'
  OBVIOUS
<1>0. TypeOK /\ Serial /\ \A c \in Calls : Own(c)
  BY OwnIsAll DEF PaymentInv
<1>1. ASSUME NEW c \in Calls, SendMulti(c) \/ Step(c) \/ Crash(c) \/ Chain(c)
      PROVE  PaymentInv'
  <2>1. StepKeeps(c)
    BY <1>0, <1>1, CallSteps, ChainSteps, BeginStep
  <2>2. ASSUME NEW d \in Calls
        PROVE  Own(d)'
    BY <1>0, <2>1 DEF StepKeeps, Apart, Own
  <2>3. ASSUME NEW d \in Calls
        PROVE  /\ ReadsAsUnpaid(d) => ReadsAsUnpaid(d)'
               /\ d # c => pc'[d] = pc[d]
    BY <2>1 DEF StepKeeps, Apart, ReadsAsUnpaid
  <2>4. Serial'
    <3>1. CASE SendMulti(c)
      BY <1>0, <2>3, <3>1 DEF SendMulti, MayCall, Serial
    <3>2. CASE Step(c) \/ Crash(c) \/ Chain(c)
      <4>1. pc[c] # "idle"
        BY <1>0, <3>2 DEF Step, Authorize, BuildFails, Build, Submit, Accepted, Rejected,
              AlreadyProcessed, Unanswered, Poll, PollAgain, PollError, PollDurable, TimeOut,
              ConfirmPayment, Crash, Chain, Own, C!ClusterStep, C!Process, C!Abandon,
              C!Confirm, C!Fail
      <4>2. QED
        BY <1>0, <2>3, <4>1 DEF Serial
    <3>3. QED
      BY <1>1, <3>1, <3>2
  <2>5. (\A d \in Calls : Own(d))'
    BY <2>2
  <2>6. (ChainInv /\ AnswerInv /\ ChargeInv /\ SentMeansPaid /\ LiveIsCharged /\ FailedIsNotInDoubt)'
    BY <2>5 DEF Own, ChainInv, AnswerInv, ChargeInv, SentMeansPaid, LiveIsCharged, FailedIsNotInDoubt
  <2>7. QED
    BY <2>1, <2>4, <2>6 DEF StepKeeps, PaymentInv
<1>2. CASE UNCHANGED vars
  BY <1>2 DEF vars, PaymentInv, TypeOK, C!ClusterTypeOK, ChainInv, AnswerInv, ChargeInv,
      SentMeansPaid, LiveIsCharged, FailedIsNotInDoubt, Serial, ReadsAsUnpaid
<1>3. QED
  BY <1>1, <1>2 DEF Next

-----------------------------------------------------------------------------
\* The invariant holds in every reachable state.
THEOREM PaymentInvariant == Spec => []PaymentInv
<1>1. QED
  BY InitPayment, NextPayment, PTL DEF Spec

\* The variables always have their types.
THEOREM PaymentTypes == Spec => []TypeOK
<1>1. PaymentInv => TypeOK
  BY DEF PaymentInv
<1>2. QED
  BY <1>1, PaymentInvariant, PTL

\* "sent" is only said of a payment that is durably confirmed.
THEOREM SentIsPaid == Spec => []SentMeansPaid
<1>1. PaymentInv => SentMeansPaid
  BY DEF PaymentInv
<1>2. QED
  BY <1>1, PaymentInvariant, PTL

\* What may be on the chain stays charged to the spending window.
THEOREM LiveStaysCharged == Spec => []LiveIsCharged
<1>1. PaymentInv => LiveIsCharged
  BY DEF PaymentInv
<1>2. QED
  BY <1>1, PaymentInvariant, PTL

\* A plain failed is never said of a payment whose fate is open.
THEOREM FailedIsCertain == Spec => []FailedIsNotInDoubt
<1>1. PaymentInv => FailedIsNotInDoubt
  BY DEF PaymentInv
<1>2. QED
  BY <1>1, PaymentInvariant, PTL

\* However many times the agent calls, heeding the answers pays once, but for
\* the two answers known to be wrong.
THEOREM HeedingPaysOnce == Spec => []PaidAtMostOnce
<1>1. PaymentInv => PaidAtMostOnce
  BY DEF PaymentInv, ChainInv, AnswerInv, Serial, ReadsAsUnpaid, PaidAtMostOnce
<1>2. QED
  BY <1>1, PaymentInvariant, PTL
=============================================================================
