-------------------------- MODULE AliasClaimProofs --------------------------
(***************************************************************************)
(* Proofs about AliasClaim for any number of calls and any transactions    *)
(* the permit server may offer: what is signed claims the name for us,     *)
(* moves the price and the rent, and is on the spend ledger.               *)
(***************************************************************************)
EXTENDS AliasClaim, Sums

\* TypeOK, less the charge: it is computed from that sum.
Types ==
    /\ pc \in [Claims -> {"idle", "inspected", "charged", "signed", "polling",
                          "durable", "unseen", "answered", "crashed"}]
    /\ verdict \in [Claims -> PermitWords \cup {"none", "failed", "refused", "failed_on_chain",
                                                "submitted_unconfirmed"}]
    /\ offer \in [Claims -> Offers \cup {NoOffer}]
    /\ C!ClusterTypeOK

\* A transaction that writes our record of the name and no other.
OursOnly(t) == Records(t) = {OurRecord}

\* The facts about one call that its own steps have to restore.
Own(c) ==
    /\ "confirmed" \in seen[c] => tx[c] = "confirmed"
    /\ pc[c] \in {"idle", "inspected", "charged", "signed"} => tx[c] = "none"
    /\ pc[c] \in {"inspected", "charged", "signed"} \/ tx[c] # "none" => OursOnly(offer[c])
    /\ pc[c] = "durable" => tx[c] = "confirmed"
    /\ verdict[c] # "none" => pc[c] = "answered"
    /\ verdict[c] = "refused" => tx[c] = "none"
    /\ verdict[c] \in PermitWords => tx[c] \in {"none", "confirmed"}
    /\ pc[c] \in {"polling", "unseen"} => OursOnly(offer[c])

\* The record is what the confirmed claim wrote.
RecordInv == \A c \in Claims : tx[c] = "confirmed" => owner = OurRecord

\* Of two calls that have both begun, one read as unclaimed.
Serial ==
    \A c, d \in Claims :
        \/ c = d \/ pc[c] = "idle" \/ pc[d] = "idle"
        \/ ReadsAsUnclaimed(c) \/ ReadsAsUnclaimed(d)

AliasInv ==
    /\ Types
    /\ \A c \in Claims : Own(c)
    /\ RecordInv
    /\ Serial

\* What passes the checks does one thing: it claims the name for us.
LEMMA ApprovedIsOurs ==
    ASSUME NEW t \in Offers, NEW q, NEW w, Approved(t, Name, q, w)
    PROVE  OursOnly(t)
<1>1. /\ DOMAIN t.ixs = 1 .. Len(t.ixs)
      /\ Len(t.ixs) \in 1 .. MaxInstructions
  BY OffersAssumption DEF Approved, Framed
<1>2. IsFiniteSet(DOMAIN t.ixs)
  <2>1. Len(t.ixs) \in Int
    BY <1>1, FeesAssumption
  <2>2. QED
    BY <1>1, <2>1, FS_Interval
<1>3. IsFiniteSet(Of(t, "registry"))
  BY <1>2, FS_Subset DEF Of
<1>4. PICK i : Of(t, "registry") = {i}
  BY <1>3, FS_Singleton DEF Approved, ProgramsRight
<1>5. ClaimIn(t) = t.ixs[i]
  BY <1>4 DEF ClaimIn, The
<1>6. t.ixs[i].account = Name /\ t.ixs[i].payer = Us /\ t.ixs[i].agent = OurAgent
  BY <1>5 DEF Approved, DataRight, SeatsRight
<1>7. QED
  BY <1>4, <1>6 DEF OursOnly, Records, OurRecord

LEMMA InitAlias == Init => AliasInv
BY DEF Init, C!ClusterInit, AliasInv, Types, C!ClusterTypeOK, C!TxStates, C!Landed, Own, RecordInv, Serial

-----------------------------------------------------------------------------
\* A step of one call, or of the cluster on its transaction, keeps the types
\* and its own facts, leaves the other calls alone, and takes back no answer
\* that read as unclaimed.
StepKeeps(c) ==
    /\ Types'
    /\ Own(c)'
    /\ \A d \in Claims \ {c} :
          /\ pc'[d] = pc[d] /\ verdict'[d] = verdict[d] /\ offer'[d] = offer[d]
          /\ tx'[d] = tx[d] /\ seen'[d] = seen[d]
    /\ pc[c] # "idle" => pc'[c] # "idle"
    /\ ReadsAsUnclaimed(c) => ReadsAsUnclaimed(c)'

\* What no step but Land and Rival changes.
RecordKept(c) == owner' = owner /\ (tx'[c] = "confirmed" => tx[c] = "confirmed")

LEMMA BeginSteps ==
    ASSUME Types, NEW c \in Claims, Own(c), Refused(c) \/ Inspect(c)
    PROVE  StepKeeps(c) /\ RecordKept(c)
<1> USE DEF Types, C!ClusterTypeOK, StepKeeps, RecordKept, Own, PermitWords, ReadsAsUnclaimed, Goto,
            Answer, Decline, chain, deal
<1>1. CASE Refused(c)
  BY <1>1 DEF Refused
<1>2. CASE Inspect(c)
  BY <1>2, ApprovedIsOurs DEF Inspect
<1>3. QED
  BY <1>1, <1>2

LEMMA SigningSteps ==
    ASSUME Types, NEW c \in Claims, Own(c), Authorize(c) \/ SignFails(c) \/ Sign(c)
    PROVE  StepKeeps(c) /\ RecordKept(c)
<1> USE DEF Types, C!ClusterTypeOK, StepKeeps, RecordKept, Own, PermitWords, ReadsAsUnclaimed, Goto,
            Answer, Decline, chain, deal
<1>1. CASE Authorize(c)
  BY <1>1 DEF Authorize
<1>2. CASE SignFails(c)
  BY <1>2 DEF SignFails
<1>3. CASE Sign(c)
  BY <1>3 DEF Sign
<1>4. QED
  BY <1>1, <1>2, <1>3

LEMMA SubmitSteps ==
    ASSUME Types, NEW c \in Claims, Own(c), Accepted(c) \/ Unanswered(c) \/ Crash(c)
    PROVE  StepKeeps(c) /\ RecordKept(c)
<1> USE DEF Types, C!ClusterTypeOK, C!TxStates, C!Landed, C!Durable, C!Forward, C!Become, StepKeeps,
            RecordKept, Own, PermitWords, ReadsAsUnclaimed, Goto, Answer, Pass, chain, deal
<1>1. CASE Accepted(c)
  BY <1>1 DEF Accepted
<1>2. CASE Unanswered(c)
  BY <1>2 DEF Unanswered
<1>3. CASE Crash(c)
  BY <1>3 DEF Crash
<1>4. QED
  BY <1>1, <1>2, <1>3

LEMMA PollSteps ==
    ASSUME Types, NEW c \in Claims, Own(c),
           PollRaises(c) \/ PollError(c) \/ PollDurable(c) \/ ConfirmClaim(c)
    PROVE  StepKeeps(c) /\ RecordKept(c)
<1> USE DEF Types, C!ClusterTypeOK, StepKeeps, RecordKept, Own, PermitWords, ReadsAsUnclaimed, Goto,
            Answer, chain, deal
<1>1. CASE PollRaises(c) \/ PollError(c)
  BY <1>1 DEF PollRaises, PollError
<1>2. CASE PollDurable(c)
  BY <1>2 DEF PollDurable, C!Reports
<1>3. CASE ConfirmClaim(c)
  BY <1>3 DEF ConfirmClaim
<1>4. QED
  BY <1>1, <1>2, <1>3

LEMMA ChainSteps ==
    ASSUME Types, NEW c \in Claims, Own(c), Chain(c)
    PROVE  StepKeeps(c) /\ RecordKept(c)
<1> USE DEF Types, C!ClusterTypeOK, C!TxStates, C!Landed, C!Durable, C!Become, StepKeeps, RecordKept,
            Own, PermitWords, ReadsAsUnclaimed, Chain, deal
<1>1. CASE C!Process(c)
  BY <1>1 DEF C!Process
<1>2. CASE C!Abandon(c)
  BY <1>2 DEF C!Abandon
<1>3. CASE C!Fail(c)
  BY <1>3 DEF C!Fail
<1>4. CASE C!Expire(c) /\ pc[c] \notin {"idle", "inspected", "charged"}
  BY <1>4 DEF C!Expire
<1>5. QED
  BY <1>1, <1>2, <1>3, <1>4

\* Whichever claim lands writes our record.
LEMMA LandStep ==
    ASSUME Types, NEW c \in Claims, Own(c), Land(c)
    PROVE  StepKeeps(c) /\ owner' = OurRecord
<1>1. StepKeeps(c)
  BY DEF Types, C!ClusterTypeOK, C!TxStates, C!Landed, C!Durable, C!Become, C!Confirm, StepKeeps, Own,
      ReadsAsUnclaimed, Land, deal
<1>2. Records(offer[c]) = {OurRecord}
  BY DEF Own, OursOnly, Land, C!Confirm
<1>3. owner' = OurRecord
  BY <1>2 DEF Land, The
<1>4. QED
  BY <1>1, <1>3

-----------------------------------------------------------------------------
LEMMA NextAlias == AliasInv /\ [Next]_vars => AliasInv'
<1> SUFFICES ASSUME AliasInv, [Next]_vars
             PROVE  AliasInv'
  OBVIOUS
<1>0. Types /\ RecordInv /\ Serial /\ \A c \in Claims : Own(c)
  BY DEF AliasInv
<1>1. ASSUME NEW c \in Claims, Step(c) \/ Crash(c) \/ Land(c) \/ Chain(c)
      PROVE  AliasInv'
  <2>1. StepKeeps(c) /\ (RecordKept(c) \/ owner' = OurRecord)
    BY <1>0, <1>1, BeginSteps, SigningSteps, SubmitSteps, PollSteps, ChainSteps, LandStep DEF Step
  <2>2. RecordInv'
    BY <1>0, <2>1 DEF StepKeeps, RecordKept, RecordInv, OurRecord
  <2>3. ASSUME NEW d \in Claims
        PROVE  Own(d)'
    <3>1. CASE d = c
      BY <2>1, <3>1 DEF StepKeeps
    <3>2. CASE d # c
      <4>1. /\ pc'[d] = pc[d] /\ verdict'[d] = verdict[d] /\ offer'[d] = offer[d]
            /\ tx'[d] = tx[d] /\ seen'[d] = seen[d]
        BY <2>1, <3>2 DEF StepKeeps
      <4>2. QED
        BY <1>0, <4>1 DEF Own, OursOnly, OurRecord
    <3>3. QED
      BY <3>1, <3>2
  <2>4. ASSUME NEW d \in Claims
        PROVE  /\ ReadsAsUnclaimed(d) => ReadsAsUnclaimed(d)'
               /\ d # c => pc'[d] = pc[d]
    BY <2>1 DEF StepKeeps, ReadsAsUnclaimed
  <2>5. Serial'
    <3>1. CASE Refused(c) \/ Inspect(c)
      BY <1>0, <2>4, <3>1 DEF Refused, Inspect, MayCall, Serial
    <3>2. CASE pc[c] # "idle"
      BY <1>0, <2>4, <3>2 DEF Serial
    <3>3. QED
      BY <1>0, <1>1, <3>1, <3>2 DEF Step, Authorize, SignFails, Sign, Accepted, Unanswered,
          PollRaises, PollError, PollDurable, ConfirmClaim, Crash, Land, Chain, Own, C!Confirm,
          C!Process, C!Abandon, C!Fail
  <2>6. QED
    BY <2>1, <2>2, <2>3, <2>5 DEF StepKeeps, AliasInv
<1>2. CASE Rival
  <2>1. owner # OurRecord
    BY <1>2, UsAssumption DEF Rival, HeldBy, OurRecord
  <2>2. QED
    BY <1>0, <1>2, <2>1 DEF Rival, deal, AliasInv, Types, C!ClusterTypeOK, Own, OursOnly, OurRecord,
        RecordInv, Serial, ReadsAsUnclaimed
<1>3. CASE UNCHANGED vars
  BY <1>0, <1>3 DEF vars, chain, deal, AliasInv, Types, C!ClusterTypeOK, Own, OursOnly, OurRecord,
      RecordInv, Serial, ReadsAsUnclaimed
<1>4. QED
  BY <1>1, <1>2, <1>3 DEF Next

-----------------------------------------------------------------------------
\* The invariant holds in every reachable state.
THEOREM AliasInvariant == Spec => []AliasInv
<1>1. QED
  BY InitAlias, NextAlias, PTL DEF Spec

\* Whatever the permit server offers, what is signed claims the name for us and
\* writes nothing else.
THEOREM SignedClaimsForUs == Spec => []SignedIsOurClaim
<1>1. AliasInv => SignedIsOurClaim
  BY DEF AliasInv, Own, OursOnly, Signed, SignedIsOurClaim
<1>2. QED
  BY <1>1, AliasInvariant, PTL

\* "claimed" is only said of a submitted transaction when the name is ours for
\* good, whatever the permit server confirms and whoever else claims.
THEOREM ClaimedStaysOurs == Spec => []ClaimedIsOurs
<1>1. AliasInv => ClaimedIsOurs
  BY DEF AliasInv, Own, PermitWords, RecordInv, ClaimedIsOurs
<1>2. QED
  BY <1>1, AliasInvariant, PTL

\* However many calls the agent makes, heeding the answers leaves one claim in
\* doubt, but for the two answers known to be wrong and the permit server's
\* denial of a claim that is durable.
THEOREM HeedingClaimsOnce == Spec => []OneClaimInDoubt
<1>1. AliasInv => OneClaimInDoubt
  BY DEF AliasInv, Own, PermitWords, Serial, ReadsAsUnclaimed, OneClaimInDoubt
<1>2. QED
  BY <1>1, AliasInvariant, PTL

-----------------------------------------------------------------------------
(***************************************************************************)
(* What the checks of txguard.py amount to.                                *)
(***************************************************************************)
\* A transaction that passes is one claim, at the price quoted, among
\* operations of the compute budget.
LEMMA ApprovedShape ==
    ASSUME NEW t \in Offers, NEW q, NEW w, Approved(t, Name, q, w)
    PROVE  \E r \in DOMAIN t.ixs :
              /\ Of(t, "registry") = {r}
              /\ Of(t, "budget") = DOMAIN t.ixs \ {r}
              /\ IsFiniteSet(DOMAIN t.ixs)
              /\ Len(t.ixs) - Cardinality(Of(t, "budget")) = 1
              /\ ClaimIn(t) = t.ixs[r]
              /\ t.ixs[r].prog = "registry" /\ t.ixs[r].payer = Us
              /\ t.ixs[r].price = q /\ q \in Nat
              /\ \A i \in DOMAIN t.ixs \ {r} : t.ixs[i].prog = "budget" /\ t.ixs[i].value \in Nat
<1> DEFINE D == DOMAIN t.ixs
<1>1. D = 1 .. Len(t.ixs) /\ Len(t.ixs) \in Nat
  BY OffersAssumption, FeesAssumption DEF Approved, Framed
<1>2. IsFiniteSet(D) /\ Cardinality(D) = Len(t.ixs)
  BY <1>1, FS_Interval
<1>3. IsFiniteSet(Of(t, "registry")) /\ Of(t, "registry") \subseteq D
  BY <1>2, FS_Subset DEF Of
<1>4. PICK r : Of(t, "registry") = {r}
  BY <1>3, FS_Singleton DEF Approved, ProgramsRight
<1>5. r \in D /\ t.ixs[r].prog = "registry" /\ ClaimIn(t) = t.ixs[r]
  BY <1>4 DEF Of, ClaimIn, The
<1>6. \A i \in D \ {r} : t.ixs[i].prog = "budget"
  BY <1>4 DEF Approved, ProgramsRight, Of
<1>7. Of(t, "budget") = D \ {r}
  BY <1>5, <1>6 DEF Of
<1>8. Len(t.ixs) - Cardinality(Of(t, "budget")) = 1
  <2>1. Cardinality(D \ {r}) = Len(t.ixs) - 1
    BY <1>2, <1>5, FS_RemoveElement
  <2> DEFINE n == Len(t.ixs)
             b == Cardinality(Of(t, "budget"))
  <2>2. n \in Nat /\ b = n - 1
    BY <1>1, <1>7, <2>1
  <2> HIDE DEF n, b
  <2>3. n - b = 1
    BY <2>2
  <2>4. QED
    BY <2>3 DEF n, b
<1>9. t.ixs[r].price = q /\ t.ixs[r].payer = Us
  BY <1>5 DEF Approved, DataRight, SeatsRight
<1>10. t.ixs[r].price \in Nat /\ \A i \in D \ {r} : t.ixs[i].value \in Nat
  BY <1>5, <1>6, OffersAssumption
<1> HIDE DEF D
<1>11. QED
  BY <1>2, <1>4, <1>5, <1>6, <1>7, <1>8, <1>9, <1>10 DEF D

\* It moves the price and the rent.
LEMMA ApprovedMoves ==
    ASSUME NEW t \in Offers, NEW q, NEW w, Approved(t, Name, q, w)
    PROVE  Moves(t) = q + Rent
<1>1. PICK r \in DOMAIN t.ixs :
         /\ Of(t, "registry") = {r}
         /\ IsFiniteSet(DOMAIN t.ixs)
         /\ t.ixs[r].prog = "registry" /\ t.ixs[r].payer = Us
         /\ t.ixs[r].price = q /\ q \in Nat
         /\ \A i \in DOMAIN t.ixs \ {r} : t.ixs[i].prog = "budget"
  BY ApprovedShape
<1> DEFINE D == DOMAIN t.ixs
           taken == [i \in D |->
                       CASE t.ixs[i].prog = "system" -> t.ixs[i].lamports
                         [] t.ixs[i].prog = "registry" /\ t.ixs[i].payer = Us -> t.ixs[i].price + Rent
                         [] OTHER -> 0]
<1>2. Moves(t) = SumOver(taken, D)
  BY DEF Moves, SumOver
<1>3. taken[r] = q + Rent
  BY <1>1
<1>4. \A i \in D \ {r} : taken[i] = 0
  BY <1>1
<1>5. q + Rent \in Nat
  BY <1>1, FeesAssumption
<1> HIDE DEF taken
<1>6. \A i \in D : taken[i] \in Int
  BY <1>3, <1>4, <1>5
<1>7. SumOver(taken, D) = taken[r] + SumOver(taken, D \ {r})
  BY <1>1, <1>6, SumOfAny
<1>8. SumOver(taken, D \ {r}) = 0
  <2>1. IsFiniteSet(D \ {r})
    BY <1>1, FS_Subset
  <2>2. QED
    BY <1>4, <2>1, SumOfZeros
<1>9. QED
  BY <1>2, <1>3, <1>5, <1>7, <1>8

\* What the compute budget of such a transaction asks for, when it asks.
LEMMA ApprovedBudget ==
    ASSUME NEW t \in Offers, NEW q, NEW w, Approved(t, Name, q, w),
           NEW tag \in {"limit", "price"}, NEW d \in Nat
    PROVE  \/ Budget(t, tag) = {} /\ Max({d} \cup {t.ixs[i].value : i \in Budget(t, tag)}) = d
           \/ \E i \in Budget(t, tag) :
                 /\ Budget(t, tag) = {i} /\ t.ixs[i].value \in Nat
                 /\ t.ixs[The(Budget(t, tag))] = t.ixs[i]
                 /\ d = 0 => Max({d} \cup {t.ixs[j].value : j \in Budget(t, tag)}) = t.ixs[i].value
<1>1. PICK r \in DOMAIN t.ixs :
         /\ Of(t, "budget") = DOMAIN t.ixs \ {r}
         /\ \A i \in DOMAIN t.ixs \ {r} : t.ixs[i].value \in Nat
  BY ApprovedShape
<1>2. CASE Budget(t, tag) = {}
  <2>1. {d} \cup {t.ixs[i].value : i \in Budget(t, tag)} = {d, d}
    BY <1>2
  <2>2. d \in Int
    OBVIOUS
  <2>3. Max({d, d}) = d
    BY <2>2, MaxOfTwo
  <2>4. QED
    BY <1>2, <2>1, <2>3
<1>3. CASE Budget(t, tag) # {}
  <2>1. PICK i \in Budget(t, tag) : TRUE
    BY <1>3
  <2>2. \A j \in Budget(t, tag) : j = i
    BY <2>1 DEF Budget, Approved, BudgetRight
  <2>3. Budget(t, tag) = {i} /\ t.ixs[i].value \in Nat
    BY <1>1, <2>1, <2>2 DEF Budget
  <2>4. t.ixs[The(Budget(t, tag))] = t.ixs[i]
    BY <2>3 DEF The
  <2>5. ASSUME d = 0
        PROVE  Max({d} \cup {t.ixs[j].value : j \in Budget(t, tag)}) = t.ixs[i].value
    <3>1. {d} \cup {t.ixs[j].value : j \in Budget(t, tag)} = {d, t.ixs[i].value}
      BY <2>3
    <3> DEFINE v == t.ixs[i].value
    <3>2. v \in Nat /\ d \in Int /\ v \in Int /\ d <= v
      BY <2>3, <2>5
    <3> HIDE DEF v
    <3>3. Max({d, v}) \in {d, v} /\ Max({d, v}) >= v
      BY <3>2, MaxOfTwo, Zenon
    <3>4. Max({d, v}) = v
      BY <3>2, <3>3
    <3>5. QED
      BY <3>1, <3>4 DEF v
  <2>6. QED
    BY <2>1, <2>3, <2>4, <2>5
<1>4. QED
  BY <1>2, <1>3

\* The fee that is checked is at least the fee that is charged, and it is part
\* of what is charged to the spend ledger.
LEMMA ApprovedFee ==
    ASSUME NEW t \in Offers, NEW q, NEW w, Approved(t, Name, q, w)
    PROVE  /\ StaticDebit(t) \in Nat /\ q \in Nat /\ RuntimeFee(t) \in Nat
           /\ RuntimeFee(t) <= StaticDebit(t)
           /\ RuntimeFee(t) <= 2 * SigFee + MaxPriorityFee
<1> DEFINE n == t.nsig
           units == IF Budget(t, "limit") = {}
                    THEN UnitsPerIx * (Len(t.ixs) - Cardinality(Of(t, "budget")))
                    ELSE Max({0} \cup {t.ixs[i].value : i \in Budget(t, "limit")})
           price == Max({0} \cup {t.ixs[i].value : i \in Budget(t, "price")})
           granted == Min({units, MaxUnits})
<1>1. RuntimeFee(t) = SigFee * n + UpTo(granted * price, Scale)
  BY DEF RuntimeFee
<1>2. /\ n \in 1 .. 2 /\ SigFee \in Nat /\ MaxUnits \in Nat /\ UnitsPerIx \in Nat
      /\ Scale \in Nat \ {0} /\ MaxPriorityFee \in Nat
  BY FeesAssumption DEF Approved, SignersRight
<1>3. /\ Len(t.ixs) - Cardinality(Of(t, "budget")) = 1
      /\ ClaimIn(t).price = q /\ q \in Nat
  BY ApprovedShape
<1>4. units \in Nat /\ Units(t) \in Nat /\ granted \in Nat /\ granted <= Units(t)
  <2>1. CASE Budget(t, "limit") = {}
    <3>1. units = UnitsPerIx
      BY <1>2, <1>3, <2>1
    <3>2. Max({1, 1}) = 1
      BY MaxOfTwo, 1 \in Int, Zenon
    <3>3. UnitsPerIx * 1 = UnitsPerIx /\ UnitsPerIx \in Int /\ MaxUnits \in Int
      BY <1>2
    <3>4. Units(t) = Min({UnitsPerIx, MaxUnits})
      BY <1>3, <2>1, <3>2, <3>3 DEF Units
    <3> HIDE DEF units
    <3>5. Min({UnitsPerIx, MaxUnits}) \in {UnitsPerIx, MaxUnits}
      BY <3>3, MinOfTwo, Zenon
    <3>6. QED
      BY <1>2, <3>1, <3>4, <3>5
  <2>2. CASE Budget(t, "limit") # {}
    <3>1. PICK i \in Budget(t, "limit") :
             /\ t.ixs[i].value \in Nat
             /\ t.ixs[The(Budget(t, "limit"))] = t.ixs[i]
             /\ Max({0} \cup {t.ixs[j].value : j \in Budget(t, "limit")}) = t.ixs[i].value
      BY <2>2, ApprovedBudget
    <3>2. units = t.ixs[i].value /\ Units(t) = t.ixs[i].value
      BY <2>2, <3>1 DEF Units
    <3> HIDE DEF units
    <3>3. units \in Nat
      BY <3>1, <3>2
    <3>4. Min({units, MaxUnits}) \in {units, MaxUnits} /\ Min({units, MaxUnits}) <= units
      BY <1>2, <3>3, MinOfTwo
    <3>5. QED
      BY <1>2, <3>1, <3>2, <3>3, <3>4
  <2>3. QED
    BY <2>1, <2>2
<1> HIDE DEF granted
<1>5. /\ UpTo(granted * price, Scale) \in Nat /\ PriorityFee(t) \in Nat
      /\ UpTo(granted * price, Scale) <= PriorityFee(t)
  <2>1. CASE Budget(t, "price") = {}
    <3>1. price = 0 /\ PriorityFee(t) = 0
      BY <2>1, ApprovedBudget DEF PriorityFee
    <3>2. granted * price = 0
      BY <1>4, <3>1
    <3>3. (0 + Scale - 1) \div Scale = 0
      BY <1>2
    <3>4. QED
      BY <3>1, <3>2, <3>3 DEF UpTo
  <2>2. CASE Budget(t, "price") # {}
    <3>1. PICK i \in Budget(t, "price") :
             /\ t.ixs[i].value \in Nat
             /\ t.ixs[The(Budget(t, "price"))] = t.ixs[i]
             /\ Max({0} \cup {t.ixs[j].value : j \in Budget(t, "price")}) = t.ixs[i].value
      BY <2>2, ApprovedBudget
    <3>2. price \in Nat /\ PriorityFee(t) = UpTo(Units(t) * price, Scale)
      BY <2>2, <3>1 DEF PriorityFee
    <3> HIDE DEF price
    <3>3. /\ granted * price \in Nat /\ Units(t) * price \in Nat
          /\ granted * price <= Units(t) * price
      BY <1>4, <3>2, ProductsKeepOrder
    <3> DEFINE a == granted * price
               b == Units(t) * price
    <3>4. a \in Nat /\ b \in Nat /\ a <= b
      BY <3>3
    <3> HIDE DEF a, b
    <3>5. UpTo(a, Scale) \in Nat /\ UpTo(b, Scale) \in Nat /\ UpTo(a, Scale) <= UpTo(b, Scale)
      BY <1>2, <3>4, RoundedUp DEF UpTo
    <3>6. QED
      BY <3>2, <3>5 DEF a, b
  <2>3. QED
    BY <2>1, <2>2
<1> DEFINE fee == UpTo(granted * price, Scale)
<1>6. /\ RuntimeFee(t) = SigFee * n + fee /\ WorstFee(t) = SigFee * n + PriorityFee(t)
      /\ StaticDebit(t) = q + WorstFee(t) /\ PriorityFee(t) <= MaxPriorityFee
  BY <1>1, <1>3 DEF WorstFee, StaticDebit, Approved
<1>7. SigFee * n \in Nat /\ SigFee * n <= 2 * SigFee
  BY <1>2
<1>8. fee \in Nat /\ fee <= PriorityFee(t)
  BY <1>5
<1> HIDE DEF fee, n
<1>9. QED
  BY <1>2, <1>3, <1>5, <1>6, <1>7, <1>8

-----------------------------------------------------------------------------
(***************************************************************************)
(* What a claim costs.                                                     *)
(***************************************************************************)
\* The deal a call is about to sign, or has signed: it passed the checks, at a
\* price the caller allows.
Vetted(c) ==
    /\ offer[c] \in Offers /\ quote[c] \in Prices /\ WithinCap(quote[c])
    /\ \E w \in Treasuries : Approved(offer[c], Name, quote[c], w)

\* Its charge: what the checks saw, and what was simulated, or the ceiling.
Covered(c) ==
    /\ StaticDebit(offer[c]) <= charge[c]
    /\ Moves(offer[c]) <= charge[c] \/ (~required /\ Ceiling(quote[c]) <= charge[c])

CostTypes ==
    /\ cap \in Caps
    /\ required \in BOOLEAN
    /\ quote \in [Claims -> Prices \cup {0}]
    /\ charge \in [Claims -> Nat]
    /\ owner \in {HeldBy("nobody"), HeldBy("rival"), OurRecord}

Cost(c) ==
    /\ pc[c] \in {"inspected", "charged"} \/ c \in Signed => Vetted(c)
    /\ pc[c] = "charged" \/ c \in Signed => Covered(c)

CostInv == CostTypes /\ \A c \in Claims : Cost(c)

LEMMA InitCost == Init => CostInv
BY DEF Init, C!ClusterInit, CostInv, CostTypes, Cost, Signed

\* spend_charge, of a deal that passed the checks.
LEMMA ChargeCovers ==
    ASSUME CostTypes, NEW c \in Claims, Vetted(c), NEW m \in Simulations(c)
    PROVE  LET n == SpendCharge(offer[c], quote[c], m)
           IN /\ n \in Nat /\ StaticDebit(offer[c]) <= n
              /\ Moves(offer[c]) <= n \/ (~required /\ Ceiling(quote[c]) <= n)
<1> DEFINE t == offer[c]
           q == quote[c]
           s == IF m < 0 THEN Ceiling(q) ELSE m
           n == SpendCharge(t, q, m)
<1>1. PICK w \in Treasuries : Approved(t, Name, q, w)
  BY DEF Vetted
<1>2. /\ q \in Nat /\ StaticDebit(t) \in Nat /\ Moves(t) = q + Rent
      /\ Rent \in Nat /\ Tolerance \in Nat
  BY <1>1, ApprovedFee, ApprovedMoves, FeesAssumption DEF Vetted
<1>3. \/ m = Moves(t) /\ s = Moves(t)
      \/ m = -1 /\ ~required /\ s = Ceiling(q)
  BY <1>2 DEF Simulations
<1>4. s \in Int
  BY <1>2, <1>3 DEF Ceiling
<1>5. n = Max({q, StaticDebit(t), s})
  BY DEF SpendCharge
<1> HIDE DEF s, n
<1>6. q \in Int /\ StaticDebit(t) \in Int
  BY <1>2
<1>7. /\ n \in {q, StaticDebit(t), s}
      /\ n >= q /\ n >= StaticDebit(t) /\ n >= s
  BY <1>4, <1>5, <1>6, MaxOfThree, Zenon
<1> HIDE DEF t, q
<1>8. n \in Nat /\ StaticDebit(t) <= n /\ s <= n
  BY <1>2, <1>4, <1>7
<1>9. Moves(t) <= n \/ (~required /\ Ceiling(q) <= n)
  BY <1>3, <1>8
<1>10. QED
  BY <1>8, <1>9 DEF n, t, q

\* A step of one call leaves the deals of the others alone.
LEMMA CostOfOthers ==
    ASSUME NEW d \in Claims, Cost(d), pc'[d] = pc[d], tx'[d] = tx[d], offer'[d] = offer[d],
           quote'[d] = quote[d], charge'[d] = charge[d], UNCHANGED config
    PROVE  Cost(d)'
BY DEF Cost, Signed, Vetted, Covered, WithinCap, Treasuries, config

LEMMA CallKeepsCost ==
    ASSUME Types, CostTypes, NEW c \in Claims, Own(c), Cost(c), Step(c) \/ Crash(c)
    PROVE  /\ CostTypes' /\ Cost(c)' /\ UNCHANGED config
           /\ \A d \in Claims \ {c} :
                 /\ pc'[d] = pc[d] /\ tx'[d] = tx[d] /\ offer'[d] = offer[d]
                 /\ quote'[d] = quote[d] /\ charge'[d] = charge[d]
<1> USE DEF Types, CostTypes, C!ClusterTypeOK, Own, Cost, Signed, Goto, Answer, Decline, chain, deal,
            config
<1>1. CASE Refused(c)
  BY <1>1 DEF Refused
<1>2. CASE Inspect(c)
  BY <1>2 DEF Inspect, Vetted, Treasuries, WithinCap
<1>3. CASE Authorize(c)
  BY <1>3, ChargeCovers DEF Authorize, Vetted, Covered, Treasuries, WithinCap
<1>4. CASE SignFails(c)
  BY <1>4 DEF SignFails
<1>5. CASE Sign(c)
  BY <1>5 DEF Sign, Vetted, Covered, Treasuries, WithinCap
<1>6. CASE Accepted(c) \/ Unanswered(c)
  BY <1>6 DEF Accepted, Unanswered, Pass, C!Forward, C!Become, Vetted, Covered, Treasuries, WithinCap
<1>7. CASE PollRaises(c) \/ PollError(c) \/ PollDurable(c) \/ ConfirmClaim(c)
  BY <1>7 DEF PollRaises, PollError, PollDurable, ConfirmClaim, Vetted, Covered, Treasuries, WithinCap
<1>8. CASE Crash(c)
  BY <1>8 DEF Crash, Pass, C!Forward, C!Become, Vetted, Covered, Treasuries, WithinCap
<1>9. QED
  BY <1>1, <1>2, <1>3, <1>4, <1>5, <1>6, <1>7, <1>8 DEF Step

\* The chain changes no deal and no charge, and runs only what was signed.
LEMMA ChainKeepsCost ==
    ASSUME Types, CostTypes, NEW c \in Claims, Own(c), Cost(c), Land(c) \/ Chain(c)
    PROVE  /\ CostTypes' /\ Cost(c)' /\ UNCHANGED config
           /\ \A d \in Claims \ {c} :
                 /\ pc'[d] = pc[d] /\ tx'[d] = tx[d] /\ offer'[d] = offer[d]
                 /\ quote'[d] = quote[d] /\ charge'[d] = charge[d]
<1> USE DEF Types, CostTypes, C!ClusterTypeOK, C!TxStates, C!Landed, C!Durable, C!Become, Cost, Signed,
            Vetted, Covered, Treasuries, WithinCap, deal, config
<1>1. CASE Land(c)
  <2>1. owner' = OurRecord
    BY <1>1, LandStep
  <2>2. CostTypes'
    BY <1>1, <2>1 DEF Land
  <2>3. QED
    BY <1>1, <2>2 DEF Land, C!Confirm
<1>2. CASE Chain(c)
  <2>1. CASE C!Process(c)
    BY <1>2, <2>1 DEF Chain, C!Process
  <2>2. CASE C!Abandon(c)
    BY <1>2, <2>2 DEF Chain, C!Abandon
  <2>3. CASE C!Fail(c)
    BY <1>2, <2>3 DEF Chain, C!Fail
  <2>4. CASE C!Expire(c) /\ pc[c] \notin {"idle", "inspected", "charged"}
    BY <1>2, <2>4 DEF Chain, C!Expire
  <2>5. QED
    BY <1>2, <2>1, <2>2, <2>3, <2>4 DEF Chain
<1>3. QED
  BY <1>1, <1>2

LEMMA NextCost == AliasInv /\ CostInv /\ [Next]_vars => CostInv'
<1> SUFFICES ASSUME AliasInv, CostInv, [Next]_vars
             PROVE  CostInv'
  OBVIOUS
<1>0. Types /\ CostTypes /\ \A c \in Claims : Own(c) /\ Cost(c)
  BY DEF AliasInv, CostInv
<1>1. ASSUME NEW c \in Claims, Step(c) \/ Crash(c) \/ Land(c) \/ Chain(c)
      PROVE  CostInv'
  <2>1. /\ CostTypes' /\ Cost(c)' /\ UNCHANGED config
        /\ \A d \in Claims \ {c} :
              /\ pc'[d] = pc[d] /\ tx'[d] = tx[d] /\ offer'[d] = offer[d]
              /\ quote'[d] = quote[d] /\ charge'[d] = charge[d]
    BY <1>0, <1>1, CallKeepsCost, ChainKeepsCost
  <2>2. ASSUME NEW d \in Claims \ {c}
        PROVE  Cost(d)'
    BY <1>0, <2>1, CostOfOthers
  <2>3. QED
    BY <2>1, <2>2 DEF CostInv
<1>2. CASE Rival \/ UNCHANGED vars
  <2>1. /\ CostTypes' /\ UNCHANGED config
        /\ UNCHANGED <<pc, tx, offer, quote, charge>>
    BY <1>0, <1>2 DEF Rival, vars, deal, chain, config, CostTypes
  <2>2. ASSUME NEW d \in Claims
        PROVE  Cost(d)'
    BY <1>0, <2>1, CostOfOthers
  <2>3. QED
    BY <2>1, <2>2 DEF CostInv
<1>3. QED
  BY <1>1, <1>2 DEF Next

\* Every call that is signing, or has signed, holds a transaction that passed
\* the checks, with a charge that covers what the checks saw of it.
THEOREM CostInvariant == Spec => []CostInv
<1>1. QED
  BY InitAlias, NextAlias, InitCost, NextCost, PTL DEF Spec

\* The variables keep their types: in particular a charge is a number of
\* lamports, and the registry only holds the three records.
THEOREM TypeCorrect == Spec => []TypeOK
<1>1. AliasInv /\ CostInv => TypeOK
  BY DEF AliasInv, Types, CostInv, CostTypes, TypeOK
<1>2. QED
  BY <1>1, AliasInvariant, CostInvariant, PTL

\* xete_alias_claim: whatever the permit server offers, what is signed moves
\* the quoted price, within max_price_lamports, and the rent, and pays it to
\* the treasury when that had to be known.
THEOREM SigningCostsTheQuote == Spec => []SignedCostsTheQuote
<1>1. CostInv => SignedCostsTheQuote
  <2> SUFFICES ASSUME CostInv, NEW c \in Signed
               PROVE  /\ Moves(offer[c]) = quote[c] + Rent
                      /\ cap # NoCap => quote[c] <= cap
                      /\ required => ClaimIn(offer[c]).treasury = Treasury
    BY DEF SignedCostsTheQuote
  <2>1. Vetted(c)
    BY DEF CostInv, Cost, Signed
  <2>2. PICK w \in Treasuries : Approved(offer[c], Name, quote[c], w)
    BY <2>1 DEF Vetted
  <2>3. Moves(offer[c]) = quote[c] + Rent
    BY <2>1, <2>2, ApprovedMoves DEF Vetted
  <2>4. required => ClaimIn(offer[c]).treasury = Treasury
    BY <2>2, TreasuryAssumption DEF Treasuries, Approved, SeatsRight
  <2>5. QED
    BY <2>1, <2>3, <2>4 DEF Vetted, WithinCap
<1>2. QED
  BY <1>1, CostInvariant, PTL

\* spend_charge: when the tolerance is at least the rent, as it is unless the
\* operator lowers it, what leaves the wallet was charged to the spend ledger,
\* simulated or not, and the fee no simulation shows stays under its own bound.
THEOREM SpendingIsCharged ==
    ASSUME Rent <= Tolerance
    PROVE  Spec => []SpentIsCharged
<1>1. CostInv => SpentIsCharged
  <2> SUFFICES ASSUME CostInv, NEW c \in Claims, tx[c] # "none"
               PROVE  /\ RuntimeFee(offer[c]) <= Min({charge[c], 2 * SigFee + MaxPriorityFee})
                      /\ Moves(offer[c]) <= charge[c]
    BY DEF SpentIsCharged
  <2>1. Vetted(c) /\ Covered(c) /\ charge[c] \in Nat
    BY DEF CostInv, CostTypes, Cost, Signed
  <2>2. PICK w \in Treasuries : Approved(offer[c], Name, quote[c], w)
    BY <2>1 DEF Vetted
  <2>3. /\ StaticDebit(offer[c]) \in Nat /\ quote[c] \in Nat /\ RuntimeFee(offer[c]) \in Nat
        /\ RuntimeFee(offer[c]) <= StaticDebit(offer[c])
        /\ RuntimeFee(offer[c]) <= 2 * SigFee + MaxPriorityFee
    BY <2>1, <2>2, ApprovedFee DEF Vetted
  <2>4. Moves(offer[c]) = quote[c] + Rent
    BY <2>1, <2>2, ApprovedMoves DEF Vetted
  <2>5. Moves(offer[c]) <= charge[c]
    BY <2>1, <2>3, <2>4, FeesAssumption DEF Covered, Ceiling
  <2>6. RuntimeFee(offer[c]) <= charge[c]
    BY <2>1, <2>3 DEF Covered
  <2>7. RuntimeFee(offer[c]) <= Min({charge[c], 2 * SigFee + MaxPriorityFee})
    <3>1. charge[c] \in Int /\ 2 * SigFee + MaxPriorityFee \in Int
      BY <2>1, FeesAssumption
    <3>2. Min({charge[c], 2 * SigFee + MaxPriorityFee}) \in {charge[c], 2 * SigFee + MaxPriorityFee}
      BY <3>1, MinOfTwo, Zenon
    <3>3. QED
      BY <2>3, <2>6, <3>2
  <2>8. QED
    BY <2>5, <2>7
<1>2. QED
  BY <1>1, CostInvariant, PTL
=============================================================================
