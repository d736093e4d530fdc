-------------------------- MODULE UnsignedPayment --------------------------
(***************************************************************************)
(* A settlement a human signs: xete_draft_settlement_tx,                   *)
(* xete_verify_settlement_tx and xete_settle_status of                     *)
(* src/src/xete_mcp/server.py, over Resolution and Draft.                  *)
(*                                                                         *)
(* The human knows the payee by name or by wallet.  The draft may come     *)
(* from anybody; whatever passes the verification is signed, and may land. *)
(* Anybody may open an escrow, also one that pays himself, and an open one *)
(* is claimed or reclaimed.  The status is read from two servers, of which *)
(* one may lie and the other may be behind.                                *)
(***************************************************************************)
EXTENDS Resolution, Draft

CONSTANTS
    Id,         \* the escrow id on the claim ticket
    Salt,       \* the salt on it
    Amounts,    \* what the human may mean to pay
    Offers(_),  \* transactions others may offer, given a wallet
    ByName,     \* the human names the payee by name, not by wallet
    Plans,      \* what the calls may be for, and how the payee is named
    None

\* The numbers in a transaction are unsigned.
Unsigned(t) ==
    \A i \in DOMAIN t.ixs :
        /\ t.ixs[i].prog = "system" => t.ixs[i].lamports \in Nat
        /\ t.ixs[i].prog = "budget" => t.ixs[i].value \in Nat

ASSUME OffersAssumption == \A w \in Owners : \A t \in Offers(w) : Unsigned(t)
ASSUME AmountsAssumption == Amounts \subseteq Nat
ASSUME PlansAssumption ==
    \A p \in Plans :
        /\ p.purpose \in [Calls -> {"none", "draft", "verify", "status"}]
        /\ p.payee \in Owners \cup {ByName}

VARIABLES
    purpose,    \* what each call is for
    payee,      \* the payee, by name or wallet
    draft,      \* our own draft
    approved,   \* what the verification passed, with the wallet it checked
    escrow,     \* the escrow at Id on the chain
    held,       \* history: what the address of Id has held, now included
    report      \* what the status call answered

chain == <<escrow, held>>
human == <<draft, approved, chain, report>>
vars == <<resolving, purpose, payee, human>>

\* The address reads as something that is no escrow of the program.
Strange == [id |-> Id, commitment |-> <<>>, amount |-> 0]

Init ==
    /\ ResolutionInit
    /\ \E p \in Plans : purpose = p.purpose /\ payee = p.payee
    /\ draft = None
    /\ approved = None
    /\ escrow = None
    /\ held = {None}
    /\ report = None

-----------------------------------------------------------------------------
\* The wallet a call works with: a raw one needs nobody's word.
Ready(c) == IF payee = ByName THEN pc[c] = "resolved" ELSE pc[c] = "idle"
PayTo(c) == IF payee = ByName THEN Wallet(c) ELSE payee

\* The call has answered, and is forgotten.
Done(c) == Refuse(c, "refused") /\ UNCHANGED <<registry, seen, told, purpose, payee>>

\* xete_draft_settlement_tx.  The escrow id and the salt are fresh: they are
\* the ticket's.
DraftDeposit(c) ==
    /\ purpose[c] = "draft" /\ Ready(c)
    /\ \E n \in Amounts : n >= MinEscrow /\ draft' = Drafted(Id, <<PayTo(c), Salt>>, n)
    /\ Done(c)
    /\ UNCHANGED <<approved, chain, report>>

\* An endpoint fails, the nonce account is not under the configured authority,
\* or the amount could not keep an account open.
DraftFails(c) ==
    /\ purpose[c] = "draft" /\ Ready(c)
    /\ Done(c)
    /\ UNCHANGED human

\* xete_verify_settlement_tx, of our draft or somebody else's, with the escrow
\* id or without.
VerifyDraft_TrustsDraft(c) ==
    /\ purpose[c] = "verify" /\ Ready(c)
    /\ \E w \in Owners, id \in {Id, NoId}, n \in Amounts :
          \E t \in Offers(w) \cup ({draft} \ {None}) :
             /\ Verified(t, w, Salt, n, id)
             /\ approved' = [tx |-> t, wallet |-> PayTo(c), id |-> id, amount |-> n]
    /\ Done(c)
    /\ UNCHANGED <<draft, chain, report>>
VerifyDraft(c) ==
    /\ purpose[c] = "verify" /\ Ready(c)
    /\ \E id \in {Id, NoId}, n \in Amounts :
          \E t \in Offers(PayTo(c)) \cup ({draft} \ {None}) :
             /\ Verified(t, PayTo(c), Salt, n, id)
             /\ approved' = [tx |-> t, wallet |-> PayTo(c), id |-> id, amount |-> n]
    /\ Done(c)
    /\ UNCHANGED <<draft, chain, report>>

RefuseDraft(c) ==
    /\ purpose[c] = "verify" /\ Ready(c)
    /\ Done(c)
    /\ UNCHANGED human

-----------------------------------------------------------------------------
(***************************************************************************)
(* settlement.status, with the recipient and the salt of the ticket.       *)
(***************************************************************************)
\* What a server may return for the account: an honest one, perhaps behind,
\* what the address holds or has held.
Reads(s) ==
    IF Lies(s)
    THEN {None, Strange} \cup {[id |-> Id, commitment |-> <<w, Salt>>, amount |-> n] : w \in Owners, n \in Amounts}
    ELSE held

\* Agreement is over the account.  A second server that does not answer (or is
\* not configured) leaves one source; one that disagrees leaves nothing.
\* wallet is None when the recipient could not be pinned.
Open(a) == CASE a = None -> "no" [] a = Strange -> "unknown" [] OTHER -> "yes"
Beneficiary(a, wallet) ==
    CASE Open(a) # "yes" \/ wallet = None -> "unknown"
      [] OTHER -> IF a.commitment = <<wallet, Salt>> THEN "yes" ELSE "no"

\* shown is the escrow whose amount and commitment the report gives.
Shown(a) == IF Open(a) = "yes" THEN a ELSE None

Report_AnyAnswer(a, b, answered, wallet) ==
    [open |-> Open(a), corroborated |-> answered, shown |-> Shown(a),
     beneficiary |-> Beneficiary(a, wallet), wallet |-> wallet]
Report(a, b, answered, wallet) ==
    IF answered /\ b # a
    THEN [open |-> "unknown", corroborated |-> FALSE, shown |-> None,
          beneficiary |-> "unknown", wallet |-> wallet]
    ELSE [open |-> Open(a), corroborated |-> answered, shown |-> Shown(a),
          beneficiary |-> Beneficiary(a, wallet), wallet |-> wallet]

\* xete_settle_status: it answers about the escrow even when the recipient
\* could not be resolved.
Status(c) ==
    /\ purpose[c] = "status"
    /\ \/ Ready(c)
       \/ pc[c] \in {"refused", "behind"}
    /\ report = None
    /\ \E first, second \in Servers :
          /\ first # second
          /\ \E a \in Reads(first), b \in Reads(second), answered \in BOOLEAN :
                report' = Report(a, b, answered, IF Ready(c) THEN PayTo(c) ELSE None)
    /\ Done(c)
    /\ UNCHANGED <<draft, approved, chain>>

-----------------------------------------------------------------------------
\* An account is opened or closed at the address.
Becomes(a) == escrow' = a /\ held' = held \cup {a}

\* The human signs what was verified, and it lands, once.
Land ==
    /\ escrow = None
    /\ approved # None
    /\ Executes(approved.tx)
    /\ \E e \in Opens(approved.tx) \ held : e.id = Id /\ Becomes(e)
    /\ UNCHANGED <<resolving, purpose, payee, draft, approved, report>>

\* Bound: what others do at the address matters only to a status call.
Watched == \E c \in Calls : purpose[c] = "status"

\* Somebody else opens an escrow at the id of the ticket.
Squat ==
    /\ escrow = None /\ Watched
    /\ \E w \in Owners : Becomes([id |-> Id, commitment |-> <<w, Salt>>, amount |-> MinEscrow])
    /\ UNCHANGED <<resolving, purpose, payee, draft, approved, report>>

\* The beneficiary claims the escrow, or the depositor reclaims it.
Close ==
    /\ escrow # None
    /\ Becomes(None)
    /\ UNCHANGED <<resolving, purpose, payee, draft, approved, report>>

Step(c) ==
    \/ (payee = ByName /\ purpose[c] # "none" /\ Resolve(c) /\ UNCHANGED <<purpose, payee, human>>)
    \/ DraftDeposit(c) \/ DraftFails(c) \/ VerifyDraft(c) \/ RefuseDraft(c) \/ Status(c)

Next ==
    \/ Slot /\ UNCHANGED <<purpose, payee, human>>
    \/ \E c \in Calls : Step(c)
    \/ Land \/ Squat \/ Close

Spec == Init /\ [][Next]_vars

-----------------------------------------------------------------------------
(***************************************************************************)
(* Properties (with OldOwnerIsNotPaid and BehindMeansBehind).              *)
(***************************************************************************)
TypeOK ==
    /\ ResolutionTypeOK
    /\ purpose \in [Calls -> {"none", "draft", "verify", "status"}]
    /\ payee \in Owners \cup {ByName}
    /\ approved # None => approved.wallet \in Owners /\ approved.id \in {Id, NoId}
    /\ report # None => report.open \in {"yes", "no", "unknown"} /\ report.corroborated \in BOOLEAN

\* Whoever drafted it, a transaction that passes opens one escrow, with the
\* amount meant, for the wallet the payee was resolved to, and it can.
ApprovedPaysThePayee ==
    approved # None =>
        /\ {[commitment |-> e.commitment, amount |-> e.amount] : e \in Opens(approved.tx)}
              = {[commitment |-> <<approved.wallet, Salt>>, amount |-> approved.amount]}
        /\ approved.id # NoId => \A e \in Opens(approved.tx) : e.id = approved.id
        /\ Executes(approved.tx)

\* It costs the depositor the amount and a bounded fee, and it touches no
\* transaction but itself.
ApprovedDoesNothingElse ==
    approved # None =>
        /\ Leaves(approved.tx) = approved.amount
        /\ Charges(approved.tx) <= MaxFee
        /\ Advances(approved.tx) \subseteq {Nonce} \ {NoNonce}

\* A report two servers agree on is not one server's: the escrow it shows was
\* opened at the ticket's address, amount and commitment as shown, and whether it
\* pays the wallet is as the report says.  It may have been closed since: nothing
\* bounds how far behind the honest server is.
CorroboratedReportIsTrue ==
    report # None /\ report.corroborated /\ report.open = "yes" =>
        \E e \in held \ {None} :
           /\ report.shown = e
           /\ report.beneficiary # "unknown" =>
                 (report.beneficiary = "yes" <=> e.commitment = <<report.wallet, Salt>>)

=============================================================================
