------------------------------- MODULE Draft -------------------------------
(***************************************************************************)
(* verify_draft of src/src/xete_mcp/draft.py: what is checked of an        *)
(* unsigned settlement transaction before a human signs it; and, as its    *)
(* reference, what the Solana runtime and the settlement program would do  *)
(* with that transaction.                                                  *)
(*                                                                         *)
(* A transaction is its format, its signatures, its payer and a sequence   *)
(* of instructions.  The beneficiary's commitment, sha256(wallet || salt), *)
(* is the pair of the two.                                                 *)
(***************************************************************************)
EXTENDS Integers, SequencesExt, FiniteSetsExt

CONSTANTS
    Depositor,  \* XETE_DEPOSITOR_WALLET
    Nonce,      \* XETE_NONCE_ACCOUNT, or
    NoNonce,
    NoId,       \* expect_escrow_id is not given
    SigFee,     \* LAMPORTS_PER_SIGNATURE
    UnitsPerIx, \* DEFAULT_CU_PER_IX
    MaxUnits,   \* MAX_CU_LIMIT
    Scale,      \* price units in a lamport
    MaxFee,     \* MAX_TX_FEE_LAMPORTS
    MinEscrow,  \* RENT_EXEMPT_LAMPORTS
    Limit,      \* the compute units an honest draft asks for
    Price       \* and the price it offers for one

ASSUME DraftAssumption ==
    /\ {SigFee, UnitsPerIx, MaxUnits, MaxFee, MinEscrow, Limit, Price} \subseteq Nat
    /\ Scale \in Nat \ {0}

Of(t, p) == {i \in DOMAIN t.ixs : t.ixs[i].prog = p}
Tagged(t, p, tag) == {i \in Of(t, p) : t.ixs[i].tag = tag}
Values(t, tag) == {t.ixs[i].value : i \in Tagged(t, "budget", tag)}
The(S) == CHOOSE x \in S : TRUE

-----------------------------------------------------------------------------
(***************************************************************************)
(* draft_deposit.                                                          *)
(***************************************************************************)
DepositIx(id, commitment, amount) ==
    [prog |-> "settlement", tag |-> "deposit", id |-> id, commitment |-> commitment,
     amount |-> amount, locked |-> FALSE, escrow |-> id, depositor |-> Depositor, system |-> TRUE]
BudgetIx(tag, value) == [prog |-> "budget", tag |-> tag, value |-> value]
AdvanceIx(account) == [prog |-> "system", tag |-> "advance", to |-> account, lamports |-> 0]

Drafted(id, commitment, amount) ==
    [versioned |-> FALSE, signed |-> FALSE, nsig |-> 1, payer |-> Depositor,
     ixs |-> (IF Nonce = NoNonce THEN <<>> ELSE <<AdvanceIx(Nonce)>>)
             \o <<BudgetIx("limit", Limit), BudgetIx("price", Price),
                  DepositIx(id, commitment, amount)>>]

-----------------------------------------------------------------------------
(***************************************************************************)
(* verify_draft.                                                           *)
(***************************************************************************)
\* The wrapper's checks: a legacy message, not signed, one signer, who pays.
FrameRight(t) == ~t.versioned /\ ~t.signed /\ t.nsig = 1 /\ t.payer = Depositor

\* _instruction_shape: a closed set of instructions in a fixed order.
Kinds(t) == [i \in DOMAIN t.ixs |-> <<t.ixs[i].prog, t.ixs[i].tag>>]
Shape ==
    (IF Nonce = NoNonce THEN <<>> ELSE <<<<"system", "advance">>>>)
    \o <<<<"budget", "limit">>, <<"budget", "price">>, <<"settlement", "deposit">>>>
ShapeRight(t) == Kinds(t) = Shape

\* The one effect outside this transaction is the one that was configured.
NonceRight_AnyAccount(t) == TRUE
NonceRight(t) == \A i \in Tagged(t, "system", "advance") : t.ixs[i].to = Nonce

\* The bytes and the accounts of the deposit.
DepositRight(ix, wallet, salt, amount, id) ==
    /\ ix.commitment = <<wallet, salt>>
    /\ ix.amount = amount /\ ix.amount >= MinEscrow
    /\ id \in {NoId, ix.id}
    /\ ~ix.locked
    /\ ix.escrow = ix.id /\ ix.depositor = Depositor /\ ix.system

\* _lamport_movements: every lamport an instruction moves, and where to.
Movements(t) ==
    {[ix |-> i, to |-> t.ixs[i].to, lamports |-> t.ixs[i].lamports] : i \in Of(t, "system")}
    \cup {[ix |-> i, to |-> t.ixs[i].id, lamports |-> t.ixs[i].amount] :
             i \in Tagged(t, "settlement", "deposit")}
MovementsRight(t, id, amount) ==
    /\ MapThenSumSet(LAMBDA m : m.lamports, Movements(t)) = amount
    /\ {m.to : m \in {m \in Movements(t) : m.lamports > 0}} = {id}

\* Everything is decoded, and there is one deposit.
Understood(t) ==
    /\ \A i \in DOMAIN t.ixs : t.ixs[i].prog \in {"settlement", "budget", "system"}
    /\ \A i \in Of(t, "budget") : t.ixs[i].tag \in {"limit", "price", "heap"}
    /\ Cardinality(Tagged(t, "settlement", "deposit")) = 1
    /\ Tagged(t, "settlement", "deposit") = Of(t, "settlement")

\* _transaction_fee: of repeated instructions, the dearest.
Fee(t) ==
    LET units == IF Values(t, "limit") = {} THEN UnitsPerIx * Len(t.ixs) ELSE Max(Values(t, "limit"))
        price == Max({0} \cup Values(t, "price"))
    IN SigFee * t.nsig + (Min({units, MaxUnits}) * price + Scale - 1) \div Scale

Verified(t, wallet, salt, amount, id) ==
    /\ FrameRight(t)
    /\ Understood(t)
    /\ ShapeRight(t)
    /\ NonceRight(t)
    /\ LET ix == t.ixs[The(Tagged(t, "settlement", "deposit"))]
       IN /\ DepositRight(ix, wallet, salt, amount, id)
          /\ MovementsRight(t, ix.id, amount)
    /\ Fee(t) <= MaxFee

-----------------------------------------------------------------------------
(***************************************************************************)
(* The reference: the runtime and the settlement program.                  *)
(***************************************************************************)
Opens(t) == {[id |-> t.ixs[i].id, commitment |-> t.ixs[i].commitment, amount |-> t.ixs[i].amount] :
                i \in Tagged(t, "settlement", "deposit")}

\* What leaves the depositor, without the fee.
Leaves(t) ==
    LET taken == [i \in DOMAIN t.ixs |->
                     CASE t.ixs[i].prog = "system" -> t.ixs[i].lamports
                       [] t.ixs[i].prog = "settlement" /\ t.ixs[i].tag = "deposit" -> t.ixs[i].amount
                       [] OTHER -> 0]
    IN MapThenSumSet(LAMBDA i : taken[i], DOMAIN t.ixs)

\* Nonces it invalidates for whatever else was signed against them.
Advances(t) == {t.ixs[i].to : i \in Tagged(t, "system", "advance")}

\* It opens its escrow: nothing in it fails, and every account can pay rent.
Executes(t) ==
    /\ \A i \in DOMAIN t.ixs : t.ixs[i].prog \in {"settlement", "budget", "system"}
    /\ \A i \in Tagged(t, "settlement", "deposit") :
          LET ix == t.ixs[i]
          IN ix.amount >= MinEscrow /\ ix.escrow = ix.id /\ ix.depositor = t.payer /\ ix.system
    /\ \A i \in Tagged(t, "system", "create") : t.ixs[i].lamports > 0
    /\ \A i \in Tagged(t, "system", "advance") : i = 1

\* What the runtime charges, for the units it would grant.
Charges(t) ==
    LET granted == Min({MaxUnits} \cup Values(t, "limit") \cup
                       (IF Values(t, "limit") = {} THEN {UnitsPerIx * Len(t.ixs)} ELSE {}))
        price == Max({0} \cup Values(t, "price"))
    IN SigFee * t.nsig + (granted * price + Scale - 1) \div Scale

=============================================================================
