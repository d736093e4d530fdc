------------------------------ MODULE TxGuard ------------------------------
(***************************************************************************)
(* The checks of src/src/xete_mcp/txguard.py on a transaction that another *)
(* party built, before this wallet signs it; and, as their reference, what *)
(* the Solana runtime and the alias registry do with such a transaction.   *)
(*                                                                         *)
(* A transaction is abstracted to what the checks and the runtime tell     *)
(* apart: its format, its fee payer, its signature slots, and a sequence   *)
(* of instructions, each of a program.                                     *)
(***************************************************************************)
EXTENDS Integers, Sequences, FiniteSetsExt

CONSTANTS
    Us,             \* this agent's wallet
    OurAgent,       \* its agent id
    SigFee,         \* lamports per signature (5000)
    UnitsPerIx,     \* compute units an instruction gets by default (200000)
    MaxUnits,       \* compute units a transaction can have (1400000)
    Scale,          \* price units in a lamport (1000000)
    MaxPriorityFee, \* XETE_ALIAS_MAX_PRIORITY_FEE_LAMPORTS
    Tolerance,      \* XETE_ALIAS_TX_TOLERANCE_LAMPORTS
    MaxInstructions,\* MAX_INSTRUCTIONS (8)
    Rent,           \* what a new name's account costs, paid inside the registry
    NoTreasury      \* the treasury is not known, and not pinned

ASSUME FeesAssumption ==
    /\ {SigFee, UnitsPerIx, MaxUnits, MaxPriorityFee, Tolerance, Rent} \subseteq Nat
    /\ {Scale, MaxInstructions} \subseteq Nat \ {0}

Of(t, p) == {i \in DOMAIN t.ixs : t.ixs[i].prog = p}
Budget(t, tag) == {i \in Of(t, "budget") : t.ixs[i].tag = tag}
The(S) == CHOOSE x \in S : TRUE
UpTo(a, b) == (a + b - 1) \div b            \* math.ceil(a / b)

-----------------------------------------------------------------------------
(***************************************************************************)
(* inspect_alias_claim.                                                    *)
(***************************************************************************)
\* A legacy message, with instructions but not too many.
Framed(t) == ~t.versioned /\ Len(t.ixs) \in 1 .. MaxInstructions

\* We pay, appear once, have not signed yet; a co-signer has.
SignersRight(t) ==
    /\ t.payer = Us /\ t.once
    /\ t.nsig \in 1 .. 2
    /\ ~t.signed
    /\ t.nsig = 2 => t.cosigned

\* The data of the registry instruction: the claim operation, on the canonical
\* name, for our agent id, at the price quoted.
DataRight_AnyAgent(ix, name, quoted) ==
    ix.op = "claim" /\ ix.name = name /\ ix.price = quoted
DataRight(ix, name, quoted) ==
    ix.op = "claim" /\ ix.name = name /\ ix.agent = OurAgent /\ ix.price = quoted

\* Its accounts, by position.
SeatsRight(ix, name, nsig, treasury) ==
    /\ ix.payer = Us
    /\ ix.authority = Us \/ nsig = 2
    /\ ix.account = name
    /\ treasury # NoTreasury => ix.treasury = treasury

\* Known compute-budget operations, each at most once.
BudgetRight_Repeats(t) ==
    \A i \in Of(t, "budget") : t.ixs[i].tag \in {"limit", "price", "heap"}
BudgetRight(t) ==
    /\ \A i \in Of(t, "budget") : t.ixs[i].tag \in {"limit", "price", "heap"}
    /\ \A i, j \in Of(t, "budget") : t.ixs[i].tag = t.ixs[j].tag => i = j

\* One call of the registry, and nothing else but the compute budget; in
\* particular no System instruction.
ProgramsRight_AllowSystem(t) == Cardinality(Of(t, "registry")) = 1
ProgramsRight(t) ==
    /\ Cardinality(Of(t, "registry")) = 1
    /\ \A i \in DOMAIN t.ixs : t.ixs[i].prog \in {"registry", "budget"}

ClaimIn(t) == t.ixs[The(Of(t, "registry"))]

Units(t) ==
    IF Budget(t, "limit") # {}
    THEN t.ixs[The(Budget(t, "limit"))].value
    ELSE Min({UnitsPerIx * Max({Len(t.ixs) - Cardinality(Of(t, "budget")), 1}), MaxUnits})

PriorityFee(t) ==
    IF Budget(t, "price") = {} THEN 0
    ELSE UpTo(Units(t) * t.ixs[The(Budget(t, "price"))].value, Scale)

WorstFee(t) == SigFee * t.nsig + PriorityFee(t)
StaticDebit(t) == ClaimIn(t).price + WorstFee(t)
Ceiling(quoted) == quoted + Tolerance

Approved(t, name, quoted, treasury) ==
    /\ Framed(t)
    /\ SignersRight(t)
    /\ ProgramsRight(t)
    /\ DataRight(ClaimIn(t), name, quoted)
    /\ SeatsRight(ClaimIn(t), name, t.nsig, treasury)
    /\ BudgetRight(t)
    /\ PriorityFee(t) <= MaxPriorityFee
    /\ StaticDebit(t) <= Ceiling(quoted)

\* spend_charge; simulated is negative when the simulation did not run.
SpendCharge_Simulated(t, quoted, simulated) == simulated
SpendCharge(t, quoted, simulated) ==
    Max({quoted, StaticDebit(t), IF simulated < 0 THEN Ceiling(quoted) ELSE simulated})

-----------------------------------------------------------------------------
(***************************************************************************)
(* The reference: the runtime and the registry.                            *)
(***************************************************************************)
\* The names a transaction writes, each with its new owner and agent.
Records(t) == {[name |-> t.ixs[i].account, owner |-> t.ixs[i].payer, agent |-> t.ixs[i].agent] :
                  i \in Of(t, "registry")}

\* What it moves out of our wallet besides its fee.
Moves(t) ==
    LET taken == [i \in DOMAIN t.ixs |->
                     CASE t.ixs[i].prog = "system" -> t.ixs[i].lamports
                       [] t.ixs[i].prog = "registry" /\ t.ixs[i].payer = Us -> t.ixs[i].price + Rent
                       [] OTHER -> 0]
    IN MapThenSumSet(LAMBDA i : taken[i], DOMAIN t.ixs)

\* The fee, burned when it lands, whether or not it succeeds.  (Of a repeated
\* operation the dearest is taken; the runtime would refuse it.)
RuntimeFee(t) ==
    LET default == UnitsPerIx * (Len(t.ixs) - Cardinality(Of(t, "budget")))
        asked(tag, d) == Max({d} \cup {t.ixs[i].value : i \in Budget(t, tag)})
        units == IF Budget(t, "limit") = {} THEN default ELSE asked("limit", 0)
    IN SigFee * t.nsig + UpTo(Min({units, MaxUnits}) * asked("price", 0), Scale)

=============================================================================
