------------------------- MODULE MCUnsignedPayment -------------------------
(***************************************************************************)
(* The endpoints and the offered transactions of the run unsigned_payment: *)
(* three URLs of two servers; a proper deposit, and those that depart from *)
(* it in the frame, in the deposit, or in the other instructions.          *)
(***************************************************************************)
EXTENDS UnsignedPayment, TLC

CONSTANT Amount

ConfiguredHere == <<"a.example/rpc", "a.example/rpc/", "b.example">>
ServerHere == [u \in Range(ConfiguredHere) |-> IF u = "b.example" THEN "b" ELSE "a"]

Plan(p, q, w) == [purpose |-> [c \in Calls |-> IF c = "first" THEN p ELSE q], payee |-> w]
\* By name: two calls that resolve it at once, and one that is on its own.  A draft
\* of an earlier owner that a later call verifies is among the offered ones.
PlansHere ==
    {Plan("draft", "draft", ByName), Plan("none", "verify", ByName), Plan("none", "status", ByName)}
        \cup {Plan(p, q, w) : <<p, q>> \in {<<"draft", "verify">>, <<"verify", "status">>}, w \in Owners}
Symmetry == Permutations(Owners)

\* What NoOldOwnerIsPaid supposes of the constants.
ASSUME ProofHypotheses == NothingEvicted

Proper(w) == DepositIx(Id, <<w, Salt>>, Amount)
Deposits(w) ==
    {Proper(w), [Proper(w) EXCEPT !.locked = TRUE], [Proper(w) EXCEPT !.escrow = "elsewhere"],
     [Proper(w) EXCEPT !.depositor = "other"], [Proper(w) EXCEPT !.system = FALSE],
     [Proper(w) EXCEPT !.tag = "reclaim"], DepositIx("stranded", <<w, Salt>>, Amount)}
    \cup {DepositIx(Id, <<v, Salt>>, n) : v \in Owners, n \in {Amount, MinEscrow - 1}}
    \cup {DepositIx(Id, <<w, "pepper">>, Amount), DepositIx(Id, <<w, Salt>>, Amount + 1)}

Transfer(tag, n) == [prog |-> "system", tag |-> tag, to |-> "elsewhere", lamports |-> n]
Budgets ==
    {<<BudgetIx("limit", l), BudgetIx("price", p)>> : l \in {Limit, 9}, p \in {Price, 3, 9}}
    \cup {<<BudgetIx("price", 3)>>, <<>>,
          <<BudgetIx("price", 3), BudgetIx("limit", Limit)>>,
          <<BudgetIx("limit", Limit), BudgetIx("price", Price), BudgetIx("price", 9)>>,
          <<BudgetIx("limit", Limit), BudgetIx("strange", Price)>>}
Before == {<<>>, <<AdvanceIx("nonce")>>, <<AdvanceIx("another nonce")>>}
After == {<<>>, <<Transfer("transfer", 1)>>, <<Transfer("transfer", 0)>>, <<Transfer("create", 0)>>,
          <<AdvanceIx("nonce")>>, <<[prog |-> "elsewhere", tag |-> "call"]>>}

Plain(ixs) == [versioned |-> FALSE, signed |-> FALSE, nsig |-> 1, payer |-> Depositor, ixs |-> ixs]
Honest(w) == Drafted(Id, <<w, Salt>>, Amount)
Usual == <<BudgetIx("limit", Limit), BudgetIx("price", Price)>>
OffersHere(w) ==
    {Honest(w), [Honest(w) EXCEPT !.versioned = TRUE], [Honest(w) EXCEPT !.signed = TRUE],
     [Honest(w) EXCEPT !.nsig = 2], [Honest(w) EXCEPT !.payer = "other"]}
    \cup {Plain(<<AdvanceIx("nonce")>> \o Usual \o <<d>>) : d \in Deposits(w)}
    \cup {Plain(<<AdvanceIx("nonce")>> \o Usual \o <<Proper(w), d>>) : d \in {Proper(w), [Proper(w) EXCEPT !.tag = "reclaim"]}}
    \cup {Plain(b \o u \o <<Proper(w)>>) : b \in Before, u \in {Usual, <<BudgetIx("price", 3)>>}}
    \cup {Plain(<<AdvanceIx("nonce")>> \o u \o <<Proper(w)>>) : u \in Budgets}
    \cup {Plain(<<AdvanceIx("nonce")>> \o Usual \o <<Proper(w)>> \o a) : a \in After}

=============================================================================
