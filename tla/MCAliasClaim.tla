---------------------------- MODULE MCAliasClaim ----------------------------
(***************************************************************************)
(* The transactions offered in the runs of AliasClaim: a claim of a name   *)
(* with a price, and those that depart from it in the frame, in the claim  *)
(* instruction, in the compute budget, or by an instruction more; and a    *)
(* free claim under our own authority, whose fee is raised.                *)
(***************************************************************************)
EXTENDS AliasClaim, TLC

Symmetry == Permutations(Claims)

Dear == CHOOSE p \in Prices : p > 0
Proper == [prog |-> "registry", op |-> "claim", name |-> Name, agent |-> OurAgent, price |-> Dear,
           payer |-> Us, authority |-> "permit", account |-> Name, treasury |-> Treasury]
Free == [Proper EXCEPT !.price = 0, !.authority = Us]
Frame == [versioned |-> FALSE, payer |-> Us, once |-> TRUE, nsig |-> 2, signed |-> FALSE,
          cosigned |-> TRUE, ixs |-> <<Proper>>]

Frames ==
    {Frame, [Frame EXCEPT !.versioned = TRUE], [Frame EXCEPT !.payer = "other"],
     [Frame EXCEPT !.once = FALSE], [Frame EXCEPT !.nsig = 1], [Frame EXCEPT !.nsig = 3],
     [Frame EXCEPT !.signed = TRUE], [Frame EXCEPT !.cosigned = FALSE]}

ClaimIxs ==
    {[Proper EXCEPT !.op = "transfer"], [Proper EXCEPT !.name = "alike"],
     [Proper EXCEPT !.account = "alike"], [Proper EXCEPT !.agent = "another"],
     [Proper EXCEPT !.payer = "other"], [Proper EXCEPT !.payer = "other", !.authority = Us],
     [Proper EXCEPT !.treasury = "elsewhere"]}

Limit(n) == [prog |-> "budget", tag |-> "limit", value |-> n]
Price(n) == [prog |-> "budget", tag |-> "price", value |-> n]
Budgets == {<<>>, <<Price(5)>>, <<Limit(9), Price(2)>>,
            <<Price(1), Price(5)>>, <<[Price(1) EXCEPT !.tag = "strange"]>>}
Extras == {<<>>, <<[prog |-> "system", lamports |-> 1]>>, <<[prog |-> "elsewhere"]>>, <<Proper>>}

OffersHere ==
    Frames
    \cup {[Frame EXCEPT !.ixs = <<ix>>] : ix \in ClaimIxs}
    \cup {[Frame EXCEPT !.ixs = b \o <<Proper>> \o e] : b \in Budgets, e \in Extras}
    \cup {[Frame EXCEPT !.ixs = e] : e \in Extras}
    \cup {[Frame EXCEPT !.nsig = n, !.ixs = <<Price(2), Free>>] : n \in {1, 3}}
=============================================================================
