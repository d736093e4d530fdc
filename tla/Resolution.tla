----------------------------- MODULE Resolution -----------------------------
(***************************************************************************)
(* Who a %name pays: resolve_owner_at of src/src/xete_mcp/alias_chain.py,  *)
(* with its freshness floor per server, and the rule of                    *)
(* src/src/xete_mcp/server.py that two servers must agree.                 *)
(*                                                                         *)
(* The registry is a history: the owner of the one name at every slot.  A  *)
(* server answers at a slot of its own, perhaps an old one, and a balanced *)
(* host may go back.  At most one server lies, about anything.  The calls  *)
(* of one process run concurrently and share what it has seen.             *)
(***************************************************************************)
EXTENDS Integers, SequencesExt, FiniteSetsExt

CONSTANTS
    Calls,
    Configured, \* the URLs the operator configured, best first
    Server,     \* the server each URL names (endpoint_identity)
    Owners,     \* wallets
    Nobody,     \* the name is not claimed
    MaxLag,     \* XETE_ALIAS_MAX_LAG_SLOTS
    Rate,       \* MAX_SLOTS_PER_SEC
    SeenMax,    \* _SLOT_SEEN_MAX
    MaxSlot,    \* bound: the chain's length
    MaxClock    \* bound: the readings of the wall clock are 0..MaxClock

ASSUME LagAssumption == {MaxLag, Rate, MaxClock} \subseteq Nat /\ {SeenMax, MaxSlot} \subseteq Nat \ {0}
ASSUME EndpointsAssumption == Configured \in Seq(DOMAIN Server)

VARIABLES
    history,    \* the owner of the name, slot by slot
    liar,       \* the servers that lie, at most one
    seen,       \* _slot_seen: the highest slot and when it was seen, per server
    told,       \* the highest slot each server's answers gave a caller since
                \* it was last reported to be behind
    pc,         \* where each call is
    floor,      \* the minContextSlot it sent, 0 for none
    answers     \* what the servers it asked said, and what they had told then

registry == <<history, liar>>
resolving == <<registry, seen, told, pc, floor, answers>>

Servers == Range(Server)
Now == Len(history)
NoSlot == -1
Best(s) == IF s \in DOMAIN seen THEN seen[s].slot ELSE NoSlot
Told(s) == IF s \in DOMAIN told THEN told[s] ELSE NoSlot

\* alias_rpc_endpoints: duplicates are one server, however they are spelled.
Endpoints ==
    FoldLeft(LAMBDA urls, u : IF \E i \in DOMAIN urls : Server[urls[i]] = Server[u]
                              THEN urls ELSE Append(urls, u), <<>>, Configured)

Asking(c) == Server[Endpoints[Len(answers[c]) + 1]]

ResolutionInit ==
    /\ history \in {<<o>> : o \in Owners \cup {Nobody}}
    /\ liar \in {{}} \cup {{s} : s \in Servers}
    /\ seen = <<>>
    /\ told = <<>>
    /\ pc = [c \in Calls |-> "idle"]
    /\ floor = [c \in Calls |-> 0]
    /\ answers = [c \in Calls |-> <<>>]

-----------------------------------------------------------------------------
\* _slot_floor: only what this very server has answered, less the tolerance.
Floor_Unclamped(s) == IF MaxLag = 0 \/ Best(s) = NoSlot THEN 0 ELSE Best(s) - MaxLag
Floor_OfAny(s) ==
    IF MaxLag = 0 \/ DOMAIN seen = {} THEN 0
    ELSE Max({Max({Best(t) - MaxLag, 0}) : t \in DOMAIN seen})
Floor(s) == IF MaxLag = 0 THEN 0 ELSE Max({Best(s) - MaxLag, 0})

\* _plausible_ceiling, for a reading of the wall clock, which may go back.
Ceiling(s, now) ==
    LET base == IF s \in DOMAIN seen THEN seen[s] ELSE [slot |-> 0, when |-> 0]
    IN base.slot + Rate * Max({now - base.when, 0}) + MaxLag

\* What _record_slot may leave: a full map loses one entry.
Recorded(s, slot, now) ==
    LET full == Cardinality(DOMAIN seen) >= SeenMax /\ s \notin DOMAIN seen
        kept == IF full THEN {Restrict(seen, DOMAIN seen \ {t}) : t \in DOMAIN seen} ELSE {seen}
    IN IF slot <= Best(s) THEN {seen}
       ELSE {[t \in DOMAIN k \cup {s} |-> IF t = s THEN [slot |-> slot, when |-> now] ELSE k[t]] :
                k \in kept}

Forget(s) ==
    /\ seen' = Restrict(seen, DOMAIN seen \ {s})
    /\ told' = Restrict(told, DOMAIN told \ {s})

-----------------------------------------------------------------------------
Goto(c, p) == pc' = [pc EXCEPT ![c] = p]

\* The call ends without a wallet.
Refuse(c, v) ==
    /\ Goto(c, v)
    /\ floor' = [floor EXCEPT ![c] = 0]
    /\ answers' = [answers EXCEPT ![c] = <<>>]

\* A %name: two endpoints that are not one server, or a refusal.
Begin(c) ==
    /\ pc[c] = "idle"
    /\ IF Len(Endpoints) < 2 THEN Refuse(c, "refused")
       ELSE Goto(c, "ask") /\ UNCHANGED <<floor, answers>>
    /\ UNCHANGED <<registry, seen, told>>

\* The floor is read; the request leaves.
Ask(c) ==
    /\ pc[c] = "ask"
    /\ Goto(c, "wait")
    /\ floor' = [floor EXCEPT ![c] = Floor(Asking(c))]
    /\ answers' = [answers EXCEPT ![c] = Append(@, [owner |-> Nobody, due |-> Told(Asking(c))])]
    /\ UNCHANGED <<registry, seen, told>>

Asked(c) == Server[Endpoints[Len(answers[c])]]

\* The answers a server may give, each an owner at a slot; an honest one is
\* at a slot of the chain, and no older than the floor it was sent.
Lies(s) == s \in liar
Says(c) ==
    IF Lies(Asked(c)) THEN (Owners \cup {Nobody}) \X {0, MaxSlot}
    ELSE {<<history[v], v>> : v \in {v \in 1 .. Now : v >= floor[c]}}

\* The slot is recorded whatever was found at the address, unless time rules
\* it out: then it is not a slot, but the owner is still an answer.  A name
\* nobody holds, or a second owner unlike the first, ends the call.
Remember(s, owner, slot, now) ==
    IF slot > Ceiling(s, now) THEN UNCHANGED <<seen, told>>
    ELSE /\ seen' \in Recorded(s, slot, now)
         /\ told' = [t \in DOMAIN told \cup {s} |-> IF t = s THEN Max({slot, Told(s)}) ELSE told[t]]

Hear_FirstWins(c, owner) ==
    LET n == Len(answers[c])
    IN IF owner = Nobody THEN Refuse(c, "refused")
       ELSE /\ Goto(c, IF n = 2 THEN "resolved" ELSE "ask")
            /\ answers' = [answers EXCEPT ![c][n].owner = owner]
            /\ floor' = [floor EXCEPT ![c] = 0]
Hear(c, owner) ==
    LET n == Len(answers[c])
        agree == n = 2 => answers[c][1].owner = owner
    IN IF owner = Nobody \/ ~agree THEN Refuse(c, "refused")
       ELSE /\ Goto(c, IF n = 2 THEN "resolved" ELSE "ask")
            /\ answers' = [answers EXCEPT ![c][n].owner = owner]
            /\ floor' = [floor EXCEPT ![c] = 0]

Reply(c) ==
    /\ pc[c] = "wait"
    /\ \E a \in Says(c), now \in 0 .. MaxClock :
          Remember(Asked(c), a[1], a[2], now) /\ Hear(c, a[1])
    /\ UNCHANGED registry

\* -32016 to a request that carried a floor: the server is behind itself, and
\* starts again from nothing.  (To one without, it is one more error.)
Behind(c) ==
    /\ pc[c] = "wait"
    /\ floor[c] > 0
    /\ Lies(Asked(c)) \/ \E v \in 1 .. Now : v < floor[c]
    /\ Goto(c, "behind")
    /\ Forget(Asked(c))
    /\ UNCHANGED <<registry, floor, answers>>

\* No answer, another error, or an account that is not this name's: the slot
\* of a malformed account is still recorded.
Unusable(c) ==
    /\ pc[c] = "wait"
    /\ Refuse(c, "refused")
    /\ \/ UNCHANGED <<seen, told>>
       \/ \E a \in Says(c), now \in 0 .. MaxClock : Remember(Asked(c), a[1], a[2], now)
    /\ UNCHANGED registry

\* A slot passes; the name may be claimed, transferred or given up.
Slot ==
    /\ Now < MaxSlot
    /\ \E o \in Owners \cup {Nobody} : history' = Append(history, o)
    /\ UNCHANGED <<liar, seen, told, pc, floor, answers>>

Resolve(c) == Begin(c) \/ Ask(c) \/ Reply(c) \/ Behind(c) \/ Unusable(c)

-----------------------------------------------------------------------------
ResolutionTypeOK ==
    /\ history \in UNION {[1 .. n -> Owners \cup {Nobody}] : n \in 1 .. MaxSlot}
    /\ liar \in SUBSET Servers /\ Cardinality(liar) <= 1
    /\ DOMAIN seen \in SUBSET Servers
    /\ \A s \in DOMAIN seen : seen[s].slot \in Nat /\ seen[s].when \in 0 .. MaxClock
    /\ DOMAIN told \in SUBSET Servers /\ \A s \in DOMAIN told : told[s] \in Nat
    /\ pc \in [Calls -> {"idle", "ask", "wait", "resolved", "refused", "behind"}]
    /\ floor \in [Calls -> Nat]
    /\ \A c \in Calls : Len(answers[c]) \in 0 .. 2

Wallet(c) == answers[c][1].owner

\* The servers a resolved call heard, and what each had told before.
Heard(c) == {[server |-> Server[Endpoints[i]], due |-> answers[c][i].due] : i \in DOMAIN answers[c]}

\* What a proof asks of the constants: the tolerance is not switched off, and
\* _slot_seen holds every server.
NothingEvicted == MaxLag > 0 /\ IsFiniteSet(Servers) /\ Cardinality(Servers) <= SeenMax

\* Whichever of two servers lies, the wallet a name is turned into is one the
\* registry named; and it is not one that was gone, by more than the tolerance, at
\* a slot an honest server of the two had told this process since it was last
\* called behind: with its mark, what it told before is forgotten.
OldOwnerIsNotPaid ==
    \A c \in Calls : pc[c] = "resolved" =>
        \E h \in Heard(c) :
            /\ ~Lies(h.server)
            /\ \E v \in 1 .. Now : v >= h.due - MaxLag /\ history[v] = Wallet(c)

\* A server is only called behind after it told this process of a slot above
\* the one it then refused.
BehindMeansBehind ==
    \A c \in Calls : pc[c] = "behind" => Last(answers[c]).due >= floor[c] + MaxLag

=============================================================================
