---------------------------- MODULE SpendCeiling ----------------------------
(***************************************************************************)
(* What the spend limits promise, with no file, lock, clock correction or  *)
(* compaction: approvals happen one at a time, and an approval is only     *)
(* given when everything still charged within the last Horizon seconds,    *)
(* plus the new amount, fits under the ceiling.  A charge may be given     *)
(* back.  SpendGuard is shown to implement this with Horizon equal to the  *)
(* window less the tolerated clock slack.                                  *)
(***************************************************************************)
EXTENDS Integers, FiniteSets, FiniteSetsExt

CONSTANTS
    Attempts,   \* who may be charged
    Amounts,    \* what they may be charged
    Times,      \* when
    Ceiling,    \* the most that may be charged within the horizon
    Horizon     \* its length

VARIABLES
    booked,     \* the attempts approved and not given back
    at,         \* when each was approved
    amount      \* what each is charged

ceilingVars == <<booked, at, amount>>

Charged(S) == MapThenSumSet(LAMBDA a : amount[a], S)
Recent(t) == {a \in booked : at[a] > t - Horizon}

CeilingInit ==
    /\ booked = {}
    /\ at = [a \in Attempts |-> 0]
    /\ amount \in [Attempts -> Amounts \cup {0}]

\* What an attempt asks for is settled before it is approved.
Quote(a) ==
    /\ a \notin booked
    /\ amount' \in {[amount EXCEPT ![a] = m] : m \in Amounts}
    /\ UNCHANGED <<booked, at>>

Approve(a, t) ==
    /\ a \notin booked
    /\ Charged(Recent(t) \cup {a}) <= Ceiling
    /\ booked' = booked \cup {a}
    /\ at' = [at EXCEPT ![a] = t]
    /\ UNCHANGED amount

GiveBack(a) ==
    /\ a \in booked
    /\ booked' = booked \ {a}
    /\ UNCHANGED <<at, amount>>

CeilingNext ==
    \E a \in Attempts : Quote(a) \/ GiveBack(a) \/ \E t \in Times : Approve(a, t)

CeilingSpec == CeilingInit /\ [][CeilingNext]_ceilingVars

=============================================================================
