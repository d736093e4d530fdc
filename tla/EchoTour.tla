----------------------------- MODULE EchoTour -----------------------------
(***************************************************************************)
(* The welcome tour of src/echo_tour.py, as operators on one sender's      *)
(* record and on the pool of invite codes.  Agent says when they are       *)
(* applied, and what is on disk if the process dies in between.            *)
(*                                                                         *)
(* A word stands for every reply the engine treats alike: "go" for         *)
(* _ADVANCE, "phone" and "desktop" for the two platforms, "codes" for the  *)
(* four words that ask for codes, "again" for _REPEAT and, between steps,  *)
(* for anything else.  The handler gives no platform hint, and a record    *)
(* has a platform only once it is past the step that looks for one, so the *)
(* branch at WORDS on a known platform is never taken.                     *)
(***************************************************************************)
EXTENDS Naturals, Sequences, Functions

CONSTANTS
    None,
    Grant,      \* CODES_PER_FINISH
    Low         \* POOL_LOW_THRESHOLD

Words == {"go", "phone", "desktop", "codes", "again"}

Steps == {"welcome", "areas", "words", "platform", "mobile", "complete"}

Record(Codes) == [step : Steps, asked : BOOLEAN, codes : SUBSET Codes]

Fresh == [step |-> "welcome", asked |-> FALSE, codes |-> {}]

-----------------------------------------------------------------------------
\* The turns on which advance() takes codes from the pool: the two ways into
\* COMPLETE, and asking again where there were none.
Finishes(rec, word) ==
    \/ rec.step = "platform" /\ word = "desktop"
    \/ rec.step = "mobile" /\ word = "go"

Pops_Again(rec, word) ==
    /\ rec # None
    /\ Finishes(rec, word) \/ (rec.step = "complete" /\ word = "codes")
Pops(rec, word) ==
    /\ rec # None
    /\ \/ Finishes(rec, word)
       \/ rec.step = "complete" /\ word = "codes" /\ rec.codes = {}

Following == [welcome |-> "areas", areas |-> "words", words |-> "platform"]

\* The record after a turn that was handed these codes.
Turned(rec, word, codes) ==
    IF rec = None THEN Fresh
    ELSE IF Pops(rec, word) THEN [rec EXCEPT !.step = "complete", !.codes = codes]
    ELSE IF rec.step = "platform" /\ word # "again"
         THEN IF word = "phone" \/ rec.asked THEN [rec EXCEPT !.step = "mobile"]
              ELSE [rec EXCEPT !.asked = TRUE]
    ELSE IF rec.step \in DOMAIN Following /\ word = "go"
         THEN [rec EXCEPT !.step = Following[rec.step]]
    ELSE rec

\* A turn that leaves no trace in the state file: COMPLETE without new codes.
Saves(rec, word, codes) == rec = None \/ rec.step # "complete" \/ (Pops(rec, word) /\ codes # {})

-----------------------------------------------------------------------------
Taken(pool) == LET n == IF Grant <= Len(pool.codes) THEN Grant ELSE Len(pool.codes)
               IN  [i \in 1 .. n |-> pool.codes[i]]

\* _pop_codes: what is taken, and the pool that is left.  A pool that cannot be
\* read or written gives nothing.
PopCodes_OffByOne(pool) ==
    [taken |-> Range(Taken(pool)),
     left |-> [pool EXCEPT !.codes = SubSeq(pool.codes, Grant, Len(pool.codes))]]
PopCodes(pool) ==
    [taken |-> Range(Taken(pool)),
     left |-> [pool EXCEPT !.codes = SubSeq(pool.codes, Len(Taken(pool)) + 1, Len(pool.codes))]]
NoCodes(pool) == [taken |-> {}, left |-> pool]

\* check_low_pool: the pool it leaves, and whether it tells of a low one.
CheckLowPool_Unmarked(pool) ==
    [left |-> pool, tells |-> Len(pool.codes) < Low /\ ~pool.alerted]
CheckLowPool(pool) ==
    LET low == Len(pool.codes) < Low
    IN  [left |-> [pool EXCEPT !.alerted = low], tells |-> low /\ ~pool.alerted]

=============================================================================
