---------------------------- MODULE AgentProofs ----------------------------
(***************************************************************************)
(* Proofs about Agent for any number of senders, messages, codes, crashes  *)
(* and failures of files.                                                  *)
(***************************************************************************)
EXTENDS Agent, SequenceTheorems, TLAPS

-----------------------------------------------------------------------------
(***************************************************************************)
(* The operators of EchoTour.                                              *)
(***************************************************************************)
CodesOf(rec) == IF rec = None THEN {} ELSE rec.codes

\* Codes come with the end of the tour.
Sound(rec) == rec # None /\ rec.step # "complete" => rec.codes = {}

\* A turn gives nobody's codes but those it took from the pool or the sender
\* had, and never others than the sender had.
LEMMA TurnedCodes ==
    ASSUME NEW S, NEW rec \in {None} \cup Record(S), NEW word \in Words, NEW taken \in SUBSET S,
           None \notin Record(S), Sound(rec)
    PROVE  /\ Turned(rec, word, taken) \in Record(S)
           /\ Turned(rec, word, taken).codes \subseteq CodesOf(rec) \cup taken
           /\ Sound(Turned(rec, word, taken))
           /\ CodesOf(rec) # {} => Turned(rec, word, taken).codes = CodesOf(rec)
           /\ ~Saves(rec, word, taken) => rec # None /\ Turned(rec, word, taken).codes = rec.codes
<1> DEFINE next == Turned(rec, word, taken)
<1>1. CASE rec = None
  BY <1>1 DEF Turned, Fresh, Record, Steps, CodesOf, Sound, Saves
<1>2. CASE rec # None /\ Pops(rec, word)
  <2>1. next = [rec EXCEPT !.step = "complete", !.codes = taken]
    BY <1>2 DEF Turned
  <2>2. rec \in Record(S) /\ rec.codes = {}
    BY <1>2 DEF Pops, Finishes, Sound
  <2>3. next \in Record(S) /\ next.step = "complete" /\ next.codes = taken
    BY <2>1, <2>2 DEF Record, Steps
  <2>4. QED
    BY <1>2, <2>2, <2>3 DEF CodesOf, Sound, Saves
<1>3. CASE rec # None /\ ~Pops(rec, word)
  <2>1. \/ next = rec
        \/ rec.step # "complete" /\ next = [rec EXCEPT !.asked = TRUE]
        \/ rec.step # "complete" /\ \E l \in Steps \ {"complete"} : next = [rec EXCEPT !.step = l]
    BY <1>3 DEF Turned, Following, Steps
  <2>2. rec \in Record(S)
    BY <1>3
  <2>3. next \in Record(S) /\ next.codes = rec.codes /\ (rec.step # "complete" => next.codes = {})
    BY <1>3, <2>1, <2>2 DEF Record, Steps, Sound
  <2>4. next.step = "complete" <=> rec.step = "complete"
    BY <2>1, <2>2 DEF Record, Steps
  <2>5. QED
    BY <1>3, <2>2, <2>3, <2>4 DEF CodesOf, Sound, Saves
<1>4. QED
  BY <1>1, <1>2, <1>3

\* No code is in the pool twice.
Distinct(q) == \A i, j \in DOMAIN q : q[i] = q[j] => i = j

\* What is popped leaves the pool, and nothing else does.
LEMMA PoppedLeaves ==
    ASSUME NEW n \in Nat, NEW p \in [codes : Seq(1 .. n), alerted : BOOLEAN], Distinct(p.codes), Grant \in Nat
    PROVE  /\ PopCodes(p).left \in [codes : Seq(1 .. n), alerted : BOOLEAN]
           /\ PopCodes(p).left.alerted = p.alerted
           /\ Distinct(PopCodes(p).left.codes)
           /\ PopCodes(p).taken \subseteq Range(p.codes)
           /\ Range(PopCodes(p).left.codes) \subseteq Range(p.codes) \ PopCodes(p).taken
           /\ Len(PopCodes(p).left.codes) <= Len(p.codes)
<1> DEFINE k == IF Grant <= Len(p.codes) THEN Grant ELSE Len(p.codes)
           rest == SubSeq(p.codes, k + 1, Len(p.codes))
<1>1. p.codes \in Seq(1 .. n) /\ Len(p.codes) \in Nat /\ DOMAIN p.codes = 1 .. Len(p.codes)
  OBVIOUS
<1>2. k \in 0 .. Len(p.codes)
  BY <1>1
<1>3. Len(Taken(p)) = k /\ PopCodes(p).taken = {p.codes[i] : i \in 1 .. k}
  <2>1. Taken(p) = [i \in 1 .. k |-> p.codes[i]]
    BY DEF Taken
  <2>2. DOMAIN Taken(p) = 1 .. k /\ \A i \in 1 .. k : Taken(p)[i] = p.codes[i]
    BY <2>1
  <2>3. Len(Taken(p)) = k
    BY <1>2, <2>1
  <2>4. QED
    BY <2>2, <2>3 DEF PopCodes, Range
<1>4. /\ rest \in Seq(1 .. n) /\ Len(rest) = Len(p.codes) - k
      /\ DOMAIN rest = 1 .. Len(rest)
      /\ \A i \in 1 .. Len(rest) : rest[i] = p.codes[k + i]
  <2> HIDE DEF k
  <2>1. \A i \in k + 1 .. Len(p.codes) : p.codes[i] \in 1 .. n
    BY <1>1, <1>2
  <2>2. k + 1 \in Int /\ Len(p.codes) \in Int
    BY <1>1, <1>2
  <2>3. /\ rest \in Seq(1 .. n)
        /\ Len(rest) = IF k + 1 <= Len(p.codes) THEN Len(p.codes) - (k + 1) + 1 ELSE 0
        /\ \A i \in 1 .. Len(p.codes) - (k + 1) + 1 : rest[i] = p.codes[k + 1 + i - 1]
    BY <2>1, <2>2, SubSeqProperties
  <2>4. Len(rest) = Len(p.codes) - k
    BY <1>1, <1>2, <2>3
  <2>5. ASSUME NEW i \in 1 .. Len(rest)
        PROVE  rest[i] = p.codes[k + i]
    <3>1. i \in 1 .. Len(p.codes) - (k + 1) + 1 /\ k + 1 + i - 1 = k + i
      BY <1>1, <1>2, <2>4
    <3>2. QED
      BY <2>3, <3>1
  <2>6. DOMAIN rest = 1 .. Len(rest)
    BY <2>3
  <2>7. QED
    BY <2>3, <2>4, <2>5, <2>6
<1>5. PopCodes(p).left = [p EXCEPT !.codes = rest]
  BY <1>3 DEF PopCodes
<1>6. PopCodes(p).left.codes = rest /\ PopCodes(p).left.alerted = p.alerted
  BY <1>5
<1> HIDE DEF k, rest
<1>7. Distinct(rest)
  <2>1. SUFFICES ASSUME NEW i \in 1 .. Len(rest), NEW j \in 1 .. Len(rest), rest[i] = rest[j]
                 PROVE  i = j
    BY <1>4 DEF Distinct
  <2>2. k + i \in 1 .. Len(p.codes) /\ k + j \in 1 .. Len(p.codes)
    BY <1>1, <1>2, <1>4
  <2>4. p.codes[k + i] = p.codes[k + j] /\ k + i \in DOMAIN p.codes /\ k + j \in DOMAIN p.codes
    BY <1>1, <1>4, <2>1, <2>2
  <2>5. k + i = k + j
    BY <2>4 DEF Distinct
  <2>3. QED
    BY <1>2, <2>5
<1>8. Range(rest) \subseteq Range(p.codes) \ {p.codes[i] : i \in 1 .. k}
  <2>1. SUFFICES ASSUME NEW i \in 1 .. Len(rest)
                 PROVE  /\ rest[i] \in Range(p.codes)
                        /\ \A j \in 1 .. k : rest[i] # p.codes[j]
    BY <1>4 DEF Range
  <2>2. rest[i] = p.codes[k + i] /\ k + i \in DOMAIN p.codes
    BY <1>1, <1>2, <1>4
  <2>3. \A j \in 1 .. k : j \in DOMAIN p.codes /\ j # k + i
    BY <1>1, <1>2
  <2>4. QED
    BY <2>2, <2>3 DEF Range, Distinct
<1>9. {p.codes[i] : i \in 1 .. k} \subseteq Range(p.codes)
  BY <1>1, <1>2 DEF Range
<1>10. QED
  <2>1. PopCodes(p).left \in [codes : Seq(1 .. n), alerted : BOOLEAN]
    BY <1>4, <1>5
  <2>2. Len(PopCodes(p).left.codes) <= Len(p.codes)
    BY <1>1, <1>2, <1>4, <1>6
  <2>3. QED
    BY <1>3, <1>6, <1>7, <1>8, <1>9, <2>1, <2>2

-----------------------------------------------------------------------------
(***************************************************************************)
(* The invariant.                                                          *)
(***************************************************************************)
AtWork == {"store", "reply"}

\* The message a turn is for was not marked, and its round will be saved.
RoundInv ==
    pc \in AtWork => /\ at \in 1 .. upto /\ at \notin seen /\ dirty
                     /\ Sender(at) \in Senders
                     /\ pc = "store" => turn.recs \in [Senders -> {None} \cup Record(1 .. minted)]

UnsavedInv ==
    pc # "off" /\ (pc = "idle" \/ ~dirty) /\ seen # saved =>
        "seen" \in faults \/ \E m \in 1 .. upto : m \notin seen

\* While an alert is still owed none was sent.
AlertInv ==
    /\ alerts \in {0, 1}
    /\ pc = "alert" => pool.alerted
    /\ pc = "alert" \/ (Len(pool.codes) < Low /\ ~pool.alerted) => alerts = 0

RecordsInv ==
    \A s \in Senders : Sound(recs[s]) /\ (pc = "store" => Sound(turn.recs[s]))

\* The codes a sender has, has in its record or is about to get.
Owned(s) ==
    given[s] \cup CodesOf(recs[s])
    \cup (IF pc = "store" THEN CodesOf(turn.recs[s]) ELSE {})
    \cup (IF pc \in AtWork /\ s = Sender(at) THEN turn.codes ELSE {})

CodesInv ==
    /\ Distinct(pool.codes)
    /\ \A s \in Senders : Owned(s) \cap Range(pool.codes) = {}
    /\ \A s, t \in Senders : s # t => Owned(s) \cap Owned(t) = {}

\* A record holds these codes.
Holds(rec, codes) == codes # {} => rec # None /\ rec.codes = codes

SameInv ==
    "state" \notin faults =>
        \A s \in Senders :
            /\ Holds(recs[s], given[s])
            /\ pc = "store" => Holds(turn.recs[s], given[s])
            /\ pc = "store" /\ s = Sender(at) => Holds(turn.recs[s], turn.codes)
            /\ pc = "reply" /\ s = Sender(at) => Holds(recs[s], turn.codes)

AgentInv ==
    /\ TypeOK
    /\ RoundInv
    /\ RecordsInv
    /\ CodesInv
    /\ SameInv
    /\ MarkedIsSettled
    /\ UnsavedInv
    /\ AlertInv

\* The types, in parts that the steps change one at a time.
InboxOK == inbox \in Seq([from : Senders \cup {None}, word : Words])

NumbersOK ==
    /\ Len(inbox) \in Nat
    /\ saved \subseteq 1 .. Len(inbox) /\ seen \subseteq 1 .. Len(inbox)
    /\ minted \in Nat
    /\ pc \in {"off", "idle", "scan", "store", "reply", "alert", "save"}
    /\ upto \in 0 .. Len(inbox) /\ at \in 0 .. upto
    /\ settled \subseteq 1 .. Len(inbox)
    /\ alerts \in Nat

FlagsOK == cooling \in BOOLEAN /\ dirty \in BOOLEAN

PoolOK == pool \in [codes : Seq(1 .. minted), alerted : BOOLEAN]

CodesOK ==
    /\ recs \in [Senders -> {None} \cup Record(1 .. minted)]
    /\ turn \in [recs : {None} \cup [Senders -> {None} \cup Record(1 .. minted)],
                 codes : SUBSET (1 .. minted)]
    /\ given \in [Senders -> SUBSET (1 .. minted)]

RecentOK == recent \in [Senders -> 0 .. PerSender]

LEMMA TypesByPart == TypeOK <=> InboxOK /\ NumbersOK /\ FlagsOK /\ PoolOK /\ CodesOK /\ RecentOK
<1>1. InboxOK => Len(inbox) \in Nat
  BY DEF InboxOK
<1>2. QED
  BY <1>1 DEF TypeOK, InboxOK, NumbersOK, FlagsOK, PoolOK, CodesOK, RecentOK

LEMMA InitAgent == Init => AgentInv
<1> SUFFICES ASSUME Init
             PROVE  AgentInv
  OBVIOUS
<1> USE AgentAssumption DEF Init
<1>1. Low \in Nat /\ minted = Low + 1 /\ pool.codes = [i \in 1 .. minted |-> i]
  OBVIOUS
<1>2. pool.codes \in Seq(1 .. minted) /\ Len(pool.codes) = Low + 1
  BY <1>1
<1>3. recs \in [Senders -> {None} \cup Record({})]
  OBVIOUS
<1>4. TypeOK
  <2>1. Record({}) \subseteq Record(1 .. minted)
    BY DEF Record
  <2>2. PoolOK
    BY <1>2 DEF PoolOK
  <2>3. InboxOK /\ Len(inbox) = 0
    BY DEF InboxOK
  <2>4. recs \in [Senders -> {None} \cup Record(1 .. minted)]
    BY <1>3, <2>1
  <2>5. NumbersOK
    <3>1. minted \in Nat
      BY <1>1
    <3>2. saved = {} /\ seen = {} /\ settled = {} /\ upto = 0 /\ at = 0 /\ alerts = 0
      OBVIOUS
    <3>3. pc = "idle"
      OBVIOUS
    <3> HIDE DEF Init
    <3>4. QED
      BY <2>3, <3>1, <3>2, <3>3 DEF NumbersOK
  <2>6. CodesOK /\ RecentOK
    BY <2>4 DEF CodesOK, RecentOK, Idle
  <2>7. FlagsOK
    BY DEF FlagsOK
  <2>8. QED
    BY <2>2, <2>3, <2>5, <2>6, <2>7, TypesByPart
<1>5. RecordsInv
  BY <1>3 DEF RecordsInv, Sound, Record
<1>6. CodesInv
  <2>1. \A s \in Senders : Owned(s) = {}
    BY <1>3 DEF Owned, CodesOf, Record, AtWork
  <2>2. Distinct(pool.codes)
    BY <1>1 DEF Distinct
  <2>3. QED
    BY <2>1, <2>2 DEF CodesInv
<1>7. AlertInv
  BY <1>1, <1>2 DEF AlertInv
<1>8. RoundInv /\ SameInv /\ MarkedIsSettled /\ UnsavedInv
  BY DEF RoundInv, AtWork, SameInv, Holds, MarkedIsSettled, UnsavedInv
<1>9. QED
  BY <1>4, <1>5, <1>6, <1>7, <1>8 DEF AgentInv

-----------------------------------------------------------------------------
(***************************************************************************)
(* What a turn does to the records and the pool.                           *)
(***************************************************************************)

\* A turn is taken on the state file, or on an empty one that is a fault, and
\* its codes come from the pool or from the sender's record.
TurnOf(m) ==
    /\ pool' \in [codes : Seq(1 .. minted), alerted : BOOLEAN]
    /\ pool'.alerted = pool.alerted
    /\ Distinct(pool'.codes)
    /\ Len(pool'.codes) <= Len(pool.codes)
    /\ turn' \in [recs : {None} \cup [Senders -> {None} \cup Record(1 .. minted)],
                  codes : SUBSET (1 .. minted)]
    /\ pc' \in AtWork
    /\ pc' = "store" => /\ turn'.recs \in [Senders -> {None} \cup Record(1 .. minted)]
                             /\ \A s \in Senders : Sound(turn'.recs[s])

TurnCodes(m) ==
    \E taken \in SUBSET Range(pool.codes) :
        /\ Range(pool'.codes) \subseteq Range(pool.codes) \ taken
        /\ turn'.codes \subseteq CodesOf(recs[Sender(m)]) \cup taken
        /\ pc' = "store" =>
              \A s \in Senders :
                  CodesOf(turn'.recs[s]) \subseteq
                      CodesOf(recs[s]) \cup (IF s = Sender(m) THEN taken ELSE {})

TurnKeeps(m) ==
    "state" \notin faults' =>
        /\ pc' = "store" =>
              /\ \A s \in Senders :
                     CodesOf(recs[s]) # {} => Holds(turn'.recs[s], CodesOf(recs[s]))
              /\ Holds(turn'.recs[Sender(m)], turn'.codes)
        /\ pc' = "reply" => Holds(recs[Sender(m)], turn'.codes)

LEMMA HandledTurn ==
    ASSUME AgentInv, NEW m \in 1 .. Len(inbox), Handle(m)
    PROVE  /\ Sender(m) \in Senders
           /\ TurnOf(m) /\ TurnCodes(m) /\ TurnKeeps(m)
<1> DEFINE s0 == Sender(m)
           Records == {None} \cup Record(1 .. minted)
           empty == [s \in Senders |-> None]
<1>1. s0 \in Senders /\ inbox[m].word \in Words
  <2>1. inbox \in Seq([from : Senders \cup {None}, word : Words])
    BY DEF AgentInv, TypeOK
  <2>2. inbox[m] \in [from : Senders \cup {None}, word : Words]
    BY <2>1, ElementOfSeq
  <2>3. Sender(m) # None
    BY DEF Handle
  <2>4. QED
    BY <2>2, <2>3 DEF Sender
<1>2. /\ minted \in Nat /\ Grant \in Nat /\ recs \in [Senders -> Records]
      /\ pool \in [codes : Seq(1 .. minted), alerted : BOOLEAN]
      /\ Distinct(pool.codes)
      /\ \A s \in Senders : Sound(recs[s])
  BY AgentAssumption DEF AgentInv, TypeOK, CodesInv, RecordsInv
<1>3. None \notin Record(1 .. minted)
  BY <1>2, AgentAssumption DEF Record
<1>4. PICK state \in {recs, empty}, pop \in {PopCodes(pool), NoCodes(pool)} :
          /\ Turn(m, state, pop)
          /\ state = empty /\ state # recs => "state" \in faults'
  BY DEF Handle, Fault
<1> DEFINE next == Turned(state[s0], inbox[m].word, pop.taken)
           saves == Saves(state[s0], inbox[m].word, pop.taken)
<1>5. /\ pop.left \in [codes : Seq(1 .. minted), alerted : BOOLEAN]
      /\ pop.left.alerted = pool.alerted
      /\ Distinct(pop.left.codes)
      /\ pop.taken \subseteq Range(pool.codes)
      /\ Range(pop.left.codes) \subseteq Range(pool.codes) \ pop.taken
      /\ Len(pop.left.codes) <= Len(pool.codes)
  <2>1. CASE pop = PopCodes(pool)
    BY <2>1, <1>2, PoppedLeaves
  <2>2. CASE pop = NoCodes(pool)
    BY <2>2, <1>2 DEF NoCodes
  <2>3. QED
    BY <2>1, <2>2
<1>6. pop.taken \in SUBSET (1 .. minted)
  BY <1>2, <1>5 DEF Range
<1>7. state \in [Senders -> Records] /\ \A s \in Senders : Sound(state[s])
  BY <1>2 DEF Sound
<1>8. \A s \in Senders : CodesOf(state[s]) \subseteq CodesOf(recs[s])
  BY DEF CodesOf
<1>9. /\ next \in Record(1 .. minted)
      /\ next.codes \subseteq CodesOf(state[s0]) \cup pop.taken
      /\ Sound(next)
      /\ CodesOf(state[s0]) # {} => next.codes = CodesOf(state[s0])
      /\ ~saves => state[s0] # None /\ next.codes = state[s0].codes
  <2>1. state[s0] \in Records /\ Sound(state[s0])
    BY <1>1, <1>7
  <2>2. QED
    <3> DEFINE rec == state[s0]
               word == inbox[m].word
               S == 1 .. minted
               got == pop.taken
    <3>1. /\ rec \in {None} \cup Record(S) /\ None \notin Record(S) /\ Sound(rec)
          /\ word \in Words /\ got \in SUBSET S
      BY <2>1, <1>1, <1>3, <1>6
    <3> HIDE DEF rec, word, S, got
    <3>2. /\ Turned(rec, word, got) \in Record(S)
          /\ Turned(rec, word, got).codes \subseteq CodesOf(rec) \cup got
          /\ Sound(Turned(rec, word, got))
          /\ CodesOf(rec) # {} => Turned(rec, word, got).codes = CodesOf(rec)
          /\ ~Saves(rec, word, got) => rec # None /\ Turned(rec, word, got).codes = rec.codes
      BY <3>1, TurnedCodes
    <3>3. QED
      BY <3>2 DEF rec, word, S, got
<1>10. next \notin {None} /\ next.codes \subseteq 1 .. minted
  BY <1>3, <1>9 DEF Record
<1>11. /\ pool' = pop.left
       /\ turn' = [recs |-> IF saves THEN [state EXCEPT ![s0] = next] ELSE None,
                   codes |-> IF next.step = "complete" THEN next.codes ELSE {}]
       /\ pc' = IF saves THEN "store" ELSE "reply"
  BY <1>4 DEF Turn
<1> HIDE DEF next, saves
<1>12. turn'.codes \subseteq next.codes
  BY <1>11
<1>13. pc' = "store" => saves /\ turn'.recs = [state EXCEPT ![s0] = next]
  BY <1>11
<1>14. pc' = "reply" => ~saves
  BY <1>11
<1>15. [state EXCEPT ![s0] = next] \in [Senders -> Records]
  BY <1>1, <1>7, <1>9
<1>16. TurnOf(m)
  <2>1. \A s \in Senders : Sound([state EXCEPT ![s0] = next][s])
    BY <1>1, <1>7, <1>9
  <2>2. turn' \in [recs : {None} \cup [Senders -> Records], codes : SUBSET (1 .. minted)]
    BY <1>10, <1>11, <1>15
  <2>3. QED
    BY <1>5, <1>11, <1>13, <1>15, <2>1, <2>2 DEF TurnOf, AtWork
<1>17. TurnCodes(m)
  <2>1. turn'.codes \subseteq CodesOf(recs[s0]) \cup pop.taken
    BY <1>1, <1>8, <1>9, <1>12
  <2>2. ASSUME pc' = "store", NEW s \in Senders
        PROVE  CodesOf(turn'.recs[s]) \subseteq
                   CodesOf(recs[s]) \cup (IF s = s0 THEN pop.taken ELSE {})
    <3>1. CASE s = s0
      <4>1. turn'.recs[s] = next
        BY <2>2, <3>1, <1>7, <1>13
      <4>2. QED
        BY <3>1, <4>1, <1>1, <1>8, <1>9, <1>10 DEF CodesOf
    <3>2. CASE s # s0
      <4>1. turn'.recs[s] = state[s]
        BY <2>2, <3>2, <1>7, <1>13
      <4>2. QED
        BY <3>2, <4>1, <1>8
    <3>3. QED
      BY <3>1, <3>2
  <2>3. QED
    BY <2>1, <2>2, <1>5, <1>11 DEF TurnCodes
<1>18. TurnKeeps(m)
  <2>1. SUFFICES ASSUME "state" \notin faults'
                 PROVE  /\ pc' = "store" =>
                             /\ \A s \in Senders :
                                  CodesOf(recs[s]) # {} => Holds(turn'.recs[s], CodesOf(recs[s]))
                             /\ Holds(turn'.recs[s0], turn'.codes)
                        /\ pc' = "reply" => Holds(recs[s0], turn'.codes)
    BY DEF TurnKeeps
  <2>2. state = recs
    BY <1>4, <2>1
  <2>3. ASSUME pc' = "store", NEW s \in Senders, CodesOf(recs[s]) # {}
        PROVE  Holds(turn'.recs[s], CodesOf(recs[s]))
    <3>1. CASE s = s0
      <4>1. turn'.recs[s] = next
        BY <2>3, <3>1, <1>7, <1>13
      <4>2. QED
        BY <2>2, <2>3, <3>1, <4>1, <1>9, <1>10 DEF Holds
    <3>2. CASE s # s0
      <4>1. turn'.recs[s] = recs[s]
        BY <2>2, <2>3, <3>2, <1>7, <1>13
      <4>2. QED
        BY <2>3, <4>1 DEF Holds, CodesOf
    <3>3. QED
      BY <3>1, <3>2
  <2>4. ASSUME pc' = "store"
        PROVE  Holds(turn'.recs[s0], turn'.codes)
    <3>1. turn'.recs[s0] = next
      BY <2>4, <1>1, <1>7, <1>13
    <3>2. turn'.codes \in {next.codes, {}}
      BY <1>11
    <3>3. QED
      BY <3>1, <3>2, <1>10 DEF Holds
  <2>5. ASSUME pc' = "reply"
        PROVE  Holds(recs[s0], turn'.codes)
    BY <2>2, <2>5, <1>9, <1>11, <1>14 DEF Holds
  <2>6. QED
    BY <2>3, <2>4, <2>5
<1>19. QED
  BY <1>1, <1>16, <1>17, <1>18

-----------------------------------------------------------------------------
(***************************************************************************)
(* Every step keeps the types, and the records sound.                      *)
(***************************************************************************)
LEMMA TypesStep ==
    ASSUME AgentInv, [Next]_vars
    PROVE  TypeOK'
<1>0. /\ InboxOK /\ NumbersOK /\ FlagsOK /\ PoolOK /\ CodesOK /\ RecentOK
      /\ RoundInv
  BY TypesByPart DEF AgentInv
<1> SUFFICES (InboxOK /\ NumbersOK /\ FlagsOK /\ PoolOK /\ CodesOK /\ RecentOK)'
  BY DEF TypeOK, InboxOK, NumbersOK, FlagsOK, PoolOK, CodesOK, RecentOK
<1>1. CASE Poll
  <2>1. NumbersOK'
    BY <1>0, <1>1 DEF Poll, NumbersOK, files, history
  <2>2. FlagsOK'
    BY <1>0, <1>1 DEF Poll, FlagsOK
  <2>3. QED
    BY <1>0, <1>1, <2>1, <2>2 DEF Poll, InboxOK, PoolOK, CodesOK, RecentOK, files, history
<1>2. ASSUME NEW m \in 1 .. Len(inbox), NotForUs(m) \/ Limited(m)
      PROVE  (InboxOK /\ NumbersOK /\ FlagsOK /\ PoolOK /\ CodesOK /\ RecentOK)'
  <2>1. m \in 0 .. upto
    BY <1>0, <1>2 DEF NotForUs, Limited, IsNext, Unseen, NumbersOK
  <2>2. /\ UNCHANGED <<inbox, files, recent, cooling, pc, upto, turn, given, alerts>>
        /\ at' = m /\ dirty' = TRUE /\ seen' = seen \cup {m} /\ settled' = settled \cup {m}
    BY <1>2 DEF NotForUs, Limited, Mark, Settle
  <2>3. NumbersOK'
    BY <1>0, <2>1, <2>2 DEF NumbersOK, files
  <2>4. FlagsOK'
    BY <1>0, <2>2 DEF FlagsOK
  <2>5. QED
    BY <1>0, <2>2, <2>3, <2>4 DEF InboxOK, PoolOK, CodesOK, RecentOK, files
<1>3. ASSUME NEW m \in 1 .. Len(inbox), Handle(m)
      PROVE  (InboxOK /\ NumbersOK /\ FlagsOK /\ PoolOK /\ CodesOK /\ RecentOK)'
  <2>1. TurnOf(m) /\ Sender(m) \in Senders
    BY <1>3, HandledTurn
  <2>2. m \in 0 .. upto
    BY <1>0, <1>3 DEF Handle, IsNext, Unseen, NumbersOK
  <2>3. RecentOK'
    <3>1. recent[Sender(m)] \in 0 .. PerSender /\ ~(recent[Sender(m)] >= PerSender)
      BY <1>0, <1>3, <2>1 DEF Handle, OverLimit, RecentOK
    <3>2. recent[Sender(m)] + 1 \in 0 .. PerSender
      BY <3>1, AgentAssumption
    <3>3. recent' = [recent EXCEPT ![Sender(m)] = recent[Sender(m)] + 1]
      BY <1>3 DEF Handle
    <3>4. QED
      BY <1>0, <3>2, <3>3 DEF RecentOK
  <2>4. alerts' \in {0, alerts}
    BY <1>3 DEF Handle
  <2>5. UNCHANGED <<inbox, saved, recs, minted, seen, cooling, upto, settled, given>> /\ at' = m /\ dirty' = TRUE
    BY <1>3 DEF Handle
  <2>6. NumbersOK'
    BY <1>0, <2>1, <2>2, <2>4, <2>5 DEF TurnOf, AtWork, NumbersOK
  <2>7. PoolOK' /\ CodesOK'
    BY <1>0, <2>1, <2>5 DEF TurnOf, PoolOK, CodesOK
  <2>8. FlagsOK'
    BY <1>0, <2>5 DEF FlagsOK
  <2>9. QED
    BY <1>0, <2>3, <2>5, <2>6, <2>7, <2>8 DEF InboxOK
<1>4. CASE SaveState
  <2>1. recs' \in [Senders -> {None} \cup Record(1 .. minted)]
    BY <1>0, <1>4 DEF SaveState, RoundInv, AtWork, CodesOK
  <2>2. turn' \in [recs : {None} \cup [Senders -> {None} \cup Record(1 .. minted)],
                   codes : SUBSET (1 .. minted)]
    BY <1>0, <1>4 DEF SaveState, CodesOK
  <2>3. QED
    BY <1>0, <1>4, <2>1, <2>2 DEF SaveState, InboxOK, NumbersOK, FlagsOK, PoolOK, CodesOK, RecentOK
<1>5. CASE Delivered \/ Undelivered
  <2>1. Sender(at) \in Senders /\ at \in 1 .. Len(inbox)
    BY <1>0, <1>5 DEF Delivered, Undelivered, RoundInv, AtWork, NumbersOK
  <2>2. given' \in [Senders -> SUBSET (1 .. minted)]
    <3>1. turn.codes \subseteq 1 .. minted /\ given[Sender(at)] \subseteq 1 .. minted
      BY <1>0, <2>1 DEF CodesOK
    <3>2. given' \in {given, [given EXCEPT ![Sender(at)] = given[Sender(at)] \cup turn.codes]}
      BY <1>5 DEF Delivered, Undelivered, Arrives
    <3>3. QED
      BY <1>0, <2>1, <3>1, <3>2 DEF CodesOK
  <2>3. settled' \subseteq 1 .. Len(inbox) /\ seen' \subseteq 1 .. Len(inbox)
    BY <1>0, <1>5, <2>1 DEF Delivered, Undelivered, Arrives, Mark, Settle, NumbersOK
  <2>4. turn' \in [recs : {None} \cup [Senders -> {None} \cup Record(1 .. minted)],
                   codes : SUBSET (1 .. minted)]
    BY <1>5 DEF Delivered, Undelivered, Idle
  <2>5. /\ UNCHANGED <<inbox, files, recent, cooling, upto, at, alerts>>
        /\ pc' = "scan" /\ dirty' \in {dirty, FALSE}
    BY <1>5 DEF Delivered, Undelivered
  <2>6. QED
    BY <1>0, <2>2, <2>3, <2>4, <2>5 DEF InboxOK, NumbersOK, FlagsOK, PoolOK, CodesOK, RecentOK, files
<1>6. CASE Tick
  <2>1. pool' \in {pool, [pool EXCEPT !.alerted = Len(pool.codes) < Low]}
    BY <1>6 DEF Tick, CheckLowPool
  <2>2. PoolOK'
    <3>1. (Len(pool.codes) < Low) \in BOOLEAN
      OBVIOUS
    <3>2. \A b \in BOOLEAN : [pool EXCEPT !.alerted = b] \in [codes : Seq(1 .. minted), alerted : BOOLEAN]
      BY <1>0 DEF PoolOK
    <3>4. pool' \in [codes : Seq(1 .. minted), alerted : BOOLEAN]
      BY <1>0, <2>1, <3>1, <3>2, Zenon DEF PoolOK
    <3>3. QED
      BY <1>6, <3>4 DEF Tick, PoolOK
  <2>3. cooling' \in BOOLEAN /\ pc' \in {"alert", "save"}
    BY <1>0, <1>6 DEF Tick, CheckLowPool, FlagsOK
  <2>4. UNCHANGED <<inbox, saved, recs, minted, seen, recent, round, settled, given, alerts>>
    BY <1>6 DEF Tick
  <2>5. FlagsOK'
    BY <1>0, <2>3, <2>4 DEF FlagsOK, round
  <2>6. QED
    BY <1>0, <2>2, <2>3, <2>4, <2>5 DEF InboxOK, NumbersOK, CodesOK, RecentOK, round
<1>7. CASE Alert
  BY <1>0, <1>7 DEF Alert, InboxOK, NumbersOK, FlagsOK, PoolOK, CodesOK, RecentOK, files, round
<1>8. CASE SaveSeen
  BY <1>0, <1>8 DEF SaveSeen, InboxOK, NumbersOK, FlagsOK, PoolOK, CodesOK, RecentOK, round
<1>9. CASE Crash
  <2>1. RecentOK'
    BY <1>9, AgentAssumption DEF Crash, RecentOK
  <2>2. NumbersOK'
    <3>1. saved' \subseteq saved
      BY <1>9 DEF Crash
    <3>2. /\ inbox' = inbox /\ minted' = minted /\ settled' = settled /\ alerts' = alerts
          /\ upto' = 0 /\ at' = 0 /\ seen' = {} /\ pc' = "off"
      BY <1>9 DEF Crash
    <3>3. QED
      BY <1>0, <3>1, <3>2 DEF NumbersOK
  <2>3. FlagsOK'
    BY <1>9 DEF Crash, FlagsOK
  <2>4. QED
    BY <1>0, <1>9, <2>1, <2>2, <2>3 DEF Crash, Idle, InboxOK, PoolOK, CodesOK
<1>10. CASE Start
  BY <1>0, <1>10 DEF Start, InboxOK, NumbersOK, FlagsOK, PoolOK, CodesOK, RecentOK, files, round, history
<1>11. CASE Arrive
  <2>1. PICK s \in Senders \cup {None}, w \in Said : inbox' = Append(inbox, [from |-> s, word |-> w])
    BY <1>11 DEF Arrive
  <2>2. [from |-> s, word |-> w] \in [from : Senders \cup {None}, word : Words]
    BY AgentAssumption
  <2>3. InboxOK' /\ Len(inbox') = Len(inbox) + 1
    BY <1>0, <2>1, <2>2, AppendProperties DEF InboxOK
  <2>4. UNCHANGED <<files, seen, recent, cooling, pc, round, history>>
    BY <1>11 DEF Arrive
  <2>5. NumbersOK'
    BY <1>0, <2>3, <2>4 DEF NumbersOK, files, round, history
  <2>6. QED
    BY <1>0, <2>3, <2>4, <2>5 DEF FlagsOK, PoolOK, CodesOK, RecentOK, files, round, history
<1>12. CASE TopUp
  <2>1. minted' = minted + 1 /\ minted' \in Nat /\ 1 .. minted \subseteq 1 .. minted'
    BY <1>0, <1>12 DEF TopUp, NumbersOK
  <2>2. PoolOK'
    <3>1. pool.codes \in Seq(1 .. minted) /\ pool' = [pool EXCEPT !.codes = Append(pool.codes, minted')]
      BY <1>0, <1>12 DEF PoolOK, TopUp
    <3>2. minted' \in 1 .. minted' /\ pool.codes \in Seq(1 .. minted')
      <4>1. minted' \in 1 .. minted'
        BY <1>0, <2>1 DEF NumbersOK
      <4>2. pool.codes \in Seq(1 .. minted')
        BY <2>1, <3>1, SeqMonotonic
      <4>3. QED
        BY <4>1, <4>2
    <3>3. Append(pool.codes, minted') \in Seq(1 .. minted')
      BY <3>2, AppendProperties
    <3>4. QED
      BY <1>0, <3>1, <3>3 DEF PoolOK
  <2>3. Record(1 .. minted) \subseteq Record(1 .. minted')
    BY <2>1 DEF Record
  <2>4. UNCHANGED <<inbox, saved, recs, seen, recent, cooling, pc, round, history>>
    BY <1>12 DEF TopUp
  <2>5. CodesOK'
    <3>1. [Senders -> {None} \cup Record(1 .. minted)] \subseteq [Senders -> {None} \cup Record(1 .. minted')]
      BY <2>3
    <3>2. QED
      BY <1>0, <2>1, <2>4, <3>1 DEF CodesOK, round, history
  <2>6. QED
    BY <1>0, <2>1, <2>2, <2>4, <2>5 DEF InboxOK, NumbersOK, FlagsOK, RecentOK, round, history
<1>13. CASE Elapse
  <2>1. RecentOK'
    BY <1>13, AgentAssumption DEF Elapse, RecentOK
  <2>2. QED
    BY <1>0, <1>13, <2>1 DEF Elapse, InboxOK, NumbersOK, FlagsOK, PoolOK, CodesOK, files, round, history
<1>14. CASE UNCHANGED vars
  BY <1>0, <1>14 DEF vars, InboxOK, NumbersOK, FlagsOK, PoolOK, CodesOK, RecentOK, files, round, history
<1>15. QED
  BY <1>1, <1>2, <1>3, <1>4, <1>5, <1>6, <1>7, <1>8, <1>9, <1>10, <1>11, <1>12, <1>13, <1>14
     DEF Next, Loop

-----------------------------------------------------------------------------
(***************************************************************************)
(* Every step keeps the rest.  Most steps are not at work on a turn before *)
(* or after, and leave the pool, the records and what was given alone.     *)
(***************************************************************************)
Aside ==
    /\ UNCHANGED <<recs, pool, given>>
    /\ pc \notin AtWork /\ pc' \notin AtWork
    /\ faults \ {"seen"} \subseteq faults'

LEMMA OtherSteps ==
    ASSUME [Next]_vars,
           ~SaveState, ~Delivered, ~Undelivered, ~Tick, ~Crash, ~TopUp,
           \A m \in 1 .. Len(inbox) : ~Handle(m)
    PROVE  UNCHANGED vars \/ Aside
<1> USE DEF Aside, AtWork, files, round, history
<1>1. ASSUME Poll \/ Alert \/ SaveSeen \/ Start \/ Arrive \/ Elapse
      PROVE  Aside
  BY <1>1 DEF Poll, Alert, SaveSeen, Fault, Start, Arrive, Elapse
<1>2. ASSUME NEW m \in 1 .. Len(inbox), NotForUs(m) \/ Limited(m)
      PROVE  Aside
  BY <1>2 DEF NotForUs, Limited
<1>3. QED
  BY <1>1, <1>2 DEF Next, Loop

\* The senders of the messages there are stay the same.
LEMMA SendersStay ==
    ASSUME AgentInv, [Next]_vars, pc \in AtWork \/ pc' \in AtWork
    PROVE  inbox' = inbox
<1>1. ~Arrive
  BY DEF Arrive, AtWork
<1>2. QED
  BY <1>1 DEF Next, Loop, Poll, SaveState, Tick, Alert, SaveSeen, Start, NotForUs, Limited, Handle,
              Delivered, Undelivered, Crash, TopUp, Elapse, vars, AtWork

LEMMA RoundStep ==
    ASSUME AgentInv, [Next]_vars
    PROVE  RoundInv'
<1>0. NumbersOK /\ RoundInv
  BY TypesByPart DEF AgentInv
<1>1. ASSUME NEW m \in 1 .. Len(inbox), Handle(m)
      PROVE  RoundInv'
  <2>1. TurnOf(m) /\ Sender(m) \in Senders
    BY <1>1, HandledTurn
  <2>2. m \in 1 .. upto /\ m \notin seen
    BY <1>0, <1>1 DEF Handle, IsNext, Unseen, NumbersOK
  <2>3. at' = m /\ dirty' = TRUE /\ UNCHANGED <<inbox, upto, seen, minted>>
    BY <1>1 DEF Handle
  <2>4. QED
    BY <2>1, <2>2, <2>3 DEF RoundInv, TurnOf, Sender
<1>2. CASE SaveState
  <2>1. /\ UNCHANGED <<inbox, upto, at, seen, dirty>>
        /\ pc = "store" /\ pc' = "reply"
    BY <1>2 DEF SaveState
  <2>2. QED
    BY <1>0, <2>1 DEF RoundInv, AtWork, Sender
<1>3. CASE Delivered \/ Undelivered \/ Tick \/ Crash
  BY <1>3 DEF Delivered, Undelivered, Tick, Crash, RoundInv, AtWork
<1>4. CASE TopUp
  BY <1>4 DEF TopUp, RoundInv, AtWork
<1>5. CASE Aside
  BY <1>5 DEF Aside, RoundInv
<1>6. CASE UNCHANGED vars
  BY <1>0, <1>6 DEF vars, files, round, RoundInv, Sender
<1>7. QED
  BY <1>1, <1>2, <1>3, <1>4, <1>5, <1>6, OtherSteps

LEMMA RecordsStep ==
    ASSUME AgentInv, [Next]_vars
    PROVE  RecordsInv'
<1>0. RecordsInv
  BY DEF AgentInv
<1>1. ASSUME NEW m \in 1 .. Len(inbox), Handle(m)
      PROVE  RecordsInv'
  <2>1. TurnOf(m)
    BY <1>1, HandledTurn
  <2>2. recs' = recs
    BY <1>1 DEF Handle
  <2>3. QED
    BY <1>0, <2>1, <2>2 DEF TurnOf, RecordsInv, Sound
<1>2. CASE SaveState
  <2>1. pc = "store" /\ pc' # "store" /\ recs' \in {turn.recs, recs}
    BY <1>2 DEF SaveState
  <2>2. QED
    BY <1>0, <2>1 DEF RecordsInv, Sound
<1>3. CASE Delivered \/ Undelivered \/ Tick \/ Crash
  <2>1. recs' = recs /\ pc' # "store"
    BY <1>3 DEF Delivered, Undelivered, Tick, Crash, files
  <2>2. QED
    BY <1>0, <2>1 DEF RecordsInv, Sound
<1>4. CASE TopUp
  BY <1>0, <1>4 DEF TopUp, RecordsInv, Sound
<1>5. CASE Aside
  BY <1>0, <1>5 DEF Aside, AtWork, RecordsInv, Sound
<1>6. CASE UNCHANGED vars
  BY <1>0, <1>6 DEF vars, files, round, RecordsInv, Sound
<1>7. QED
  BY <1>1, <1>2, <1>3, <1>4, <1>5, <1>6, OtherSteps

\* Codes move from the pool to a sender, and what a sender owns only shrinks
\* otherwise.
LEMMA OwnedShrinks ==
    ASSUME CodesInv, pool'.codes = pool.codes, \A s \in Senders : Owned(s)' \subseteq Owned(s)
    PROVE  CodesInv'
<1>1. Distinct(pool'.codes) /\ Range(pool'.codes) = Range(pool.codes)
  BY DEF CodesInv
<1>2. \A s \in Senders : Owned(s)' \cap Range(pool'.codes) = {}
  BY <1>1 DEF CodesInv
<1>3. \A s, t \in Senders : s # t => Owned(s)' \cap Owned(t)' = {}
  BY DEF CodesInv
<1>4. QED
  BY <1>1, <1>2, <1>3 DEF CodesInv

LEMMA CodesStep ==
    ASSUME AgentInv, [Next]_vars
    PROVE  CodesInv'
<1>0. NumbersOK /\ PoolOK /\ CodesOK /\ RoundInv /\ CodesInv
  BY TypesByPart DEF AgentInv
<1>1. ASSUME NEW m \in 1 .. Len(inbox), Handle(m)
      PROVE  CodesInv'
  <2>1. TurnOf(m) /\ TurnCodes(m) /\ Sender(m) \in Senders
    BY <1>1, HandledTurn
  <2>2. PICK taken \in SUBSET Range(pool.codes) :
            /\ Range(pool'.codes) \subseteq Range(pool.codes) \ taken
            /\ turn'.codes \subseteq CodesOf(recs[Sender(m)]) \cup taken
            /\ pc' = "store" =>
                  \A s \in Senders :
                      CodesOf(turn'.recs[s]) \subseteq
                          CodesOf(recs[s]) \cup (IF s = Sender(m) THEN taken ELSE {})
    BY <2>1 DEF TurnCodes
  <2>3. at' = m /\ UNCHANGED <<inbox, given, recs>>
    BY <1>1 DEF Handle
  <2>4. \A s \in Senders :
            Owned(s)' \subseteq Owned(s) \cup (IF s = Sender(m) THEN taken ELSE {})
    <3>1. TAKE s \in Senders
    <3>2. given'[s] \cup CodesOf(recs'[s]) \subseteq Owned(s) /\ CodesOf(recs[s]) \subseteq Owned(s)
      BY <2>3 DEF Owned
    <3>3. pc' = "store" =>
              CodesOf(turn'.recs[s]) \subseteq Owned(s) \cup (IF s = Sender(m) THEN taken ELSE {})
      BY <2>2, <3>2
    <3>4. s = Sender(m) => turn'.codes \subseteq Owned(s) \cup taken
      BY <2>2, <3>2
    <3>5. Sender(at)' = Sender(m)
      BY <2>3 DEF Sender
    <3>6. QED
      BY <3>2, <3>3, <3>4, <3>5 DEF Owned
  <2>5. \A s \in Senders : Owned(s)' \cap Range(pool'.codes) = {}
    <3>1. TAKE s \in Senders
    <3>2. Owned(s) \cap Range(pool.codes) = {}
      BY <1>0 DEF CodesInv
    <3>3. QED
      BY <2>2, <2>4, <3>2
  <2>6. \A s, t \in Senders : s # t => Owned(s)' \cap Owned(t)' = {}
    <3>1. TAKE s, t \in Senders
    <3>2. HAVE s # t
    <3>3. /\ Owned(s) \cap Range(pool.codes) = {} /\ Owned(t) \cap Range(pool.codes) = {}
          /\ Owned(s) \cap Owned(t) = {}
      BY <1>0, <3>2 DEF CodesInv
    <3>4. QED
      BY <2>2, <2>4, <3>2, <3>3
  <2>7. QED
    BY <2>1, <2>5, <2>6 DEF TurnOf, CodesInv
<1>2. CASE SaveState
  <2>1. /\ UNCHANGED <<inbox, pool, at, given>>
        /\ turn'.codes = turn.codes
        /\ pc = "store" /\ pc' = "reply" /\ recs' \in {turn.recs, recs}
    BY <1>0, <1>2 DEF SaveState, CodesOK
  <2>2. \A s \in Senders : Owned(s)' \subseteq Owned(s)
    BY <2>1 DEF Owned, AtWork, Sender
  <2>3. QED
    BY <1>0, <2>1, <2>2, OwnedShrinks
<1>3. CASE Delivered \/ Undelivered
  <2>1. /\ pc = "reply" /\ pc' = "scan" /\ UNCHANGED <<pool, recs>>
        /\ given' \in {given, [given EXCEPT ![Sender(at)] = given[Sender(at)] \cup turn.codes]}
    BY <1>3 DEF Delivered, Undelivered, Arrives, files
  <2>2. \A s \in Senders :
            given'[s] \subseteq given[s] \cup (IF s = Sender(at) THEN turn.codes ELSE {})
    BY <1>0, <2>1 DEF CodesOK
  <2>3. \A s \in Senders : Owned(s)' \subseteq Owned(s)
    BY <2>1, <2>2 DEF Owned, AtWork
  <2>4. QED
    BY <1>0, <2>1, <2>3, OwnedShrinks
<1>4. CASE Tick \/ Crash
  <2>1. pc' \notin AtWork /\ UNCHANGED <<recs, given>>
    BY <1>4 DEF Tick, Crash, AtWork
  <2>2. pool'.codes = pool.codes
    BY <1>0, <1>4 DEF Tick, Crash, CheckLowPool, PoolOK
  <2>3. \A s \in Senders : Owned(s)' \subseteq Owned(s)
    BY <2>1 DEF Owned, AtWork
  <2>4. QED
    BY <1>0, <2>2, <2>3, OwnedShrinks
<1>5. CASE TopUp
  <2>1. /\ pc \notin AtWork /\ pc' = pc /\ UNCHANGED <<recs, given>>
        /\ minted' = minted + 1
        /\ pool' = [pool EXCEPT !.codes = Append(pool.codes, minted')]
    BY <1>5 DEF TopUp, AtWork, history
  <2>2. \A s \in Senders : Owned(s)' = Owned(s)
    BY <2>1 DEF Owned, AtWork
  <2>3. pool.codes \in Seq(1 .. minted) /\ minted \in Nat /\ pool'.codes = Append(pool.codes, minted + 1)
    BY <1>0, <2>1 DEF PoolOK, NumbersOK
  <2>4. /\ Len(pool'.codes) = Len(pool.codes) + 1 /\ Len(pool.codes) \in Nat
        /\ DOMAIN pool'.codes = 1 .. Len(pool.codes) + 1
        /\ DOMAIN pool.codes = 1 .. Len(pool.codes)
        /\ \A i \in 1 .. Len(pool.codes) : pool'.codes[i] = pool.codes[i] /\ pool.codes[i] \in 1 .. minted
        /\ pool'.codes[Len(pool.codes) + 1] = minted + 1
    BY <2>3, AppendProperties, ElementOfSeq
  <2>5. Distinct(pool'.codes)
    <3>1. SUFFICES ASSUME NEW i \in 1 .. Len(pool.codes) + 1, NEW j \in 1 .. Len(pool.codes) + 1,
                          pool'.codes[i] = pool'.codes[j]
                   PROVE  i = j
      BY <2>4 DEF Distinct
    <3>2. CASE i = Len(pool.codes) + 1 \/ j = Len(pool.codes) + 1
      BY <2>3, <2>4, <3>1, <3>2
    <3>3. CASE i \in 1 .. Len(pool.codes) /\ j \in 1 .. Len(pool.codes)
      <4>1. pool.codes[i] = pool.codes[j] /\ i \in DOMAIN pool.codes /\ j \in DOMAIN pool.codes
        BY <2>4, <3>1, <3>3
      <4>2. QED
        BY <1>0, <4>1 DEF CodesInv, Distinct
    <3>4. QED
      BY <2>4, <3>2, <3>3
  <2>6. Range(pool'.codes) \subseteq Range(pool.codes) \cup {minted + 1}
    <3>1. SUFFICES ASSUME NEW i \in 1 .. Len(pool.codes) + 1
                   PROVE  pool'.codes[i] \in Range(pool.codes) \cup {minted + 1}
      BY <2>4 DEF Range
    <3>2. CASE i = Len(pool.codes) + 1
      BY <2>4, <3>2
    <3>3. CASE i \in 1 .. Len(pool.codes)
      BY <2>4, <3>3 DEF Range
    <3>4. QED
      BY <2>4, <3>2, <3>3
  <2>7. \A s \in Senders : minted + 1 \notin Owned(s)
    <3>1. TAKE s \in Senders
    <3>2. given[s] \subseteq 1 .. minted /\ CodesOf(recs[s]) \subseteq 1 .. minted
      BY <1>0 DEF CodesOK, CodesOf, Record
    <3>3. Owned(s) \subseteq 1 .. minted
      BY <2>1, <3>2 DEF Owned, AtWork
    <3>4. QED
      BY <2>3, <3>3
  <2>8. \A s \in Senders : Owned(s) \cap Range(pool'.codes) = {}
    BY <1>0, <2>6, <2>7 DEF CodesInv
  <2>9. QED
    BY <1>0, <2>2, <2>5, <2>8 DEF CodesInv
<1>6. CASE Aside
  <2>1. \A s \in Senders : Owned(s)' \subseteq Owned(s)
    BY <1>6 DEF Aside, Owned, AtWork
  <2>2. QED
    BY <1>0, <1>6, <2>1, OwnedShrinks DEF Aside
<1>7. CASE UNCHANGED vars
  <2>1. \A s \in Senders : Owned(s)' \subseteq Owned(s)
    BY <1>7 DEF vars, files, round, history, Owned, Sender
  <2>2. QED
    BY <1>0, <1>7, <2>1, OwnedShrinks DEF vars, files
<1>8. QED
  BY <1>1, <1>2, <1>3, <1>4, <1>5, <1>6, <1>7, OtherSteps

LEMMA SameStep ==
    ASSUME AgentInv, [Next]_vars
    PROVE  SameInv'
<1>0. CodesOK /\ RoundInv /\ SameInv /\ "state" \in {"state"} \ {"seen"}
  BY TypesByPart DEF AgentInv
<1>1. ASSUME NEW m \in 1 .. Len(inbox), Handle(m)
      PROVE  SameInv'
  <2>1. TurnOf(m) /\ TurnKeeps(m) /\ Sender(m) \in Senders
    BY <1>1, HandledTurn
  <2>2. at' = m /\ UNCHANGED <<inbox, given, recs>> /\ faults \subseteq faults'
    BY <1>1 DEF Handle, Fault
  <2>3. SUFFICES ASSUME "state" \notin faults', NEW s \in Senders
                 PROVE  /\ Holds(recs'[s], given'[s])
                        /\ pc' = "store" => Holds(turn'.recs[s], given'[s])
                        /\ pc' = "store" /\ s = Sender(at)' => Holds(turn'.recs[s], turn'.codes)
                        /\ pc' = "reply" /\ s = Sender(at)' => Holds(recs'[s], turn'.codes)
    BY DEF SameInv
  <2>4. Holds(recs[s], given[s])
    BY <1>0, <2>2, <2>3 DEF SameInv
  <2>5. pc' = "store" => Holds(turn'.recs[s], given[s])
    BY <2>1, <2>3, <2>4 DEF TurnKeeps, Holds, CodesOf
  <2>6. Sender(at)' = Sender(m)
    BY <2>2 DEF Sender
  <2>7. QED
    BY <2>1, <2>2, <2>3, <2>4, <2>5, <2>6 DEF TurnKeeps
<1>2. CASE SaveState
  <2>1. /\ UNCHANGED <<inbox, at, given>>
        /\ turn'.codes = turn.codes
        /\ pc = "store" /\ pc' = "reply" /\ faults \subseteq faults'
        /\ recs' = turn.recs \/ "state" \in faults'
    BY <1>0, <1>2 DEF SaveState, Fault, CodesOK
  <2>2. QED
    BY <1>0, <2>1 DEF SameInv, Sender
<1>3. CASE Delivered \/ Undelivered
  <2>1. /\ pc = "reply" /\ pc' = "scan" /\ recs' = recs /\ faults' = faults
        /\ given' \in {given, [given EXCEPT ![Sender(at)] = given[Sender(at)] \cup turn.codes]}
    BY <1>3 DEF Delivered, Undelivered, Arrives, files
  <2>2. SUFFICES ASSUME "state" \notin faults, NEW s \in Senders
                 PROVE  Holds(recs[s], given'[s])
    BY <2>1 DEF SameInv
  <2>3. Holds(recs[s], given[s]) /\ (s = Sender(at) => Holds(recs[s], turn.codes))
    BY <1>0, <2>1, <2>2 DEF SameInv
  <2>4. given'[s] \in {given[s], IF s = Sender(at) THEN given[s] \cup turn.codes ELSE given[s]}
    BY <1>0, <2>1 DEF CodesOK
  <2>5. QED
    BY <2>3, <2>4 DEF Holds
<1>4. CASE Tick \/ Crash \/ TopUp \/ Aside
  <2>1. pc' \notin AtWork /\ UNCHANGED <<recs, given>> /\ faults \ {"seen"} \subseteq faults'
    BY <1>4 DEF Tick, Crash, TopUp, Aside, Fault, AtWork, history
  <2>2. QED
    BY <1>0, <2>1 DEF SameInv, AtWork
<1>5. CASE UNCHANGED vars
  BY <1>0, <1>5 DEF vars, files, round, history, SameInv, Sender
<1>6. QED
  BY <1>1, <1>2, <1>3, <1>4, <1>5, OtherSteps

LEMMA MarkedStep ==
    ASSUME AgentInv, [Next]_vars
    PROVE  MarkedIsSettled'
<1>0. MarkedIsSettled
  BY DEF AgentInv
<1>1. ASSUME NEW m \in 1 .. Len(inbox), NotForUs(m) \/ Limited(m)
      PROVE  MarkedIsSettled'
  BY <1>0, <1>1 DEF NotForUs, Limited, Mark, Settle, MarkedIsSettled, files
<1>2. ASSUME NEW m \in 1 .. Len(inbox), Handle(m)
      PROVE  MarkedIsSettled'
  BY <1>0, <1>2 DEF Handle, MarkedIsSettled
<1>3. CASE Delivered \/ Undelivered
  BY <1>0, <1>3 DEF Delivered, Undelivered, Arrives, Mark, Settle, MarkedIsSettled, files
<1>4. CASE Crash \/ SaveSeen
  <2>1. saved' \subseteq saved \cup seen /\ seen' \subseteq seen /\ settled' = settled
    BY <1>4 DEF Crash, SaveSeen
  <2>2. QED
    BY <1>0, <2>1 DEF MarkedIsSettled
<1>5. ASSUME Poll \/ SaveState \/ Tick \/ Alert \/ Start \/ Arrive \/ TopUp \/ Elapse \/ UNCHANGED vars
      PROVE  MarkedIsSettled'
  BY <1>0, <1>5 DEF Poll, SaveState, Tick, Alert, Start, Arrive, TopUp, Elapse, vars,
                    MarkedIsSettled, files, history
<1>6. QED
  BY <1>1, <1>2, <1>3, <1>4, <1>5 DEF Next, Loop

LEMMA UnsavedStep ==
    ASSUME AgentInv, [Next]_vars
    PROVE  UnsavedInv'
<1>0. NumbersOK /\ FlagsOK /\ RoundInv /\ UnsavedInv
  BY TypesByPart DEF AgentInv
<1>1. CASE Poll
  <2>1. UNCHANGED <<seen, saved, faults>> /\ pc = "idle" /\ 1 .. upto \subseteq 1 .. upto'
    BY <1>0, <1>1 DEF Poll, NumbersOK, files, history
  <2>2. QED
    BY <1>0, <2>1 DEF UnsavedInv
<1>2. ASSUME NEW m \in 1 .. Len(inbox), NotForUs(m) \/ Limited(m) \/ Handle(m)
      PROVE  UnsavedInv'
  <2>1. dirty' = TRUE /\ pc' # "idle"
    <3>1. Handle(m) => pc' \in AtWork
      BY <1>2, HandledTurn DEF TurnOf
    <3>2. QED
      BY <1>2, <3>1 DEF NotForUs, Limited, Handle, AtWork
  <2>2. QED
    BY <2>1 DEF UnsavedInv
<1>3. CASE SaveState \/ Delivered
  <2>1. dirty' = dirty /\ dirty /\ pc' # "idle"
    BY <1>0, <1>3 DEF SaveState, Delivered, RoundInv, AtWork
  <2>2. QED
    BY <2>1 DEF UnsavedInv
<1>4. CASE Undelivered
  <2>1. at \in 1 .. upto' /\ at \notin seen'
    BY <1>0, <1>4 DEF Undelivered, RoundInv, AtWork
  <2>2. QED
    BY <2>1 DEF UnsavedInv
<1>5. CASE Tick \/ Alert
  <2>1. /\ UNCHANGED <<seen, saved, dirty, upto>> /\ faults \subseteq faults'
        /\ pc \notin {"off", "idle"} /\ pc' # "idle"
    BY <1>5 DEF Tick, Alert, CheckLowPool, Fault, files, round
  <2>2. QED
    BY <1>0, <2>1 DEF UnsavedInv
<1>6. CASE SaveSeen
  <2>1. CASE ~dirty
    BY <1>0, <1>6, <2>1 DEF SaveSeen, UnsavedInv, round
  <2>2. CASE dirty
    BY <1>6, <2>2 DEF SaveSeen, Fault, UnsavedInv
  <2>3. QED
    BY <2>1, <2>2
<1>7. CASE Crash
  BY <1>7 DEF Crash, UnsavedInv
<1>8. CASE Start
  BY <1>8 DEF Start, UnsavedInv, files
<1>9. CASE Arrive \/ TopUp \/ Elapse \/ UNCHANGED vars
  <2>1. UNCHANGED <<seen, saved, dirty, upto, faults, pc>>
    BY <1>9 DEF Arrive, TopUp, Elapse, vars, files, round, history
  <2>2. QED
    BY <1>0, <2>1 DEF UnsavedInv
<1>10. QED
  BY <1>1, <1>2, <1>3, <1>4, <1>5, <1>6, <1>7, <1>8, <1>9 DEF Next, Loop

LEMMA AlertStep ==
    ASSUME AgentInv, [Next]_vars
    PROVE  AlertInv'
<1>0. NumbersOK /\ PoolOK /\ CodesOK /\ AlertInv /\ Low \in Nat /\ Len(pool.codes) \in Nat
  BY TypesByPart, AgentAssumption DEF AgentInv, PoolOK
<1>1. ASSUME NEW m \in 1 .. Len(inbox), Handle(m)
      PROVE  AlertInv'
  <2>1. pool'.alerted = pool.alerted /\ pc' # "alert" /\ Len(pool'.codes) \in Nat
    BY <1>1, HandledTurn DEF TurnOf, AtWork
  <2>2. alerts' = IF Len(pool.codes) >= Low /\ Len(pool'.codes) < Low THEN 0 ELSE alerts
    BY <1>1 DEF Handle
  <2>3. Len(pool'.codes) < Low => alerts' = 0 \/ Len(pool.codes) < Low
    BY <1>0, <2>2
  <2>4. alerts' \in {0, alerts}
    BY <2>2
  <2>5. QED
    BY <1>0, <2>1, <2>3, <2>4 DEF AlertInv
<1>2. CASE Tick
  <2>1. CASE UNCHANGED pool /\ pc' = "save" /\ alerts' = alerts
    BY <1>0, <1>2, <2>1 DEF AlertInv
  <2>2. CASE /\ pool' = [pool EXCEPT !.alerted = Len(pool.codes) < Low]
             /\ pc' \in {"alert", "save"} /\ alerts' = alerts
             /\ pc' = "alert" => Len(pool.codes) < Low /\ ~pool.alerted
    <3>1. pool'.codes = pool.codes /\ (pool'.alerted <=> Len(pool.codes) < Low)
      BY <1>0, <2>2 DEF PoolOK
    <3>2. QED
      BY <1>0, <2>2, <3>1 DEF AlertInv
  <2>3. QED
    BY <1>2, <2>1, <2>2 DEF Tick, CheckLowPool
<1>3. CASE Alert
  BY <1>0, <1>3 DEF Alert, AlertInv, files
<1>4. CASE TopUp
  <2>1. pool' = [pool EXCEPT !.codes = Append(pool.codes, minted')] /\ UNCHANGED <<pc, alerts>>
    BY <1>4 DEF TopUp, history
  <2>2. pool'.alerted = pool.alerted /\ pool'.codes = Append(pool.codes, minted')
    BY <1>0, <2>1 DEF PoolOK
  <2>3. Len(pool'.codes) = Len(pool.codes) + 1
    <3>1. pool.codes \in Seq(1 .. minted)
      BY <1>0 DEF PoolOK
    <3>2. QED
      BY <2>2, <3>1
  <2>4. QED
    BY <1>0, <2>1, <2>2, <2>3 DEF AlertInv
<1>5. ASSUME NEW m \in 1 .. Len(inbox), NotForUs(m) \/ Limited(m)
      PROVE  AlertInv'
  BY <1>0, <1>5 DEF NotForUs, Limited, AlertInv, files
<1>6. CASE Poll \/ SaveState \/ Delivered \/ Undelivered \/ SaveSeen \/ Crash \/ Start
  <2>1. pc' # "alert" /\ pool' = pool /\ alerts' = alerts
    BY <1>6 DEF Poll, SaveState, Delivered, Undelivered, SaveSeen, Crash, Start, files, history
  <2>2. QED
    BY <1>0, <2>1 DEF AlertInv
<1>7. CASE Arrive \/ Elapse \/ UNCHANGED vars
  <2>1. UNCHANGED <<pc, pool, alerts>>
    BY <1>7 DEF Arrive, Elapse, vars, files, history
  <2>2. QED
    BY <1>0, <2>1 DEF AlertInv
<1>8. QED
  BY <1>1, <1>2, <1>3, <1>4, <1>5, <1>6, <1>7 DEF Next, Loop

-----------------------------------------------------------------------------
\* Every state the agent reaches satisfies the invariant: the loop of run(),
\* the tour and the pool, through crashes and failing files.
THEOREM AgentInvariant == Spec => []AgentInv
<1>1. AgentInv /\ [Next]_vars => AgentInv'
  BY TypesStep, RoundStep, RecordsStep, CodesStep, SameStep, MarkedStep, UnsavedStep, AlertStep
     DEF AgentInv
<1>2. QED
  BY InitAgent, <1>1, PTL DEF Spec

\* The loop, its files and its history keep their types.
THEOREM AgentTypes == Spec => []TypeOK
<1>1. AgentInv => TypeOK
  BY DEF AgentInv
<1>2. QED
  BY <1>1, AgentInvariant, PTL

\* No code is ever sent to two senders, since the pool is written before the
\* record and the record before the reply (_pop_codes, advance).
THEOREM OneSenderPerCode == Spec => []CodesGoToOne
<1>1. AgentInv => CodesGoToOne
  <2>1. \A s \in Senders : given[s] \subseteq Owned(s)
    BY DEF Owned
  <2>2. QED
    BY <2>1 DEF AgentInv, CodesInv, CodesGoToOne
<1>2. QED
  BY <1>1, AgentInvariant, PTL

\* A sender who was given codes has them in the state file, so that asking
\* again gives the same ones, unless the file could not be read or written.
THEOREM NeverNewCodes == Spec => []SameCodesAgain
<1>1. AgentInv => SameCodesAgain
  BY DEF AgentInv, SameInv, Holds, SameCodesAgain
<1>2. QED
  BY <1>1, AgentInvariant, PTL

\* A message is marked in memory or on disk only when it was settled.
THEOREM NothingMarkedEarly == Spec => []MarkedIsSettled
<1>1. AgentInv => MarkedIsSettled
  BY DEF AgentInv
<1>2. QED
  BY <1>1, AgentInvariant, PTL

\* Between rounds a mark is missing from the disk only for one of the two
\* reasons run() leaves: the store failed, or a reply of the round did.
THEOREM MarksAreSaved == Spec => []UnsavedIsExcused
<1>1. AgentInv => UnsavedIsExcused
  BY DEF AgentInv, UnsavedInv, UnsavedIsExcused
<1>2. QED
  BY <1>1, AgentInvariant, PTL

\* A pool that stays low is told of once (check_low_pool, tick).
THEOREM OneAlert == Spec => []AlertedOnce
<1>1. AgentInv => AlertedOnce
  BY DEF AgentInv, AlertInv, AlertedOnce
<1>2. QED
  BY <1>1, AgentInvariant, PTL

=============================================================================
