------------------------------- MODULE Agent -------------------------------
(***************************************************************************)
(* The echo agent: the loop of src/agent_runtime.py around the TourHandler *)
(* of src/agent_handlers.py.                                               *)
(*                                                                         *)
(* Each cycle reads the inbox, answers what it has not seen, lets the      *)
(* handler look at the pool of codes and saves what it has seen.  Three    *)
(* files outlive the process: the seen store, which is written in place;   *)
(* the tour's state and the pool, which are replaced.  Sends fail, answers *)
(* of sends are lost, files cannot be read or written, and the process     *)
(* dies between any two steps.                                             *)
(***************************************************************************)
EXTENDS EchoTour, FiniteSets, Functions

CONSTANTS
    Senders,
    Known,          \* the records Init may find in the state file
    Said,           \* the words senders use
    PerSender,      \* per_sender_per_min
    GlobalMax,      \* global_per_min
    MaxMessages,    \* bound: the inbox
    MaxCodes,       \* bound: codes minted
    MaxMishaps      \* bound: crashes, and file operations that fail

ASSUME AgentAssumption ==
    /\ Known \subseteq {None} \cup Record({}) /\ Said \subseteq Words
    /\ None \notin Record(Nat)
    /\ {Grant, Low, PerSender, GlobalMax, MaxMessages, MaxCodes, MaxMishaps} \subseteq Nat

VARIABLES
    inbox,      \* what the relay holds, oldest first; an id is a position
    saved,      \* the seen store
    recs,       \* the state file
    pool,       \* the pool file
    minted,     \* how many codes it was ever given
    seen,
    recent,     \* checks the rate limiter still counts, by sender
    cooling,    \* an alert was sent within the cooldown
    pc,
    upto, at,   \* the round: the messages it read and the one it is at
    dirty,
    turn,       \* what the handler is about to save and to reply
    settled,    \* history: the messages answered, dropped by the limiter or not for us
    given,      \* history: the codes each sender was sent
    alerts,     \* history: alerts sent since the pool last became low
    faults,     \* history: the files a read or a write of failed
    mishaps     \* how many crashes and failed file operations there were

files == <<saved, recs, pool, minted>>
round == <<upto, at, dirty, turn>>
history == <<settled, given, alerts, faults, mishaps>>
vars == <<inbox, files, seen, recent, cooling, pc, round, history>>

Sender(m) == inbox[m].from
Idle == [recs |-> None, codes |-> {}]

Init ==
    /\ inbox = <<>> /\ saved = {}
    /\ recs \in [Senders -> Known]
    /\ minted = Low + 1
    /\ pool = [codes |-> [i \in 1 .. minted |-> i], alerted |-> FALSE]
    /\ seen = {} /\ recent = [s \in Senders |-> 0] /\ cooling = FALSE
    /\ pc = "idle" /\ upto = 0 /\ at = 0 /\ dirty = FALSE /\ turn = Idle
    /\ settled = {} /\ given = [s \in Senders |-> {}]
    /\ alerts = 0 /\ faults = {} /\ mishaps = 0

\* A file cannot be read or written.
Fault(file) ==
    /\ mishaps < MaxMishaps /\ mishaps' = mishaps + 1
    /\ faults' = faults \cup {file}

-----------------------------------------------------------------------------
(***************************************************************************)
(* The loop of run().                                                      *)
(***************************************************************************)
Poll ==
    /\ pc = "idle"
    /\ pc' = "scan" /\ upto' = Len(inbox) /\ at' = 0 /\ dirty' = FALSE
    /\ UNCHANGED <<inbox, files, seen, recent, cooling, turn, history>>

\* The next message that was not seen, if this round has one.
Unseen_AboveMark == {m \in at + 1 .. upto : \A n \in seen : n < m}
Unseen == {m \in at + 1 .. upto : m \notin seen}
IsNext(m) == m \in Unseen /\ \A n \in Unseen : m <= n

Mark(m) == seen' = seen \cup {m}
Settle(m) == settled' = settled \cup {m}

\* Our own message, or one without a sender.
NotForUs(m) ==
    /\ pc = "scan" /\ IsNext(m) /\ Sender(m) = None
    /\ dirty' = TRUE /\ at' = m /\ Mark(m) /\ Settle(m)
    /\ UNCHANGED <<inbox, files, recent, cooling, pc, upto, turn, given, alerts, faults, mishaps>>

\* RateLimiter.check_and_record
OverLimit_OffByOne(s) == FoldFunction(+, 0, recent) > GlobalMax \/ recent[s] > PerSender
OverLimit(s) == FoldFunction(+, 0, recent) >= GlobalMax \/ recent[s] >= PerSender

Limited_Clean(m) ==
    /\ pc = "scan" /\ IsNext(m) /\ Sender(m) # None /\ OverLimit(Sender(m))
    /\ at' = m /\ Mark(m) /\ Settle(m)
    /\ UNCHANGED <<inbox, files, recent, cooling, pc, upto, dirty, turn, given, alerts, faults, mishaps>>
Limited(m) ==
    /\ pc = "scan" /\ IsNext(m) /\ Sender(m) # None /\ OverLimit(Sender(m))
    /\ dirty' = TRUE /\ at' = m /\ Mark(m) /\ Settle(m)
    /\ UNCHANGED <<inbox, files, recent, cooling, pc, upto, turn, given, alerts, faults, mishaps>>

\* advance() up to _save_state: the pool is written first.  A state file that
\* cannot be read reads as empty, for every sender.
Turn(m, state, pop) ==
    LET s == Sender(m)
        next == Turned(state[s], inbox[m].word, pop.taken)
        saves == Saves(state[s], inbox[m].word, pop.taken)
    IN  /\ pool' = pop.left
        /\ turn' = [recs |-> IF saves THEN [state EXCEPT ![s] = next] ELSE None,
                    codes |-> IF next.step = "complete" THEN next.codes ELSE {}]
        /\ pc' = IF saves THEN "store" ELSE "reply"

Handle(m) ==
    /\ pc = "scan" /\ IsNext(m) /\ Sender(m) # None /\ ~OverLimit(Sender(m))
    /\ dirty' = TRUE /\ at' = m
    /\ recent' = [recent EXCEPT ![Sender(m)] = @ + 1]
    /\ \E unreadable \in BOOLEAN :
          LET state == IF unreadable THEN [s \in Senders |-> None] ELSE recs
              pops == Pops(state[Sender(m)], inbox[m].word)
          IN  \/ /\ IF unreadable THEN Fault("state") ELSE UNCHANGED <<faults, mishaps>>
                 /\ Turn(m, state, IF pops THEN PopCodes(pool) ELSE NoCodes(pool))
              \/ /\ pops /\ ~unreadable /\ Fault("pool")
                 /\ Turn(m, state, NoCodes(pool))
    /\ alerts' = IF Len(pool.codes) >= Low /\ Len(pool'.codes) < Low THEN 0 ELSE alerts
    /\ UNCHANGED <<inbox, saved, recs, minted, seen, cooling, upto, settled, given>>

\* _save_state, which swallows its failure.
SaveState ==
    /\ pc = "store" /\ pc' = "reply"
    /\ \/ recs' = turn.recs /\ UNCHANGED <<faults, mishaps>>
       \/ Fault("state") /\ UNCHANGED recs
    /\ turn' = [turn EXCEPT !.recs = None]
    /\ UNCHANGED <<inbox, saved, pool, minted, seen, recent, cooling, upto, at, dirty,
                   settled, given, alerts>>

\* The relay has the reply.
Arrives == given' = [given EXCEPT ![Sender(at)] = @ \cup turn.codes] /\ Settle(at)

Delivered ==
    /\ pc = "reply" /\ pc' = "scan" /\ turn' = Idle
    /\ Arrives /\ Mark(at)
    /\ UNCHANGED <<inbox, files, recent, cooling, upto, at, dirty, alerts, faults, mishaps>>

\* The send raises, whether or not the relay took the reply.
Undelivered_Marks ==
    /\ pc = "reply" /\ pc' = "scan" /\ turn' = Idle
    /\ Arrives \/ UNCHANGED <<given, settled>>
    /\ Mark(at)
    /\ UNCHANGED <<inbox, files, recent, cooling, upto, at, dirty, alerts, faults, mishaps>>
Undelivered ==
    /\ pc = "reply" /\ pc' = "scan" /\ turn' = Idle
    /\ Arrives \/ UNCHANGED <<given, settled>>
    /\ dirty' = FALSE
    /\ UNCHANGED <<inbox, files, seen, recent, cooling, upto, at, alerts, faults, mishaps>>

\* TourHandler.tick: the pool remembers the alert before it is sent.  Where the
\* pool cannot be read or written nothing is said.
Tick ==
    /\ pc = "scan" /\ Unseen = {}
    /\ \/ LET low == CheckLowPool(pool)
          IN  /\ pool' = low.left
              /\ cooling' = (cooling \/ low.tells)
              /\ pc' = IF low.tells /\ ~cooling THEN "alert" ELSE "save"
              /\ UNCHANGED <<faults, mishaps>>
       \/ Fault("pool") /\ pc' = "save" /\ UNCHANGED <<pool, cooling>>
    /\ UNCHANGED <<inbox, saved, recs, minted, seen, recent, round, settled, given, alerts>>

Alert ==
    /\ pc = "alert" /\ pc' = "save"
    /\ alerts' = alerts + 1 \/ UNCHANGED alerts
    /\ UNCHANGED <<inbox, files, seen, recent, cooling, round, settled, given, faults, mishaps>>

\* _save_seen; a failed write may have emptied the file.
SaveSeen ==
    /\ pc = "save" /\ pc' = "idle"
    /\ IF ~dirty THEN UNCHANGED <<saved, faults, mishaps>>
       ELSE \/ saved' = seen /\ faults' = faults \ {"seen"} /\ UNCHANGED mishaps
            \/ saved' \in {saved, {}} /\ Fault("seen")
    /\ UNCHANGED <<inbox, recs, pool, minted, seen, recent, cooling, round, settled, given, alerts>>

-----------------------------------------------------------------------------
Crash ==
    /\ pc # "off" /\ mishaps < MaxMishaps
    /\ mishaps' = mishaps + 1
    /\ pc' = "off" /\ seen' = {} /\ recent' = [s \in Senders |-> 0] /\ cooling' = FALSE
    /\ upto' = 0 /\ at' = 0 /\ dirty' = FALSE /\ turn' = Idle
    /\ saved' \in IF pc = "save" /\ dirty THEN {saved, {}} ELSE {saved}
    /\ faults' = faults \ {"seen"}
    /\ UNCHANGED <<inbox, recs, pool, minted, settled, given, alerts>>

Start ==
    /\ pc = "off"
    /\ pc' = "idle" /\ seen' = saved
    /\ UNCHANGED <<inbox, files, recent, cooling, round, history>>

\* Between two polls, which is when it makes a difference.
Arrive ==
    /\ pc = "idle" /\ Len(inbox) < MaxMessages
    /\ \E s \in Senders \cup {None}, w \in Said :
          /\ s = None => w = "codes"
          /\ inbox' = Append(inbox, [from |-> s, word |-> w])
    /\ UNCHANGED <<files, seen, recent, cooling, pc, round, history>>

\* The operator adds a code.
TopUp ==
    /\ pc \in {"idle", "scan", "alert"} /\ minted < MaxCodes
    /\ minted' = minted + 1
    /\ pool' = [pool EXCEPT !.codes = Append(@, minted')]
    /\ UNCHANGED <<inbox, saved, recs, seen, recent, cooling, pc, round, history>>

\* The limiter's window moves on, and the cooldown ends, while the loop sleeps.
Elapse ==
    /\ pc = "idle"
    /\ \/ recent' \in {r \in [Senders -> 0 .. PerSender] : \A s \in Senders : r[s] <= recent[s]}
          /\ recent' # recent /\ UNCHANGED cooling
       \/ cooling /\ cooling' = FALSE /\ recent' = [s \in Senders |-> 0]
    /\ UNCHANGED <<inbox, files, seen, pc, round, history>>

Loop ==
    \/ Poll \/ SaveState \/ Tick \/ Alert \/ SaveSeen \/ Start
    \/ \E m \in 1 .. Len(inbox) : NotForUs(m) \/ Limited(m) \/ Handle(m)
    \/ Delivered \/ Undelivered

Next == Loop \/ Crash \/ Arrive \/ TopUp \/ Elapse

\* The loop goes on for ever, the supervisor starts it again, and the relay does
\* not refuse every reply.
Fairness == WF_vars(Loop) /\ \A m \in 1 .. MaxMessages : SF_vars(Delivered /\ at = m)

Spec == Init /\ [][Next]_vars /\ Fairness

-----------------------------------------------------------------------------
TypeOK ==
    /\ inbox \in Seq([from : Senders \cup {None}, word : Words])
    /\ saved \subseteq 1 .. Len(inbox) /\ seen \subseteq 1 .. Len(inbox)
    /\ minted \in Nat
    /\ recs \in [Senders -> {None} \cup Record(1 .. minted)]
    /\ pool \in [codes : Seq(1 .. minted), alerted : BOOLEAN]
    /\ recent \in [Senders -> 0 .. PerSender] /\ cooling \in BOOLEAN
    /\ pc \in {"off", "idle", "scan", "store", "reply", "alert", "save"}
    /\ upto \in 0 .. Len(inbox) /\ at \in 0 .. upto /\ dirty \in BOOLEAN
    /\ turn \in [recs : {None} \cup [Senders -> {None} \cup Record(1 .. minted)],
                 codes : SUBSET (1 .. minted)]
    /\ settled \subseteq 1 .. Len(inbox)
    /\ given \in [Senders -> SUBSET (1 .. minted)]
    /\ alerts \in Nat

\* An invite code is sent to one sender only, whatever dies, fails or is read
\* as empty (_pop_codes: the pool is written before the codes are shown).
CodesGoToOne == \A s, t \in Senders : s # t => given[s] \cap given[t] = {}

\* Every reply that carries codes carries the same ones, "never new ones"
\* (echo_tour.py:25-27), as long as the state file can be read and written.
SameCodesAgain ==
    "state" \notin faults => \A s \in Senders : given[s] # {} => recs[s] # None /\ given[s] = recs[s].codes

\* What is marked was answered, dropped by the limiter, or not for us: a reply
\* that was never sent does not count as done, in memory or on disk.
MarkedIsSettled == seen \cup saved \subseteq settled

\* Between rounds every mark is on disk, unless the store could not be written
\* or a message of the last round is still to be answered.
UnsavedIsExcused ==
    pc = "idle" /\ seen # saved => "seen" \in faults \/ \E m \in 1 .. upto : m \notin seen

\* The operator hears at most once of a pool that stays low, restarts and the
\* end of the cooldown included (check_low_pool: "exactly ONCE").
AlertedOnce == alerts <= 1

\* Every message the relay holds is answered in the end, or dropped on purpose.
EverySettled == \A m \in 1 .. MaxMessages : m <= Len(inbox) ~> m \in settled

=============================================================================
