----------------------------- MODULE SpendGuard -----------------------------
(***************************************************************************)
(* The client-side spend limits (src/src/xete_mcp/spendguard.py) together  *)
(* with the one way to give a recorded spend back, payment.py's            *)
(* _release_recorded_spend.                                                *)
(*                                                                         *)
(* Any number of tool calls, in any number of server processes, share one  *)
(* ledger file.  Each call is an attempt.  authorize() checks the limits   *)
(* and records the attempt under an exclusive flock; the caller then       *)
(* either goes on to submit its transaction or, when it dies before        *)
(* submitting, tries to take its own entry out again.  A process may be    *)
(* killed between any two steps, and the wall clock may be set forwards or *)
(* backwards at any time.                                                  *)
(*                                                                         *)
(* Amounts are lamports and times are seconds, both whole numbers.  The    *)
(* ledger's entries are a set: every detail string starts with a token     *)
(* drawn for that attempt, so no two entries are equal, and the order of   *)
(* the list only decides how _compact breaks ties, which is left open.     *)
(*                                                                         *)
(* An operator named X_Something is X with a mistake in it; it is used     *)
(* only to show which property the mistake would break.                    *)
(***************************************************************************)
EXTENDS Integers, FiniteSets, FiniteSetsExt

CONSTANTS
    Attempts,       \* the tool calls that may ask to spend
    NoOne,          \* the lock's holder when it is free
    Merged,         \* stands for the path "(compacted)" of a merged entry
    Callers,        \* the path labels that call authorize
    Quotes,         \* the amounts they may ask for
    MaxLamports,    \* XETE_SPEND_MAX_LAMPORTS
    WindowLamports, \* XETE_SPEND_WINDOW_LAMPORTS
    WindowSeconds,  \* XETE_SPEND_WINDOW_SECONDS
    Floor,          \* XETE_SPEND_FLOOR_LAMPORTS
    Slack,          \* _CLOCK_SLACK_SECONDS
    MaxEntries,     \* MAX_ENTRIES
    MaxClock        \* bound: the wall clock is 0 .. MaxClock

ASSUME NamesAssumption == NoOne \notin Attempts /\ Merged \notin Attempts
ASSUME QuotesAssumption == Quotes \subseteq Int
ASSUME LimitsAssumption ==
    /\ MaxLamports \in Nat /\ WindowLamports \in Nat /\ Floor \in Nat
    /\ WindowSeconds \in Nat \ {0} /\ Slack \in Nat
    /\ MaxEntries \in Nat \ {0, 1} /\ MaxClock \in Nat

VARIABLES
    clock,   \* time.time()
    ledger,  \* the file: last_ts and the entries
    lock,    \* the holder of the .lock file's flock
    pc,      \* where each attempt is
    caller,  \* the path label of each attempt
    quoted,  \* what it asked for
    charged, \* what authorize charges it: max(quoted, floor)
    snap,    \* the ledger as the attempt read it, under the lock
    now,     \* the effective_now it computed
    booked,  \* history: the attempts approved and not given back
    at,      \* history: the effective_now of each approval
    counted  \* history: the attempts on the books when each was approved

vars == <<clock, ledger, lock, pc, caller, quoted, charged, snap, now,
          booked, at, counted>>

-----------------------------------------------------------------------------
\* An entry stands for the attempts in covers: one, until _compact merges it.
Entry(tag, ts, lamports, covers) ==
    [tag |-> tag, ts |-> ts, lamports |-> lamports, covers |-> covers]

EmptyLedger == [lastTs |-> 0, entries |-> {}]

LamportsOf(e) == e.lamports
SpentBy(entries) == MapThenSumSet(LamportsOf, entries)
CoveredBy(entries) == UNION {e.covers : e \in entries}

Larger(x, y) == IF x >= y THEN x ELSE y

EffectiveNow_Unheld(lastTs) == clock
EffectiveNow(lastTs) == IF clock < lastTs - Slack THEN lastTs ELSE clock

Live_CutEarly(entries, t) == {e \in entries : e.ts > t - WindowSeconds + Slack}
Live(entries, t) == {e \in entries : e.ts > t - WindowSeconds}

\* The oldest entries, as many as must be merged to leave MaxEntries.
Oldest(entries) ==
    {M \in SUBSET entries :
        /\ Cardinality(M) = Cardinality(entries) - (MaxEntries - 1)
        /\ \A e \in M, k \in entries \ M : e.ts <= k.ts}

NewestOf(M) == {e \in M : \A x \in M : x.ts <= e.ts}

Compactions_NewestAmount(entries) ==
    IF Cardinality(entries) <= MaxEntries
    THEN {entries}
    ELSE UNION {{{Entry(Merged, e.ts, e.lamports, CoveredBy(M))} \cup (entries \ M)
                    : e \in NewestOf(M)} : M \in Oldest(entries)}

\* What _compact may return (sorted() leaves the order of equal times open).
Compactions(entries) ==
    IF Cardinality(entries) <= MaxEntries
    THEN {entries}
    ELSE UNION {{{Entry(Merged, e.ts, SpentBy(M), CoveredBy(M))} \cup (entries \ M)
                    : e \in NewestOf(M)} : M \in Oldest(entries)}

\* The refusals authorize makes before it looks at the ledger.
RefusedOutright(q) ==
    \/ q < 0
    \/ MaxLamports = 0
    \/ WindowLamports = 0
    \/ Floor > MaxLamports
    \/ Larger(q, Floor) > MaxLamports

-----------------------------------------------------------------------------
Init ==
    /\ clock \in 0 .. MaxClock
    /\ ledger = EmptyLedger
    /\ lock = NoOne
    /\ pc = [a \in Attempts |-> "idle"]
    /\ caller \in [Attempts -> Callers]
    /\ quoted \in [Attempts -> Quotes]
    /\ charged = [a \in Attempts |-> 0]
    /\ snap = [a \in Attempts |-> EmptyLedger]
    /\ now = [a \in Attempts |-> 0]
    /\ booked = {}
    /\ at = [a \in Attempts |-> 0]
    /\ counted = [a \in Attempts |-> {}]

request == <<caller, quoted>>
history == <<booked, at, counted>>

\* A reader's locals go out of scope with the call that read them.
Forget(a) ==
    /\ snap' = [snap EXCEPT ![a] = EmptyLedger]
    /\ now' = [now EXCEPT ![a] = 0]

Unlock_OnlyFromWrite(a) ==
    lock' = IF lock = a /\ pc[a] = "checked" THEN NoOne ELSE lock

\* A holder that leaves the with-block, or dies in it, frees the flock.
Unlock(a) == lock' = IF lock = a THEN NoOne ELSE lock

\* authorize, up to the lock.
Ask(a) ==
    /\ pc[a] = "idle"
    /\ charged' = [charged EXCEPT ![a] = Larger(quoted[a], Floor)]
    /\ pc' = [pc EXCEPT ![a] = IF RefusedOutright(quoted[a]) THEN "refused"
                                                              ELSE "waiting"]
    /\ UNCHANGED <<clock, ledger, lock, request, snap, now, history>>

\* authorize takes the lock, reads the ledger and the clock, and prunes.
OverWindow(a) ==
    SpentBy(Live(ledger.entries, EffectiveNow(ledger.lastTs))) + charged[a]
        > WindowLamports

RefuseWindow(a) ==
    /\ pc[a] = "waiting"
    /\ lock = NoOne
    /\ OverWindow(a)
    /\ pc' = [pc EXCEPT ![a] = "refused"]
    /\ UNCHANGED <<clock, ledger, lock, request, charged, snap, now, history>>

CheckWindow_NoLock(a) ==
    /\ pc[a] = "waiting"
    /\ ~OverWindow(a)
    /\ snap' = [snap EXCEPT ![a] = ledger]
    /\ now' = [now EXCEPT ![a] = EffectiveNow(ledger.lastTs)]
    /\ pc' = [pc EXCEPT ![a] = "checked"]
    /\ UNCHANGED <<clock, ledger, lock, request, charged, history>>

CheckWindow(a) ==
    /\ pc[a] = "waiting"
    /\ lock = NoOne
    /\ ~OverWindow(a)
    /\ lock' = a
    /\ snap' = [snap EXCEPT ![a] = ledger]
    /\ now' = [now EXCEPT ![a] = EffectiveNow(ledger.lastTs)]
    /\ pc' = [pc EXCEPT ![a] = "checked"]
    /\ UNCHANGED <<clock, ledger, request, charged, history>>

\* _write_ledger replaces the file by rename, and authorize returns.
Record(a) ==
    /\ pc[a] = "checked"
    /\ LET live == Live(snap[a].entries, now[a])
           mine == Entry(a, now[a], charged[a], {a})
       IN  /\ \E kept \in Compactions(live \cup {mine}) :
                 ledger' = [lastTs |-> Larger(now[a], snap[a].lastTs),
                            entries |-> kept]
           /\ counted' = [counted EXCEPT ![a] = CoveredBy(live)]
    /\ booked' = booked \cup {a}
    /\ at' = [at EXCEPT ![a] = now[a]]
    /\ pc' = [pc EXCEPT ![a] = "approved"]
    /\ Unlock(a)
    /\ Forget(a)
    /\ UNCHANGED <<clock, request, charged>>

\* The lock, the read or the write fails: the spend is refused, and a write
\* that fails has replaced nothing.
RefuseUnavailable(a) ==
    /\ pc[a] \in {"waiting", "checked"}
    /\ pc' = [pc EXCEPT ![a] = "refused"]
    /\ Unlock(a)
    /\ Forget(a)
    /\ UNCHANGED <<clock, ledger, request, charged, history>>

-----------------------------------------------------------------------------
\* The caller reaches its submit call: from here it never releases.
Submit(a) ==
    /\ pc[a] = "approved"
    /\ pc' = [pc EXCEPT ![a] = "submitted"]
    /\ UNCHANGED <<clock, ledger, lock, request, charged, snap, now, history>>

\* The caller dies before submitting, and calls _release_recorded_spend.
FailBeforeSubmit(a) ==
    /\ pc[a] = "approved"
    /\ pc' = [pc EXCEPT ![a] = "releasing"]
    /\ UNCHANGED <<clock, ledger, lock, request, charged, snap, now, history>>

ReleaseAmount_Quoted(a) == quoted[a]

\* The amount each caller passes: pay_herd passes what was charged, deposit
\* and the alias claim pass what they asked for.
ReleaseAmount(a) ==
    IF caller[a] = "xete_send_message" THEN charged[a] ELSE quoted[a]

Mine_AnyToken(a, entries) ==
    {e \in entries : e.tag # Merged /\ e.lamports = ReleaseAmount(a)}

\* Tokens are unique, so at most one entry matches path, detail and amount.
Mine(a, entries) == {e \in entries : e.tag = a /\ e.lamports = ReleaseAmount(a)}

ReleaseRead(a) ==
    /\ pc[a] = "releasing"
    /\ lock = NoOne
    /\ lock' = a
    /\ snap' = [snap EXCEPT ![a] = ledger]
    /\ pc' = [pc EXCEPT ![a] = "erasing"]
    /\ UNCHANGED <<clock, ledger, request, charged, now, history>>

\* last_ts is written back as it was read.
ReleaseWrite(a) ==
    /\ pc[a] = "erasing"
    /\ LET mine == Mine(a, snap[a].entries)
       IN  IF mine = {}
           THEN UNCHANGED <<ledger, booked>>
           ELSE /\ ledger' = [lastTs |-> snap[a].lastTs,
                             entries |-> snap[a].entries \ mine]
                /\ booked' = booked \ {a}
    /\ pc' = [pc EXCEPT ![a] = "released"]
    /\ Unlock(a)
    /\ Forget(a)
    /\ UNCHANGED <<clock, request, charged, at, counted>>

\* Every failure inside the release is swallowed: the entry stays counted.
ReleaseSwallowed(a) ==
    /\ pc[a] \in {"releasing", "erasing"}
    /\ pc' = [pc EXCEPT ![a] = "kept"]
    /\ Unlock(a)
    /\ Forget(a)
    /\ UNCHANGED <<clock, ledger, request, charged, history>>

-----------------------------------------------------------------------------
\* The process is killed; the kernel drops its flock and nothing is undone.
Crash(a) ==
    /\ pc[a] \in {"waiting", "checked", "approved", "releasing", "erasing"}
    /\ pc' = [pc EXCEPT ![a] = "crashed"]
    /\ Unlock(a)
    /\ Forget(a)
    /\ UNCHANGED <<clock, ledger, request, charged, history>>

\* Time passes, NTP corrects it, or somebody sets the clock.
SetClock ==
    /\ clock' \in 0 .. MaxClock
    /\ UNCHANGED <<ledger, lock, pc, request, charged, snap, now, history>>

Authorize(a) ==
    Ask(a) \/ RefuseWindow(a) \/ CheckWindow(a) \/ Record(a) \/ RefuseUnavailable(a)

Release(a) == ReleaseRead(a) \/ ReleaseWrite(a) \/ ReleaseSwallowed(a)

Step(a) == Authorize(a) \/ Submit(a) \/ FailBeforeSubmit(a) \/ Release(a)

Next ==
    \/ \E a \in Attempts : Step(a) \/ Crash(a)
    \/ SetClock

Spec == Init /\ [][Next]_vars

\* A live process takes a free lock and leaves the block it guards; a dead one's
\* lock is free.  Nothing is assumed of failures, crashes, the clock, or of who
\* gets the lock first.
FairSpec ==
    /\ Spec
    /\ \A a \in Attempts :
          /\ WF_vars(RefuseWindow(a) \/ CheckWindow(a) \/ Record(a))
          /\ WF_vars(ReleaseRead(a) \/ ReleaseWrite(a))

-----------------------------------------------------------------------------
(***************************************************************************)
(* Properties.                                                             *)
(***************************************************************************)
States == {"idle", "waiting", "refused", "checked", "approved", "submitted",
           "releasing", "erasing", "released", "kept", "crashed"}

IsEntry(e) ==
    /\ e = Entry(e.tag, e.ts, e.lamports, e.covers)
    /\ e.tag \in Attempts \cup {Merged}
    /\ e.ts \in 0 .. MaxClock
    /\ e.covers \subseteq Attempts

IsLedger(l) ==
    /\ l = [lastTs |-> l.lastTs, entries |-> l.entries]
    /\ l.lastTs \in 0 .. MaxClock
    /\ \A e \in l.entries : IsEntry(e)

\* The type invariant: in particular every stamp is a time the clock has
\* shown.  That amounts are whole numbers is part of AmountsConserved.
TypeOK ==
    /\ clock \in 0 .. MaxClock
    /\ IsLedger(ledger)
    /\ lock \in Attempts \cup {NoOne}
    /\ pc \in [Attempts -> States]
    /\ caller \in [Attempts -> Callers]
    /\ quoted \in [Attempts -> Quotes]
    /\ charged \in [Attempts -> Int]
    /\ snap = [a \in Attempts |-> snap[a]]
    /\ \A a \in Attempts : IsLedger(snap[a])
    /\ now \in [Attempts -> 0 .. MaxClock]
    /\ booked \subseteq Attempts
    /\ at \in [Attempts -> 0 .. MaxClock]
    /\ counted \in [Attempts -> SUBSET Attempts]

ChargedTo(S) == MapThenSumSet(LAMBDA a : charged[a], S)

\* The promise of the module: whatever the clock does, and however many
\* processes ask at once, the approvals that were not given back and are
\* stamped within one window, less the slack a backwards clock is granted,
\* never add up to more than XETE_SPEND_WINDOW_LAMPORTS.
WindowCeiling ==
    \A t \in 0 .. MaxClock :
        ChargedTo({a \in booked : /\ at[a] <= t
                                  /\ at[a] > t - (WindowSeconds - Slack)})
            <= WindowLamports

\* No approval is lost while it can still matter: it has an entry on disk
\* that expires no sooner than it should, or the ledger has already seen a
\* time past its whole window.  Pruning, compaction, other attempts' releases,
\* failed writes and crashes all have to respect this.
NothingForgotten ==
    \A a \in booked :
        \/ \E e \in ledger.entries : a \in e.covers /\ e.ts >= at[a]
        \/ at[a] <= ledger.lastTs - WindowSeconds

\* Of any two standing approvals stamped closer than a window less the slack,
\* the later was decided with the earlier one's entry in front of it: two
\* calls cannot both pass a check only one of them should pass.
LaterCountsEarlier ==
    \A a, b \in booked :
        \/ a = b
        \/ at[a] - at[b] >= WindowSeconds - Slack
        \/ at[b] - at[a] >= WindowSeconds - Slack
        \/ a \in counted[b]
        \/ b \in counted[a]

\* The inductive invariant behind the two properties above: the lock really
\* excludes, so what a holder read is what it will overwrite, and an entry
\* that still carries an attempt's token stands for that attempt alone.
LockExcludes ==
    \A a \in Attempts : pc[a] \in {"checked", "erasing"} => lock = a

SnapshotCurrent ==
    \A a \in Attempts :
        /\ pc[a] \in {"checked", "erasing"} => snap[a] = ledger
        /\ pc[a] = "checked" => now[a] >= ledger.lastTs - Slack

TokensOwnEntries ==
    \A e \in ledger.entries : e.tag \in Attempts => e.covers = {e.tag}

BooksInv ==
    /\ TypeOK
    /\ LockExcludes
    /\ SnapshotCurrent
    /\ TokensOwnEntries
    /\ NothingForgotten
    /\ LaterCountsEarlier

\* Compaction neither loses nor invents money: each entry carries exactly the
\* charges of the attempts it stands for, and no attempt is in two entries.
AmountsConserved ==
    /\ \A e \in ledger.entries : e.lamports = ChargedTo(e.covers)
    /\ \A e, f \in ledger.entries : e.covers \cap f.covers # {} => e = f

\* The callers whose release names the amount that was recorded: a message
\* payment always, the others when they asked for no less than the floor.
NamesItsCharge(a) == caller[a] = "xete_send_message" \/ quoted[a] >= Floor

\* Such a call that died before it submitted, and whose release ran to the end,
\* is counted by no entry any more, but for one that compaction had merged it
\* into before: that charge can no longer be told apart, and stays.
RefundLeavesNothing ==
    \A a \in Attempts :
        pc[a] = "released" /\ NamesItsCharge(a)
            => \A e \in ledger.entries : a \in e.covers => e.tag = Merged

\* What the money rests on: only an attempt that has been approved is on the
\* books, what it was charged no longer changes, and the sum a holder of the
\* lock checked is still the sum on disk when it records.
Undecided == {"idle", "waiting", "refused", "checked"}

ChargedAsAsked ==
    \A a \in Attempts :
        charged[a] = IF pc[a] = "idle" THEN 0 ELSE Larger(quoted[a], Floor)

OnlyApproved ==
    \A a \in booked \cup CoveredBy(ledger.entries) : pc[a] \notin Undecided

FiniteBooks ==
    /\ IsFiniteSet(booked)
    /\ IsFiniteSet(ledger.entries)
    /\ \A e \in ledger.entries : IsFiniteSet(e.covers)

CheckedFits ==
    \A a \in Attempts :
        pc[a] = "checked"
            => SpentBy(Live(ledger.entries, now[a])) + charged[a] <= WindowLamports

OwnEntryGone ==
    \A a \in Attempts :
        pc[a] = "released" /\ NamesItsCharge(a)
            => \A e \in ledger.entries : e.tag # a

MoneyInv ==
    /\ ChargedAsAsked
    /\ OnlyApproved
    /\ FiniteBooks
    /\ CheckedFits
    /\ AmountsConserved
    /\ WindowCeiling
    /\ OwnEntryGone

\* A standing charge leaves the books in two ways only: its own call takes it
\* back, or it has aged out of the window.  No other call's release, prune or
\* overwrite may remove it.
OnlyOwnerOrAge ==
    [][\A a \in booked :
            /\ a \in CoveredBy(ledger.entries)
            /\ a \notin CoveredBy(ledger'.entries)
            => \/ pc[a] = "erasing"
               \/ at[a] <= ledger'.lastTs - WindowSeconds]_vars

\* The ledger, the lock and the clock rule together implement the ceiling.
Promise == INSTANCE SpendCeiling WITH
    Amounts <- {Larger(q, Floor) : q \in Quotes},
    Times <- 0 .. MaxClock,
    Ceiling <- WindowLamports,
    Horizon <- WindowSeconds - Slack,
    amount <- charged

ImplementsCeiling == Promise!CeilingSpec

\* A call that waits for the lock is answered, whatever its holder does.
CallsAnswered ==
    \A a \in Attempts : (pc[a] = "waiting") ~> (pc[a] # "waiting")

=============================================================================
