-------------------------- MODULE SpendGuardProofs --------------------------
(***************************************************************************)
(* Proofs about SpendGuard for any number of calls, any limits and any     *)
(* clock.  BooksInv says which charges a check has in front of it, with no *)
(* sum in it; MoneyInv says what they add up to, and rests on BooksInv and *)
(* on the laws of Sums.  From both follows that the module implements      *)
(* SpendCeiling.                                                           *)
(***************************************************************************)
EXTENDS SpendGuard, Sums

\* Both clocks' maxima stay within the clock's range.
LEMMA TimesInRange ==
    ASSUME TypeOK
    PROVE  /\ EffectiveNow(ledger.lastTs) \in 0 .. MaxClock
           /\ EffectiveNow(ledger.lastTs) >= ledger.lastTs - Slack
BY LimitsAssumption DEF TypeOK, IsLedger, EffectiveNow

LEMMA LargerIsMax ==
    ASSUME NEW x \in Int, NEW y \in Int
    PROVE  /\ Larger(x, y) >= x
           /\ Larger(x, y) >= y
           /\ Larger(x, y) \in {x, y}
BY DEF Larger

\* What _compact returns: well-formed entries, in which a token still means
\* its own attempt, and every attempt covered before is covered until at
\* least the time it was covered until.
LEMMA CompactionKeepsCover ==
    ASSUME NEW E, \A e \in E : IsEntry(e),
           \A e \in E : e.tag \in Attempts => e.covers = {e.tag},
           NEW kept \in Compactions(E)
    PROVE  /\ \A k \in kept : IsEntry(k)
           /\ \A k \in kept : k.tag \in Attempts => k.covers = {k.tag}
           /\ \A e \in E : \A a \in e.covers :
                 \E k \in kept : a \in k.covers /\ k.ts >= e.ts
<1>1. CASE Cardinality(E) <= MaxEntries
  <2>1. kept = E
    BY <1>1 DEF Compactions
  <2>2. \A e \in E : e.ts >= e.ts
    BY DEF IsEntry
  <2>3. QED
    BY <2>1, <2>2
<1>2. CASE ~(Cardinality(E) <= MaxEntries)
  <2>a. PICK M \in Oldest(E) :
           kept \in {{Entry(Merged, e.ts, SpentBy(M), CoveredBy(M))} \cup (E \ M)
                        : e \in NewestOf(M)}
    BY <1>2 DEF Compactions
  <2>1. PICK n \in NewestOf(M) :
           kept = {Entry(Merged, n.ts, SpentBy(M), CoveredBy(M))} \cup (E \ M)
    BY <2>a
  <2>2. M \subseteq E /\ n \in M /\ \A x \in M : x.ts <= n.ts
    BY <2>1 DEF Oldest, NewestOf
  <2> DEFINE m == Entry(Merged, n.ts, SpentBy(M), CoveredBy(M))
  <2>3. m.tag = Merged /\ m.ts = n.ts /\ m.covers = CoveredBy(M)
        /\ m = Entry(m.tag, m.ts, m.lamports, m.covers)
    BY DEF Entry
  <2>4. CoveredBy(M) \subseteq Attempts
    BY <2>2 DEF CoveredBy, IsEntry
  <2>5. n.ts \in 0 .. MaxClock
    BY <2>2 DEF IsEntry
  <2>6. IsEntry(m)
    BY <2>3, <2>4, <2>5 DEF IsEntry
  <2>7. m.tag \notin Attempts
    BY <2>3, NamesAssumption
  <2>8. \A k \in kept : IsEntry(k) /\ (k.tag \in Attempts => k.covers = {k.tag})
    BY <2>1, <2>6, <2>7
  <2>9. ASSUME NEW e \in E, NEW a \in e.covers
        PROVE  \E k \in kept : a \in k.covers /\ k.ts >= e.ts
    <3>1. CASE e \in M
      <4>1. a \in m.covers
        BY <3>1, <2>3 DEF CoveredBy
      <4>2. m.ts >= e.ts
        BY <3>1, <2>2, <2>3, <2>5 DEF IsEntry
      <4>3. m \in kept
        BY <2>1
      <4>4. QED
        BY <4>1, <4>2, <4>3
    <3>2. CASE e \notin M
      <4>1. e \in kept /\ e.ts >= e.ts
        BY <3>2, <2>1 DEF IsEntry
      <4>2. QED
        BY <4>1
    <3>3. QED
      BY <3>1, <3>2
  <2>10. QED
    BY <2>8, <2>9
<1>3. QED
  BY <1>1, <1>2

LEMMA InitBooks == Init => BooksInv
<1> SUFFICES ASSUME Init
             PROVE  BooksInv
  OBVIOUS
<1>1. IsLedger(EmptyLedger)
  BY LimitsAssumption DEF IsLedger, EmptyLedger
<1>2. TypeOK
  BY <1>1, LimitsAssumption DEF Init, TypeOK, States
<1>3. LockExcludes /\ SnapshotCurrent /\ NothingForgotten /\ LaterCountsEarlier
  BY DEF Init, LockExcludes, SnapshotCurrent, NothingForgotten, LaterCountsEarlier
<1>4. TokensOwnEntries
  BY DEF Init, TokensOwnEntries, EmptyLedger
<1>5. QED
  BY <1>2, <1>3, <1>4 DEF BooksInv

-----------------------------------------------------------------------------
\* Steps that leave the ledger and the history alone, and move one attempt
\* between places where nothing is asked of its snapshot.
QuietMove(a) ==
    /\ pc' = [pc EXCEPT ![a] = pc'[a]]
    /\ pc'[a] \in States \ {"checked", "erasing"}
    /\ UNCHANGED <<clock, ledger, request, history>>
    /\ charged' \in [Attempts -> Int]
    /\ \/ UNCHANGED <<lock, snap, now>>
       \/ Unlock(a) /\ Forget(a)

LEMMA QuietKeepsBooks ==
    ASSUME BooksInv, NEW a \in Attempts, QuietMove(a)
    PROVE  BooksInv'
<1> USE DEF BooksInv
<1>1. IsLedger(EmptyLedger) /\ 0 \in 0 .. MaxClock
  BY LimitsAssumption DEF IsLedger, EmptyLedger
<1>2. TypeOK'
  <2>1. pc' \in [Attempts -> States]
    BY DEF TypeOK, QuietMove
  <2>2. CASE UNCHANGED <<lock, snap, now>>
    BY <2>1, <2>2 DEF TypeOK, QuietMove, request, history, IsLedger
  <2>3. CASE Unlock(a) /\ Forget(a)
    <3>1. lock' \in Attempts \cup {NoOne}
      BY <2>3 DEF TypeOK, Unlock
    <3>2. snap' = [b \in Attempts |-> snap'[b]] /\ \A b \in Attempts : IsLedger(snap'[b])
      BY <1>1, <2>3 DEF TypeOK, Forget
    <3>3. now' \in [Attempts -> 0 .. MaxClock]
      BY <1>1, <2>3 DEF TypeOK, Forget
    <3>4. IsLedger(ledger')
      BY DEF TypeOK, QuietMove
    <3>5. QED
      BY <2>1, <3>1, <3>2, <3>3, <3>4 DEF TypeOK, QuietMove, request, history, IsLedger
  <2>4. QED
    BY <2>2, <2>3 DEF QuietMove
<1>3. LockExcludes'
  BY DEF TypeOK, LockExcludes, QuietMove, Unlock, Forget
<1>4. SnapshotCurrent'
  BY DEF TypeOK, SnapshotCurrent, QuietMove, Unlock, Forget
<1>5. TokensOwnEntries' /\ NothingForgotten' /\ LaterCountsEarlier'
  BY DEF TokensOwnEntries, NothingForgotten, LaterCountsEarlier, QuietMove, history
<1>6. QED
  BY <1>2, <1>3, <1>4, <1>5

LEMMA QuietSteps ==
    ASSUME BooksInv, NEW a \in Attempts,
           \/ Ask(a) \/ RefuseWindow(a) \/ RefuseUnavailable(a) \/ Submit(a)
           \/ FailBeforeSubmit(a) \/ ReleaseSwallowed(a) \/ Crash(a)
    PROVE  QuietMove(a)
<1> USE DEF BooksInv, TypeOK
<1>1. CASE Ask(a)
  <2>1. Larger(quoted[a], Floor) \in Int
    BY QuotesAssumption, LimitsAssumption, LargerIsMax
  <2>2. QED
    BY <1>1, <2>1 DEF Ask, QuietMove, States
<1>2. CASE RefuseWindow(a)
  BY <1>2 DEF RefuseWindow, QuietMove, States
<1>3. CASE RefuseUnavailable(a)
  BY <1>3 DEF RefuseUnavailable, QuietMove, States
<1>4. CASE Submit(a)
  BY <1>4 DEF Submit, QuietMove, States
<1>5. CASE FailBeforeSubmit(a)
  BY <1>5 DEF FailBeforeSubmit, QuietMove, States
<1>6. CASE ReleaseSwallowed(a)
  BY <1>6 DEF ReleaseSwallowed, QuietMove, States
<1>7. CASE Crash(a)
  BY <1>7 DEF Crash, QuietMove, States
<1>8. QED
  BY <1>1, <1>2, <1>3, <1>4, <1>5, <1>6, <1>7
-----------------------------------------------------------------------------
\* A step that takes the lock and reads the ledger.
LEMMA ReadKeepsBooks ==
    ASSUME BooksInv, NEW a \in Attempts, CheckWindow(a) \/ ReleaseRead(a)
    PROVE  BooksInv'
<1> USE DEF BooksInv
<1>1. /\ lock = NoOne /\ lock' = a
      /\ snap' = [snap EXCEPT ![a] = ledger]
      /\ now' = [now EXCEPT ![a] = now'[a]] /\ now'[a] \in 0 .. MaxClock
      /\ pc' = [pc EXCEPT ![a] = pc'[a]] /\ pc'[a] \in {"checked", "erasing"}
      /\ pc'[a] = "checked" => now'[a] >= ledger.lastTs - Slack
      /\ UNCHANGED <<clock, ledger, request, charged, history>>
  <2>1. CASE CheckWindow(a)
    BY <2>1, TimesInRange DEF TypeOK, CheckWindow
  <2>2. CASE ReleaseRead(a)
    BY <2>2 DEF TypeOK, ReleaseRead
  <2>3. QED
    BY <2>1, <2>2
<1>2. \A b \in Attempts : pc[b] \notin {"checked", "erasing"}
  BY <1>1, NamesAssumption DEF LockExcludes
<1>3. TypeOK'
  <2>1. pc' \in [Attempts -> States]
    BY <1>1 DEF TypeOK, States
  <2>2. snap' = [b \in Attempts |-> snap'[b]] /\ \A b \in Attempts : IsLedger(snap'[b])
    BY <1>1 DEF TypeOK
  <2>3. now' \in [Attempts -> 0 .. MaxClock]
    BY <1>1 DEF TypeOK
  <2>4. IsLedger(ledger')
    BY <1>1 DEF TypeOK
  <2>5. QED
    BY <1>1, <2>1, <2>2, <2>3, <2>4 DEF TypeOK, request, history, IsLedger
<1>4. LockExcludes'
  BY <1>1, <1>2 DEF TypeOK, LockExcludes
<1>5. SnapshotCurrent'
  BY <1>1, <1>2 DEF TypeOK, SnapshotCurrent
<1>6. TokensOwnEntries' /\ NothingForgotten' /\ LaterCountsEarlier'
  BY <1>1 DEF TokensOwnEntries, NothingForgotten, LaterCountsEarlier, history
<1>7. QED
  BY <1>3, <1>4, <1>5, <1>6

\* A step of the lock's holder that writes the ledger and lets go.
LEMMA WriterLeaves ==
    ASSUME BooksInv, NEW a \in Attempts, Record(a) \/ ReleaseWrite(a)
    PROVE  /\ \A b \in Attempts : pc[b] \in {"checked", "erasing"} <=> b = a
           /\ \A b \in Attempts : pc'[b] \notin {"checked", "erasing"}
           /\ snap[a] = ledger
           /\ pc' \in [Attempts -> States]
           /\ lock' \in Attempts \cup {NoOne}
           /\ snap' = [b \in Attempts |-> snap'[b]]
           /\ \A b \in Attempts : IsLedger(snap'[b])
           /\ now' \in [Attempts -> 0 .. MaxClock]
<1> USE DEF BooksInv
<1>1. /\ pc[a] \in {"checked", "erasing"}
      /\ pc' = [pc EXCEPT ![a] = pc'[a]] /\ pc'[a] \in {"approved", "released"}
      /\ Unlock(a) /\ Forget(a)
  BY DEF Record, ReleaseWrite, TypeOK
<1>2. \A b \in Attempts : pc[b] \in {"checked", "erasing"} <=> b = a
  BY <1>1 DEF LockExcludes
<1>3. IsLedger(EmptyLedger) /\ 0 \in 0 .. MaxClock
  BY LimitsAssumption DEF IsLedger, EmptyLedger
<1>4. pc' \in [Attempts -> States] /\ \A b \in Attempts : pc'[b] \notin {"checked", "erasing"}
  BY <1>1, <1>2 DEF TypeOK, States
<1>5. snap[a] = ledger
  BY <1>1 DEF SnapshotCurrent
<1>6. lock' \in Attempts \cup {NoOne}
  BY <1>1 DEF TypeOK, Unlock
<1>7. snap' = [b \in Attempts |-> snap'[b]] /\ \A b \in Attempts : IsLedger(snap'[b])
  BY <1>1, <1>3 DEF TypeOK, Forget
<1>8. now' \in [Attempts -> 0 .. MaxClock]
  BY <1>1, <1>3 DEF TypeOK, Forget
<1>9. QED
  BY <1>2, <1>4, <1>5, <1>6, <1>7, <1>8

\* Of every standing charge, the holder of the lock sees an entry that lasts
\* long enough, or the charge has left the window.
LEMMA StandingIsSeen ==
    ASSUME BooksInv, NEW a \in Attempts, pc[a] = "checked", NEW b \in booked
    PROVE  \/ b \in CoveredBy(Live(ledger.entries, now[a]))
           \/ now[a] - at[b] >= WindowSeconds - Slack
<1> SUFFICES ASSUME b \notin CoveredBy(Live(ledger.entries, now[a]))
             PROVE  now[a] - at[b] >= WindowSeconds - Slack
  OBVIOUS
<1>1. /\ now[a] \in Int /\ at[b] \in Int /\ ledger.lastTs \in Int
      /\ now[a] >= ledger.lastTs - Slack
      /\ \A e \in ledger.entries : e.ts \in Int
  BY DEF BooksInv, TypeOK, IsLedger, IsEntry, SnapshotCurrent
<1>2. CASE \E e \in ledger.entries : b \in e.covers /\ e.ts >= at[b]
  <2>1. PICK e \in ledger.entries : b \in e.covers /\ e.ts >= at[b]
    BY <1>2
  <2>2. ~(e.ts > now[a] - WindowSeconds)
    BY <2>1 DEF CoveredBy, Live
  <2>3. QED
    BY <1>1, <2>1, <2>2, LimitsAssumption
<1>3. CASE at[b] <= ledger.lastTs - WindowSeconds
  BY <1>1, <1>3, LimitsAssumption
<1>4. QED
  BY <1>2, <1>3 DEF BooksInv, NothingForgotten

\* Recording an approval.  What stands before it is either in front of it, and
\* so kept and counted, or has left the window; and a time that has left the
\* window of this attempt is at least a window less the slack older than it.
LEMMA RecordKeepsBooks ==
    ASSUME BooksInv, NEW a \in Attempts, Record(a)
    PROVE  BooksInv'
<1> USE DEF BooksInv
<1> DEFINE n == now[a]
           live == Live(ledger.entries, n)
           mine == Entry(a, n, charged[a], {a})
<1>1. snap[a] = ledger /\ n \in 0 .. MaxClock /\ n >= ledger.lastTs - Slack
  BY WriterLeaves DEF TypeOK, SnapshotCurrent, Record
<1>2. IsLedger(ledger) /\ ledger.lastTs \in 0 .. MaxClock
      /\ (\A e \in ledger.entries : IsEntry(e)) /\ at \in [Attempts -> 0 .. MaxClock]
  BY DEF TypeOK, IsLedger
<1>3. PICK kept \in Compactions(live \cup {mine}) :
         ledger' = [lastTs |-> Larger(n, ledger.lastTs), entries |-> kept]
  BY <1>1 DEF Record
<1>4. /\ counted' = [counted EXCEPT ![a] = CoveredBy(live)]
      /\ booked' = booked \cup {a}
      /\ at' = [at EXCEPT ![a] = n]
      /\ UNCHANGED <<clock, request, charged>>
  BY <1>1 DEF Record
<1>5. mine.tag = a /\ mine.ts = n /\ mine.covers = {a} /\ IsEntry(mine)
  BY <1>1 DEF Entry, IsEntry
<1>6. live \subseteq ledger.entries /\ \A e \in ledger.entries \ live : e.ts <= n - WindowSeconds
  BY <1>1, <1>2, LimitsAssumption DEF Live, IsEntry
<1>7. /\ \A k \in kept : IsEntry(k)
      /\ \A k \in kept : k.tag \in Attempts => k.covers = {k.tag}
      /\ \A e \in live \cup {mine} : \A b \in e.covers :
            \E k \in kept : b \in k.covers /\ k.ts >= e.ts
  <2>1. \A e \in live \cup {mine} : IsEntry(e) /\ (e.tag \in Attempts => e.covers = {e.tag})
    BY <1>2, <1>5, <1>6 DEF TokensOwnEntries
  <2> DEFINE E == live \cup {mine}
  <2>2. /\ \A e \in E : IsEntry(e)
        /\ \A e \in E : e.tag \in Attempts => e.covers = {e.tag}
        /\ kept \in Compactions(E)
    BY <2>1
  <2> HIDE DEF E
  <2>3. /\ \A k \in kept : IsEntry(k)
        /\ \A k \in kept : k.tag \in Attempts => k.covers = {k.tag}
        /\ \A e \in E : \A b \in e.covers :
              \E k \in kept : b \in k.covers /\ k.ts >= e.ts
    BY <2>2, CompactionKeepsCover, Zenon
  <2>4. QED
    BY <2>3 DEF E
<1>8. /\ ledger'.lastTs \in 0 .. MaxClock /\ ledger'.lastTs >= n
      /\ ledger'.lastTs >= ledger.lastTs /\ ledger'.entries = kept
  BY <1>1, <1>2, <1>3 DEF Larger
<1>9. TypeOK'
  <2>1. IsLedger(ledger')
    BY <1>3, <1>7, <1>8 DEF IsLedger
  <2>2. CoveredBy(live) \subseteq Attempts
    BY <1>2, <1>6 DEF CoveredBy, IsEntry
  <2>3. counted' \in [Attempts -> SUBSET Attempts] /\ at' \in [Attempts -> 0 .. MaxClock]
    BY <1>1, <1>4, <2>2 DEF TypeOK
  <2>4. booked' \subseteq Attempts
    BY <1>4 DEF TypeOK
  <2>5. /\ pc' \in [Attempts -> States]
        /\ lock' \in Attempts \cup {NoOne}
        /\ snap' = [b \in Attempts |-> snap'[b]]
        /\ \A b \in Attempts : IsLedger(snap'[b])
        /\ now' \in [Attempts -> 0 .. MaxClock]
    BY WriterLeaves
  <2>6. QED
    BY <1>4, <2>1, <2>3, <2>4, <2>5 DEF TypeOK, request, IsLedger
<1>10. LockExcludes' /\ SnapshotCurrent'
  BY WriterLeaves DEF LockExcludes, SnapshotCurrent
<1>11. TokensOwnEntries'
  BY <1>7, <1>8 DEF TokensOwnEntries
<1>12. \A b \in booked : b # a =>
          \/ \E e \in live : b \in e.covers /\ e.ts >= at[b]
          \/ at[b] <= n - WindowSeconds
          \/ at[b] <= ledger.lastTs - WindowSeconds
  <2> SUFFICES ASSUME NEW b \in booked, b # a,
                      ~(at[b] <= ledger.lastTs - WindowSeconds)
               PROVE  \/ \E e \in live : b \in e.covers /\ e.ts >= at[b]
                      \/ at[b] <= n - WindowSeconds
    OBVIOUS
  <2>1. PICK e \in ledger.entries : b \in e.covers /\ e.ts >= at[b]
    BY DEF NothingForgotten
  <2>2. CASE e \in live
    BY <2>1, <2>2
  <2>3. CASE e \notin live
    <3>1. at[b] \in Int /\ e.ts \in Int /\ e.ts <= n - WindowSeconds
      BY <1>2, <1>6, <2>3 DEF IsEntry, TypeOK
    <3>2. QED
      BY <2>1, <3>1, <1>1, LimitsAssumption
  <2>4. QED
    BY <2>2, <2>3
<1>13. NothingForgotten'
  <2> SUFFICES ASSUME NEW b \in booked'
               PROVE  \/ \E k \in kept : b \in k.covers /\ k.ts >= at'[b]
                      \/ at'[b] <= ledger'.lastTs - WindowSeconds
    BY <1>8 DEF NothingForgotten
  <2>1. CASE b = a
    <3>1. at'[b] = n
      BY <2>1, <1>4 DEF TypeOK
    <3>2. \E k \in kept : a \in k.covers /\ k.ts >= mine.ts
      BY <1>5, <1>7
    <3>3. QED
      BY <2>1, <3>1, <3>2, <1>5
  <2>2. CASE b # a
    <3>1. b \in booked /\ b \in Attempts /\ at'[b] = at[b] /\ at[b] \in Int
      BY <2>2, <1>4 DEF TypeOK
    <3>2. CASE \E e \in live : b \in e.covers /\ e.ts >= at[b]
      <4>1. PICK e \in live : b \in e.covers /\ e.ts >= at[b]
        BY <3>2
      <4>2. PICK k \in kept : b \in k.covers /\ k.ts >= e.ts
        BY <4>1, <1>7
      <4>3. k.ts \in Int /\ e.ts \in Int
        BY <1>2, <1>6, <1>7 DEF IsEntry
      <4>4. QED
        BY <3>1, <4>1, <4>2, <4>3
    <3>3. CASE at[b] <= n - WindowSeconds \/ at[b] <= ledger.lastTs - WindowSeconds
      BY <3>1, <3>3, <1>1, <1>2, <1>8, LimitsAssumption
    <3>4. QED
      BY <2>2, <3>1, <3>2, <3>3, <1>12
  <2>3. QED
    BY <2>1, <2>2
<1>14. \A b \in booked : b # a =>
          \/ b \in CoveredBy(live)
          \/ n - at[b] >= WindowSeconds - Slack
  BY StandingIsSeen DEF Record
<1>15. LaterCountsEarlier'
  <2> SUFFICES ASSUME NEW b \in booked', NEW c \in booked', b # c
               PROVE  \/ at'[b] - at'[c] >= WindowSeconds - Slack
                      \/ at'[c] - at'[b] >= WindowSeconds - Slack
                      \/ b \in counted'[c]
                      \/ c \in counted'[b]
    BY DEF LaterCountsEarlier
  <2>1. at'[a] = n /\ counted'[a] = CoveredBy(live)
    BY <1>4 DEF TypeOK
  <2>2. \A d \in booked' : d # a => d \in booked /\ at'[d] = at[d] /\ counted'[d] = counted[d]
    BY <1>4 DEF TypeOK
  <2>3. CASE b = a
    BY <2>1, <2>2, <2>3, <1>14
  <2>4. CASE c = a
    BY <2>1, <2>2, <2>4, <1>14
  <2>5. CASE b # a /\ c # a
    BY <2>2, <2>5 DEF LaterCountsEarlier
  <2>6. QED
    BY <2>3, <2>4, <2>5
<1>16. QED
  BY <1>9, <1>10, <1>11, <1>13, <1>15

\* Taking an entry back: it stands for the releasing attempt alone, so every
\* other attempt keeps the entry it had.
LEMMA ReleaseKeepsBooks ==
    ASSUME BooksInv, NEW a \in Attempts, ReleaseWrite(a)
    PROVE  BooksInv'
<1> USE DEF BooksInv
<1> DEFINE mine == Mine(a, ledger.entries)
<1>1. /\ UNCHANGED <<clock, request, charged, at, counted>>
      /\ \/ UNCHANGED <<ledger, booked>>
         \/ /\ ledger' = [lastTs |-> ledger.lastTs, entries |-> ledger.entries \ mine]
            /\ booked' = booked \ {a}
  BY WriterLeaves DEF ReleaseWrite
<1>2. /\ ledger'.lastTs = ledger.lastTs /\ ledger'.entries \subseteq ledger.entries
      /\ booked' \subseteq booked /\ IsLedger(ledger')
  BY <1>1 DEF TypeOK, IsLedger
<1>3. TypeOK'
  <2>1. /\ pc' \in [Attempts -> States]
        /\ lock' \in Attempts \cup {NoOne}
        /\ snap' = [b \in Attempts |-> snap'[b]]
        /\ \A b \in Attempts : IsLedger(snap'[b])
        /\ now' \in [Attempts -> 0 .. MaxClock]
    BY WriterLeaves
  <2>2. QED
    BY <1>1, <1>2, <2>1 DEF TypeOK, request, IsLedger
<1>4. LockExcludes' /\ SnapshotCurrent'
  BY WriterLeaves DEF LockExcludes, SnapshotCurrent
<1>5. TokensOwnEntries' /\ LaterCountsEarlier'
  BY <1>1, <1>2 DEF TokensOwnEntries, LaterCountsEarlier
<1>6. NothingForgotten'
  <2>1. CASE UNCHANGED <<ledger, booked>>
    BY <1>1, <2>1 DEF NothingForgotten
  <2>2. CASE /\ ledger' = [lastTs |-> ledger.lastTs, entries |-> ledger.entries \ mine]
             /\ booked' = booked \ {a}
    <3>1. \A e \in mine : e.covers = {a}
      BY DEF Mine, TokensOwnEntries
    <3>2. \A b \in booked' : \A e \in ledger.entries : b \in e.covers => e \in ledger'.entries
      BY <2>2, <3>1
    <3>3. QED
      BY <1>1, <1>2, <2>2, <3>2 DEF NothingForgotten
  <2>3. QED
    BY <1>1, <2>1, <2>2
<1>7. QED
  BY <1>3, <1>4, <1>5, <1>6

\* Whatever compaction does, a recorded approval is in the new file.
LEMMA RecordCovers ==
    ASSUME BooksInv, NEW a \in Attempts, Record(a)
    PROVE  a \in CoveredBy(ledger'.entries)
<1> DEFINE mine == Entry(a, now[a], charged[a], {a})
           E == Live(ledger.entries, now[a]) \cup {mine}
<1>1. snap[a] = ledger /\ now[a] \in 0 .. MaxClock
  BY WriterLeaves DEF BooksInv, TypeOK, Record
<1>2. PICK kept \in Compactions(E) : ledger'.entries = kept
  BY <1>1 DEF Record
<1>3. mine \in E /\ a \in mine.covers
  BY DEF Entry
<1>4. \A e \in E : IsEntry(e) /\ (e.tag \in Attempts => e.covers = {e.tag})
  <2>1. IsEntry(mine) /\ mine.tag = a /\ mine.covers = {a}
    BY <1>1 DEF Entry, IsEntry
  <2>2. \A e \in ledger.entries : IsEntry(e) /\ (e.tag \in Attempts => e.covers = {e.tag})
    BY DEF BooksInv, TypeOK, IsLedger, TokensOwnEntries
  <2>3. QED
    BY <2>1, <2>2 DEF Live
<1> HIDE DEF E, mine
<1>5. \A e \in E : \A b \in e.covers : \E k \in kept : b \in k.covers /\ k.ts >= e.ts
  BY <1>2, <1>4, CompactionKeepsCover, Zenon
<1>6. QED
  BY <1>2, <1>3, <1>5 DEF CoveredBy

LEMMA ClockKeepsBooks ==
    ASSUME BooksInv, SetClock \/ UNCHANGED vars
    PROVE  BooksInv'
<1> USE DEF BooksInv
<1>1. clock' \in 0 .. MaxClock /\ UNCHANGED <<ledger, lock, pc, request, charged, snap, now, history>>
  BY DEF SetClock, vars, TypeOK, request, history
<1>2. TypeOK'
  BY <1>1 DEF TypeOK, request, history, IsLedger
<1>3. LockExcludes' /\ SnapshotCurrent'
  BY <1>1 DEF LockExcludes, SnapshotCurrent
<1>4. TokensOwnEntries' /\ NothingForgotten' /\ LaterCountsEarlier'
  BY <1>1 DEF TokensOwnEntries, NothingForgotten, LaterCountsEarlier, history
<1>5. QED
  BY <1>2, <1>3, <1>4

LEMMA NextKeepsBooks == BooksInv /\ [Next]_vars => BooksInv'
<1> SUFFICES ASSUME BooksInv, [Next]_vars
             PROVE  BooksInv'
  OBVIOUS
<1>1. ASSUME NEW a \in Attempts, Step(a) \/ Crash(a)
      PROVE  BooksInv'
  <2>1. CASE \/ Ask(a) \/ RefuseWindow(a) \/ RefuseUnavailable(a) \/ Submit(a)
             \/ FailBeforeSubmit(a) \/ ReleaseSwallowed(a) \/ Crash(a)
    BY <2>1, QuietSteps, QuietKeepsBooks
  <2>2. CASE CheckWindow(a) \/ ReleaseRead(a)
    BY <2>2, ReadKeepsBooks
  <2>3. CASE Record(a)
    BY <2>3, RecordKeepsBooks
  <2>4. CASE ReleaseWrite(a)
    BY <2>4, ReleaseKeepsBooks
  <2>5. QED
    BY <1>1, <2>1, <2>2, <2>3, <2>4 DEF Step, Authorize, Release
<1>2. CASE SetClock \/ UNCHANGED vars
  BY <1>2, ClockKeepsBooks
<1>3. QED
  BY <1>1, <1>2 DEF Next

-----------------------------------------------------------------------------
\* The books are in order in every reachable state, for any number of calls
\* and processes, any limits, any slack and any behaviour of the clock.
THEOREM BooksAreKept == Spec => []BooksInv
<1>1. Init => BooksInv
  BY InitBooks
<1>2. BooksInv /\ [Next]_vars => BooksInv'
  BY NextKeepsBooks
<1>3. QED
  BY <1>1, <1>2, PTL DEF Spec

\* The variables of the model always have their types.
THEOREM TypeCorrect == Spec => []TypeOK
<1>1. BooksInv => TypeOK
  BY DEF BooksInv
<1>2. QED
  BY <1>1, BooksAreKept, PTL

\* A charge that was approved and not given back is in the file for as long as
\* it matters, whatever was pruned, merged, released, overwritten or crashed.
THEOREM NothingIsForgotten == Spec => []NothingForgotten
<1>1. BooksInv => NothingForgotten
  BY DEF BooksInv
<1>2. QED
  BY <1>1, BooksAreKept, PTL

\* Of two approvals close in time, the later one's check counted the earlier.
THEOREM ApprovalsAreSerial == Spec => []LaterCountsEarlier
<1>1. BooksInv => LaterCountsEarlier
  BY DEF BooksInv
<1>2. QED
  BY <1>1, BooksAreKept, PTL

\* No step but the owner's own release removes a charge still in the window.
THEOREM OthersKeepMyCharge == Spec => OnlyOwnerOrAge
<1> DEFINE Kept == \A a \in booked :
            /\ a \in CoveredBy(ledger.entries)
            /\ a \notin CoveredBy(ledger'.entries)
            => \/ pc[a] = "erasing"
               \/ at[a] <= ledger'.lastTs - WindowSeconds
<1>1. BooksInv /\ BooksInv' /\ [Next]_vars => Kept
  <2> SUFFICES ASSUME BooksInv, BooksInv', [Next]_vars,
                      NEW a \in booked,
                      a \in CoveredBy(ledger.entries),
                      a \notin CoveredBy(ledger'.entries),
                      pc[a] # "erasing"
               PROVE  at[a] <= ledger'.lastTs - WindowSeconds
    OBVIOUS
  <2>1. a \in Attempts /\ at \in [Attempts -> 0 .. MaxClock]
    BY DEF BooksInv, TypeOK
  <2>2. a \in booked' /\ at'[a] = at[a]
    <3>1. ASSUME NEW b \in Attempts, Record(b)
          PROVE  a \in booked' /\ at'[a] = at[a]
      <4>1. b \in CoveredBy(ledger'.entries)
        BY <3>1, RecordCovers
      <4>2. QED
        BY <3>1, <4>1, <2>1 DEF Record
    <3>2. ASSUME NEW b \in Attempts, ReleaseWrite(b)
          PROVE  a \in booked' /\ at'[a] = at[a]
      BY <3>2 DEF ReleaseWrite
    <3>3. ASSUME NEW b \in Attempts, CheckWindow(b) \/ ReleaseRead(b)
          PROVE  a \in booked' /\ at'[a] = at[a]
      BY <3>3 DEF CheckWindow, ReleaseRead, history
    <3>4. ASSUME NEW b \in Attempts,
                 \/ Ask(b) \/ RefuseWindow(b) \/ RefuseUnavailable(b) \/ Submit(b)
                 \/ FailBeforeSubmit(b) \/ ReleaseSwallowed(b) \/ Crash(b)
          PROVE  a \in booked' /\ at'[a] = at[a]
      BY <3>4, QuietSteps DEF QuietMove, history
    <3>5. CASE SetClock \/ UNCHANGED vars
      BY <3>5 DEF SetClock, vars, history
    <3>6. QED
      BY <3>1, <3>2, <3>3, <3>4, <3>5 DEF Next, Step, Authorize, Release
  <2>3. NothingForgotten'
    BY DEF BooksInv
  <2>4. QED
    BY <2>1, <2>2, <2>3 DEF NothingForgotten, CoveredBy
<1>2. BooksInv /\ BooksInv' /\ [Next]_vars => [Kept]_vars
  BY <1>1
<1>3. QED
  BY <1>2, BooksAreKept, PTL DEF Spec, OnlyOwnerOrAge

-----------------------------------------------------------------------------
(***************************************************************************)
(* What the books add up to.                                               *)
(***************************************************************************)
LEMMA ChargedIsSum ==
    \A S : ChargedTo(S) = SumOver(charged, S) /\ ChargedTo(S)' = SumOver(charged', S)
BY DEF ChargedTo, SumOver, MapThenSumSet, MapThenFoldSet

LEMMA SpentIsSum ==
    ASSUME NEW E, IsFiniteSet(E)
    PROVE  SpentBy(E) = SumOver([e \in E |-> e.lamports], E)
<1>1. SpentBy(E) = MapThenSumSet(LAMBDA e : e.lamports, E)
  BY DEF SpentBy, LamportsOf, MapThenSumSet, MapThenFoldSet
<1>2. QED
  BY <1>1, SumOfLamports

\* What the entries say they carry is what their attempts were charged.
LEMMA SpentIsCharged ==
    ASSUME NEW E, IsFiniteSet(E), charged \in [Attempts -> Int],
           \A e \in E : /\ e.covers \subseteq Attempts /\ IsFiniteSet(e.covers)
                        /\ e.lamports = ChargedTo(e.covers),
           \A e, f \in E : e.covers \cap f.covers # {} => e = f
    PROVE  /\ SpentBy(E) = ChargedTo(CoveredBy(E))
           /\ SpentBy(E) \in Int
           /\ IsFiniteSet(CoveredBy(E)) /\ CoveredBy(E) \subseteq Attempts
<1> DEFINE w == [e \in E |-> e.lamports]
           B == {F \in SUBSET E : SumOver(w, F) # SumOver(charged, CoveredBy(F))}
<1>1. \A F \in SUBSET E : IsFiniteSet(CoveredBy(F)) /\ CoveredBy(F) \subseteq Attempts
  <2> SUFFICES ASSUME NEW F \in SUBSET E
               PROVE  IsFiniteSet(CoveredBy(F)) /\ CoveredBy(F) \subseteq Attempts
    OBVIOUS
  <2> DEFINE C == {e.covers : e \in F}
  <2>1. IsFiniteSet(F)
    BY FS_Subset
  <2>2. IsFiniteSet(C)
    <3> DEFINE g == [e \in F |-> e.covers]
    <3>1. g \in Surjection(F, C)
      BY DEF Surjection
    <3> HIDE DEF g, C
    <3>2. QED
      BY <2>1, <3>1, FS_Surjection
  <2>3. \A T \in C : IsFiniteSet(T)
    OBVIOUS
  <2>4. CoveredBy(F) = UNION C
    BY DEF CoveredBy
  <2> HIDE DEF C
  <2>5. IsFiniteSet(UNION C)
    BY <2>2, <2>3, FS_UNION
  <2>6. CoveredBy(F) \subseteq Attempts
    BY DEF CoveredBy
  <2>7. QED
    BY <2>4, <2>5, <2>6
<1>2. \A e \in E : w[e] = SumOver(charged, e.covers) /\ w[e] \in Int
  <2> SUFFICES ASSUME NEW e \in E
               PROVE  w[e] = SumOver(charged, e.covers) /\ w[e] \in Int
    OBVIOUS
  <2>1. w[e] = SumOver(charged, e.covers)
    BY ChargedIsSum
  <2>2. \A a \in e.covers : charged[a] \in Int
    OBVIOUS
  <2>3. SumOver(charged, e.covers) \in Int
    BY <2>2, SumIsWhole
  <2>4. QED
    BY <2>1, <2>3
<1> HIDE DEF w
<1>3. B = {}
  <2> SUFFICES ASSUME B # {}
               PROVE  FALSE
    OBVIOUS
  <2>1. PICK F \in B : \A G \in B : G \subseteq F => G = F
    <3>1. B \in SUBSET SUBSET E
      OBVIOUS
    <3> HIDE DEF B
    <3>2. QED
      BY <3>1, SmallestSubset
  <2>2. F # {}
    <3> SUFFICES ASSUME F = {}
                 PROVE  FALSE
      OBVIOUS
    <3>1. SumOver(w, F) = 0 /\ CoveredBy(F) = {}
      BY SumOfNone DEF CoveredBy
    <3>2. QED
      BY <2>1, <3>1, SumOfNone
  <2>3. PICK e \in F : TRUE
    BY <2>2
  <2> DEFINE G == F \ {e}
  <2>4. SumOver(w, G) = SumOver(charged, CoveredBy(G))
    BY <2>1, <2>3
  <2>5. SumOver(w, F) = w[e] + SumOver(w, G)
    <3>1. IsFiniteSet(F) /\ \A x \in F : w[x] \in Int
      BY <1>2, FS_Subset
    <3>2. QED
      BY <2>3, <3>1, SumOfAny
  <2>6. CoveredBy(F) = e.covers \cup CoveredBy(G) /\ e.covers \cap CoveredBy(G) = {}
    BY <2>3 DEF CoveredBy
  <2>7. SumOver(charged, CoveredBy(F)) = SumOver(charged, e.covers) + SumOver(charged, CoveredBy(G))
    <3> DEFINE S == e.covers
               T == CoveredBy(G)
    <3>1. IsFiniteSet(S) /\ IsFiniteSet(T) /\ S \cap T = {}
          /\ \A a \in S \cup T : charged[a] \in Int
      BY <1>1, <2>3, <2>6
    <3> HIDE DEF S, T
    <3>2. SumOver(charged, S \cup T) = SumOver(charged, S) + SumOver(charged, T)
      BY <3>1, SumOfTwo
    <3>3. QED
      BY <2>6, <3>2 DEF S, T
  <2>8. SumOver(w, F) = SumOver(charged, CoveredBy(F))
    BY <1>2, <2>3, <2>4, <2>5, <2>7
  <2>9. QED
    BY <2>1, <2>8
<1>4. SumOver(w, E) = SumOver(charged, CoveredBy(E))
  BY <1>3
<1>5. SumOver(w, E) \in Int
  BY <1>2, SumIsWhole
<1>6. SpentBy(E) = SumOver(w, E)
  BY SpentIsSum DEF w
<1>7. QED
  BY <1>1, <1>4, <1>5, <1>6, ChargedIsSum

-----------------------------------------------------------------------------
Charges == charged \in [Attempts -> Nat]

LEMMA ChargesAreNatural ==
    ASSUME TypeOK, ChargedAsAsked
    PROVE  Charges
<1>1. \A a \in Attempts : charged[a] \in Nat
  BY QuotesAssumption, LimitsAssumption DEF TypeOK, ChargedAsAsked, Larger
<1>2. QED
  BY <1>1 DEF Charges, TypeOK

\* Any part of the ledger adds up to what its attempts were charged.
LEMMA PartAddsUp ==
    ASSUME BooksInv, MoneyInv, NEW E \in SUBSET ledger.entries
    PROVE  /\ IsFiniteSet(E)
           /\ SpentBy(E) = ChargedTo(CoveredBy(E))
           /\ SpentBy(E) \in Int
           /\ IsFiniteSet(CoveredBy(E)) /\ CoveredBy(E) \subseteq Attempts
<1>1. IsFiniteSet(E)
  BY FS_Subset DEF MoneyInv, FiniteBooks
<1>2. charged \in [Attempts -> Int]
  BY DEF BooksInv, TypeOK
<1>3. \A e \in E : /\ e.covers \subseteq Attempts /\ IsFiniteSet(e.covers)
                   /\ e.lamports = ChargedTo(e.covers)
  BY DEF BooksInv, TypeOK, IsLedger, IsEntry, MoneyInv, FiniteBooks, AmountsConserved
<1>4. \A e, f \in E : e.covers \cap f.covers # {} => e = f
  BY DEF MoneyInv, AmountsConserved
<1>5. QED
  BY <1>1, <1>2, <1>3, <1>4, SpentIsCharged

\* The charges inside one window at time t.
InWindow(t) == {a \in booked : at[a] <= t /\ at[a] > t - (WindowSeconds - Slack)}

LEMMA InitMoney == Init => MoneyInv
<1> SUFFICES ASSUME Init
             PROVE  MoneyInv
  OBVIOUS
<1>1. ChargedAsAsked /\ OnlyApproved /\ CheckedFits /\ AmountsConserved /\ OwnEntryGone
  BY DEF Init, ChargedAsAsked, OnlyApproved, CheckedFits, AmountsConserved, OwnEntryGone,
         EmptyLedger, CoveredBy
<1>2. FiniteBooks
  BY FS_EmptySet DEF Init, FiniteBooks, EmptyLedger
<1>3. WindowCeiling
  <2>1. ChargedTo({}) = 0
    BY ChargedIsSum, SumOfNone
  <2>2. \A t : {a \in booked : at[a] <= t /\ at[a] > t - (WindowSeconds - Slack)} = {}
    BY DEF Init
  <2>3. QED
    BY <2>1, <2>2, LimitsAssumption DEF WindowCeiling
<1>4. QED
  BY <1>1, <1>2, <1>3 DEF MoneyInv

\* A step that leaves the books alone, and changes a charge only of an attempt
\* that has not asked yet, leaves every sum over the books alone.
LEMMA SameBooksSameSums ==
    ASSUME BooksInv, MoneyInv, UNCHANGED <<ledger, booked, at, caller, quoted>>,
           charged' \in [Attempts -> Int],
           \A a \in Attempts : charged'[a] # charged[a] => pc[a] = "idle",
           \A a \in Attempts : pc'[a] \in Undecided => pc[a] \in Undecided,
           \A a \in Attempts : pc'[a] = "released" => pc[a] = "released"
    PROVE  /\ OnlyApproved' /\ FiniteBooks' /\ AmountsConserved'
           /\ WindowCeiling' /\ OwnEntryGone'
<1> USE DEF MoneyInv
<1>1. booked \subseteq Attempts /\ CoveredBy(ledger.entries) \subseteq Attempts
  BY PartAddsUp DEF BooksInv, TypeOK
<1>2. OnlyApproved'
  BY <1>1 DEF OnlyApproved
<1>3. FiniteBooks' /\ OwnEntryGone'
  BY DEF FiniteBooks, OwnEntryGone, NamesItsCharge
<1>4. ASSUME NEW S, S \subseteq booked \cup CoveredBy(ledger.entries), IsFiniteSet(S)
      PROVE  ChargedTo(S)' = ChargedTo(S)
  <2>1. \A a \in S : charged[a] \in Int /\ charged'[a] = charged[a]
    BY <1>1, <1>4 DEF OnlyApproved, Undecided, BooksInv, TypeOK
  <2>2. SumOver(charged', S) = SumOver(charged, S)
    BY <1>4, <2>1, SumOfSame
  <2>3. QED
    BY <2>2, ChargedIsSum
<1>5. AmountsConserved'
  <2>1. \A e \in ledger.entries : ChargedTo(e.covers)' = ChargedTo(e.covers)
    BY <1>4 DEF FiniteBooks, CoveredBy
  <2>2. QED
    BY <2>1 DEF AmountsConserved
<1>6. WindowCeiling'
  <2> SUFFICES ASSUME NEW t \in 0 .. MaxClock
               PROVE  ChargedTo(InWindow(t))' <= WindowLamports
    BY DEF WindowCeiling, InWindow
  <2>1. InWindow(t)' = InWindow(t)
    BY DEF InWindow
  <2>2. InWindow(t) \subseteq booked /\ IsFiniteSet(InWindow(t))
    BY FS_Subset DEF InWindow, FiniteBooks
  <2>3. ChargedTo(InWindow(t)) <= WindowLamports
    BY DEF WindowCeiling, InWindow
  <2> DEFINE S == InWindow(t)
  <2> HIDE DEF S
  <2>4. QED
    BY <1>4, <2>1, <2>2, <2>3, ChargedIsSum DEF S
<1>7. QED
  BY <1>2, <1>3, <1>5, <1>6

\* What CheckedFits says after a step.
LEMMA CheckedFitsNext ==
    ASSUME \A b \in Attempts :
              pc'[b] = "checked"
                  => SpentBy(Live(ledger'.entries, now'[b])) + charged'[b] <= WindowLamports
    PROVE  CheckedFits'
BY DEF CheckedFits, Live, SpentBy, LamportsOf, MapThenSumSet, MapThenFoldSet

LEMMA QuietKeepsMoney ==
    ASSUME BooksInv, MoneyInv, NEW a \in Attempts,
           \/ Ask(a) \/ RefuseWindow(a) \/ RefuseUnavailable(a) \/ Submit(a)
           \/ FailBeforeSubmit(a) \/ ReleaseSwallowed(a) \/ Crash(a)
    PROVE  MoneyInv'
<1> USE DEF MoneyInv
<1>1. QuietMove(a)
  BY QuietSteps
<1>2. /\ UNCHANGED <<ledger, booked, at, caller, quoted>>
      /\ charged' \in [Attempts -> Int]
      /\ pc' = [pc EXCEPT ![a] = pc'[a]] /\ pc'[a] \notin {"idle", "checked", "released"}
      /\ pc'[a] \in Undecided => pc[a] \in Undecided
      /\ now' = now \/ now' = [now EXCEPT ![a] = 0]
  BY <1>1 DEF QuietMove, Ask, RefuseWindow, RefuseUnavailable, Submit, FailBeforeSubmit, Forget,
              ReleaseSwallowed, Crash, Undecided, request, history, BooksInv, TypeOK
<1>3. /\ \A b \in Attempts : b # a => charged'[b] = charged[b]
      /\ charged'[a] # charged[a] => pc[a] = "idle"
      /\ charged'[a] = Larger(quoted[a], Floor)
  BY DEF Ask, RefuseWindow, RefuseUnavailable, Submit, FailBeforeSubmit, ReleaseSwallowed, Crash,
         BooksInv, TypeOK, ChargedAsAsked
<1>4. ChargedAsAsked'
  BY <1>2, <1>3 DEF ChargedAsAsked, BooksInv, TypeOK
<1>5. OnlyApproved' /\ FiniteBooks' /\ AmountsConserved' /\ WindowCeiling' /\ OwnEntryGone'
  <2>1. /\ \A b \in Attempts : charged'[b] # charged[b] => pc[b] = "idle"
        /\ \A b \in Attempts : pc'[b] \in Undecided => pc[b] \in Undecided
        /\ \A b \in Attempts : pc'[b] = "released" => pc[b] = "released"
    BY <1>2, <1>3 DEF BooksInv, TypeOK
  <2>2. QED
    BY <1>2, <2>1, SameBooksSameSums
<1>6. CheckedFits'
  <2> SUFFICES ASSUME NEW b \in Attempts, pc'[b] = "checked"
               PROVE  SpentBy(Live(ledger'.entries, now'[b])) + charged'[b] <= WindowLamports
    BY CheckedFitsNext
  <2>1. b # a /\ pc[b] = "checked" /\ now'[b] = now[b] /\ charged'[b] = charged[b]
    BY <1>2, <1>3 DEF BooksInv, TypeOK
  <2>2. QED
    BY <1>2, <2>1 DEF CheckedFits
<1>7. QED
  BY <1>4, <1>5, <1>6

LEMMA ReadKeepsMoney ==
    ASSUME BooksInv, MoneyInv, NEW a \in Attempts, CheckWindow(a) \/ ReleaseRead(a)
    PROVE  MoneyInv'
<1> USE DEF MoneyInv
<1>1. /\ UNCHANGED <<ledger, booked, at, caller, quoted, charged>>
      /\ pc' = [pc EXCEPT ![a] = pc'[a]]
      /\ \/ pc[a] = "waiting" /\ pc'[a] = "checked"
         \/ pc[a] = "releasing" /\ pc'[a] = "erasing"
      /\ \A b \in Attempts : b # a => now'[b] = now[b]
  BY DEF CheckWindow, ReleaseRead, request, history, BooksInv, TypeOK
<1>2. OnlyApproved' /\ FiniteBooks' /\ AmountsConserved' /\ WindowCeiling' /\ OwnEntryGone'
  <2>1. /\ charged' \in [Attempts -> Int]
        /\ \A b \in Attempts : charged'[b] # charged[b] => pc[b] = "idle"
        /\ \A b \in Attempts : pc'[b] \in Undecided => pc[b] \in Undecided
        /\ \A b \in Attempts : pc'[b] = "released" => pc[b] = "released"
    BY <1>1 DEF BooksInv, TypeOK, Undecided
  <2>2. QED
    BY <1>1, <2>1, SameBooksSameSums
<1>3. ChargedAsAsked'
  BY <1>1 DEF ChargedAsAsked, BooksInv, TypeOK
<1>4. CheckedFits'
  <2> SUFFICES ASSUME NEW b \in Attempts, pc'[b] = "checked"
               PROVE  SpentBy(Live(ledger.entries, now'[b])) + charged[b] <= WindowLamports
    BY <1>1, CheckedFitsNext
  <2>1. CASE b = a
    <3>1. CheckWindow(a)
      BY <1>1, <2>1 DEF ReleaseRead, BooksInv, TypeOK
    <3>2. now'[a] = EffectiveNow(ledger.lastTs) /\ ~OverWindow(a)
      BY <3>1 DEF CheckWindow, BooksInv, TypeOK
    <3> DEFINE live == Live(ledger.entries, EffectiveNow(ledger.lastTs))
    <3>3. live \in SUBSET ledger.entries
      BY DEF Live
    <3>4. SpentBy(live) \in Int /\ charged[a] \in Int
      <4> HIDE DEF live
      <4>1. QED
        BY <3>3, PartAddsUp DEF BooksInv, TypeOK
    <3>5. ~(SpentBy(live) + charged[a] > WindowLamports)
      BY <3>2 DEF OverWindow
    <3> HIDE DEF live
    <3>6. SpentBy(live) + charged[a] <= WindowLamports
      BY <3>4, <3>5, LimitsAssumption
    <3>7. QED
      BY <2>1, <3>2, <3>6 DEF live
  <2>2. CASE b # a
    <3>1. pc[b] = "checked" /\ now'[b] = now[b]
      BY <1>1, <2>2 DEF BooksInv, TypeOK
    <3>2. QED
      BY <3>1 DEF CheckedFits
  <2>3. QED
    BY <2>1, <2>2
<1>5. QED
  BY <1>2, <1>3, <1>4

LEMMA ClockKeepsMoney ==
    ASSUME BooksInv, MoneyInv, SetClock \/ UNCHANGED vars
    PROVE  MoneyInv'
<1> USE DEF MoneyInv
<1>1. UNCHANGED <<ledger, pc, caller, quoted, charged, now, booked, at>>
  BY DEF SetClock, vars, request, history
<1>2. OnlyApproved' /\ FiniteBooks' /\ AmountsConserved' /\ WindowCeiling' /\ OwnEntryGone'
  BY <1>1, SameBooksSameSums DEF BooksInv, TypeOK
<1>3. ChargedAsAsked'
  BY <1>1 DEF ChargedAsAsked
<1>a. CheckedFits'
  BY <1>1, CheckedFitsNext DEF CheckedFits
<1>4. QED
  BY <1>2, <1>3, <1>a

-----------------------------------------------------------------------------
\* Whatever compaction merges, every entry carries what its attempts were
\* charged, no attempt is in two, and an entry with a token is an old one.
LEMMA CompactionAddsUp ==
    ASSUME NEW E, IsFiniteSet(E), charged \in [Attempts -> Int],
           \A e \in E : /\ e.covers \subseteq Attempts /\ IsFiniteSet(e.covers)
                        /\ e.lamports = ChargedTo(e.covers),
           \A e, f \in E : e.covers \cap f.covers # {} => e = f,
           NEW kept \in Compactions(E)
    PROVE  /\ IsFiniteSet(kept)
           /\ \A k \in kept : IsFiniteSet(k.covers) /\ k.lamports = ChargedTo(k.covers)
           /\ \A k, l \in kept : k.covers \cap l.covers # {} => k = l
           /\ CoveredBy(kept) \subseteq CoveredBy(E)
           /\ \A k \in kept : k.tag \in Attempts => k \in E
<1>1. CASE Cardinality(E) <= MaxEntries
  <2>1. kept = E
    BY <1>1 DEF Compactions
  <2>2. QED
    BY <2>1
<1>2. CASE ~(Cardinality(E) <= MaxEntries)
  <2>a. PICK M \in Oldest(E) :
           kept \in {{Entry(Merged, e.ts, SpentBy(M), CoveredBy(M))} \cup (E \ M)
                        : e \in NewestOf(M)}
    BY <1>2 DEF Compactions
  <2>1. PICK n \in NewestOf(M) :
           kept = {Entry(Merged, n.ts, SpentBy(M), CoveredBy(M))} \cup (E \ M)
    BY <2>a
  <2>2. M \in SUBSET E /\ IsFiniteSet(M)
    BY FS_Subset DEF Oldest
  <2>3. SpentBy(M) = ChargedTo(CoveredBy(M)) /\ IsFiniteSet(CoveredBy(M))
    BY <2>2, SpentIsCharged
  <2> DEFINE m == Entry(Merged, n.ts, SpentBy(M), CoveredBy(M))
  <2>4. m.tag = Merged /\ m.lamports = SpentBy(M) /\ m.covers = CoveredBy(M)
    BY DEF Entry
  <2> HIDE DEF m
  <2>5. kept = (E \ M) \cup {m}
    BY <2>1 DEF m
  <2>6. \A k \in kept : IsFiniteSet(k.covers) /\ k.lamports = ChargedTo(k.covers)
    <3>1. IsFiniteSet(m.covers) /\ m.lamports = ChargedTo(m.covers)
      BY <2>3, <2>4
    <3>2. QED
      BY <2>5, <3>1
  <2>7. \A k \in E \ M : k.covers \cap m.covers = {}
    BY <2>2, <2>4 DEF CoveredBy
  <2>8. \A k, l \in kept : k.covers \cap l.covers # {} => k = l
    BY <2>5, <2>7
  <2>9. CoveredBy(kept) \subseteq CoveredBy(E)
    BY <2>2, <2>4, <2>5 DEF CoveredBy
  <2>10. \A k \in kept : k.tag \in Attempts => k \in E
    BY <2>4, <2>5, NamesAssumption
  <2>11. IsFiniteSet(kept)
    <3>1. IsFiniteSet(E \ M)
      BY FS_Difference
    <3>2. QED
      BY <2>5, <3>1, FS_AddElement
  <2>12. QED
    BY <2>6, <2>8, <2>9, <2>10, <2>11
<1>3. QED
  BY <1>1, <1>2

LEMMA OneCharge ==
    ASSUME NEW a \in Attempts, charged \in [Attempts -> Int]
    PROVE  ChargedTo({a}) = charged[a]
<1>1. SumOver(charged, {} \cup {a}) = charged[a] + SumOver(charged, {})
  BY SumWithOneMore, FS_EmptySet
<1>2. {} \cup {a} = {a} /\ SumOver(charged, {}) = 0
  BY SumOfNone
<1>3. QED
  BY <1>1, <1>2, ChargedIsSum

\* What the holder of the lock approves fits, together with all that stands
\* within a window, less the slack, of it.
LEMMA ApprovalFits ==
    ASSUME BooksInv, MoneyInv, NEW a \in Attempts, pc[a] = "checked",
           NEW S \in SUBSET booked,
           \A b \in S : ~(now[a] - at[b] >= WindowSeconds - Slack)
    PROVE  SumOver(charged, S \cup {a}) <= WindowLamports
<1> USE DEF MoneyInv
<1> DEFINE live == Live(ledger.entries, now[a])
           C == CoveredBy(live)
<1>1. live \in SUBSET ledger.entries
  BY DEF Live
<1>2. SpentBy(live) + charged[a] <= WindowLamports
  BY DEF CheckedFits
<1>3. S \subseteq C
  BY StandingIsSeen
<1>4. IsFiniteSet(C) /\ C \subseteq Attempts /\ SpentBy(live) = SumOver(charged, C)
  <2> HIDE DEF live
  <2>1. QED
    BY <1>1, PartAddsUp, ChargedIsSum
<1>5. a \notin C
  <2>1. C \subseteq CoveredBy(ledger.entries)
    BY <1>1 DEF CoveredBy
  <2>2. QED
    BY <2>1 DEF OnlyApproved, Undecided
<1> HIDE DEF C, live
<1>6. \A b \in C \cup {a} : charged[b] \in Nat
  BY <1>4, ChargesAreNatural DEF BooksInv, Charges
<1>7. SumOver(charged, S \cup {a}) <= SumOver(charged, C \cup {a})
  <2>1. IsFiniteSet(C \cup {a}) /\ S \cup {a} \subseteq C \cup {a}
    BY <1>3, <1>4, FS_AddElement
  <2>2. QED
    BY <1>6, <2>1, SumOfFewer
<1>8. SumOver(charged, C \cup {a}) = charged[a] + SumOver(charged, C)
  <2>1. \A b \in C \cup {a} : charged[b] \in Int
    BY <1>6
  <2>2. QED
    BY <1>4, <1>5, <2>1, SumWithOneMore
<1>9. SumOver(charged, C) \in Int /\ SumOver(charged, S \cup {a}) \in Int /\ charged[a] \in Int
  <2>1. IsFiniteSet(S \cup {a}) /\ \A b \in S \cup {a} : charged[b] \in Int
    BY <1>3, <1>4, <1>6, FS_Subset, FS_AddElement
  <2>2. SumOver(charged, S \cup {a}) \in Int
    BY <2>1, SumIsWhole
  <2>3. QED
    BY <1>4, <1>6, <2>2, SumIsWhole
<1>10. charged[a] + SumOver(charged, C) <= WindowLamports
  BY <1>2, <1>4, <1>9
<1> QED
  BY <1>7, <1>8, <1>9, <1>10, LimitsAssumption

\* An approval is recorded: the sum that was checked is the sum on disk, and
\* every standing charge within a window of the new one is part of it.
LEMMA RecordKeepsMoney ==
    ASSUME BooksInv, MoneyInv, NEW a \in Attempts, Record(a)
    PROVE  MoneyInv'
<1> USE DEF MoneyInv
<1> DEFINE n == now[a]
           live == Live(ledger.entries, n)
           mine == Entry(a, n, charged[a], {a})
           E == live \cup {mine}
<1>1. /\ pc[a] = "checked" /\ pc' = [pc EXCEPT ![a] = "approved"] /\ snap[a] = ledger
      /\ booked' = booked \cup {a} /\ at' = [at EXCEPT ![a] = n]
      /\ UNCHANGED <<caller, quoted, charged>>
  BY WriterLeaves DEF Record, request
<1>2. PICK kept \in Compactions(E) : ledger'.entries = kept
  BY <1>1 DEF Record
<1>3. charged \in [Attempts -> Int] /\ Charges /\ pc \in [Attempts -> States]
      /\ at \in [Attempts -> 0 .. MaxClock] /\ booked \subseteq Attempts /\ n \in 0 .. MaxClock
  BY ChargesAreNatural DEF BooksInv, TypeOK
<1>4. live \in SUBSET ledger.entries
  BY DEF Live
<1>5. mine.tag = a /\ mine.covers = {a} /\ mine.lamports = charged[a]
  BY DEF Entry
<1>6. a \notin booked /\ a \notin CoveredBy(ledger.entries)
  BY <1>1 DEF OnlyApproved, Undecided
<1>7. /\ IsFiniteSet(live) /\ SpentBy(live) = ChargedTo(CoveredBy(live))
      /\ IsFiniteSet(CoveredBy(live)) /\ CoveredBy(live) \subseteq Attempts
  <2> HIDE DEF live
  <2>1. QED
    BY <1>4, PartAddsUp
<1>8. /\ IsFiniteSet(E)
      /\ \A e \in E : /\ e.covers \subseteq Attempts /\ IsFiniteSet(e.covers)
                      /\ e.lamports = ChargedTo(e.covers)
      /\ \A e, f \in E : e.covers \cap f.covers # {} => e = f
  <2> HIDE DEF live, mine
  <2>1. IsFiniteSet(E)
    BY <1>7, FS_AddElement
  <2>2. /\ mine.covers \subseteq Attempts /\ IsFiniteSet(mine.covers)
        /\ mine.lamports = ChargedTo(mine.covers)
    BY <1>3, <1>5, OneCharge, FS_Singleton
  <2>3. \A e \in live : /\ e.covers \subseteq Attempts /\ IsFiniteSet(e.covers)
                        /\ e.lamports = ChargedTo(e.covers)
    BY <1>4 DEF BooksInv, TypeOK, IsLedger, IsEntry, FiniteBooks, AmountsConserved
  <2>4. \A e \in live : e.covers \cap mine.covers = {}
    BY <1>4, <1>5, <1>6 DEF CoveredBy
  <2>5. \A e, f \in live : e.covers \cap f.covers # {} => e = f
    BY <1>4 DEF AmountsConserved
  <2>6. QED
    BY <2>1, <2>2, <2>3, <2>4, <2>5
<1>9. /\ IsFiniteSet(kept)
      /\ \A k \in kept : IsFiniteSet(k.covers) /\ k.lamports = ChargedTo(k.covers)
      /\ \A k, l \in kept : k.covers \cap l.covers # {} => k = l
      /\ CoveredBy(kept) \subseteq CoveredBy(E)
      /\ \A k \in kept : k.tag \in Attempts => k \in E
  <2> HIDE DEF E
  <2>1. QED
    BY <1>2, <1>3, <1>8, CompactionAddsUp
<1>10. CoveredBy(E) = CoveredBy(live) \cup {a}
  BY <1>5 DEF CoveredBy
<1>11. \A S : ChargedTo(S)' = ChargedTo(S)
  BY <1>1, ChargedIsSum
<1>12. ChargedAsAsked'
  BY <1>1, <1>3 DEF ChargedAsAsked
<1>13. OnlyApproved'
  <2>1. CoveredBy(ledger'.entries) \subseteq CoveredBy(ledger.entries) \cup {a}
    <3>1. CoveredBy(live) \subseteq CoveredBy(ledger.entries)
      BY <1>4 DEF CoveredBy
    <3> HIDE DEF live, E
    <3>2. CoveredBy(kept) \subseteq CoveredBy(ledger.entries) \cup {a}
      BY <1>9, <1>10, <3>1
    <3>3. QED
      BY <1>2, <3>2
  <2>2. \A b \in booked' \cup CoveredBy(ledger'.entries) :
           b = a \/ b \in booked \cup CoveredBy(ledger.entries)
    BY <1>1, <2>1
  <2>3. pc'[a] \notin Undecided /\ \A b : b # a => pc'[b] = pc[b]
    BY <1>1, <1>3 DEF Undecided
  <2>4. QED
    BY <2>2, <2>3 DEF OnlyApproved
<1>14. FiniteBooks'
  <2>1. IsFiniteSet(booked')
    BY <1>1, FS_AddElement DEF FiniteBooks
  <2>2. QED
    BY <2>1, <1>2, <1>9 DEF FiniteBooks
<1>15. CheckedFits'
  BY WriterLeaves, CheckedFitsNext
<1>16. AmountsConserved'
  BY <1>2, <1>9, <1>11 DEF AmountsConserved
<1>17. OwnEntryGone'
  <2> SUFFICES ASSUME NEW b \in Attempts, pc'[b] = "released", NamesItsCharge(b)',
                      NEW e \in ledger'.entries, e.tag = b
               PROVE  FALSE
    BY DEF OwnEntryGone
  <2>1. b # a /\ pc[b] = "released" /\ NamesItsCharge(b)
    BY <1>1, <1>3 DEF NamesItsCharge
  <2>2. e \in ledger.entries
    BY <1>2, <1>4, <1>5, <1>9, <2>1
  <2>3. QED
    BY <2>1, <2>2 DEF OwnEntryGone
<1>18. WindowCeiling'
  <2> SUFFICES ASSUME NEW t \in 0 .. MaxClock
               PROVE  ChargedTo(InWindow(t))' <= WindowLamports
    BY DEF WindowCeiling, InWindow
  <2> DEFINE S == InWindow(t)'
  <2>1. S = {b \in booked' : at'[b] <= t /\ at'[b] > t - (WindowSeconds - Slack)}
    BY DEF InWindow
  <2>2. \A b \in booked : at'[b] = at[b]
    BY <1>1, <1>3, <1>6
  <2>3. ChargedTo(InWindow(t))' = SumOver(charged, S)
    BY <1>1 DEF ChargedTo, SumOver, MapThenSumSet, MapThenFoldSet
  <2>4. CASE a \notin S
    <3>1. S = InWindow(t)
      BY <1>1, <2>1, <2>2, <2>4 DEF InWindow
    <3>2. ChargedTo(InWindow(t)) <= WindowLamports
      BY DEF WindowCeiling, InWindow
    <3>3. QED
      BY <2>3, <3>1, <3>2, ChargedIsSum
  <2>5. CASE a \in S
    <3>1. at'[a] = n
      BY <1>1, <1>3
    <3>2. n <= t
      BY <2>1, <2>5, <3>1
    <3> DEFINE R == S \ {a}
    <3>3. ASSUME NEW b \in R
          PROVE  b \in booked /\ ~(n - at[b] >= WindowSeconds - Slack)
      <4>1. b \in booked /\ at[b] > t - (WindowSeconds - Slack) /\ at[b] \in Int
        BY <1>1, <1>3, <2>1, <2>2
      <4>2. QED
        BY <1>3, <3>2, <4>1, LimitsAssumption
    <3>4. R \cup {a} = S
      BY <2>5
    <3> HIDE DEF S, R
    <3>5. SumOver(charged, R \cup {a}) <= WindowLamports
      BY <1>1, <3>3, ApprovalFits
    <3>6. QED
      BY <2>3, <3>4, <3>5 DEF S
  <2>6. QED
    BY <2>4, <2>5
<1>19. QED
  BY <1>12, <1>13, <1>14, <1>15, <1>16, <1>17, <1>18

\* A release removes the entry that stands for its own attempt, if the amounts
\* agree, as they do for a message payment.
LEMMA ReleaseKeepsMoney ==
    ASSUME BooksInv, MoneyInv, NEW a \in Attempts, ReleaseWrite(a)
    PROVE  MoneyInv'
<1> USE DEF MoneyInv
<1> DEFINE mine == Mine(a, ledger.entries)
<1>1. /\ pc[a] = "erasing" /\ pc' = [pc EXCEPT ![a] = "released"] /\ snap[a] = ledger
      /\ UNCHANGED <<caller, quoted, charged, at>>
  BY WriterLeaves DEF ReleaseWrite, request
<1>2. ledger'.entries = ledger.entries \ mine /\ booked' \subseteq booked
  BY <1>1 DEF ReleaseWrite
<1>3. charged \in [Attempts -> Int] /\ Charges /\ pc \in [Attempts -> States]
      /\ booked \subseteq Attempts
  BY ChargesAreNatural DEF BooksInv, TypeOK
<1>4. \A S : ChargedTo(S)' = ChargedTo(S)
  BY <1>1, ChargedIsSum
<1>5. ChargedAsAsked'
  BY <1>1, <1>3 DEF ChargedAsAsked
<1>6. OnlyApproved'
  <2>1. CoveredBy(ledger'.entries) \subseteq CoveredBy(ledger.entries)
    BY <1>2 DEF CoveredBy
  <2>2. \A b \in booked' \cup CoveredBy(ledger'.entries) : b \in booked \cup CoveredBy(ledger.entries)
    BY <1>2, <2>1
  <2>3. pc'[a] \notin Undecided /\ \A b : b # a => pc'[b] = pc[b]
    BY <1>1, <1>3 DEF Undecided
  <2>4. QED
    BY <2>2, <2>3 DEF OnlyApproved
<1>7. FiniteBooks'
  <2>1. IsFiniteSet(booked') /\ IsFiniteSet(ledger.entries \ mine)
    BY <1>2, FS_Subset, FS_Difference DEF FiniteBooks
  <2>2. QED
    BY <1>2, <2>1 DEF FiniteBooks
<1>8. CheckedFits'
  BY WriterLeaves, CheckedFitsNext
<1>9. AmountsConserved'
  BY <1>2, <1>4 DEF AmountsConserved
<1>10. OwnEntryGone'
  <2> SUFFICES ASSUME NEW b \in Attempts, pc'[b] = "released", NamesItsCharge(b)',
                      NEW e \in ledger.entries \ mine, e.tag = b
               PROVE  FALSE
    BY <1>2 DEF OwnEntryGone
  <2>1. CASE b = a
    <3>1. e.covers = {a}
      BY <2>1 DEF BooksInv, TokensOwnEntries
    <3>2. e.lamports = charged[a]
      BY <1>3, <3>1, OneCharge DEF AmountsConserved
    <3>3. ReleaseAmount(a) = charged[a]
      BY <1>1, <2>1, LimitsAssumption, QuotesAssumption
         DEF ReleaseAmount, NamesItsCharge, ChargedAsAsked, Larger, BooksInv, TypeOK
    <3>4. e \in mine
      BY <2>1, <3>2, <3>3 DEF Mine
    <3>5. QED
      BY <3>4
  <2>2. CASE b # a
    BY <1>1, <1>3, <2>2 DEF OwnEntryGone, NamesItsCharge
  <2>3. QED
    BY <2>1, <2>2
<1>11. WindowCeiling'
  <2> SUFFICES ASSUME NEW t \in 0 .. MaxClock
               PROVE  ChargedTo(InWindow(t))' <= WindowLamports
    BY DEF WindowCeiling, InWindow
  <2> DEFINE S == InWindow(t)'
             T == InWindow(t)
  <2>1. ChargedTo(InWindow(t))' = SumOver(charged, S)
    BY <1>1 DEF ChargedTo, SumOver, MapThenSumSet, MapThenFoldSet
  <2>2. ChargedTo(T) <= WindowLamports
    BY DEF WindowCeiling, InWindow
  <2>3. S \subseteq T /\ T \subseteq booked
    BY <1>1, <1>2 DEF InWindow
  <2> HIDE DEF S, T
  <2>4. IsFiniteSet(T) /\ IsFiniteSet(S) /\ \A b \in T : charged[b] \in Nat
    BY <1>3, <2>3, FS_Subset DEF FiniteBooks, Charges
  <2>5. SumOver(charged, S) <= SumOver(charged, T)
    BY <2>3, <2>4, SumOfFewer
  <2>6. SumOver(charged, S) \in Int /\ SumOver(charged, T) \in Int
    BY <2>3, <2>4, SumIsWhole
  <2>7. SumOver(charged, S) <= WindowLamports
    BY <2>2, <2>5, <2>6, ChargedIsSum, LimitsAssumption
  <2>8. QED
    BY <2>1, <2>7 DEF S
<1>12. QED
  BY <1>5, <1>6, <1>7, <1>8, <1>9, <1>10, <1>11

LEMMA NextKeepsMoney == BooksInv /\ MoneyInv /\ [Next]_vars => MoneyInv'
<1> SUFFICES ASSUME BooksInv, MoneyInv, [Next]_vars
             PROVE  MoneyInv'
  OBVIOUS
<1>1. ASSUME NEW a \in Attempts, Step(a) \/ Crash(a)
      PROVE  MoneyInv'
  <2>1. CASE \/ Ask(a) \/ RefuseWindow(a) \/ RefuseUnavailable(a) \/ Submit(a)
             \/ FailBeforeSubmit(a) \/ ReleaseSwallowed(a) \/ Crash(a)
    BY <2>1, QuietKeepsMoney
  <2>2. CASE CheckWindow(a) \/ ReleaseRead(a)
    BY <2>2, ReadKeepsMoney
  <2>3. CASE Record(a)
    BY <2>3, RecordKeepsMoney
  <2>4. CASE ReleaseWrite(a)
    BY <2>4, ReleaseKeepsMoney
  <2>5. QED
    BY <1>1, <2>1, <2>2, <2>3, <2>4 DEF Step, Authorize, Release
<1>2. CASE SetClock \/ UNCHANGED vars
  BY <1>2, ClockKeepsMoney
<1>3. QED
  BY <1>1, <1>2 DEF Next

-----------------------------------------------------------------------------
\* The sums are in order in every reachable state, however the entries were
\* merged, pruned and given back.
THEOREM MoneyIsKept == Spec => [](BooksInv /\ MoneyInv)
<1>1. Init => BooksInv /\ MoneyInv
  BY InitBooks, InitMoney
<1>2. BooksInv /\ MoneyInv /\ [Next]_vars => (BooksInv /\ MoneyInv)'
  BY NextKeepsBooks, NextKeepsMoney
<1>3. QED
  BY <1>1, <1>2, PTL DEF Spec

\* Whatever the clock does and however many processes ask at once, what was
\* approved within a window, less the slack, and not given back stays under the
\* window's limit.
THEOREM CeilingHolds == Spec => []WindowCeiling
<1>1. MoneyInv => WindowCeiling
  BY DEF MoneyInv
<1>2. QED
  BY <1>1, MoneyIsKept, PTL

\* Compaction neither loses nor invents money.
THEOREM NoMoneyIsLost == Spec => []AmountsConserved
<1>1. MoneyInv => AmountsConserved
  BY DEF MoneyInv
<1>2. QED
  BY <1>1, MoneyIsKept, PTL

\* A call whose release names what was recorded, and ran to the end, is counted
\* by no entry but one it had been merged into: while an entry still carries an
\* attempt's token it covers that attempt alone.
THEOREM RefundIsWhole == Spec => []RefundLeavesNothing
<1>1. BooksInv /\ MoneyInv => RefundLeavesNothing
  <2> SUFFICES ASSUME BooksInv, MoneyInv, NEW a \in Attempts, NEW e \in ledger.entries,
                      pc[a] = "released", NamesItsCharge(a), a \in e.covers
               PROVE  e.tag = Merged
    BY DEF RefundLeavesNothing
  <2>1. e.tag # a
    BY DEF MoneyInv, OwnEntryGone
  <2>2. e.tag \in Attempts => e.covers = {e.tag}
    BY DEF BooksInv, TokensOwnEntries
  <2>3. QED
    BY <2>1, <2>2 DEF BooksInv, TypeOK, IsLedger, IsEntry
<1>2. QED
  BY <1>1, MoneyIsKept, PTL

-----------------------------------------------------------------------------
(***************************************************************************)
(* The refinement of SpendCeiling: asking is its Quote, recording its      *)
(* Approve, giving back its GiveBack, and nothing else changes its state.  *)
(***************************************************************************)
LEMMA InitPromised == Init => Promise!CeilingInit
BY DEF Init, Promise!CeilingInit

LEMMA AskIsQuote ==
    ASSUME BooksInv, MoneyInv, NEW a \in Attempts, Ask(a)
    PROVE  Promise!Quote(a)
<1>1. a \notin booked
  BY DEF Ask, MoneyInv, OnlyApproved, Undecided
<1>2. quoted[a] \in Quotes
  BY DEF BooksInv, TypeOK
<1>3. QED
  BY <1>1, <1>2 DEF Ask, Promise!Quote, history

LEMMA RecordIsApprove ==
    ASSUME BooksInv, MoneyInv, NEW a \in Attempts, Record(a)
    PROVE  Promise!Approve(a, now[a])
<1>1. /\ pc[a] = "checked" /\ booked' = booked \cup {a} /\ at' = [at EXCEPT ![a] = now[a]]
      /\ UNCHANGED charged
  BY DEF Record
<1>2. a \notin booked
  BY <1>1 DEF MoneyInv, OnlyApproved, Undecided
<1> DEFINE S == Promise!Recent(now[a])
<1>3. S \in SUBSET booked /\ \A b \in S : at[b] > now[a] - (WindowSeconds - Slack)
  BY DEF Promise!Recent
<1>4. \A b \in S : ~(now[a] - at[b] >= WindowSeconds - Slack)
  <2>1. \A b \in S : at[b] \in Int /\ now[a] \in Int
    BY <1>3 DEF BooksInv, TypeOK
  <2>2. QED
    BY <1>3, <2>1, LimitsAssumption
<1> HIDE DEF S
<1>5. SumOver(charged, S \cup {a}) <= WindowLamports
  BY <1>1, <1>3, <1>4, ApprovalFits
<1>6. Promise!Charged(S \cup {a}) = SumOver(charged, S \cup {a})
  BY DEF Promise!Charged, Promise!MapThenSumSet, Promise!MapThenFoldSet,
         SumOver, MapThenSumSet, MapThenFoldSet
<1>7. QED
  BY <1>1, <1>2, <1>5, <1>6 DEF Promise!Approve, S

LEMMA ReleaseIsGiveBack ==
    ASSUME NEW a \in Attempts, ReleaseWrite(a)
    PROVE  Promise!GiveBack(a) \/ UNCHANGED Promise!ceilingVars
BY DEF ReleaseWrite, Promise!GiveBack, Promise!ceilingVars

LEMMA OtherStepsStutter ==
    ASSUME \/ SetClock \/ UNCHANGED vars
           \/ \E a \in Attempts :
                 \/ RefuseWindow(a) \/ RefuseUnavailable(a) \/ Submit(a) \/ FailBeforeSubmit(a)
                 \/ ReleaseSwallowed(a) \/ Crash(a) \/ CheckWindow(a) \/ ReleaseRead(a)
    PROVE  UNCHANGED Promise!ceilingVars
BY DEF SetClock, vars, RefuseWindow, RefuseUnavailable, Submit, FailBeforeSubmit, ReleaseSwallowed,
       Crash, CheckWindow, ReleaseRead, history, Promise!ceilingVars

\* The file, the lock and the clock rule implement the ceiling that approves one
\* spend at a time with all that is still charged in front of it.
THEOREM LedgerImplementsCeiling == Spec => ImplementsCeiling
<1>1. BooksInv /\ MoneyInv /\ [Next]_vars => [Promise!CeilingNext]_(Promise!ceilingVars)
  <2> SUFFICES ASSUME BooksInv, MoneyInv, [Next]_vars
               PROVE  Promise!CeilingNext \/ UNCHANGED Promise!ceilingVars
    OBVIOUS
  <2>1. ASSUME NEW a \in Attempts, Ask(a)
        PROVE  Promise!CeilingNext
    BY <2>1, AskIsQuote DEF Promise!CeilingNext
  <2>2. ASSUME NEW a \in Attempts, Record(a)
        PROVE  Promise!CeilingNext
    <3>1. now[a] \in 0 .. MaxClock
      BY DEF BooksInv, TypeOK
    <3>2. QED
      BY <2>2, <3>1, RecordIsApprove DEF Promise!CeilingNext
  <2>3. ASSUME NEW a \in Attempts, ReleaseWrite(a)
        PROVE  Promise!CeilingNext \/ UNCHANGED Promise!ceilingVars
    BY <2>3, ReleaseIsGiveBack DEF Promise!CeilingNext
  <2>4. QED
    BY <2>1, <2>2, <2>3, OtherStepsStutter DEF Next, Step, Authorize, Release
<1>2. QED
  BY <1>1, InitPromised, MoneyIsKept, PTL DEF Spec, ImplementsCeiling, Promise!CeilingSpec
=============================================================================
