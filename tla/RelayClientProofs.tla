------------------------- MODULE RelayClientProofs -------------------------
(***************************************************************************)
(* Proofs about RelayClient for any number of processes and tokens.        *)
(***************************************************************************)
EXTENDS RelayClient, TLAPS

\* A process that migrates still holds the old keystore, and only replaces it
\* when the backup is complete.
MigrationInv ==
    /\ backup \in {None, "old"}
    /\ \A p \in Procs :
        /\ pc[p] \in {"backup", "rewrite"} => raw[p] = "old"
        /\ pc[p] = "rewrite" => backup = "old"

\* What a process believes of its published key was true at some time: the
\* relay never takes our key away again, and a conflict had a rival.
KeyInv ==
    /\ published = "other" => rival
    /\ \A p \in Procs :
        /\ key[p].conflict => rival
        /\ key[p].registered => published = "ours"
        /\ pc[p] \in {"ready", "recheck"} \/ doing[p] = "send"
              => key[p].registered \/ key[p].error

\* A request that is repeated has a token issued during the request, and its
\* end is the only thing that says how a send went.
RequestInv ==
    \A p \in Procs :
        /\ pc[p] # "ready" \/ doing[p] = "register" => mail[p] = "none"
        /\ pc[p] = "retry" => fresh[p]
        /\ pc[p] = "recheck" => doing[p] = "send"

RelayInv ==
    /\ TypeOK
    /\ MigrationInv
    /\ KeyInv
    /\ RequestInv
    /\ StaleTokenIsRenewed

\* What register_encryption_key leaves of the key's flags, by its outcome.
LEMMA KeyOutcomes ==
    /\ Unknown \in KeyFlags /\ ~Unknown.registered /\ ~Unknown.conflict
    /\ KeyOk \in KeyFlags /\ KeyOk.registered /\ ~KeyOk.conflict
    /\ Conflict \in KeyFlags /\ ~Conflict.registered /\ Conflict.error
    /\ Unconfirmed \in KeyFlags /\ ~Unconfirmed.registered /\ ~Unconfirmed.conflict /\ Unconfirmed.error
    /\ \A k \in KeyFlags :
          /\ [k EXCEPT !.error = TRUE] \in KeyFlags
          /\ [k EXCEPT !.error = TRUE].error
          /\ [k EXCEPT !.error = TRUE].registered = k.registered
          /\ [k EXCEPT !.error = TRUE].conflict = k.conflict
BY DEF KeyFlags, Unknown, KeyOk, Conflict, Unconfirmed

\* A verdict other than "unknown" was read at the relay.
LEMMA VerdictsMean ==
    /\ "match" \in Verdicts => published = "ours"
    /\ "differs" \in Verdicts => published = "other"
BY DEF Verdicts

LEMMA InitRelay == Init => RelayInv
<1> SUFFICES ASSUME Init
             PROVE  RelayInv
  OBVIOUS
<1>1. TypeOK
  BY KeyOutcomes DEF Init, TypeOK
<1>2. MigrationInv /\ KeyInv /\ RequestInv /\ StaleTokenIsRenewed
  BY NoneAssumption DEF Init, Unknown, MigrationInv, KeyInv, RequestInv, StaleTokenIsRenewed
<1>3. QED
  BY <1>1, <1>2 DEF RelayInv

-----------------------------------------------------------------------------
(***************************************************************************)
(* The steps that touch the disk.                                          *)
(***************************************************************************)
LEMMA DiskSteps ==
    ASSUME RelayInv, NEW p \in Procs, Load(p) \/ Backup(p) \/ Rewrite(p) \/ MigrationFails(p)
    PROVE  RelayInv'
<1> USE DEF RelayInv, Goto, disk, relay, session
<1>1. TypeOK'
  <2>1. CASE Load(p)
    BY <2>1 DEF TypeOK, Load
  <2>2. CASE Backup(p)
    BY <2>2 DEF TypeOK, MigrationInv, Backup
  <2>3. CASE Rewrite(p) \/ MigrationFails(p)
    BY <2>3 DEF TypeOK, Rewrite, MigrationFails
  <2>4. QED
    BY <2>1, <2>2, <2>3
<1>2. MigrationInv'
  BY DEF TypeOK, MigrationInv, Load, Backup, Rewrite, MigrationFails
<1>3. KeyInv'
  BY DEF TypeOK, KeyInv, Load, Backup, Rewrite, MigrationFails
<1>4. RequestInv' /\ StaleTokenIsRenewed'
  BY DEF TypeOK, RequestInv, StaleTokenIsRenewed, Load, Backup, Rewrite, MigrationFails
<1>5. QED
  BY <1>1, <1>2, <1>3, <1>4

-----------------------------------------------------------------------------
LEMMA TokenSteps ==
    ASSUME RelayInv, NEW p \in Procs, Login(p) \/ Relogin(p)
    PROVE  RelayInv'
<1> USE DEF RelayInv, Goto, relay
<1>1. TypeOK'
  <2>1. CASE Login(p) /\ Cached(p)
    BY <2>1 DEF TypeOK, disk, Login, Cached
  <2>2. CASE Login(p) /\ NewToken(p)
    BY <2>2 DEF TypeOK, disk, Login, NewToken
  <2>3. CASE Relogin(p)
    BY <2>3 DEF TypeOK, disk, Relogin, NewToken
  <2>4. QED
    BY <2>1, <2>2, <2>3 DEF Login
<1>2. MigrationInv'
  BY DEF TypeOK, MigrationInv, disk, Login, Relogin
<1>3. published' = published /\ rival' = rival
  BY DEF Login, Relogin, Cached, NewToken
<1>4. KeyInv'
  BY <1>3 DEF TypeOK, KeyInv, Login, Relogin
<1>5. RequestInv' /\ StaleTokenIsRenewed'
  BY DEF TypeOK, RequestInv, StaleTokenIsRenewed, Login, Relogin
<1>6. QED
  BY <1>1, <1>2, <1>4, <1>5

LEMMA FailureSteps ==
    ASSUME RelayInv, NEW p \in Procs, Unauthorized(p) \/ RequestFails(p) \/ Unresolved(p)
    PROVE  RelayInv'
<1> USE DEF RelayInv, Goto, Fails, SetKey, AtRelay, relay, session
<1>1. TypeOK'
  <2>1. key' \in [Procs -> KeyFlags]
    <3>1. key \in [Procs -> KeyFlags]
      BY DEF TypeOK
    <3>2. key' = key \/ key' = [key EXCEPT ![p] = [key[p] EXCEPT !.error = TRUE]]
      BY DEF Unauthorized, RequestFails, Unresolved
    <3>3. QED
      BY <3>1, <3>2, KeyOutcomes
  <2>2. QED
    BY <2>1 DEF TypeOK, disk, Unauthorized, RequestFails, Unresolved
<1>2. MigrationInv'
  BY DEF TypeOK, MigrationInv, disk, Unauthorized, RequestFails, Unresolved
<1>3. KeyInv'
  <2>1. key \in [Procs -> KeyFlags] /\ published' = published /\ rival' = rival /\ doing' = doing
    BY DEF TypeOK, Unauthorized, RequestFails, Unresolved
  <2>2. CASE key' = key /\ (pc' = [pc EXCEPT ![p] = "relogin"] \/ doing[p] = "send")
    <3>1. \A q \in Procs : q # p => pc'[q] = pc[q]
      BY DEF TypeOK, Unauthorized, RequestFails, Unresolved
    <3>2. QED
      BY <2>1, <2>2, <3>1 DEF TypeOK, KeyInv
  <2>3. CASE key' = [key EXCEPT ![p] = [key[p] EXCEPT !.error = TRUE]]
    <3>1. /\ key'[p].error /\ key'[p].registered = key[p].registered
          /\ key'[p].conflict = key[p].conflict
          /\ \A q \in Procs \ {p} : key'[q] = key[q]
      BY <2>1, <2>3, KeyOutcomes
    <3>2. \A q \in Procs \ {p} : pc'[q] = pc[q]
      BY DEF TypeOK, Unauthorized, RequestFails, Unresolved
    <3>3. QED
      BY <2>1, <3>1, <3>2 DEF KeyInv
  <2>4. QED
    BY <2>2, <2>3 DEF TypeOK, Unauthorized, RequestFails, Unresolved
<1>4. RequestInv' /\ StaleTokenIsRenewed'
  BY DEF TypeOK, RequestInv, StaleTokenIsRenewed, Unauthorized, RequestFails, Unresolved
<1>5. QED
  BY <1>1, <1>2, <1>3, <1>4

LEMMA KeySteps ==
    ASSUME RelayInv, NEW p \in Procs, Registered(p) \/ ReadBack(p) \/ Recheck(p)
    PROVE  RelayInv'
<1> USE KeyOutcomes, NoneAssumption DEF RelayInv, Goto, SetKey, AtRelay
<1>1. key \in [Procs -> KeyFlags]
  BY DEF TypeOK
<1>2. CASE Registered(p)
  <2>1. key' \in [Procs -> KeyFlags]
    BY <1>1, <1>2 DEF Registered
  <2>2. TypeOK'
    <3>1. /\ published' \in {published, "ours"}
          /\ pc' \in {[pc EXCEPT ![p] = "ready"], [pc EXCEPT ![p] = "readback"]}
      BY <1>2 DEF Registered
    <3>2. QED
      BY <1>2, <2>1, <3>1 DEF TypeOK, Registered, disk, session
  <2>3. MigrationInv' /\ RequestInv' /\ StaleTokenIsRenewed'
    BY <1>2 DEF TypeOK, MigrationInv, RequestInv, StaleTokenIsRenewed, Registered, disk, session
  <2>4. KeyInv'
    <3>1. /\ published = "ours" => published' = "ours"
          /\ published' = "other" => published = "other"
          /\ rival' = rival /\ doing' = doing
      BY <1>2 DEF Registered
    <3>2. \/ key' = [key EXCEPT ![p] = KeyOk] /\ published' = "ours"
          \/ key' = key /\ pc' = [pc EXCEPT ![p] = "readback"]
          \/ key' = [key EXCEPT ![p] = [key[p] EXCEPT !.error = TRUE]]
      BY <1>2 DEF Registered
    <3>3. pc' = [pc EXCEPT ![p] = pc'[p]]
      BY <1>2 DEF TypeOK, Registered
    <3>4. doing[p] = "register"
      BY <1>2 DEF Registered
    <3>5. CASE key' = [key EXCEPT ![p] = KeyOk] /\ published' = "ours"
      BY <1>1, <3>1, <3>3, <3>5 DEF TypeOK, KeyInv
    <3>6. CASE key' = key /\ pc' = [pc EXCEPT ![p] = "readback"]
      BY <1>1, <3>1, <3>4, <3>6 DEF TypeOK, KeyInv
    <3>7. CASE key' = [key EXCEPT ![p] = [key[p] EXCEPT !.error = TRUE]]
      <4>1. /\ key'[p].error /\ key'[p].registered = key[p].registered
            /\ key'[p].conflict = key[p].conflict
            /\ \A q \in Procs \ {p} : key'[q] = key[q]
        BY <1>1, <3>7
      <4>2. QED
        BY <1>1, <3>1, <3>3, <4>1 DEF TypeOK, KeyInv
    <3>8. QED
      BY <3>2, <3>5, <3>6, <3>7
  <2>5. QED
    BY <2>2, <2>3, <2>4
<1>3. CASE ReadBack(p)
  <2>1. PICK k \in {KeyOk, Conflict, Unconfirmed} :
           /\ key' = [key EXCEPT ![p] = k]
           /\ k = KeyOk => published = "ours"
           /\ k = Conflict => published = "other"
    <3>1. PICK v \in Verdicts :
             SetKey(p, CASE v = "match" -> KeyOk [] v = "differs" -> Conflict [] OTHER -> Unconfirmed)
      BY <1>3 DEF ReadBack
    <3>2. CASE v = "match"
      BY <3>1, <3>2, VerdictsMean
    <3>3. CASE v = "differs"
      BY <3>1, <3>3, VerdictsMean
    <3>4. CASE v \notin {"match", "differs"}
      <4>1. SetKey(p, Unconfirmed)
        BY <3>1, <3>4
      <4>2. Unconfirmed # KeyOk /\ Unconfirmed # Conflict
        BY DEF Unconfirmed, KeyOk, Conflict, Unknown
      <4>3. QED
        BY <4>1, <4>2
    <3>5. QED
      BY <3>2, <3>3, <3>4
  <2>2. key' \in [Procs -> KeyFlags]
    BY <1>1, <2>1
  <2>3. TypeOK'
    BY <1>3, <2>2 DEF TypeOK, ReadBack, disk, relay, session
  <2>4. MigrationInv' /\ RequestInv' /\ StaleTokenIsRenewed'
    BY <1>3 DEF TypeOK, MigrationInv, RequestInv, StaleTokenIsRenewed, ReadBack, disk, session
  <2>5. KeyInv'
    BY <1>1, <1>3, <2>1 DEF TypeOK, KeyInv, ReadBack, relay
  <2>6. QED
    BY <2>3, <2>4, <2>5
<1>4. CASE Recheck(p)
  <2>1. \/ published = "ours" /\ SetKey(p, KeyOk) /\ Goto(p, "request") /\ UNCHANGED mail
        \/ published = "other" /\ SetKey(p, Conflict) /\ Goto(p, "ready")
             /\ mail' = [mail EXCEPT ![p] = "refused"]
        \/ Goto(p, "request") /\ UNCHANGED <<key, mail>>
    BY <1>4 DEF Recheck, Verdicts
  <2>2. key' \in [Procs -> KeyFlags]
    BY <1>1, <2>1
  <2>3. pc' \in {[pc EXCEPT ![p] = "ready"], [pc EXCEPT ![p] = "request"]}
    BY <2>1
  <2>4. \/ mail' = mail
        \/ mail' = [mail EXCEPT ![p] = "refused"] /\ pc' = [pc EXCEPT ![p] = "ready"]
    BY <2>1
  <2>5. TypeOK'
    BY <1>4, <2>2, <2>3, <2>4 DEF TypeOK, Recheck, disk, relay, session
  <2>6. MigrationInv'
    BY <1>4, <2>3 DEF TypeOK, MigrationInv, Recheck, disk
  <2>7. doing[p] = "send"
    BY <1>4 DEF RequestInv, Recheck
  <2>8. RequestInv' /\ StaleTokenIsRenewed'
    BY <1>4, <2>3, <2>4, <2>7 DEF TypeOK, RequestInv, StaleTokenIsRenewed, Recheck, session
  <2>9. KeyInv'
    BY <1>1, <1>4, <2>1 DEF TypeOK, KeyInv, Recheck, relay
  <2>10. QED
    BY <2>5, <2>6, <2>8, <2>9
<1>5. QED
  BY <1>2, <1>3, <1>4

LEMMA SendSteps ==
    ASSUME RelayInv, NEW p \in Procs, Send(p) \/ Accepted(p) \/ Crash(p)
    PROVE  RelayInv'
<1> USE KeyOutcomes DEF RelayInv, Goto, AtRelay, relay, session
<1>1. TypeOK'
  <2>1. key' \in [Procs -> KeyFlags]
    BY KeyOutcomes DEF TypeOK, Send, Accepted, Crash
  <2>2. QED
    <3>1. CASE Send(p)
      BY <2>1, <3>1 DEF TypeOK, disk, Send
    <3>2. CASE Accepted(p)
      BY <2>1, <3>2 DEF TypeOK, disk, Accepted
    <3>3. CASE Crash(p)
      BY <2>1, <3>3 DEF TypeOK, disk, Crash
    <3>4. QED
      BY <3>1, <3>2, <3>3
<1>2. MigrationInv'
  BY DEF TypeOK, MigrationInv, disk, Send, Accepted, Crash
<1>3. KeyInv'
  BY DEF TypeOK, KeyInv, Send, Accepted, Crash
<1>4. RequestInv' /\ StaleTokenIsRenewed'
  <2>1. CASE Send(p)
    BY <2>1 DEF TypeOK, RequestInv, StaleTokenIsRenewed, Send
  <2>2. CASE Accepted(p) \/ Crash(p)
    BY <2>2 DEF TypeOK, RequestInv, StaleTokenIsRenewed, Accepted, Crash
  <2>3. QED
    BY <2>1, <2>2
<1>5. QED
  BY <1>1, <1>2, <1>3, <1>4

LEMMA EnvironmentSteps ==
    ASSUME RelayInv, Environment
    PROVE  RelayInv'
<1> USE DEF RelayInv, Environment, disk, session
<1>1. TypeOK'
  BY DEF TypeOK
<1>2. MigrationInv'
  BY DEF MigrationInv
<1>3. KeyInv'
  BY NoneAssumption DEF KeyInv
<1>4. RequestInv' /\ StaleTokenIsRenewed'
  BY DEF RequestInv, StaleTokenIsRenewed
<1>5. QED
  BY <1>1, <1>2, <1>3, <1>4

LEMMA NextRelay == RelayInv /\ [Next]_vars => RelayInv'
<1> SUFFICES ASSUME RelayInv, [Next]_vars
             PROVE  RelayInv'
  OBVIOUS
<1>1. CASE Environment
  BY <1>1, EnvironmentSteps
<1>2. ASSUME NEW p \in Procs, Step(p) \/ Crash(p)
      PROVE  RelayInv'
  BY <1>2, DiskSteps, TokenSteps, FailureSteps, KeySteps, SendSteps DEF Step
<1>3. CASE UNCHANGED vars
  BY <1>3 DEF vars, disk, relay, session, RelayInv, TypeOK, MigrationInv, KeyInv, RequestInv,
      StaleTokenIsRenewed
<1>4. QED
  BY <1>1, <1>2, <1>3 DEF Next

-----------------------------------------------------------------------------
\* The invariant holds in every reachable state.
THEOREM RelayInvariant == Spec => []RelayInv
<1>1. QED
  BY InitRelay, NextRelay, PTL DEF Spec

\* The variables always have their types.
THEOREM RelayTypes == Spec => []TypeOK
<1>1. RelayInv => TypeOK
  BY DEF RelayInv
<1>2. QED
  BY <1>1, RelayInvariant, PTL

\* However many processes share the identity, one only refuses to send for good
\* on proof that the relay published another client's key.
THEOREM ConflictHasProof == Spec => []ConflictIsProven
<1>1. RelayInv => ConflictIsProven
  BY DEF RelayInv, KeyInv, ConflictIsProven
<1>2. QED
  BY <1>1, RelayInvariant, PTL

\* A cached token costs one retry: no send is refused for it.
THEOREM TokensAreRenewed == Spec => []StaleTokenIsRenewed
<1>1. RelayInv => StaleTokenIsRenewed
  BY DEF RelayInv
<1>2. QED
  BY <1>1, RelayInvariant, PTL

\* However many processes migrate one keystore, die or fail, the old messaging
\* secret is in the backup before it leaves the keystore, and stays there.
THEOREM OldSecretSurvives == Spec => OldKeystoreSurvives
<1>1. ASSUME RelayInv, [Next]_vars
      PROVE  [/\ keystore' # keystore => backup = "old"
              /\ backup = "old" => backup' = "old"]_vars
  <2>1. ASSUME NEW p \in Procs, Step(p) \/ Crash(p)
        PROVE  /\ keystore' # keystore => backup = "old"
               /\ backup = "old" => backup' = "old"
    BY <1>1, <2>1 DEF RelayInv, MigrationInv, disk, Step, Load, Backup, Rewrite, MigrationFails,
          Login, Relogin, Unauthorized, RequestFails, Registered, ReadBack, Send, Recheck,
          Unresolved, Accepted, Crash
  <2>2. ASSUME Environment
        PROVE  UNCHANGED disk
    BY <2>2 DEF Environment
  <2>3. QED
    BY <1>1, <2>1, <2>2 DEF Next, disk
<1>2. QED
  BY <1>1, RelayInvariant, PTL DEF Spec, OldKeystoreSurvives

\* A message that may be unreadable never goes out without the warning, in
\* whatever order the requests about the key fail and the relay changes its mind.
THEOREM UnreadableHasWarning == Spec => UnreadableIsWarned
<1>1. ASSUME RelayInv, [Next]_vars
      PROVE  [\A p \in Procs :
                 AtRelay(p) /\ pc'[p] = "ready" /\ mail'[p] = "sent"
                     => published = "ours" \/ key[p].error]_vars
  <2>1. SUFFICES ASSUME NEW p \in Procs, AtRelay(p), mail'[p] = "sent"
                 PROVE  doing[p] = "send"
    BY <1>1, <2>1 DEF RelayInv, KeyInv
  <2>2. mail[p] = "none"
    BY <1>1, <2>1 DEF RelayInv, RequestInv, AtRelay
  <2>3. mail' # mail
    BY <2>1, <2>2
  <2>4. PICK q \in Procs : Step(q) \/ Crash(q)
    BY <1>1, <2>3 DEF Next, Environment, vars
  <2>5. CASE Accepted(q)
    BY <1>1, <2>1, <2>2, <2>5 DEF RelayInv, TypeOK, Accepted
  <2>6. CASE ~Accepted(q)
    <3>1. mail' = mail \/ \E m \in {"none", "failed", "unauthorized", "refused"} :
                              mail' = [mail EXCEPT ![q] = m]
      BY <2>4, <2>6 DEF Step, Load, Backup, Rewrite, MigrationFails, Login, Relogin, Unauthorized,
            RequestFails, Registered, ReadBack, Send, Recheck, Unresolved, Crash, Fails
    <3>2. QED
      BY <1>1, <2>1, <2>2, <3>1 DEF RelayInv, TypeOK
  <2>7. QED
    BY <2>5, <2>6
<1>2. QED
  BY <1>1, RelayInvariant, PTL DEF Spec, UnreadableIsWarned
=============================================================================
