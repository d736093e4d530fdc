---------------------------- MODULE RelayClient ----------------------------
(***************************************************************************)
(* Processes of one identity and one home directory, with the relay:       *)
(* src/src/xete_mcp/client.py and _get_client of server.py.                *)
(*                                                                         *)
(* A process loads the keystore, migrating an old one; logs in, perhaps    *)
(* with the token another process cached; publishes its messaging key;     *)
(* and sends.  The relay keeps the first key it was given, which may be    *)
(* another client's, until its operator rotates it; it may revoke tokens,  *)
(* fail, and lose answers.                                                 *)
(***************************************************************************)
EXTENDS Naturals, FiniteSets

CONSTANTS
    Procs,
    None,
    Tokens      \* bound: the tokens the relay can issue

ASSUME NoneAssumption == None \notin {"ours", "other"}

VARIABLES
    keystore,   \* "old" (0.1.4: the mailbox's secret is x_secret) or "new"
    backup,     \* <keystore>.pre-derived-key.bak, or None
    cache,      \* the cached token, None when absent, stale or cut short
    published,  \* the key the relay publishes for us: None, "ours", "other"
    issued,     \* tokens the relay issued
    valid,      \* those it still accepts
    rival,      \* another client registered its key first
    pc,
    raw,        \* the keystore as each process read it, while it migrates it
    token,
    doing,      \* what its request is for: "register" or "send"
    fresh,      \* its token was issued during this request
    key,        \* registered, conflict, unconfirmed and error
    mail        \* how its last send ended

disk == <<keystore, backup>>
relay == <<published, issued, valid, rival>>
session == <<token, cache, fresh>>
vars == <<disk, relay, session, pc, raw, doing, key, mail>>

KeyFlags == [registered : BOOLEAN, conflict : BOOLEAN, unconfirmed : BOOLEAN, error : BOOLEAN]
Unknown == [registered |-> FALSE, conflict |-> FALSE, unconfirmed |-> FALSE, error |-> FALSE]

Init ==
    /\ keystore \in {"old", "new"}
    /\ backup = None
    /\ cache = None
    /\ published = None
    /\ issued = {} /\ valid = {}
    /\ rival = FALSE
    /\ pc = [p \in Procs |-> "off"]
    /\ raw = [p \in Procs |-> None]
    /\ token = [p \in Procs |-> None]
    /\ doing = [p \in Procs |-> "register"]
    /\ fresh = [p \in Procs |-> FALSE]
    /\ key = [p \in Procs |-> Unknown]
    /\ mail = [p \in Procs |-> "none"]

Goto(p, l) == pc' = [pc EXCEPT ![p] = l]

-----------------------------------------------------------------------------
(***************************************************************************)
(* load_or_create_identity and _migrate_keystore.                          *)
(***************************************************************************)
Load(p) ==
    /\ pc[p] = "off"
    /\ IF keystore = "old"
       THEN Goto(p, "backup") /\ raw' = [raw EXCEPT ![p] = keystore]
       ELSE Goto(p, "login") /\ UNCHANGED raw
    /\ UNCHANGED <<disk, relay, session, doing, key, mail>>

\* What was read is copied, unless a backup exists.
Backup_OfTheFile(p) ==
    /\ pc[p] = "backup"
    /\ backup' = keystore
    /\ Goto(p, "rewrite")
    /\ UNCHANGED <<keystore, relay, session, raw, doing, key, mail>>
Backup(p) ==
    /\ pc[p] = "backup"
    /\ backup' = IF backup = None THEN raw[p] ELSE backup
    /\ Goto(p, "rewrite")
    /\ UNCHANGED <<keystore, relay, session, raw, doing, key, mail>>

Rewrite(p) ==
    /\ pc[p] = "rewrite"
    /\ keystore' = "new"
    /\ Goto(p, "login")
    /\ raw' = [raw EXCEPT ![p] = None]
    /\ UNCHANGED <<backup, relay, session, doing, key, mail>>

\* A write fails, atomically; the rest of the migration is given up.
MigrationFails(p) ==
    /\ pc[p] \in {"backup", "rewrite"}
    /\ Goto(p, "login")
    /\ raw' = [raw EXCEPT ![p] = None]
    /\ UNCHANGED <<disk, relay, session, doing, key, mail>>

-----------------------------------------------------------------------------
(***************************************************************************)
(* login.                                                                  *)
(***************************************************************************)
\* The relay issues a token; the cache is written, cut short, or left alone.
NewToken(p) ==
    \E t \in Tokens \ issued :
        /\ issued' = issued \cup {t}
        /\ valid' = valid \cup {t}
        /\ token' = [token EXCEPT ![p] = t]
        /\ cache' \in {t, None, cache}
        /\ UNCHANGED <<published, rival>>

Cached(p) ==
    /\ cache # None
    /\ token' = [token EXCEPT ![p] = cache]
    /\ UNCHANGED <<cache, relay>>

\* login(): the cached token if there is one (a stale one reads as none).  A
\* login that fails changes nothing and is tried again by the next call.
Login(p) ==
    /\ pc[p] = "login"
    /\ Cached(p) \/ NewToken(p)
    /\ fresh' = [fresh EXCEPT ![p] = FALSE]
    /\ Goto(p, "request")
    /\ UNCHANGED <<disk, raw, doing, key, mail>>

\* login(force=True), after a 401.
Relogin_Cached(p) ==
    /\ pc[p] = "relogin"
    /\ \/ Cached(p) /\ UNCHANGED fresh
       \/ cache = None /\ NewToken(p) /\ fresh' = [fresh EXCEPT ![p] = TRUE]
    /\ Goto(p, "retry")
    /\ UNCHANGED <<disk, raw, doing, key, mail>>
Relogin(p) ==
    /\ pc[p] = "relogin"
    /\ NewToken(p)
    /\ fresh' = [fresh EXCEPT ![p] = TRUE]
    /\ Goto(p, "retry")
    /\ UNCHANGED <<disk, raw, doing, key, mail>>

-----------------------------------------------------------------------------
(***************************************************************************)
(* _req, and what register_encryption_key and send_multi make of its       *)
(* answer.                                                                 *)
(***************************************************************************)
AtRelay(p) == pc[p] \in {"request", "retry"}

KeyOk == [Unknown EXCEPT !.registered = TRUE]
Conflict == [Unknown EXCEPT !.conflict = TRUE, !.error = TRUE]
Unconfirmed == [Unknown EXCEPT !.unconfirmed = TRUE, !.error = TRUE]
SetKey(p, k) == key' = [key EXCEPT ![p] = k]

\* The request ends, without the answer it was for.
Fails(p, why) ==
    /\ Goto(p, "ready")
    /\ IF doing[p] = "register"
       THEN SetKey(p, [key[p] EXCEPT !.error = TRUE]) /\ UNCHANGED mail
       ELSE mail' = [mail EXCEPT ![p] = why] /\ UNCHANGED key

Unauthorized(p) ==
    /\ AtRelay(p)
    /\ token[p] \notin valid
    /\ IF pc[p] = "request" THEN Goto(p, "relogin") /\ UNCHANGED <<key, mail>>
       ELSE Fails(p, "unauthorized")
    /\ UNCHANGED <<disk, relay, session, raw, doing>>

\* Another status, no answer, or a login that fails: the request raises.
RequestFails(p) ==
    /\ AtRelay(p) \/ pc[p] = "relogin"
    /\ Fails(p, "failed")
    /\ UNCHANGED <<disk, relay, session, raw, doing>>

\* POST /keys/register: the first key stays.  409 says that there is one.
Registered_409IsFine(p) ==
    /\ AtRelay(p) /\ doing[p] = "register" /\ token[p] \in valid
    /\ published' = IF published = None THEN "ours" ELSE published
    /\ SetKey(p, KeyOk) /\ Goto(p, "ready")
    /\ UNCHANGED <<disk, issued, valid, rival, session, raw, doing, mail>>
Registered(p) ==
    /\ AtRelay(p) /\ doing[p] = "register" /\ token[p] \in valid
    /\ published' = IF published = None THEN "ours" ELSE published
    /\ \/ published' = "ours" /\ SetKey(p, KeyOk) /\ Goto(p, "ready")
       \/ published # None /\ Goto(p, "readback") /\ UNCHANGED key
       \/ SetKey(p, [key[p] EXCEPT !.error = TRUE]) /\ Goto(p, "ready")     \* no answer
    /\ UNCHANGED <<disk, issued, valid, rival, session, raw, doing, mail>>

\* _published_key_verdict: what the relay publishes, or nothing that was read.
Verdicts_Conclusive == {"differs"} \cup (IF published = "ours" THEN {"match"} ELSE {})
Verdicts == {"unknown"} \cup (CASE published = "ours" -> {"match"} [] published = "other" -> {"differs"}
                                [] OTHER -> {})

\* After a 409.
ReadBack(p) ==
    /\ pc[p] = "readback"
    /\ \E v \in Verdicts :
          SetKey(p, CASE v = "match" -> KeyOk [] v = "differs" -> Conflict [] OTHER -> Unconfirmed)
    /\ Goto(p, "ready")
    /\ UNCHANGED <<disk, relay, session, raw, doing, mail>>

-----------------------------------------------------------------------------
(***************************************************************************)
(* send_multi.                                                             *)
(***************************************************************************)
\* A proven conflict refuses; a suspicion is looked into first.
Send(p) ==
    /\ pc[p] = "ready"
    /\ doing' = [doing EXCEPT ![p] = "send"]
    /\ fresh' = [fresh EXCEPT ![p] = FALSE]
    /\ IF key[p].conflict
       THEN mail' = [mail EXCEPT ![p] = "refused"] /\ UNCHANGED pc
       ELSE /\ mail' = [mail EXCEPT ![p] = "none"]
            /\ Goto(p, IF key[p].unconfirmed THEN "recheck" ELSE "request")
    /\ UNCHANGED <<disk, relay, token, cache, raw, key>>

Recheck(p) ==
    /\ pc[p] = "recheck"
    /\ \/ "match" \in Verdicts /\ SetKey(p, KeyOk) /\ Goto(p, "request") /\ UNCHANGED mail
       \/ "differs" \in Verdicts /\ SetKey(p, Conflict) /\ Goto(p, "ready")
          /\ mail' = [mail EXCEPT ![p] = "refused"]
       \/ "unknown" \in Verdicts /\ Goto(p, "request") /\ UNCHANGED <<key, mail>>
    /\ UNCHANGED <<disk, relay, session, raw, doing>>

\* The recipient's key cannot be resolved.
Unresolved(p) ==
    /\ pc[p] = "request" /\ doing[p] = "send"
    /\ Fails(p, "failed")
    /\ UNCHANGED <<disk, relay, session, raw, doing>>

\* POST /agent/send-multi is taken; its answer may be lost.
Accepted(p) ==
    /\ AtRelay(p) /\ doing[p] = "send" /\ token[p] \in valid
    /\ Goto(p, "ready")
    /\ \E v \in {"sent", "failed"} : mail' = [mail EXCEPT ![p] = v]
    /\ UNCHANGED <<disk, relay, session, raw, doing, key>>

Crash(p) ==
    /\ pc[p] # "off"
    /\ Goto(p, "off")
    /\ raw' = [raw EXCEPT ![p] = None]
    /\ token' = [token EXCEPT ![p] = None]
    /\ fresh' = [fresh EXCEPT ![p] = FALSE]
    /\ doing' = [doing EXCEPT ![p] = "register"]
    /\ key' = [key EXCEPT ![p] = Unknown]
    /\ mail' = [mail EXCEPT ![p] = "none"]
    /\ UNCHANGED <<disk, relay, cache>>

-----------------------------------------------------------------------------
(***************************************************************************)
(* The relay, its operator, and other clients of the same identity.        *)
(***************************************************************************)
Environment ==
    /\ \/ /\ \E t \in valid : valid' = valid \ {t}
          /\ UNCHANGED <<published, rival>>
       \/ /\ published = None /\ published' = "other" /\ rival' = TRUE
          /\ UNCHANGED valid
       \/ /\ published = "other" /\ published' = "ours"
          /\ UNCHANGED <<valid, rival>>
    /\ UNCHANGED <<issued, disk, session, pc, raw, doing, key, mail>>

Step(p) ==
    \/ Load(p) \/ Backup(p) \/ Rewrite(p) \/ MigrationFails(p)
    \/ Login(p) \/ Relogin(p) \/ Unauthorized(p) \/ RequestFails(p)
    \/ Registered(p) \/ ReadBack(p)
    \/ Send(p) \/ Recheck(p) \/ Unresolved(p) \/ Accepted(p)

Next == Environment \/ \E p \in Procs : Step(p) \/ Crash(p)

Spec == Init /\ [][Next]_vars

-----------------------------------------------------------------------------
TypeOK ==
    /\ keystore \in {"old", "new"} /\ backup \in {None, "old", "new"}
    /\ cache \in issued \cup {None}
    /\ published \in {None, "ours", "other"}
    /\ issued \subseteq Tokens /\ valid \subseteq issued
    /\ rival \in BOOLEAN
    /\ pc \in [Procs -> {"off", "backup", "rewrite", "login", "request", "relogin", "retry",
                         "readback", "ready", "recheck"}]
    /\ raw \in [Procs -> {None, "old", "new"}]
    /\ token \in [Procs -> issued \cup {None}]
    /\ doing \in [Procs -> {"register", "send"}]
    /\ fresh \in [Procs -> BOOLEAN]
    /\ key \in [Procs -> KeyFlags]
    /\ mail \in [Procs -> {"none", "sent", "failed", "unauthorized", "refused"}]

\* A message whose recipient will look up a key that is not ours, or none,
\* never goes out without the client carrying the warning the tools report.
UnreadableIsWarned ==
    [][\A p \in Procs :
          AtRelay(p) /\ pc'[p] = "ready" /\ mail'[p] = "sent" => published = "ours" \/ key[p].error]_vars

\* A process only refuses to send for good on proof: the relay did publish
\* another client's key.
ConflictIsProven == \A p \in Procs : key[p].conflict => rival

\* The old keystore is only replaced when its backup is complete, and the
\* backup is never replaced, whoever else migrates, dies or fails meanwhile.
OldKeystoreSurvives ==
    [][/\ keystore' # keystore => backup = "old"
       /\ backup = "old" => backup' = "old"]_vars

\* A token some other process cached, stale or revoked, costs one retry: a send
\* is refused for it only when a token issued for that send was revoked too.
StaleTokenIsRenewed == \A p \in Procs : mail[p] = "unauthorized" => fresh[p]

=============================================================================
