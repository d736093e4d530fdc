# A verification project for xete-mcp

xete-mcp is an MCP server through which an agent sends end-to-end encrypted
messages, pays for them on Solana, claims %aliases and settles payments through an
escrow program. Nobody watches an agent spend, so what matters most is what the
code says about money: that the spend limits hold, that "sent", "failed" and
"unconfirmed" mean what they say, and that an agent that heeds the answers neither
pays twice nor throws away a ticket it still needs. It also signs what others wrote, resolves names
to wallets, and runs an agent that answers messages. This directory models those
parts of the code in TLA+, checks them with TLC and proves what it can with TLAPS.

Paths below are relative to the repository; `spendguard.py` and its neighbours are
in `src/xete_mcp/`.

    tlc -workers 2 -config SpendGuard_window.cfg MCSpendGuard
    tlapm SpendGuardProofs.tla

## 1. The system

| Component | State it keeps | Operations | Talks to |
|---|---|---|---|
| Spend limits (`spendguard.py`) | the ledger file (`last_ts`, up to 2000 entries, `MAX_ENTRIES`) and its `.lock` file, shared by all processes of a user | `authorize`, `status`; the inverse is `_release_recorded_spend` in `payment.py` | every tool that spends |
| Message payment (`payment.py`, `xete_send_message`) | none between calls; an invoice, a signature and a poll count within one | price, authorize, build, submit, poll, confirm to the relay | relay, RPC endpoint, spend limits |
| Settlement (`settlement.py`, `xete_settle_*`) | a ticket per deposit (the salt exists nowhere else); the escrow is on chain | deposit, claim, reclaim, status; confirmation with a second endpoint | two RPC endpoints, spend limits, relay (notify) |
| %alias claim (`xete_alias_claim`) | none between calls | permit challenge, inspect, authorize, sign, submit, poll, confirm | permit server, RPC endpoint, transaction guard, spend limits |
| Alias resolution (`alias_chain.py`, `_resolve_recipient_corroborated`) | the highest slot seen, per endpoint | `resolve_owner_at`, corroboration of an owner | one to several RPC endpoints |
| Relay client (`client.py`) | token and its cache file, keystore, messaging-key flags | login, `_req` with one retry, `register_encryption_key`, `resolve_recipient`, `send_multi`, `inbox` | relay |
| Transaction guard (`txguard.py`) | none | decode and allow-list what is about to be signed, price it, simulate it | RPC endpoint (simulation) |
| Challenge guard (`signguard.py`) | none | compare the text about to be signed with a template | login, alias claim |
| Unsigned drafts (`draft.py`) | none | build and re-verify an unsigned settlement | RPC endpoint |
| HTTP boundary (`safehttp.py`) | none | endpoint identity, redaction, bounded reads | everything remote |
| Agent runtime (`src/agent_runtime.py`, `src/agent_handlers.py`) | seen-message list (persisted), rate limiter | poll, handle, reply, mark, tick | relay, handlers |
| Echo tour (`src/echo_tour.py`) | per-sender step, invite-code pool, both persisted | `advance`, `check_low_pool` | agent runtime |
| Cryptography, kbkit hand-off, brainstorm and retrieval, command-line helpers | none, or text | pure functions, process spawning, prompting | - |

What is hard here:

* **Concurrency.** Several server processes share one ledger file. The flock must
  make "read, check, write" one step, and a release must not take out another
  call's entry.
* **Time.** The window is measured with a wall clock that may jump. The code holds
  it when it is set back by more than a slack of two seconds, and follows it
  otherwise.
* **Uncertainty.** After `send_transaction` the client cannot know whether a
  transaction is live: an answer may be lost, a retrying endpoint may refuse its
  own duplicate, a status below a durable commitment may be forked away, an
  endpoint may be wrong. Each of these has an exception and an answer of its own.
* **Crashes.** A process killed at any point must not free budget that is spent,
  hold the lock, leave half a ledger, lose the only copy of an old messaging
  secret, or hand out an invite code twice.
* **Other people's transactions.** A permit server's claim and a stranger's draft
  are signed if they pass a list of checks; each check is simple, and what matters
  is that nothing passes all of them and does something else.
* **Stale reads.** The owner of a name, an escrow's state, a cached token and a
  published key are read from hosts that lag, fail, go back, or lie.
* **What the reader does next.** An answer is only right or wrong together with
  the decision it leads to, so the agent that reads it is part of the models.

What makes each component correct, in one line each:

* Spend limits: the charges standing in a window never exceed its limit; no
  charge is forgotten early, taken off by another call, or changed by compaction;
  a call that never submitted gets all of its charge back; every call is answered.
* Message payment: "sent" only of a durable payment; "failed" never of one whose
  fate is open; whatever may be live is charged; heeding the answers pays once.
* Settlement: a success is final; a failure or "dropped" never lands, also when
  one endpoint makes things up; a deposit that may be live keeps its ticket and
  its charge; heeding the answers funds one escrow.
* Alias claim: as message payment, plus that what is signed does one thing, costs
  the price asked, and was charged for; "claimed" of a submitted claim only when the
  name is ours.
* Alias resolution: no wallet is paid that an honest endpoint said was replaced since
  it was last called behind; a name becomes a wallet only when two servers agree.
* Unsigned drafts: whoever wrote it, a draft that passes pays the payee the amount
  and does nothing else; the escrow a corroborated report shows was there as shown.
* Relay client: mail that the recipient cannot be sure to read carries a warning; sending
  is refused for good only on proof; the old secret survives the migration.
* Agent runtime: every message is answered in the end or dropped on purpose; what
  is marked was; a mark is lost only when the store or a reply failed.
* Echo tour: a code goes to one sender; asking again gives the same codes; a low
  pool is told of once.

## 2. Modules

| Module | What it is |
|---|---|
| `SpendCeiling` | the abstract promise: approvals one at a time, each counting everything charged within the horizon |
| `SpendGuard` | `authorize`, the ledger file, the lock, the clock rule, pruning, compaction and release, for any number of concurrent calls; implements `SpendCeiling` |
| `Cluster` | external: a transaction on the Solana cluster (in flight, executed on a fork, abandoned, confirmed, failed, expired) and what an honest endpoint may report of it |
| `Payment` | `xete_send_message` and `pay_herd` over `Cluster`, with the agent that decides whether to call again |
| `Settlement` | `xete_settle_create`, `_claim`, `_reclaim` with `_send` and `_await_confirmation` over `Cluster`, two endpoints of which one may lie, the escrow program and both agents |
| `TxGuard` | the checks of `inspect_alias_claim` and its fee arithmetic, beside what the runtime and the registry do with the same transaction |
| `AliasClaim` | `xete_alias_claim` over `TxGuard` and `Cluster`: the permit server, the simulation, the charge, the signature, the polls, a rival for the name |
| `Resolution` | `resolve_owner_at`: the floor and the ceiling per server, the forgotten mark, and the two servers that must agree |
| `Draft` | what `verify_draft` checks, beside what the runtime and the settlement program do with the same transaction |
| `UnsignedPayment` | the draft, verify and status tools over `Resolution` and `Draft`, with the human who signs |
| `RelayClient` | the keystore and its migration, login and the cached token, key registration, the re-check before a send; any number of processes on one disk |
| `EchoTour` | the tour's steps and the pool of codes, as operators |
| `Agent` | the loop of `agent_runtime.py` with the tour as its handler: three files, failing sends, crashes |
| `Sums` | what a sum over a finite set obeys, proved once for the modules that add lamports up |
| `SpendGuardProofs`, `PaymentProofs`, `SettlementProofs`, `AliasClaimProofs`, `RelayClientProofs`, `UnsignedPaymentProofs`, `AgentProofs` | the inductive invariants of a component, and what follows from them |
| `MC...` | values for model checking |

An operator named `X_Something` is `X` with one plausible mistake in it. Nothing
uses it; `PROJECT.json` pairs each with the property it would break, and so shows
that the property is about the code.

### SpendGuard and the code

`ledger` is the JSON file; an entry's `tag` stands for its path and detail string.
The detail carries a random token per attempt, so no two entries are equal and
entries form a set. `covers` (which attempts an entry stands for) is history: one
attempt, until `_compact` merges entries. `lock` is the flock. `caller`, `quoted`
and `charged` are the arguments of `authorize` and `max(lamports, floor)`. `snap`
and `now` are the locals between read and write.

`authorize` is `Ask` (the refusals before the lock), then `RefuseWindow` or
`CheckWindow` (lock, read, effective clock, prune, compare), then `Record`
(compact, replace the file, unlock). `RefuseUnavailable` is every failure between
the two, an unreadable ledger included; all are refusals that change nothing on
disk. `_release_recorded_spend` is `ReleaseRead`, `ReleaseWrite`, and
`ReleaseSwallowed` for the exceptions it swallows. `Crash` may happen anywhere and
the kernel drops the flock. `SetClock` sets the wall clock to anything.

`booked`, `at` and `counted` are history: which approvals stand, their stamps, and
whom each one counted. The code has no such variables; the properties need them to
say what the file should remember.

`ReleaseAmount` keeps a real difference between callers: `pay_herd` releases what
`authorize` charged, `deposit` and the alias claim release what they asked for
(see section 4).

### Payment and the code

The agent wants one message delivered. Each call of the tool takes a fresh
invoice, signs a transaction of its own and gets one `verdict`. `SendMulti` is
everything up to the price, `Authorize` the spend gate (in detail in `SpendGuard`;
here its outcome is a choice and the ledger is the set `booked`), `BuildFails` and
`Build` the refundable span, `Accepted`, `Rejected`, `AlreadyProcessed` and
`Unanswered` the outcomes of `send_transaction`, `PollAgain`, `PollError`,
`PollDurable` and `TimeOut` the loop, `ConfirmPayment` the receipt request.
`MayCall` is the agent: it calls again only if every earlier call reads as unpaid,
because its answer says so or because, as DO_NOT_RETRY_BLINDLY asks, it looked up
the signature and saw that it failed or can no longer land.

### Settlement and the code

A call is a deposit, a claim or a reclaim. `End` is an answer that carries the
ticket if the call is a deposit, `EndBare` one that comes before there is a
ticket. `Create`, `Claim` and `Reclaim` are the tools up to `_send`. `Accepted`,
`Rejected`, `AlreadyProcessed` and `Unanswered` are `_send`'s submit; unlike
`pay_herd`, it gives nothing back on a refusal. `PollDurable`, `PollForkable`,
`PollGone` (with `Corroborate`) and `GiveUp` are the turns of
`_await_confirmation`. `ReadClosed` is the agent following `next_step`: it asks
`xete_settle_status` and gets determinate=true, open=false.

`liar` is the endpoint, if any, that makes up its answers: it may report any
status, call any blockhash dead, and the primary may keep a transaction back and
forward it later (`ForwardLate`). An honest endpoint calls a blockhash dead only
from a finalized slot (the client asks without a commitment, for which
finalized is the default), so it has then seen every transaction that could have
used it (`Gone`).
An endpoint that lags behind the blockhash also calls it dead, as it is asked
without a minimum slot; such an endpoint is one more `liar`.

### TxGuard, AliasClaim and the code

A transaction is a record: format, fee payer, signature slots, and a sequence of
instructions that carry what the checks and the programs tell apart. `Framed`,
`SignersRight`, `DataRight`, `SeatsRight`, `BudgetRight` and `ProgramsRight` are
the groups of checks of `inspect_alias_claim`; `Approved` is their conjunction.
`PriorityFee` and `WorstFee` are the guard's arithmetic. `Records`, `Moves` and
`RuntimeFee` are the reference: what the same record does when it runs. The two
halves share only the selection of instructions and the rounding, so that a check
that is missing or wrong shows as a difference.

In `AliasClaim`, `Inspect` takes any of the offered transactions that passes;
`Refused` stands for every refusal before the charge, a challenge that the
challenge guard rejects included. Twice the tool repeats the permit server's own word
for the outcome: instead of a permit (server.py:1091) and after a durable claim
(server.py:1275). `PermitWords` are those words as an agent reads them, any of which
the server may choose: claimed, denied, or anything else. `Authorize` charges `SpendCharge`, the simulated debit
or the static one, and `SignFails` releases it. `Accepted` and `Unanswered` are
the submit; `PollRaises` is a status request that raises (the code does not guard
it), `PollError` an error seen on a fork or for good, `PollDurable` the end of the loop, `ConfirmClaim`
the permit server's last word, which may be anything. `Rival` is another wallet
that takes the name. The charge does not add the fee to a simulated debit, which
already contains it; what a validator takes in the end is the debit and a fee that
`SpentIsCharged` bounds. A transaction carries our signature as we made it: an
endpoint that answers with another signature is not modelled.

### Resolution, Draft, UnsignedPayment and the code

`history` is the owner of the one name, slot by slot. `Begin`, `Ask`, `Reply`,
`Behind` and `Unusable` are a call of `_resolve_recipient_corroborated` from one
endpoint to the next; `seen` is `_slot_seen`. The floor is read in `Ask` and used
in `Reply`, so that concurrent calls of one process interleave there. `told` is
history: the highest slot a server's answers gave a caller. `now` is a fresh reading of the
wall clock in each step, any of `0..MaxClock`: it may stand still or go back.

`Draft` is built like `TxGuard`: `FrameRight`, `ShapeRight`, `NonceRight`,
`DepositRight`, `MovementsRight` and `Understood` are the checks of `verify_draft`
(`Verified` their conjunction), `Opens`, `Leaves`, `Advances`, `Executes` and
`Charges` the reference. In `UnsignedPayment` the human plans (`Plans`) what the calls are
for; `DraftDeposit`, `VerifyDraft` and `Status` are the tools, and `Land` and
`Squat` are what happens on the chain: the approved draft is signed and runs, or somebody
else opens an escrow at the ticket's id first. `Close` is a claim or a reclaim of what is
open. `held` is history: what the address has held, nothing included. An honest endpoint
shows any of it, since the code asks for the account without a minimum slot
(settlement.py:681). `shown` is the account that a report's amount and commitment are
read from.

### RelayClient and the code

`Load`, `Backup`, `Rewrite` and `MigrationFails` are `load_or_create_identity` and
`_migrate_keystore`; `raw` is what a process read of the keystore before it
writes. `Login` and `Relogin` are `login`, with the token cache that all processes share
(its file may be cut short, or its write fail, hence `cache' \in {t, None, cache}`).
`Unauthorized` and `RequestFails` are `_req` with its one retry. `Registered` and `ReadBack`
are `register_encryption_key`, `Send`, `Recheck`, `Unresolved` and `Accepted`
`send_multi`. `key` is the four flags the client keeps, one of which the tools
report as a warning. `Environment` is the relay's operator and the other clients
of the same identity: tokens are revoked, a rival registers its key first, the
operator rotates it to ours.

### Agent, EchoTour and the code

One round is `Poll`, then for each unseen message `NotForUs`, `Limited` or
`Handle`, `SaveState`, and `Delivered` or `Undelivered`; then `Tick`, `Alert` and
`SaveSeen`. `Handle` is `advance()` up to `_save_state`: the pool is written
first, then the record, then the reply leaves. `saved`, `recs` and `pool` are the
files, which a crash leaves as they are; `Fault` is a read or a write of one of
them that fails (an unreadable file reads as empty, a failed write is swallowed, and the seen
store, written in place, may be left empty). A poll that fails changes nothing. The pool's read and
write are one step, as the docstring of `_pop_codes` promises: a top-up by hand
between the two would be lost.

`TourHandler.handle` catches nothing (agent_handlers.py:59); it is the tour's own file
functions that swallow their failures. What is left to raise is a state file that can be read and
holds a record of another shape, for which the loop's handler (agent_runtime.py:182)
marks the message without an answer: not modelled. The handler gives no
platform hint, so that the branch of the engine on a known platform is never taken
at WORDS. The page size of the inbox and SEEN_CAP are not modelled.

## 3. Runs

| Run | Configuration | Shows | States |
|---|---|---|---|
| `window` | 3 calls, clock 0..5, window 3, slack 1, ledger of 2 entries, floor 2, quotes 1 and 5, limit 6, symmetry | `WindowCeiling`, `NothingForgotten`, `AmountsConserved`, `OnlyOwnerOrAge`, `ImplementsCeiling` | 721 k |
| `refund` | 2 calls, all three callers, quotes below the floor, above it and above the cap; fairness | `RefundLeavesNothing`, `CallsAnswered` | 247 k |
| `payment` | 2 calls, 2 polls each; fairness | `SentMeansPaid`, `LiveIsCharged`, `FailedIsNotInDoubt`, `PaidAtMostOnce`, `CallEnds` | 31 k |
| `relay_failure` | one call | finding: `FailedNeverSwallowsAPayment` fails | - |
| `settlement_parties` | a deposit, a claim and a reclaim of one escrow | `SuccessIsFinal`, `FailedNeverLands` | 1.45 M |
| `settlement_retry` | 2 deposits; nobody, the primary or the second endpoint lies | `LiveDepositIsKept`, `FundedAtMostOnce`, `DroppedNeverLands` | 110 k |
| `in_flight_status` | one deposit | finding: `ClosedMeansNeverFunded` fails | - |
| `alias_claim` | 2 calls, a family of offered transactions around the proper one, with and without a price cap and a pinned treasury, symmetry | `TypeOK`, `SignedIsOurClaim`, `SignedCostsTheQuote`, `SpentIsCharged`, `ClaimedIsOurs`, `OneClaimInDoubt` | 550 k |
| `claim_failed` | one call | finding: `FailedNeverSwallowsAClaim` fails | - |
| `unsigned_payment` | 2 calls of the three tools, planned in seven ways, three URLs of two servers, one of which may lie, 3 slots, a wall clock that may go back, offered drafts around the proper one, symmetry | `TypeOK`, `OldOwnerIsNotPaid`, `BehindMeansBehind`, `ApprovedPaysThePayee`, `ApprovedDoesNothingElse`, `CorroboratedReportIsTrue` | 418 k |
| `relay_client` | 2 processes, 3 tokens, symmetry | `ConflictIsProven`, `StaleTokenIsRenewed`, `UnreadableIsWarned`, `OldKeystoreSurvives` | 278 k |
| `agent` | 2 senders at the question about their device, 2 messages, 3 codes, 1 a grant, 1 crash or failing file; fairness | `TypeOK`, `CodesGoToOne`, `SameCodesAgain`, `MarkedIsSettled`, `UnsavedIsExcused`, `AlertedOnce`, `EverySettled` | 341 k |

**Bounds, and why they are enough.** `MaxClock` bounds the clock and nothing else:
5 leaves room for a stamp to age out of a window of 3 and for the clock to come
back. A wrong order between two calls that a third call then suffers from needs
three calls. With `MaxEntries` 2 the third approval has to merge the oldest two;
a limit of 6 lets three floors of 2 stand together, and the quote of 5 with none of them. `MaxPolls` (30 in the code) only counts turns
of the loop; two let one poll miss and the next hit. Two payments are what
`PaidAtMostOnce` compares, and two deposits what `FundedAtMostOnce` does; the
proofs lift both to any number. In `Settlement` and `AliasClaim` polls are not
counted: the budget of the loop may run out at any turn.

The families of transactions in `MCAliasClaim` and `MCUnsignedPayment` hold a
proper one and, for each field a check reads, one that differs there; where two
fields could make up for each other (fee and limit, instruction and amount) they
are combined. Their lamports are scaled so that a rounding, a missing limit and a
fee above its bound all occur. `MaxSlot` 3 is a name that is claimed, changes hands
and is read at a slot between; with two servers the map of marks never reaches
`SeenMax`, so that its eviction, though translated, does not fire (`BehindIsBehind`
is proved with it). A lying server's
slots are the lowest and the highest, as only comparisons read them. The two calls
are planned as the hazards need them: two drafts that resolve the name at once, a
verification or a status call that resolves it on its own, and a draft or a
verification followed by the next tool with the payee named by wallet. A draft that was
built for an earlier owner is among the offered transactions, so the verification
by name meets it as well. What strangers do at the ticket's address is only looked at
where a call reads the status (`Watched`): no other tool reads the escrow.

Three tokens let a process use a cached token that was revoked, a new one that is
revoked too, and a third. In `agent` two senders share the pool, which starts one
code above the threshold: the second tour's end makes it low, a top-up ends the
episode. One mishap is a crash or one failing file; `AgentProofs` lifts the safety
properties to any number. `MCAgent` also asserts, over all records and words, that
the tour goes on: from each step but the last some word leads on, and none back.

**Symmetry** is used only in runs of safety properties, over names that no
definition tells apart (attempts, claims, owners, processes and tokens). Deadlock
is checked in the other runs; the calls of `Payment`,
`AliasClaim` and `UnsignedPayment` are finitely many, and when all are answered
and the chain is settled the system really stops.

**Fairness.** `SpendGuard`'s `FairSpec` says that a live process that waits for a
free lock gets on, and that a holder leaves the block the lock guards, which
contains no wait; a killed process frees the lock. The lock is a blocking `flock`,
so without a release of it `CallsAnswered` would fail, and failures, which would
also end the waiting, are not counted on. The calls are finitely many: an endless
stream of other calls could starve one, since `flock` promises no order.
Nothing is assumed of the clock, of crashes, or of who gets the lock first.
`Payment`'s says that a running call takes its next
step, which the code's request timeouts and counted poll loop justify. Nothing is
assumed of the chain, so `CallEnds` does not depend on a transaction landing.
`Agent`'s says that the loop goes on, which is what `run()` is and every call in it has
a timeout for, that a supervisor starts it again after a crash, and that the relay does not refuse the
reply to one message for ever (strong fairness of `Delivered`, since the loop comes back to it
again and again); nothing is assumed of the limiter's window, the files or arrivals.

## 4. Where the code and its documentation disagree

Each finding is a run whose property quotes the documentation.

* `relay_failure`: `confirm_payment` raises after the payment is durable, and the
  generic handler (server.py:458) answers a plain `failed` with no signature: what
  the comment at server.py:439 says can never happen. `PaidAtMostOnce` exempts it.
* `in_flight_status`: "determinate=true and open=false: the deposit did not happen
  and your funds never left" (server.py:1592) is also what status answers while
  the deposit is still in flight. `FundedAtMostOnce` exempts it.
* `claim_failed`: the polls of an alias claim (server.py:1222) are not guarded; one
  that raises ends in `failed` without a signature after the submit, which is what the
  comment at server.py:1202 says must not be answered. `OneClaimInDoubt` exempts it.

Noted while reading, without a run of their own:

* `pay_herd` takes `st.err` at any commitment as definitive (payment.py:372, and
  payment.py:59 says so of the answer); `settlement.py:422` explains why that is
  not proof. `PaidAtMostOnce` exempts an error seen on a fork; so does
  `OneClaimInDoubt` for `failed_on_chain`;
* `deposit` and the alias claim release the amount they asked for, `authorize`
  recorded at least the floor: below the floor the release matches no entry and
  the charge stays, though settlement.py:555 says that it is given back.
  `RefundLeavesNothing` is about the calls whose release names what was recorded
  (`NamesItsCharge`): message payments, and the others from the floor on;
* a charge that `_compact` merged before its release stays in the merged entry, which no
  release matches: with 2000 entries in one window, on the safe side.
  `RefundLeavesNothing` exempts it;
* '"claimed" REQUIRES DURABLE CHAIN EVIDENCE' (server.py:1248), but a permit server that
  answers `claimed` where `approved` is expected (server.py:1082-1091) makes the tool answer
  `claimed` with nothing signed and no `tx_signature`. `ClaimedIsOurs` is about claims that
  were submitted;
* "It just no longer decides" (server.py:1254) of the permit server's confirmation: it
  decides the `status` of a durable claim unless it is `confirmed` (server.py:1275). A
  word like `denied` then reads as unclaimed, and a second claim is signed, which can
  only fail on the name that is ours. `OneClaimInDoubt` exempts it;
* `xete_settle_status` reads the escrow without a minimum slot (settlement.py:681), so two
  endpoints that are behind, or one and one that lies, agree on an escrow that was
  claimed or reclaimed since: "open" with `corroborated` says that it was there, not
  that it still is;
* "every tool that can be affected reports it" (server.py:200), but neither `sent` answer of
  xete_send_message (server.py:401, 429) shows the messaging-key warning.
  `UnreadableIsWarned` is about the flag the client keeps;
* an endpoint that is called behind loses its mark (alias_chain.py:442), on purpose: the next
  answer is taken at any slot. With two such endpoints, or one and one that lies, an
  owner that was replaced before is paid then. `OldOwnerIsNotPaid` counts from the last
  time an endpoint was called behind;
* the guidance of `xete_settle_claim` (server.py:1661) and `xete_settle_reclaim`
  (server.py:1721) reads a closed escrow as "mine landed"; it may have been closed
  by the other party, or not be open yet;
* `EffectiveNow` follows a clock set back within the slack, so the ceiling holds
  for the window less the slack (which is what is checked), not for the whole window;
* `pay_herd`'s docstring (payment.py:224) says nothing is released from
  `send_transaction` on; a refused submit is released (payment.py:297), for reasons
  given there;
* every retry of a reply that could not be sent is counted by the rate limiter
  (agent_runtime.py:175); once it is over the limit the message is dropped and
  marked, against "leave unseen so we retry next cycle" (agent_runtime.py:191).
  `EverySettled` counts that as dropped on purpose;
* a retry runs `advance()` again on a record that has already moved
  (echo_tour.py:369), so the sender may miss a step's text;
* the pool remembers the low-pool alert before it is sent: a cooldown or a failed
  send (agent_handlers.py:69) swallows the one alert of the episode
  (echo_tour.py:239);
* an unreadable state file reads as empty and the next save writes that back, so all
  senders start again, and get new codes; a crash between pop and save loses the
  codes that were popped;
* a send whose answer is lost is reported as failed (client.py:658), and sent again
  it is read twice;
* a tolerance (XETE_ALIAS_TX_TOLERANCE_LAMPORTS) set below the rent of a record, with the
  simulation not required, charges an unsimulated claim less than it takes
  (txguard.py:1221): the ceiling that `spend_charge` falls back on counts on the
  tolerance for the rent, and nothing compares the two;
* two processes that both start without a keystore (client.py:277) each make an
  identity, and one of them is not the file's.

## 5. Proofs

Every theorem is for all values of the constants that satisfy the named
assumptions. Each module proves inductive invariants, and what follows from them.

| Module | Assumptions | Theorems |
|---|---|---|
| `SpendGuardProofs` | `NamesAssumption`, `QuotesAssumption`, `LimitsAssumption` | `BooksAreKept`, `TypeCorrect`, `NothingIsForgotten`, `ApprovalsAreSerial`, `OthersKeepMyCharge`, `MoneyIsKept`, `CeilingHolds`, `NoMoneyIsLost`, `RefundIsWhole`, `LedgerImplementsCeiling` |
| `PaymentProofs` | `PollsAssumption` | `PaymentInvariant`, `PaymentTypes`, `SentIsPaid`, `LiveStaysCharged`, `FailedIsCertain`, `HeedingPaysOnce` |
| `SettlementProofs` | `CallsAssumption`, `EndpointsAssumption` | `SettlementInvariant`, `SettlementTypes`, `LiveDepositsAreKept`, `DroppedStaysDropped`, `FailedStaysFailed`, `ConfirmedIsFinal`, `HeedingFundsOnce` |
| `AliasClaimProofs` | `CapsAssumption`, `UsAssumption`, `TreasuryAssumption`, `OffersAssumption`, `FeesAssumption`; for `SpendingIsCharged` also `Rent <= Tolerance` | `AliasInvariant`, `SignedClaimsForUs`, `ClaimedStaysOurs`, `HeedingClaimsOnce`, `CostInvariant`, `TypeCorrect`, `SigningCostsTheQuote`, `SpendingIsCharged` |
| `RelayClientProofs` | `NoneAssumption` | `RelayInvariant`, `RelayTypes`, `ConflictHasProof`, `TokensAreRenewed`, `OldSecretSurvives`, `UnreadableHasWarning` |
| `UnsignedPaymentProofs` | `LagAssumption`, `EndpointsAssumption`, `DraftAssumption`, `OffersAssumption`, `AmountsAssumption`, `PlansAssumption`; for `NoOldOwnerIsPaid` also `NothingEvicted` | `ApprovedPaysTheRightWallet`, `CorroboratedIsTrue`, `BehindIsBehind`, `NoOldOwnerIsPaid`, `ApprovedIsBounded`, `TypeCorrect` |
| `AgentProofs` | `AgentAssumption` | `AgentInvariant`, `AgentTypes`, `OneSenderPerCode`, `NeverNewCodes`, `NothingMarkedEarly`, `MarksAreSaved`, `OneAlert` |

**SpendGuard.** Neither `NothingForgotten` nor `LaterCountsEarlier` is inductive: a holder of the
lock overwrites the file with what it read earlier. `BooksInv` adds why that is
harmless. Only the holder is between read and write (`LockExcludes`), so what it
read is what it overwrites and its effective clock is at most the slack behind the
file (`SnapshotCurrent`). An entry with a token covers its own attempt only
(`TokensOwnEntries`), so a release takes off its own charge and a merged entry
cannot be released. Then `Record` keeps every live entry, or merges it into one
with a stamp at least as late; and a charge stamped within a window less the slack
of the new one is live at the new one's clock, and so counted.

`MoneyInv` says what the file is worth. An attempt is charged what it asked for or
the floor (`ChargedAsAsked`), only an approved one is on the books (`OnlyApproved`),
entries and books are finite, and what the holder of the lock added up under the
limit is still what is live on disk when it writes (`CheckedFits`). `AmountsConserved`
survives compaction because the merged entry adds up entries that cover different
attempts. `WindowCeiling` only has to be
restored by `Record`: a standing charge that shares a window, less the slack, with the new one
is covered by an entry that is live at the new one's clock (`ApprovalFits`), and the
sum of the live entries and the new charge was compared with the limit. A
release leaves at most one entry of its token, so none is left after it
(`OwnEntryGone`); an entry with another token covers its own attempt, so that what
still counts a released call is a merged one.
`LedgerImplementsCeiling` maps each step to a step of `SpendCeiling`: `Record` is its
approval, whose bound is the bound just described, a finished release takes one
charge back, the rest stutters.

**Sums.** A sum over a set is a fold, that is, a recursive function over the subsets,
and the induction theorems of the library take the formula as a parameter, which the
provers cannot instantiate. `Sums` replaces induction by the least counterexample,
which the library's `WFMin` gives for a set: that the recursive function exists, that
it is unique, that it does not depend on the order of the elements, and from there the
laws the other modules cite (the sum of two disjoint sets, of a set with one more
element, of a part, of zeros, sums that agree term by term).

**Payment.** The argument separates a call from the others. `Own(c)` is what must hold of one
call and its transaction: nothing is on the chain before the submit, a status once
reported confirmed stays confirmed, what is signed is charged. `StepKeeps(c)` says
that a step of `c` or of the cluster on its transaction restores `Own(c)`, leaves
the others alone and takes back no answer that read as unpaid. `Serial` (of two
calls that began, one reads as unpaid) follows, and with it `PaidAtMostOnce`: an
unpaid reading of a confirmed payment can only be one of the two wrong answers.

**Settlement** has the same shape, over two endpoints. What it adds: nothing is on
the chain that no endpoint was handed; an honest endpoint's word on a dead
blockhash stays true, so that of the two words that `dropped` rests on one is; and an escrow was opened, claimed or
reclaimed only by a transaction that is confirmed, so that one side of a claim and
a reclaim fails. `FailedStaysFailed` and `ConfirmedIsFinal` need an honest submitting
endpoint: a primary that lies about a commitment can say anything of a single
transaction, which is what the code accepts by asking it alone.

**AliasClaim** goes from the guard to the chain: a lemma shows that a transaction
that is `Approved` writes our record and no other (exactly one registry
instruction, whose seats and data are ours), and the invariant carries that from
the inspection to what is signed and what is on the chain. The name, once ours on the chain,
stays ours, and `PollDurable` is only taken when it is. The permit server's words are
any words: "claimed" is tied to the chain where there is a transaction, and a denial
that follows a durable claim is one of the three answers `OneClaimInDoubt` exempts.

Of the costs, the lemmas `ApprovedMoves`, `ApprovedBudget` and `ApprovedFee` say what a
transaction that passed the checks does: all transfers add up to nothing but the price, so it moves
the price and the rent, and the guard's fee is no less than the runtime's. `CostInv`
carries that through the charge (`Vetted`, `Covered`). `SpendingIsCharged` needs the tolerance
to cover the rent: with the simulation optional, a claim that could not be simulated
is charged the price and the tolerance, which by default is three times the rent
(txguard.py:169).

**RelayClient.** `conflict` is only set where the relay was seen to publish another
key, which a rival registered (`rival` never falls back). A retry's token is the one it
was just issued. A process between `Backup` and `Rewrite` leaves a backup of what it
read, which is the old keystore: it cannot have read the new one.

**UnsignedPayment** needs three invariants. A draft of the right shape has one deposit and
creates no account, so what `verify_draft` reads of that deposit is all it opens. Of
two servers that agree one is honest, and what an honest one shows the address has held
(`held` only grows). No slot
is remembered that was not told (`SeenIsTold`), so a floor never accuses a server of
less than it said. Conversely what was told is remembered (`ToldIsSeen`), so an
honest answer is no older than the tolerance. That half fails once `_slot_seen`
evicts, and is therefore proved under `NothingEvicted`: a process that has asked at
most 64 servers, with the tolerance switched on; `MCUnsignedPayment` has TLC
evaluate it. That the two endpoints are two servers is a lemma about the fold in
`Endpoints` (`EndpointsAreDistinct`), by the same least counterexample as in `Sums`.

`ApprovedIsBounded` goes through the order of the instructions: a draft of the right
shape is the nonce's advance, if there is one, two budget instructions and the deposit, in
those places, so nothing else can move lamports or advance a nonce. `TypeCorrect` rests on what a
call has learnt (`LearntInv`: who goes on has two endpoints and was told of owners)
and on what the human was given (`HumanInv`).

**Agent.** Two lemmas are about the operators: `TurnedCodes` (a turn gives the codes
the sender had or those it was handed, and only the end of the tour has codes) and
`PoppedLeaves` (what is popped leaves the pool, and nothing else does). The
invariant then follows the codes: what each sender owns, in the record on disk, in
the record about to be saved, in the reply about to be sent or already sent, is
disjoint from the pool and from what every other sender owns (`CodesInv`), and
while the state file works the record holds what was sent (`SameInv`). `UnsavedInv` and
`AlertInv` do the same for the marks and the alert between the steps of a round.

**Only model-checked.** The liveness properties, `CallsAnswered`, `CallEnds` and
`EverySettled`: fairness and ENABLED are out of the prover's reach. Every invariant and
action property of the passing runs, and the refinement, is a theorem. The findings
of section 4 are runs by nature.

## 6. What is not modelled, and assumptions

* Amounts and times are whole numbers; lamports in the code are unbounded Python
  integers, times are floats compared the same way.
* A corrupt ledger, unusable settings and a symlinked path are all refusals and
  collapse into `RefuseUnavailable`. All processes are taken to have the same
  limits. `status()` of the spend limits reads only.
* A ledger write is atomic (`os.replace`), and so are the keystore's, the state
  file's and the pool's; a disk that loses a completed rename is not modelled.
* An endpoint that refuses a transaction has not forwarded it, unless it lies.
  In `AliasClaim` the endpoint does not lie: the code asks one, and rests on it.
* The permit server's word, where the tool repeats it, is sorted by how an agent reads it.
* In `Settlement` the one read of `xete_settle_status` is honest and current; its
  rules for two disagreeing endpoints are in `UnsignedPayment`.
* Decoding of transactions, accounts and messages is abstracted to the fields it
  yields; a malformed one is a refusal.
* `signguard.py` compares text with a template and keeps nothing; it is one more
  reason to refuse.
* `safehttp.py`: `endpoint_identity` decides which URLs are one server
  (`Resolution`); redaction, size limits and redirects are text and I/O.
* In `RelayClient` the creation of a first keystore and the decryption of an inbox
  are left out.
* `AgentHandlers` other than the tour, cryptography, the kbkit hand-off, brainstorm
  and retrieval and the command-line helpers are pure functions, text, or
  external services.
* The on-chain programs, the cluster, the relay and the agents are external: they
  do what the code's requests and documentation expect of them.

## 7. Plan

The modules planned for this system exist. What is left, in the order of use:

1. limits per process in `SpendGuard` (a shorter `XETE_SPEND_WINDOW_SECONDS` in one
   process prunes what another still needs);
2. the creation of a keystore by two processes, and the inbox with SEEN_CAP;
3. fairness of `_await_confirmation`: every settlement call ends;
4. `NoOldOwnerIsPaid` with eviction: the servers asked most recently keep their floor.
