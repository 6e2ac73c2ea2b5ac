# TLA+ verification of the selfmade MPC wallet

This directory specifies the wallet service of this repository in TLA+: modules
that follow the source handler by handler, TLC configurations that check them
on small instances, and TLAPS proofs of the theorems that hold for every number
of withdraws, creations, signings, accounts, tabs and requests. `PROJECT.json`
maps every definition to the source lines it stands for and lists the runs, the
hazards, the findings and the theorems.

    tlc -workers 2 -config SignSafety.cfg MCSignOrchestrator.tla
    tlapm SignOrchestratorProofs.tla

and likewise for the other rows of the tables below.

## The system

A wallet is one Ethereum key split 2-of-3 (DKLs23): share A in the browser's
IndexedDB, share B in the API's Postgres (`Wallet.encryptedShareB`), share C in
the SQLite of the Recovery server. Two parties sign together; the key is never
put together.

| Component | State it keeps | Operations | Talks to |
| --- | --- | --- | --- |
| A+B sign orchestrator (`mpc/sign-orchestrator.service.ts`) | in-memory `sessions` Map (10 min), `NORMAL_AB` rows | start, round1-3, complete, abort, gc | browser, Postgres, node |
| Withdraw rows, settle step (`wallet/normal-ab-withdraw.ts`) | `WithdrawRequest` rows | settleOpenNormalAbOrThrow | Postgres, node |
| Emergency recovery (`wallet/emergency-recovery.service.ts`) | `Wallet.status` | start, cancel | Postgres, OTP tracker |
| OTP failure tracker (`wallet/otp-failure-tracker.ts`) | failures and locks per user, in memory | assertNotLocked, recordFailure, clear | emergency calls |
| Last withdraw B+C (`wallet/emergency-last-withdraw.service.ts`, `emergency-bc-withdraw.ts`) | `EMERGENCY_BC_RELAY` rows, `Wallet.status`, share B | executeLastWithdraw | Postgres, Recovery server, node |
| B+C relay (`mpc/bc-sign-relay.ts`, `mpc/recovery-client.ts`) | one signing at a time, in its caller | signDigestBcRelay, retireShareC | Recovery server |
| DKG orchestrator (`mpc/dkg-orchestrator.service.ts`) | in-memory DKG sessions (15 min), new `Wallet` row | start, round2-4, complete, abort | browser, Recovery server |
| Recovery server (`apps/recovery`) | share C rows; DKG and sign sessions in memory | DKG, sign, retire | API only |
| Auth (`auth/`) | users, pending users, `tokenVersion`, TOTP secret | register, verify, cleanup, login, change password, reveal | Postgres |
| Settings (`settings/`) | `UserPreference` rows | read (creates defaults), save | Postgres |
| Withdraw gateway (`wallet/withdraw.gateway.ts`) | sockets in the rooms of their users | connect, disconnect, emit | browser |
| Transfer and WYSIWYS (`mpc/eth-transfer.ts`, `web/src/lib/mpc/wysiwys.ts`) | none (pure) | prepare, store, rebuild, compare | node |
| Browser (`apps/web/src/lib/mpc`, `pages/DashboardPage.tsx`) | share A in IndexedDB, each tab's view | create, withdraw, restore, emergency, refresh | API |
| Ethereum node | pool, receipts, balances | broadcast, receipt, nonce, balance | - |

### What is hard here, and what makes each component correct

Handlers interleave at every `await`. Only four places take a row lock
(`SELECT ... FOR UPDATE`): A+B start, emergency start and the last withdraw that
of the wallet, the TOTP reveal that of the user; everything else reads and then
writes. Sessions are lost in a restart while rows stay. The node may accept a
transaction whose reply is lost, drop it, replace it or revert it. A call
between the servers may be lost, or arrive after its caller gave up. Several
tabs of one browser share IndexedDB and act on views that are out of date.
`PROJECT.json` lists each such hazard at its line. Correct means:

* **A+B withdraw**: what a row says of the chain is true; no interleaving loses
  track of a payment; at most one withdraw is open; a sent withdraw fails only
  on its receipt; a withdraw forgotten in a restart does not block the wallet.
* **Emergency**: a sweep is stored before it is sent; an asset is swept once;
  the token goes first; a row given up as stale was never sent; RETIRED means
  empty; a stored sweep is never stuck; cancel is impossible once the last
  withdraw began.
* **Creation (DKG)**: at most one live wallet however many creations run; no
  wallet without a finished key generation and its Share C; a retired Share C
  is never written again; no Share A is stored for a wallet that does not
  exist; what a crash leaves behind does not block the next creation.
* **B+C signing**: party C takes part only in signings it admitted while it
  held Share C; two shares never mix rounds; an answered abort is final; every
  relay returns or throws.
* **Account**: every token that is accepted knows the current password; at most
  one TOTP secret is told, and it is the one that verifies codes; concurrent
  guesses exceed the limit by no more than their number; the cleanup deletes no
  verified account; defaults never replace saved preferences.
* **Browser**: only the transaction the user entered is signed, whatever the API
  answers; an honest answer is never refused; an ended withdraw frees the
  wallet; Share A is kept until Share B is wiped.

## Modules

| Module | Models |
| --- | --- |
| `EthChain` | the node, from how the service calls it: pool, nonces, replacement, drop, receipts |
| `WalletRows` | wallet status and A+B rows with `settleOpenNormalAbOrThrow` |
| `SignOrchestrator` | the A+B withdraw, one action per await; extends the two above |
| `EmergencyWithdraw` | emergency start, cancel, and the last withdraw; extends the same two |
| `RecoveryShares` | the Share C rows of the Recovery server |
| `DkgSession` | the creation of wallets: browser, API and Recovery server |
| `RecoverySigner` | the B+C signing: relay of the API, sign sessions of the Recovery server, retirement |
| `LastSweep` | the abstract specification of the last withdraw: what may become of the token and the ETH. `EmergencyWithdraw` implements it |
| `Custody` | the abstract specification: what both servers promise of Share C. `DkgSession` and `RecoverySigner` implement it |
| `Account` | registration, login, tokens, password change, TOTP reveal, OTP lock, preferences, sockets |
| `Transfer` | fees, prepared transactions, their JSON fields and the browser's comparison, as operators |
| `BrowserWallet` | the dashboard in several tabs: withdraw, restore, emergency calls, refresh; uses `Transfer` |
| `MC...` | TLC instances: symmetry, views, and the crash counters of the liveness runs |
| `WalletRowsProofs` | lemmas on the rows and the chain that two proof modules use |
| `SignOrchestratorProofs`, `EmergencyWithdrawProofs`, `DkgSessionProofs`, `RecoverySignerProofs`, `AccountProofs`, `TransferProofs`, `BrowserWalletProofs` | the theorems |

**Steps.** Node runs one handler at a time between two awaits, so one action is
the code from one await to the next, with the synchronous code that follows.
Each HTTP request is a slot `r` whose `req[r].pc` names the await it is in. The
transactions under the wallet row lock serialise with each other, but unlocked
updates may fall between their statements. That of the A+B start is therefore
two steps: `StartLock` reads behind the lock, up to the stale rows, and
`StartCommit` expires them by id, settles and creates; a request at `expire`
holds the lock (`LockFree`). Postgres makes an unlocked update of a row wait once
the transaction has updated it, and the update of the settle step repeats what a
receipt says for good, so the writes stay one step. The transactions of the
emergency handlers are one step. The transaction of the TOTP reveal is split:
`rowLock` says who holds the row.

**Names.** In the withdraw modules there is one wallet and its owner. In
`SignOrchestrator` a withdraw row, its idempotency key, its session and its
transaction are one-to-one, so a key `k` names all four: `row[k]` is the row,
`k \in live` says that the session is in the Map, `step[k]` and `nonce[k]` are
the session object (a handler holds a reference to it even after it left the
Map), and `txState[k]` is what the network knows. In `EmergencyWithdraw` a
sweep is its position in the sequence `sweep` (creation order) and names its row
and its transaction. In `DkgSession` the API draws a session id and a wallet id
for each creation, so a wallet id `w` names the creation: `apiLive` and
`recLive` are the two `sessions` Maps, `step[w]` is `DkgSession.step` as the
number of the browser's call it waits for (1 start, 2 to 4 the rounds, 5
complete), `walletRow[w]` and `shareC[w]` are the rows in Postgres and SQLite,
and `browser[w]` is the run of `createMpcWalletViaDkg`. In `RecoverySigner` an
attempt `a` is one run of `signDigestBcRelay` and at most one Recovery session:
`relay[a].pc` is the call party B waits for, `calls` what is on its way,
`session[a]` the step of the session in the Map and `old` the sessions past
`SESSION_TTL_MS`, which the next gc removes (`Kept`). In `Account` a `User` row
of the one address has an id, since a deleted pending row may be followed by
another. In `BrowserWallet` `view[t]` is what tab `t` shows and `job[t]` the
handler whose busy flag keeps its buttons away.

**Faults.** `Faults` switches on what the environment may do: `"crash"` (a
server process restarts and loses its memory), `"db"` (a write or read fails; in
`Record`, `Commit` and `Persist`, whose handlers go on differently, also: is done
but its answer is lost; in `Account` the reveal rolls back), `"rpc"` (the node accepts and the reply is lost, a receipt lookup fails,
a call between the servers is lost, or its answer is), `"net"` (a call between
browser and API is lost before or after it was handled), `"dup"` (a call is
delivered again), `"close"` (the tab is closed or reloaded, also while the API goes on serving its
call), `"slow"` (sessions
outlive their lifetime; signing a sweep takes longer than the two minutes after
which a PROCESSING row counts as a crash), `"idb"` (IndexedDB fails),
`"version"` (the API answers sign/start with something it would not have
prepared). A refused broadcast and a failed signature are always possible.

**Abstractions.** Requests that fail validation or ownership change nothing
and are left out, and so is what no property reads: audit rows, messages,
amounts of A+B withdraws outside `Transfer`. Balances matter to the sweeps only:
ETH in units where a transfer costs at most `Fee`, so that zero, dust and enough
all occur. A prepared transfer reads balance and nonce in one step. `wait(1)`
also rejects for a dropped transaction: in the code the handler may stay there,
which keeps no other request from running, while the model has only a few slots.

**Key generation.** `KeygenSession` is a library; the model keeps the number of
rounds a party has handled (`partyA`, `partyB`, `partyC`), since it throws on
messages of another round and the services save its state only after it went
through. All parties see the same messages, so their public keys agree and the
mismatch branch of `complete` is unreachable. The Recovery server's handlers
have no await except in `finalize`, so a call to them is one step with the
API's continuation, and `finalize` is two (`find`, `insert`). A repeated start
call is a creation of its own. ACTIVE stands for all live wallet statuses. The
last withdraw appears as `RetireWallet` and `RetireC`; the race of cancel
against it that `emergency_cancel` shows is not repeated here. Both sessions of
a creation expire together: the API's is younger by two calls.

**B+C signing.** The Recovery server's sign handlers are synchronous but for
`start`, which awaits the row of Share C and opens the session afterwards, by
when the share may be retired (`StartLoad`, `StartOpen`). Unlike in
`DkgSession`, a call is in `calls` apart from its caller, so that it may arrive
after the relay threw, sent its abort, or died. gc runs in every handler except
`abort`, and so it does in the model.

**Account.** bcrypt is equality, a row's hash the password it was made from. A
JWT cannot be forged; `knows` records the password its owner had proved when it
was signed, and verification links are JWTs of the same set, since the same
secret signs them. `tokenVersion` and the number of changes are bounded by
`MaxVersion`. Secrets that are drawn do not repeat. The code a user enters is
right or wrong by choice, and can be right only when a secret is stored.

**Transfer.** An operator whose code may throw returns the set of its results.
keccak256 has no collisions, so the digest of a transaction is the transaction.
Decimal strings are numbers with a flag for the canonical form and call data
has its case, because the browser compares strings while `BigInt` and ethers
read other forms, too. An entered amount is a fraction of a coin. Both the API and
the browser turn it into base units as if it were ETH (`Wei`), while the modal
uses the decimals of the token (`Raw`). These agree because the documented token
has 18 decimals (README:107), which is the assumption `TokenHasEtherDecimals`; with
another token the check would pass for an amount the user did not mean. `Does` is
the reference: what a transaction means on Sepolia, in units of the asset, written
without the code. Of the balance shown in the modal nothing is assumed, and the
token address is the one the API answers with the balance.

**Dashboard.** `BrowserWallet` has one step per call to the API, whose
interleavings are the subject of the other modules; what a call may answer
there includes what they show (a late cancel makes a RETIRED wallet ACTIVE).
`HonestAnswers` are the answers `Prepared` builds from `Nets`; `OtherAnswers`
differ from one in one field, the digest, the amount or the text.

**Auxiliary variables.** `revived` (a closed row written BROADCASTED again),
`untold` (an accepted transaction whose answer the API lost), `late` (a deposit
after the last withdraw began), `uncancelled` (cancel overwrote RETIRING or
RETIRED), `staled` (sweeps failed as stale), `knows` and `row.lost` (a
message of the session was lost) are read by properties only; `told` (TOTP
secrets a browser was shown) also keeps drawn secrets apart.

## Runs

| Run | Instance | Shows |
| --- | --- | --- |
| `sign_safety` | 2 withdraws, 2 requests, crash + db + rpc | `TypeOK`; `ExecutedIsMined`: EXECUTED rows were mined with success; `HashMeansSent`: a hash is stored only for an accepted transaction; `SentIsTracked`: an accepted transaction is on its row or about to be, unless the API lost the answer; `OneOpenPerWallet`: until a closed row is revived, one open withdraw, none in emergency; `ReceiptDecides`: a row shown as sent is closed only by its receipt, but for two writes by id |
| `sign_retry` | 2 withdraws, 1 request, 2 failures (crash or rollback of start) | `ForgottenIsExpired`: a row without a session is expired by a later start |
| `sign_exclusion` (violation) | 1 withdraw, 1 request | README:77 and :364 say A+B and emergency exclude each other |
| `emergency_safety` | 3 sweeps, 2 requests, 1 deposit, ETH 0..4, token 0..1, crash + db + rpc | `TypeOK`; `SentIsPersisted`; `ExecutedSweepIsMined`; `OneSweepPerAsset`; `SweepsAreSequential`; `StaleWasNeverSent`; `RetiredIsEmpty`; `StoredIsSendable`: the chain can still take a stored transaction; `ImplementsLastSweep` |
| `emergency_retry` | 3 sweeps, 1 request, 2 crashes | `StoredSweepResolves`: with one request at a time a stored sweep is sent until its receipt settles it |
| `emergency_cancel` (violation) | 1 sweep, 2 requests | the comment says cancel is not allowed once RETIRING |
| `dkg_safety` | 2 creations, 2 requests, 2 tabs, all faults | `TypeOK`; `OneLiveWallet`; `WalletHasItsShares`: a live wallet has an active Share C and both servers finished the key generation; `StepMeansHandled`: a session never runs ahead of a party; `StoredShareHasWallet`; `ImplementsCustody` |
| `dkg_retry` | 3 creations, 1 request, 2 restarts | `RetryCreates`: a user who tries again gets a wallet |
| `dkg_share_a` (violation) | 1 creation, 1 request, net | README:60-63 say a creation leaves Share A in the browser |
| `recovery_sign` | 1 wallet, 2 signings, rpc + crash + db + slow | `TypeOK`; `StepsMatch`: B and C are never a round apart; `ImplementsCustody`; `AbortedNeverGives`: after an answered abort party C gives nothing; `RelayEnds`: a relay returns or throws |
| `account_safety` | 2 ids, 3 passwords, 2 secrets, 1 choice, 2 requests, 2 failures lock, 2 changes, crash + db + net | `TypeOK`; `ValidTokensKnowThePassword`; `SecretToldOnce`; `GuessesBounded`; `ActiveAccountsStay`; `SavedChoiceSurvives` |
| `browser_safety` | 2 tabs, an ETH and a token withdraw, 2 node states, all faults | `TypeOK`; `BroadcastIsIntended`: what is sent does what the user entered; `HonestAnswerIsSigned`; `ClientFreesWallet`; `ShareStaysUntilRetired` |

The bounds. Every hazard of the A+B path needs at most two handlers and two
rows: two completes of one session, an abort or expiry against a complete, a
start against an open row. Three sweeps allow a token sweep, an ETH sweep and
one repetition (a revert or a failed signature of either); two requests give
every pairing of last withdraws and cancels. ETH 0..4 with `Fee = 2` has zero,
dust, exactly the fee, and enough for one or two transfers. Two creations with
two requests cover each pairing of their handlers, and of two calls of one
creation; `Tabs` bounds how many run at the same time, and each wallet id is
used once, so a run ends when all creations have (hence no deadlock check).
Three creations let the last one follow two that restarts spoiled. Two signings
of one wallet give a signing beside another and beside the retirement; signings
of different wallets share only gc, and each is used once (no deadlock check).
Two ids let an address be registered again after its cleanup, or twice at once;
three passwords tell the old, the new and a concurrently set one apart; with two
failures to a lock and two requests both guesses can be in flight when one of
them locks. Ids and secrets are used up (no deadlock check). Two tabs give every
pairing of a withdraw, a restore and a last withdraw; the two node states are
one that reports fees and an estimate and one that reports neither, and the
account can pay in both; what the amounts may be is left to the proofs.

Symmetry permutes keys, wallet ids, requests, passwords, secrets and tabs, which
no definition distinguishes, in the safety runs only. The views drop what no
later step reads: a session object nothing refers to, ages of rows that left
PROCESSING, amount and nonce of a closed sweep that was never sent or has its
receipt, conditional updates that match no row any more, which sockets are
open (only whether any is, and only while the API is idle), and all but the
status of a FAILED row in the browser module.

**Fairness.** Safety runs use none. `sign_retry`: an await that was started is
answered, ten minutes pass, and the user keeps trying with a fresh key (strong
fairness of `StartCall`, since other requests may hold the slot). A session
lost in a restart is cleaned up by nothing but such a later start, so without
this user the property is false. `emergency_retry`: the user keeps asking for
the last withdraw, and a raw transaction sent again and again is taken and
mined some time (strong fairness, since the pool may drop it in between); there
is no poller. `dkg_retry`: an await that was started is answered, a call that
was sent arrives, and the user opens another creation after one failed (all
weak: nothing else competes for the slot once the tab's creation ended, and no
wait is undone infinitely often). `recovery_sign`: a call that arrived is
handled, party B goes on after an answer, and a call nothing can answer any more
throws some time: `fetch` in Node gives up on a server that sends no header (all
weak). No user, and no bound on crashes, is needed there. Crashes, and in
`sign_retry` transactions of start that roll back and leave the rows without the
sessions they deleted, are bounded by a counter in the MC modules of the other
liveness runs instead of a premise on behaviours.

## What the violation runs found

* **A+B and emergency overlap** (`sign_exclusion`). abort, gc or a start that
  expires the row closes it while `complete` is past its checks; the update to
  BROADCASTED has no condition and opens the row after emergency start found
  none open.
* **Cancel after RETIRING** (`emergency_cancel`). The status check and the
  unconditional update of cancel are not under the wallet lock.
* **A wallet without Share A** (`dkg_share_a`). The browser wipes its only copy
  when the answer of `complete` is lost, and the API creates the wallet all the
  same; the abort that follows does not undo it, and the live wallet blocks
  every later creation.

Some of the passing properties carry an exception or a premise that the code
needs.
`ReceiptDecides` has two, and fails without either. The first is the catch block
of `complete`: two overlapping completes of one session both pass the step
check, which is made before the await of the wallet, and both sign the same
digest; the one that fails read the row before the other wrote BROADCASTED and
overwrites it with FAILED. (It needs no second complete when the answer to the
update to BROADCASTED is lost and the read of the catch block fails, too.) The second is a start that finds the row of a running
`complete` stale: it read PROCESSING, `complete` writes BROADCASTED, and the start
writes EXPIRED by id.
`StaleWasNeverSent`, `OneSweepPerAsset` and `SweepsAreSequential` hold while
signing takes less than the stale limit (`"slow" \notin Faults`): the two minutes
count as a crash, while the calls to the Recovery server have no timeout of
their own, so a slower signer would store and send a row already given up.
`StoredIsSendable` has the exception `Overtaken`: a transfer is prepared, with its
pending nonce, before the lock under which its row is created
(`emergency-last-withdraw.service.ts:225` and `:276` against `:575`). A request
that waits there while another one sends, and whose row is then created since
the other transfer reverted, stores a nonce the chain will not take again. Its
row has no receipt and is sent again by every later call. With two requests at
a time `StoredSweepResolves` is therefore false, and also when a revert left too
little ETH for the stored transfer, when a late cancel made the wallet ACTIVE
beside a stored row, or when another request retired the wallet before the row
was settled; `emergency_retry` checks it for one request at a time.

## Hazards no property catches

PROJECT.json lists under "hazards" what is hard to test in this code. Some of it
the code does, so that the properties only confine it, and no document promises
otherwise or the promise is checked apart from it:

* The exceptions of `ReceiptDecides`, `SentIsTracked` (`untold`), `RetiredIsEmpty`
  (a late deposit, a cancel) and the premises of `OneOpenPerWallet` (`revived`) and
  of the sweep properties (no `"slow"`) are each a hazard of that list. The
  property says that nothing else goes wrong, and does not catch the hazard.
* A start that waited for the lock signs with the nonce it read before it: the
  node refuses the transaction or the first of the two wins, and the rows tell
  which. A withdraw can fail so, and that is allowed.
* A dashboard that was not refreshed acts on an old status or an old Share A, and
  a restore in one tab may put Share A back after another tab wiped it. The API
  refuses what the status does not allow. The modelled views are stale in this way,
  but the browser properties are about the row and the stored share.

## The refinements

`Custody` says in eight actions on a share, a wallet and a signing what the two
servers promise, without sessions, messages, rounds or failures: a wallet lives
only on a stored share, a user has one live wallet, a share is wiped after its
wallet and for good, and party C takes part once in each signing it admitted
while the share was held. `DkgSession` implements it with its rows as they are
and no signings (`Attempts <- {}`); `RecoverySigner` implements it with
`Phase(a)`, which reads what became of a signing from four places: `gave`, the
session Map, the pending start and the relay. The implementations differ from
the promise in the interesting steps: a gc or a crash drops any number of
signings at once (`Drop`), a session opened after the wipe stutters because it
was admitted before, and a last message whose answer is lost is `Answer` without
`Sign`. Both are checked by TLC and proved. Neither module repeats the late
cancel of `emergency_cancel`, which makes a RETIRED wallet row ACTIVE without its
shares.

`LastSweep` says what the last withdraw promises for the two assets, without
rows, requests, retries or failures: an asset is held, stored, moving or swept;
a transfer is stored before it is sent; it is stored only when no other asset is
on its way; what is stored is sent and never given up, and what moves ends as
swept or, by a revert, as held. `EmergencyWithdraw` implements it with the stage
of the newest stored sweep of each asset (`Phase`), so that a second transfer
signed beside a first one, or a stored one that is failed, is no step of it.
Replacement, drops, rebroadcasts, lost replies, crashes and all of the handlers'
reads stutter. This holds while signing takes less than the stale limit; `Promise`
is checked on an instance without `"slow"`, and the theorem assumes the same.

## Proofs

`SignOrchestratorProofs` proves for any finite set of transactions, any keys,
any number of concurrent requests and any faults:

* `TypeInvariant`: `Spec => []TypeOK`. One lemma per handler, on small lemmas
  about `Goto`, `Return`, `SetStatus`, `Submit` and the settle step.
* `PaymentsAreTracked`, `ExecutedWithdrawsAreMined`, `HashesAreSent`:
  `SentIsTracked`, `ExecutedIsMined` and `HashMeansSent`. They are not inductive
  alone: the strengthening `HandlerFacts` says that a handler in `record` or
  later has submitted its transaction and that one in `execute` has seen it
  succeed. `ChainIsMonotone` (what the network knows it keeps knowing, a success
  is final), `RowEffectHolds` and `RequestEffectHolds` (what one step may do to
  one row and one request) carry the induction.
* `SentClosesByReceipt`: `ReceiptDecides`, from `FailEffectHolds` (which steps
  close a row) and that a BROADCASTED row has its hash.
* `ExclusionHolds`: `OneOpenPerWallet`. `OnlyStartOpensRows` shows that besides
  a start and a revival no step opens a row,
  `SettleClosesTheOnlyOpenRow` that the settle step leaves none when there was
  at most one, and `ActiveUnderLock` that the status which a start read behind
  the lock is still ACTIVE when it creates the row: the emergency start waits
  for the lock.

`EmergencyWithdrawProofs` proves for any number of sweep rows and concurrent
requests, any balances and fees, and any faults:

* `TypeCorrect`: `Spec => []TypeOK`. It needs `HandlersHaveSweeps` (a handler
  that signs, sends or waits names a row that exists). `LeastExists` and
  `GreatestExists` give the first blocking row and the newest row of an asset,
  which the code takes from an ordered query.
* `SweepsArePersisted`, `ExecutedSweepsAreMined`: `SentIsPersisted` and
  `ExecutedSweepIsMined`. The strengthening adds `HandlerFacts` (from `send` on,
  the row of the handler has its hash) and `HashFollowsStatus`. `RowFieldsHold`,
  `NewRowEffect`, `ChainEffectHolds` and `HandlerEffectHolds` say what one step
  may do to one row, one transaction and one handler.
* `OneSweepAtATime`, `SweepsFollowEachOther`: `OneSweepPerAsset` and
  `SweepsAreSequential`, the promise that nothing is signed twice. Neither
  property is inductive. `PromptInv` adds that at most one row is open
  (`OneOpenSweep`); that a row has one handler, is young while it has one and
  stays PROCESSING until its hash is stored (`OneHandler`, `HandlersAreYoung`,
  `HandlerIsFirst`), so that a settle never closes a row about to be sent; that
  a stored transaction keeps its row open until it has succeeded or reverted
  (`StoredIsTracked`); and that only skip rows follow a live row of the same
  asset (`LiveIsLast`), so that looking at the newest row is enough.
* `GivenUpIsNeverSent`: `StaleWasNeverSent`. On top of `PromptInv`, a row given
  up is FAILED without a hash and stays so (`StaledIsClosed`).
* `RetiredWalletIsEmpty`: `RetiredIsEmpty`. `EmptyInv` follows what each row and
  each handler knows of the balances, which only fall from the first lock on
  unless a deposit is late or a cancel undid the lock (`BalancesFall`): before
  the lock there are no rows (`NotBegun`); the amount of a row, or of a handler
  about to open one, is all there was, and what is missing since went with a
  token sweep that succeeded (`TakesAll`); a row that succeeded or is EXECUTED
  leaves nothing of its asset (`RowsTakeAll`), ETH is prepared and skipped only
  with no token left, and `retire` is reached only with both gone
  (`HandlerTakesAll`). The handlers of several requests are in it side by side:
  that one finds what another has swept is the case `token < amount`.
* `StoredSweepIsSendable`: `StoredIsSendable`. `NonceOrder` (in
  `WalletRowsProofs`) says that the mined transactions have exactly the nonces
  below the account's, each its own, so the nonce of a row that was overtaken
  belongs to a mined sweep. One of the same asset that succeeded contradicts
  `LiveIsLast`. One of the other asset contradicts `EthFollowsTokens` (a nonce
  prepared for ETH is above that of every token sweep that succeeded) or, for a
  token row overtaken by an ETH sweep, `EmptyInv`. What remains is a revert.
* `LastSweepIsKept`: `ImplementsLastSweep`. `OneStage` shows that at most one
  sweep of an asset is stored, moving or swept, so the asset is as far as that
  sweep (`PhaseIsStage`). `StoreStages` and `ChainStages` show that a step moves
  one sweep by a step of `LastSweep`, or none.

`DkgSessionProofs` proves for any number of creations, concurrent calls and
tabs, and any faults. Each theorem adds a layer to the inductive invariant:

* `TypeCorrect`: `Spec => []TypeOK`, with `RoundsHaveCalls` (a handler serves
  the call it is the handler of). `HandlerMoves`, `HandlerSlots`,
  `ReceiveSlots` and `BackgroundSlots` say what a step may do to a request, and
  `HandlerBrowser`, `BackgroundBrowser` and `BackgroundServers` to the rest.
* `SessionsFollowTheParties`: `StepMeansHandled`. Start sets the parties back
  to the first round, so the invariant must know that a creation has one start
  handler and that it is over before a round or complete begins (`StartsFirst`,
  `StartsOnce`). `RoundsOfHandlers` gives how far the parties are at each await
  and `RoundsOfSessions` at each step, also for a session that left the Map and
  that an await may put back.
* `NeverTwoLiveWallets`, `LiveWalletsHaveTheirShares`, `NoShareWithoutWallet`:
  from `WalletInv`, where `RowsOfHandlers` (in `create` the Share C row exists,
  in `audit` the wallet does) and `RowsOfWallets` (a wallet, live or retired,
  has a finished key generation and a Share C, and a retired Share C a retired
  wallet) join what the rows and the handlers know of each other.
* `KeyGenerationKeepsCustody`: `ImplementsCustody`. `ShareSteps` and `RowSteps`
  say what a step may do to a row; with `WalletInv` each is a step of `Custody`
  or a stutter.

`RecoverySignerProofs` proves for any wallets, any number of signings and any
faults, on the invariant `SignerInv`, which has three parts for each signing:

* `OpenedOnce`: one start call, before whose handling there is neither session
  nor last message; `EndsWithLast`: a session has not given its last message
  yet, and party B combines only with it; `InStep`: while party B waits for a
  round, the only call on its way is that one and party C is at its step, or
  one further when the call was handled.
* `TypeCorrect`; `SharesStayInStep`: `StepsMatch`, from `InStep`; `AbortIsFinal`:
  `AbortedNeverGives`, from `EndsWithLast` and that no start of an aborted
  signing is left (`OpenedOnce`), so that nothing can open its session again.
* `SigningKeepsCustody`: `ImplementsCustody`. Each handler moves the phase of
  its own signing as `Custody` allows (`HandlerKeepsPromise`), and gc on the way
  changes no other phase, since a session past its lifetime counts as dropped
  before it is removed.

`AccountProofs` proves for any ids, passwords, secrets, requests, limits and
faults:

* `TypeCorrect`; `VerifiedAccountsStay`: `ActiveAccountsStay`.
* `AcceptedTokensAreSound`: `ValidTokensKnowThePassword`. The property looks at
  the current version only; the invariant says of every access token, and of
  the hash and version a login read before its compare, that the version is at
  most the row's, and if equal that the password is the row's (`Sound`).
  `SoundStays` shows that every step keeps it: a change takes the next version
  from the row as it is at the update, not as it was read.
* `OneSecretIsTold`: `SecretToldOnce`, with `WritersHold`: a transaction past
  its FOR UPDATE holds the row and read it unrevealed, with the secret it still has.
* `ChoicesStay`: `SavedChoiceSurvives`; only rows of verified accounts have
  preferences, so the cleanup's cascade takes none.
* `GuessesAreBounded`: `GuessesBounded`, with `OpenIsBelow`: an open tracker has
  counted less than the limit. The cardinality of the guesses in flight is
  followed through each step.

`TransferProofs` proves the operators for every amount, fee, nonce and answer:

* `SignedIsIntended`: whatever the API answers, a digest the browser returns is
  of a transaction that does what the user entered, for a token with the decimals
  of ETH (`TokenHasEtherDecimals`, used in `WeiIsNat` only).
* `HonestPasses`: it accepts what the API honestly prepared. `StoredSurvives`:
  what is stored as JSON and read back is the same transaction.
* `PreparedIsAffordable`: what the API prepares can be paid, with its highest
  fee, from the balance it read, full balances included.

`BrowserWalletProofs` lifts them to the dashboard, for any tabs, intents and
node states, on one invariant `WalletInv`: what a job signs does what it wants
and a job holds a session only while it can still complete or abort it
(`JobOK`); a sent row does what its user wanted, a tab that holds the session of
the row wants the same, and a PROCESSING row with all messages heard belongs to
a tab with a session (`RowOK`). From it follow `TypeCorrect`,
`OnlyIntendedIsSent`, `HonestAnswersPass`, `EndedJobsFreeTheWallet` and
`ShareOutlivesTheWallet`.

The proofs assume what the modules assume of their constants, which TLC
evaluates in the runs: `TxsFinite`, `KeysAreTxs`, `SweepsAreTxs`, `NoKeyIsNoKey`,
`NoWalletIsNoWallet`, `NoTabIsNoTab`, `NoneIsNothing`, `RequestsFinite`,
`BoundsAreNat`, `TabsIsNat`, `FeeIsPositive`, `GasPositive`, `NullIsNoFee`,
`OwnIsAddress`, `IntentsKnown`, `NetsKnown`, `DefaultIsNoChoice` and `FaultsKnown`.

Model-checked only: the liveness properties `ForgottenIsExpired`,
`StoredSweepResolves`, `RetryCreates` and `RelayEnds`, since the provers reason
neither about fairness nor about ENABLED, and the violated properties.

## Not modelled, and the plan

Left for later, in this order:

1. `SignOrchestrator` and `EmergencyWithdraw` over shared rows and one chain, so
   that a withdraw written BROADCASTED late meets a last withdraw.
2. The transactions of the emergency handlers split at their awaits, as that of
   the A+B start is.
3. Message routing (`filterMessages`, `selectMessages`) as operators on the
   senders and receivers of messages.

Left out: the threshold cryptography itself (a WASM library); the audit log and
the read endpoints of wallets (no handler reads the log back, and reads change
nothing); stateless request filters and start-up checks; the Settings, Login and
Register pages and the layout, which present answers of the API; and the legacy
Solidity vault that no service calls. Three hazards have no property because no
document promises anything there: an A+B transaction the pool dropped, whose row
stays BROADCASTED until a receipt comes; a socket that outlives its token; and a
second payment by a user who tries again, with a fresh key, after a lost answer.
