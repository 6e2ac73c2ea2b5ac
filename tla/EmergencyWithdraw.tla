------------------------- MODULE EmergencyWithdraw -------------------------
(***************************************************************************)
(* Emergency recovery of one MPC wallet: start and cancel, and the last    *)
(* withdraw, which sweeps the test token and then the ETH of the wallet    *)
(* with shares B and C, retires the wallet and wipes share B.              *)
(*                                                                         *)
(* As in SignOrchestrator a step is the code between two awaits; the       *)
(* transactions that take the wallet row lock are one step each.           *)
(***************************************************************************)
EXTENDS WalletRows, Sequences

CONSTANTS
    Requests,       \* slots for HTTP requests being served at the same time
    MaxSweeps,      \* bound: emergency withdraw rows ever created
    Fee,            \* maximum fee of a transfer; a block charges 1..Fee
    MaxEth,         \* bound: ETH balance
    MaxToken,       \* bound: token balance
    MaxDeposits,    \* bound: deposits from outside
    Faults          \* which faults the environment may inject

Sweeps == 1..MaxSweeps

ASSUME BoundsAreNat == MaxSweeps \in Nat /\ MaxEth \in Nat /\ MaxToken \in Nat /\ MaxDeposits \in Nat
ASSUME FeeIsPositive == Fee \in Nat \ {0}
ASSUME SweepsAreTxs == Sweeps \subseteq Txs /\ Sweeps \cap Keys = {}
ASSUME FaultsKnown == Faults \subseteq {"crash", "db", "rpc", "slow"}

VARIABLES
    sweep,      \* EMERGENCY_BC_RELAY withdraw rows in creation order; a row names its transaction
    aged,       \* sweeps created more than STALE_EMERGENCY_PROCESSING_MS ago
    shareB,     \* Wallet.encryptedShareB is set
    shareC,     \* the Recovery server's share row is ACTIVE
    eth,        \* ETH balance of the wallet address
    token,      \* token balance of the wallet address
    deposits,   \* deposits so far
    req,        \* what each request in progress is waiting for
    late,       \* auxiliary: a deposit arrived after the last withdraw began
    uncancelled,\* auxiliary: cancel wrote ACTIVE over RETIRING or RETIRED
    staled      \* auxiliary: sweeps a settle step marked FAILED as stale

shareVars == <<shareB, shareC>>
balanceVars == <<eth, token, deposits, late>>
auxVars == <<uncancelled, staled>>
vars == <<chainVars, rowVars, sweep, aged, shareVars, balanceVars, req, auxVars>>

Assets == {"ERC20", "ETH"}
SweepRow == [asset : Assets, status : RowStatus, txHash : BOOLEAN, amount : Nat, nonce : Nonces]

Pcs == {"idle", "cancel", "precheck", "lock", "rebroadcast", "token", "prepToken", "eth", "prepEth",
        "open", "signStart", "sign", "persist", "send", "wait", "execute", "catch",
        "failSweep", "skip", "retire", "retireC"}

\* tokenTx: tokenTxHash is set; asset, nonce and amount: the transfer that was
\* prepared; sweep: the row it was given (or the one to send again).
Request == [pc : Pcs, tokenTx : BOOLEAN, asset : Assets, sweep : 0..MaxSweeps,
            nonce : Nonces, amount : Nat]
Idle == [pc |-> "idle", tokenTx |-> FALSE, asset |-> "ERC20", sweep |-> 0, nonce |-> 0, amount |-> 0]

TypeOK == /\ ChainTypeOK
          /\ RowTypeOK
          /\ sweep \in Seq(SweepRow)
          /\ Len(sweep) <= MaxSweeps
          /\ aged \subseteq Sweeps
          /\ shareB \in BOOLEAN
          /\ shareC \in BOOLEAN
          /\ eth \in 0..MaxEth
          /\ token \in 0..MaxToken
          /\ deposits \in 0..MaxDeposits
          /\ req \in [Requests -> Request]
          /\ late \in BOOLEAN
          /\ uncancelled \in BOOLEAN
          /\ staled \subseteq Sweeps

Init == /\ ChainInit
        /\ RowInit
        /\ sweep = <<>>
        /\ aged = {}
        /\ shareB = TRUE
        /\ shareC = TRUE
        /\ eth \in 0..MaxEth
        /\ token \in 0..MaxToken
        /\ deposits = 0
        /\ req = [r \in Requests |-> Idle]
        /\ late = FALSE
        /\ uncancelled = FALSE
        /\ staled = {}

At(r, pc) == req[r].pc = pc
Goto(r, pc) == req' = [req EXCEPT ![r].pc = pc]
Return(r) == req' = [req EXCEPT ![r] = Idle]
SetSweep(s, status) == sweep' = [sweep EXCEPT ![s].status = status]

-----------------------------------------------------------------------------
(* settleOpenEmergencyBcOrThrow and findLatestEmergencyBc *)

Status(s) == sweep[s].status
Of(asset) == {s \in DOMAIN sweep : sweep[s].asset = asset}

\* findLatestEmergencyBc: the status of the newest row of the asset.
Latest(asset) == CHOOSE s \in Of(asset) : \A t \in Of(asset) : t <= s
LatestStatus(asset) == IF Of(asset) = {} THEN "NONE" ELSE Status(Latest(asset))

OpenSweeps == {s \in DOMAIN sweep : Status(s) \in {"PROCESSING", "BROADCASTED"}}

\* Token rows first, then in creation order.
Before(s, t) == \/ sweep[s].asset = "ERC20" /\ sweep[t].asset = "ETH"
                \/ sweep[s].asset = sweep[t].asset /\ s < t

\* Mutant: any PROCESSING row is closed, however young.
BlockingUnsentOnly == {s \in OpenSweeps : sweep[s].txHash /\ ~HasReceipt(s)}

\* An open row the loop cannot close: a young PROCESSING one or one without a
\* receipt.
Blocking == {s \in OpenSweeps : IF Status(s) = "PROCESSING"
                                THEN s \notin aged
                                ELSE sweep[s].txHash /\ ~HasReceipt(s)}

Closable == {s \in OpenSweeps : \A b \in Blocking : Before(s, b)}

\* Mutant: a receipt is a success, whatever its status.
ClosedStatusAnyReceipt(s) == IF sweep[s].txHash THEN "EXECUTED" ELSE "FAILED"

ClosedStatus(s) == IF sweep[s].txHash /\ txState[s] = "success" THEN "EXECUTED" ELSE "FAILED"

SettledSweeps == [s \in DOMAIN sweep |-> IF s \in Closable
                                         THEN [sweep[s] EXCEPT !.status = ClosedStatus(s)]
                                         ELSE sweep[s]]

StaledNow == {s \in Closable : Status(s) = "PROCESSING"}

\* The first blocking row decides: PROCESSING throws, BROADCASTED asks the
\* caller to send its stored raw transaction again.
FirstBlocking == CHOOSE s \in Blocking : \A t \in Blocking : t = s \/ Before(s, t)
\* Mutant: the outcome of the settle is ignored.
SettleClearAlways == TRUE

SettleClear == Blocking = {}

\* Mutant: a row without a receipt only throws.
MustRebroadcastNever == FALSE

MustRebroadcast == Blocking # {} /\ Status(FirstBlocking) = "BROADCASTED"

-----------------------------------------------------------------------------
(* start and cancel *)

\* startEmergencyRecovery after the OTP: one transaction under the wallet row
\* lock.
StartEmergency ==
    /\ wallet \in {"ACTIVE", "RECOVERY_PENDING"}
    /\ shareB
    /\ \E settled \in SettledRows(row) : row' = settled
    /\ wallet' = "RECOVERY_PENDING"
    /\ UNCHANGED <<chainVars, sweep, aged, shareVars, balanceVars, req, auxVars>>

CancelRead(r) ==
    /\ req[r] = Idle
    /\ wallet = "RECOVERY_PENDING"
    /\ Goto(r, "cancel")
    /\ UNCHANGED <<chainVars, rowVars, sweep, aged, shareVars, balanceVars, auxVars>>

\* The update carries no condition on the status.
CancelWrite(r) ==
    /\ At(r, "cancel")
    /\ wallet' = "ACTIVE"
    /\ uncancelled' = (uncancelled \/ wallet \in {"RETIRING", "RETIRED"})
    /\ Return(r)
    /\ UNCHANGED <<chainVars, row, sweep, aged, shareVars, balanceVars, staled>>

-----------------------------------------------------------------------------
(* executeLastWithdraw up to the sweeps *)

\* The wallet is read; the OTP follows.  A refusal changes nothing.
CallLast(r) ==
    /\ req[r] = Idle
    /\ IF wallet \in {"RECOVERY_PENDING", "RETIRING"} /\ shareB THEN Goto(r, "precheck") ELSE UNCHANGED req
    /\ UNCHANGED <<chainVars, rowVars, sweep, aged, shareVars, balanceVars, auxVars>>

NeedsTokenSweep == LatestStatus("ERC20") \notin {"BROADCASTED", "EXECUTED"}

\* INSUFFICIENT_GAS
OutOfGas == token > 0 /\ eth < Fee

\* assertTokenSweepHasGas
Precheck(r) ==
    /\ At(r, "precheck")
    /\ \/ ~(NeedsTokenSweep /\ OutOfGas) /\ Goto(r, "lock")
       \/ NeedsTokenSweep /\ (OutOfGas \/ "rpc" \in Faults) /\ Return(r)
    /\ UNCHANGED <<chainVars, rowVars, sweep, aged, shareVars, balanceVars, auxVars>>

\* The locked transaction: both settles, then RETIRING.
LockTx(r) ==
    /\ At(r, "lock")
    /\ \/ /\ wallet \in {"RECOVERY_PENDING", "RETIRING"}
          /\ shareB
          /\ SettleClear \/ MustRebroadcast
          /\ \E settled \in SettledRows(row) : row' = settled
          /\ sweep' = SettledSweeps
          /\ staled' = staled \cup StaledNow
          /\ wallet' = "RETIRING"
          /\ req' = [req EXCEPT ![r].pc = IF SettleClear THEN "token" ELSE "rebroadcast",
                                ![r].sweep = IF SettleClear THEN 0 ELSE FirstBlocking]
       \/ /\ \/ wallet \notin {"RECOVERY_PENDING", "RETIRING"} \/ ~shareB
             \/ SettleThrows(row)
             \/ ~SettleClear /\ ~MustRebroadcast
             \/ "db" \in Faults
             \/ "rpc" \in Faults /\ \E s \in OpenSweeps : Status(s) = "BROADCASTED"
          /\ Return(r)
          /\ UNCHANGED <<rowVars, sweep, staled>>
    /\ UNCHANGED <<chainVars, aged, shareVars, balanceVars, uncancelled>>

\* rebroadcastSameRaw: the node takes the stored transaction, or the refusal
\* is swallowed; the caller answers 409 either way.
RebroadcastAccepted(r) ==
    LET s == req[r].sweep IN
    /\ At(r, "rebroadcast")
    /\ Submit(s, sweep[s].nonce)
    /\ Return(r)
    /\ UNCHANGED <<rowVars, sweep, aged, shareVars, balanceVars, auxVars>>

RebroadcastRefused(r) ==
    /\ At(r, "rebroadcast")
    /\ Return(r)
    /\ UNCHANGED <<chainVars, rowVars, sweep, aged, shareVars, balanceVars, auxVars>>

-----------------------------------------------------------------------------
(* The two sweeps and what follows them *)

Enter(pc, tokenTx) == [Idle EXCEPT !.pc = pc, !.tokenTx = tokenTx]

Token(r) ==
    /\ At(r, "token")
    /\ req' = [req EXCEPT ![r] = IF LatestStatus("ERC20") = "EXECUTED"
                                 THEN Enter("eth", TRUE)
                                 ELSE Enter("prepToken", FALSE)]
    /\ UNCHANGED <<chainVars, rowVars, sweep, aged, shareVars, balanceVars, auxVars>>

\* Go on with signPersistBroadcastWait for a transfer at the pending nonce.
Prepared(r, asset, amount) ==
    \E n \in Nonces : /\ IsPendingNonce(n)
                      /\ req' = [req EXCEPT ![r].pc = "open", ![r].asset = asset,
                                            ![r].amount = amount, ![r].nonce = n]

\* Mutant: without gas the token is left behind.
PrepTokenLeavesToken(r) ==
    /\ At(r, "prepToken")
    /\ \/ (token = 0 \/ eth < Fee) /\ req' = [req EXCEPT ![r] = Enter("eth", FALSE)]
       \/ token > 0 /\ eth >= Fee /\ Prepared(r, "ERC20", token)
    /\ UNCHANGED <<chainVars, rowVars, sweep, aged, shareVars, balanceVars, auxVars>>

\* prepareErc20FullBalanceTransfer: no token goes on to ETH, no gas gives up.
PrepToken(r) ==
    /\ At(r, "prepToken")
    /\ \/ token = 0 /\ req' = [req EXCEPT ![r] = Enter("eth", FALSE)]
       \/ token > 0 /\ eth >= Fee /\ Prepared(r, "ERC20", token)
       \/ (OutOfGas \/ "rpc" \in Faults) /\ Return(r)
    /\ UNCHANGED <<chainVars, rowVars, sweep, aged, shareVars, balanceVars, auxVars>>

Eth(r) ==
    /\ At(r, "eth")
    /\ Goto(r, IF LatestStatus("ETH") = "EXECUTED" THEN "retire" ELSE "prepEth")
    /\ UNCHANGED <<chainVars, rowVars, sweep, aged, shareVars, balanceVars, auxVars>>

\* prepareFullBalanceTransfer: nothing left, or dust after a token sweep, is
\* skipped; dust without a token sweep gives up.
PrepEth(r) ==
    LET skips == eth = 0 \/ (eth <= Fee /\ req[r].tokenTx) IN
    /\ At(r, "prepEth")
    /\ \/ skips /\ Goto(r, "skip")
       \/ eth > Fee /\ Prepared(r, "ETH", eth - Fee)
       \/ ((~skips /\ eth <= Fee) \/ "rpc" \in Faults) /\ Return(r)
    /\ UNCHANGED <<chainVars, rowVars, sweep, aged, shareVars, balanceVars, auxVars>>

\* Mutant: a status the column does not know.
NewSweepSkipped(asset, status, amount, n) ==
    [asset |-> asset, status |-> IF amount = 0 THEN "SKIPPED" ELSE status,
     txHash |-> FALSE, amount |-> amount, nonce |-> n]

NewSweep(asset, status, amount, n) ==
    [asset |-> asset, status |-> status, txHash |-> FALSE, amount |-> amount, nonce |-> n]

\* The row cannot be stored (at the bound of the model a create fails, too).
NoRow == "db" \in Faults \/ Len(sweep) = MaxSweeps

\* createSkippedEthRow
Skip(r) ==
    /\ At(r, "skip")
    /\ \/ /\ Len(sweep) < MaxSweeps
          /\ sweep' = Append(sweep, NewSweep("ETH", "EXECUTED", 0, 0))
          /\ Goto(r, "retire")
       \/ NoRow /\ Return(r) /\ UNCHANGED sweep
    /\ UNCHANGED <<chainVars, rowVars, aged, shareVars, balanceVars, auxVars>>

\* Share B is wiped with the status.
Retire(r) ==
    /\ At(r, "retire")
    /\ \/ /\ wallet' = "RETIRED"
          /\ shareB' = FALSE
          /\ Goto(r, "retireC")
       \/ "db" \in Faults /\ Return(r) /\ UNCHANGED <<wallet, shareB>>
    /\ UNCHANGED <<chainVars, row, sweep, aged, shareC, balanceVars, auxVars>>

\* retireShareC: a failure is only logged.
RetireC(r) ==
    /\ At(r, "retireC")
    /\ Return(r)
    /\ shareC' = FALSE \/ ("rpc" \in Faults /\ UNCHANGED shareC)
    /\ UNCHANGED <<chainVars, rowVars, sweep, aged, shareB, balanceVars, auxVars>>

-----------------------------------------------------------------------------
(* signPersistBroadcastWait *)

\* The sweep of the asset is EXECUTED: on to ETH, or to the end.
NextAfter(asset) == IF asset = "ERC20" THEN Enter("eth", TRUE) ELSE Enter("retire", FALSE)

\* Mutant: behind the lock the newest row is not looked at again.
FoundExecutedNever(asset) == FALSE

\* findLatestEmergencyBc behind the lock, after the settle.
FoundExecuted(asset) == Of(asset) # {} /\ SettledSweeps[Latest(asset)].status = "EXECUTED"

\* The locked transaction: settle, then reuse an EXECUTED row or create one.
\* A blocked settle throws and rolls back.
Open(r) ==
    LET asset == req[r].asset IN
    /\ At(r, "open")
    /\ \/ /\ SettleClear /\ FoundExecuted(asset)
          /\ sweep' = SettledSweeps
          /\ staled' = staled \cup StaledNow
          /\ req' = [req EXCEPT ![r] = NextAfter(asset)]
       \/ /\ SettleClear /\ ~FoundExecuted(asset) /\ Len(sweep) < MaxSweeps
          /\ sweep' = Append(SettledSweeps, NewSweep(asset, "PROCESSING", req[r].amount, req[r].nonce))
          /\ staled' = staled \cup StaledNow
          /\ req' = [req EXCEPT ![r] = [Idle EXCEPT !.pc = "signStart", !.asset = asset,
                                                    !.sweep = Len(sweep) + 1]]
       \/ /\ ~SettleClear \/ NoRow
          /\ Return(r)
          /\ UNCHANGED <<sweep, staled>>
    /\ UNCHANGED <<chainVars, rowVars, aged, shareVars, balanceVars, uncancelled>>

\* signDigestBcRelay opens a session at the Recovery server, which loads share
\* C; the rounds that follow do not look at the share row again.
SignStart(r) ==
    /\ At(r, "signStart")
    /\ (shareC /\ Goto(r, "sign")) \/ Goto(r, "catch")
    /\ UNCHANGED <<chainVars, rowVars, sweep, aged, shareVars, balanceVars, auxVars>>

\* Mutant: the transaction is sent before its hash is stored.
SignThenSend(r) ==
    /\ At(r, "sign")
    /\ Goto(r, "send") \/ Goto(r, "catch")
    /\ UNCHANGED <<chainVars, rowVars, sweep, aged, shareVars, balanceVars, auxVars>>

Sign(r) ==
    /\ At(r, "sign")
    /\ Goto(r, "persist") \/ Goto(r, "catch")
    /\ UNCHANGED <<chainVars, rowVars, sweep, aged, shareVars, balanceVars, auxVars>>

\* Mutant: an update that fails is logged, and the transaction sent.
PersistSwallowed(r) ==
    LET s == req[r].sweep IN
    /\ At(r, "persist")
    /\ \/ sweep' = [sweep EXCEPT ![s].status = "BROADCASTED", ![s].txHash = TRUE]
       \/ "db" \in Faults /\ UNCHANGED sweep
    /\ Goto(r, "send")
    /\ UNCHANGED <<chainVars, rowVars, aged, shareVars, balanceVars, auxVars>>

\* BROADCASTED, hash and raw transaction are stored before the node sees it.
\* Under a database fault the answer is lost, with or without the update.
Persist(r) ==
    LET s == req[r].sweep
        stored == sweep' = [sweep EXCEPT ![s].status = "BROADCASTED", ![s].txHash = TRUE]
    IN
    /\ At(r, "persist")
    /\ \/ stored /\ Goto(r, "send")
       \/ "db" \in Faults /\ (stored \/ UNCHANGED sweep) /\ Goto(r, "catch")
    /\ UNCHANGED <<chainVars, rowVars, aged, shareVars, balanceVars, auxVars>>

Send(r) ==
    LET s == req[r].sweep IN
    /\ At(r, "send")
    /\ \/ Submit(s, sweep[s].nonce) /\ Goto(r, "wait")
       \/ "rpc" \in Faults /\ Submit(s, sweep[s].nonce) /\ Goto(r, "catch")
       \/ Goto(r, "catch") /\ UNCHANGED chainVars
    /\ UNCHANGED <<rowVars, sweep, aged, shareVars, balanceVars, auxVars>>

\* response.wait(1) resolves, or rejects and leaves the row BROADCASTED.
Wait(r) ==
    LET s == req[r].sweep IN
    /\ At(r, "wait")
    /\ \/ txState[s] = "success" /\ Goto(r, "execute")
       \/ (txState[s] \in {"reverted", "dropped"} \/ "rpc" \in Faults) /\ Return(r)
    /\ UNCHANGED <<chainVars, rowVars, sweep, aged, shareVars, balanceVars, auxVars>>

Execute(r) ==
    /\ At(r, "execute")
    /\ \/ /\ SetSweep(req[r].sweep, "EXECUTED")
          /\ req' = [req EXCEPT ![r] = NextAfter(req[r].asset)]
       \/ "db" \in Faults /\ Return(r) /\ UNCHANGED sweep
    /\ UNCHANGED <<chainVars, rowVars, aged, shareVars, balanceVars, auxVars>>

\* Mutant: the row is failed without reading it again.
CatchFailsAny(r) ==
    /\ At(r, "catch")
    /\ Goto(r, "failSweep") \/ ("db" \in Faults /\ Return(r))
    /\ UNCHANGED <<chainVars, rowVars, sweep, aged, shareVars, balanceVars, auxVars>>

\* A row that is still PROCESSING was never sent.
Catch(r) ==
    /\ At(r, "catch")
    /\ \/ Status(req[r].sweep) = "PROCESSING" /\ Goto(r, "failSweep")
       \/ Status(req[r].sweep) # "PROCESSING" /\ Return(r)
       \/ "db" \in Faults /\ Return(r)
    /\ UNCHANGED <<chainVars, rowVars, sweep, aged, shareVars, balanceVars, auxVars>>

FailSweep(r) ==
    /\ At(r, "failSweep")
    /\ Return(r)
    /\ SetSweep(req[r].sweep, "FAILED") \/ ("db" \in Faults /\ UNCHANGED sweep)
    /\ UNCHANGED <<chainVars, rowVars, aged, shareVars, balanceVars, auxVars>>

-----------------------------------------------------------------------------
(* The environment *)

\* Two minutes pass since the row was created: without "slow", only when no
\* handler works on it any more.
Age(s) ==
    /\ s \notin aged
    /\ Status(s) = "PROCESSING"
    /\ "slow" \in Faults \/ \A r \in Requests : req[r].sweep # s
    /\ aged' = aged \cup {s}
    /\ UNCHANGED <<chainVars, rowVars, sweep, shareVars, balanceVars, req, auxVars>>

Deposit ==
    /\ deposits < MaxDeposits
    /\ deposits' = deposits + 1
    /\ \/ token < MaxToken /\ token' = token + 1 /\ UNCHANGED eth
       \/ eth < MaxEth /\ eth' = MaxEth /\ UNCHANGED token
    /\ late' = (late \/ wallet \in {"RETIRING", "RETIRED"})
    /\ UNCHANGED <<chainVars, rowVars, sweep, aged, shareVars, req, auxVars>>

\* A block includes sweep s.  The account must hold the value and the maximum
\* fee; a token transfer of more than there is reverts.
MineSweep(s) ==
    LET value == IF sweep[s].asset = "ETH" THEN sweep[s].amount ELSE 0 IN
    /\ eth >= value + Fee
    /\ Mine(s)
    /\ \E cost \in 1..Fee :
          IF txState'[s] = "success"
          THEN /\ sweep[s].asset = "ERC20" => token >= sweep[s].amount
               /\ eth' = eth - value - cost
               /\ token' = IF sweep[s].asset = "ERC20" THEN token - sweep[s].amount ELSE token
          ELSE eth' = eth - cost /\ UNCHANGED token
    /\ UNCHANGED <<rowVars, sweep, aged, shareVars, deposits, late, req, auxVars>>

DropSweep(s) ==
    /\ Drop(s)
    /\ UNCHANGED <<rowVars, sweep, aged, shareVars, balanceVars, req, auxVars>>

\* The API process dies; every handler is gone.
Restart ==
    /\ req' = [r \in Requests |-> Idle]
    /\ UNCHANGED <<chainVars, rowVars, sweep, aged, shareVars, balanceVars, auxVars>>

Crash == "crash" \in Faults /\ Restart

Handler(r) ==
    \/ CancelWrite(r) \/ Precheck(r) \/ LockTx(r)
    \/ RebroadcastAccepted(r) \/ RebroadcastRefused(r)
    \/ Token(r) \/ PrepToken(r) \/ Eth(r) \/ PrepEth(r) \/ Skip(r) \/ Retire(r) \/ RetireC(r)
    \/ Open(r) \/ SignStart(r) \/ Sign(r) \/ Persist(r) \/ Send(r) \/ Wait(r) \/ Execute(r)
    \/ Catch(r) \/ FailSweep(r)

Next ==
    \/ StartEmergency
    \/ \E r \in Requests : CancelRead(r) \/ CallLast(r) \/ Handler(r)
    \/ \E s \in DOMAIN sweep : Age(s) \/ MineSweep(s) \/ DropSweep(s)
    \/ Deposit
    \/ Crash

Spec == Init /\ [][Next]_vars

\* What liveness assumes: an await that was started is answered, the user
\* keeps asking for the last withdraw, and a transaction that is sent again and
\* again is taken by the node and mined some time.
Fairness == /\ \A r \in Requests : /\ WF_vars(Handler(r))
                                   /\ SF_vars(CallLast(r))
                                   /\ SF_vars(RebroadcastAccepted(r))
            /\ \A s \in Sweeps : SF_vars(s \in DOMAIN sweep /\ MineSweep(s))

-----------------------------------------------------------------------------
(* Properties *)

\* "Each asset step persists BROADCASTED + txHash + signed raw before RPC"
\* (emergency-last-withdraw.service.ts:57): whatever crashes, a sweep the
\* network knows of is on its row.
SentIsPersisted == \A s \in Sweeps : txState[s] # "none" => s \in DOMAIN sweep /\ sweep[s].txHash

\* A sweep shown as EXECUTED with a hash was mined and succeeded.
ExecutedSweepIsMined ==
    \A s \in DOMAIN sweep : Status(s) = "EXECUTED" /\ sweep[s].txHash => txState[s] = "success"

\* "No re-signing, no rebroadcast with another nonce" (README.md:112): while
\* signing takes less than the stale limit, no asset is swept by two
\* transactions, unless the first reverted.
OneSweepPerAsset ==
    "slow" \notin Faults =>
        \A s, t \in DOMAIN sweep :
            /\ sweep[s].asset = sweep[t].asset
            /\ txState[s] \in {"pending", "dropped", "success"}
            /\ txState[t] \in {"pending", "dropped", "success"}
            => s = t

\* "While the token sweep is unconfirmed, ETH is not started" (README.md:112):
\* never two sweeps in flight, so ETH waits for the token's receipt.
SweepsAreSequential ==
    "slow" \notin Faults =>
        \A s, t \in DOMAIN sweep :
            txState[s] \in {"pending", "dropped"} /\ Status(t) \in {"PROCESSING", "BROADCASTED"}
                => s = t \/ HasReceipt(t)

\* "Goal: the whole balance is withdrawn, then RETIRED" (README.md:85): but
\* for deposits after the last withdraw began, a RETIRED wallet has no token
\* and at most the fee of one transfer.
RetiredIsEmpty ==
    wallet = "RETIRED" /\ ~late /\ ~uncancelled => token = 0 /\ eth <= Fee

\* "Not allowed once RETIRING" (emergency-recovery.service.ts:243).
NoCancelOnceRetiring == ~uncancelled

\* "stale: FAILED (crash before persist-before-RPC, so no broadcast)"
\* (emergency-bc-withdraw.ts:127): while signing takes less than the stale
\* limit, a sweep given up as stale never reaches the network later.
StaleWasNeverSent == "slow" \notin Faults => \A s \in staled : txState[s] = "none"

\* Another transaction used the nonce of sweep s.
Overtaken(s) ==
    \E t \in Sweeps :
        /\ txNonce[t] = sweep[s].nonce
        /\ \/ txState[t] = "reverted"
           \/ /\ late \/ uncancelled
              /\ txState[t] = "success" /\ sweep[t].asset # sweep[s].asset

\* "no receipt -> caller rebroadcasts the stored signed raw"
\* (emergency-bc-withdraw.ts:131): the chain can still take what is sent again.
\* A transfer is prepared before the lock, so a request that waits there may
\* store a used nonce, but only of a sweep that reverted, or of the other
\* asset's when a late deposit or a cancel mixed the two.
StoredIsSendable ==
    "slow" \notin Faults =>
        \A s \in DOMAIN sweep :
            Status(s) = "BROADCASTED" /\ ~HasReceipt(s) => sweep[s].nonce >= AccountNonce \/ Overtaken(s)

\* How far one sweep is.
Stage(s) == IF txState[s] = "success" THEN "swept"
            ELSE IF txState[s] \in {"pending", "dropped"} THEN "moving"
            ELSE IF sweep[s].txHash /\ txState[s] = "none" THEN "stored"
            ELSE "held"

\* What became of an asset, for LastSweep: the stage of its newest stored sweep.
Phase(asset) ==
    LET stored == {s \in Of(asset) : sweep[s].txHash}
    IN  IF stored = {} THEN "held" ELSE Stage(CHOOSE s \in stored : \A t \in stored : t <= s)

Promise == INSTANCE LastSweep WITH phase <- [a \in Assets |-> Phase(a)]

\* While signing takes less than the stale limit (no "slow"), the rows, retries
\* and crashes amount to the steps LastSweep allows: stored before sent, one asset
\* at a time, never given up once stored, repeated only after a revert.
ImplementsLastSweep == Promise!Spec

\* A stored sweep is never stuck: sent or not before the crash, dropped or not,
\* later requests send the same raw transaction until its receipt settles it
\* (no receipt: rebroadcast, emergency-bc-withdraw.ts:131).  With one request at
\* a time: a late cancel, another request that retires the wallet, or a revert
\* that leaves too little ETH or uses the nonce keep a second one from it.
StoredSweepResolves ==
    \A s \in Sweeps : (s \in DOMAIN sweep /\ Status(s) = "BROADCASTED")
                          ~> (s \in DOMAIN sweep /\ Status(s) \in {"EXECUTED", "FAILED"})
=============================================================================
