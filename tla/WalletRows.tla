----------------------------- MODULE WalletRows -----------------------------
(***************************************************************************)
(* What the API keeps in Postgres for one MPC wallet and every handler     *)
(* shares: the wallet status and the NORMAL_AB withdraw rows, with the     *)
(* settle step that the A+B start and both emergency handlers run under    *)
(* the wallet row lock.                                                    *)
(*                                                                         *)
(* A withdraw row, its idempotency key, its sign session and the           *)
(* transaction it signs are one-to-one, so a key names all four.           *)
(***************************************************************************)
EXTENDS EthChain

CONSTANT Keys   \* idempotency keys of A+B withdraws of this wallet

ASSUME KeysAreTxs == Keys \subseteq Txs

VARIABLES
    wallet,     \* Wallet.status
    row         \* WithdrawRequest of each key: its status and whether txHash is set

rowVars == <<wallet, row>>

WalletStatus == {"ACTIVE", "RECOVERY_PENDING", "RETIRING", "RETIRED"}
RowStatus == {"NONE", "PROCESSING", "BROADCASTED", "EXECUTED", "FAILED", "EXPIRED"}

RowTypeOK == /\ wallet \in WalletStatus
             /\ row \in [Keys -> [status : RowStatus, txHash : BOOLEAN]]

RowInit == /\ wallet = "ACTIVE"
           /\ row = [k \in Keys |-> [status |-> "NONE", txHash |-> FALSE]]

SetStatus(rows, k, status) == [rows EXCEPT ![k].status = status]

\* isTerminalAbStatus
IsTerminalAb(k) == row[k].status \in {"BROADCASTED", "EXECUTED"}

OpenAb(rows) == {k \in Keys : rows[k].status \in {"PROCESSING", "BROADCASTED"}}

\* settleOpenNormalAbOrThrow looks at one open row: findMany has no order.
\* It goes through when the row can be closed from its receipt ...
Settleable(rows, k) == rows[k].status = "BROADCASTED" /\ (rows[k].txHash => HasReceipt(k))

\* Mutant: any receipt counts as a success.
SettledStatusAnyReceipt(rows, k) == IF rows[k].txHash THEN "EXECUTED" ELSE "FAILED"

SettledStatus(rows, k) ==
    IF rows[k].txHash /\ txState[k] = "success" THEN "EXECUTED" ELSE "FAILED"

\* Mutant: nothing is settled and nothing throws.
SettledRowsNever(rows) == {rows}

SettledRows(rows) ==
    IF OpenAb(rows) = {} THEN {rows}
    ELSE {SetStatus(rows, k, SettledStatus(rows, k)) : k \in {j \in OpenAb(rows) : Settleable(rows, j)}}

\* ... and throws (rolling the transaction back) when it is PROCESSING, has no
\* receipt yet, or the receipt lookup fails.
SettleThrows(rows) ==
    \E k \in OpenAb(rows) : rows[k].status = "PROCESSING" \/ rows[k].txHash
=============================================================================
