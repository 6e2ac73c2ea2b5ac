------------------------------ MODULE EthChain ------------------------------
(***************************************************************************)
(* The chain as the wallet service uses it through an ethers provider: one *)
(* account (the MPC wallet address), the transactions signed for it, their *)
(* nonces and receipts.  A node is an external service; what it may answer *)
(* is modelled from how the service calls it.                              *)
(***************************************************************************)
EXTENDS Naturals, FiniteSets

CONSTANT Txs    \* every transaction that may ever be signed for the account

ASSUME TxsFinite == IsFiniteSet(Txs)

VARIABLES
    txState,    \* what the network knows of each transaction
    txNonce     \* the account nonce each submitted transaction carries

chainVars == <<txState, txNonce>>

TxStates == {"none", "pending", "dropped", "success", "reverted"}

\* An account signs at most one transaction per member of Txs, so the nonces
\* it can ever use are bounded by their number.
Nonces == 0..Cardinality(Txs)

ChainTypeOK == /\ txState \in [Txs -> TxStates]
               /\ txNonce \in [Txs -> Nonces]

ChainInit == /\ txState = [t \in Txs |-> "none"]
             /\ txNonce = [t \in Txs |-> 0]

Mined == {t \in Txs : txState[t] \in {"success", "reverted"}}

HasReceipt(t) == txState[t] \in {"success", "reverted"}

\* The account nonce of the latest block: every mined transaction uses one.
AccountNonce == Cardinality(Mined)

PendingAt(n) == {t \in Txs : txState[t] = "pending" /\ txNonce[t] = n}

\* getTransactionCount(address, "pending"): the first nonce no queued
\* transaction occupies.
IsPendingNonce(n) == /\ n >= AccountNonce
                     /\ PendingAt(n) = {}
                     /\ \A m \in AccountNonce..(n - 1) : PendingAt(m) # {}

\* The node takes raw transaction t with nonce n into its pool.  A known or
\* mined transaction and a used nonce are refused; a pending transaction with
\* the same nonce is replaced when the new one pays more.
Submit(t, n) ==
    /\ txState[t] \in {"none", "dropped"}
    /\ n >= AccountNonce
    /\ txState' = [u \in Txs |-> IF u = t THEN "pending"
                                 ELSE IF u \in PendingAt(n) THEN "dropped"
                                 ELSE txState[u]]
    /\ txNonce' = [txNonce EXCEPT ![t] = n]

\* A block includes t, which succeeds or reverts; a rival with the same nonce
\* can never be mined afterwards.  A dropped transaction may still be held by
\* another node and mined.
Mine(t) ==
    /\ txState[t] \in {"pending", "dropped"}
    /\ txNonce[t] = AccountNonce
    /\ \E outcome \in {"success", "reverted"} :
          txState' = [u \in Txs |-> IF u = t THEN outcome
                                    ELSE IF u \in PendingAt(txNonce[t]) THEN "dropped"
                                    ELSE txState[u]]
    /\ UNCHANGED txNonce

\* The pool forgets a transaction that was never mined.
Drop(t) ==
    /\ txState[t] = "pending"
    /\ txState' = [txState EXCEPT ![t] = "dropped"]
    /\ UNCHANGED txNonce
=============================================================================
