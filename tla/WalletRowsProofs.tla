--------------------------- MODULE WalletRowsProofs ---------------------------
(***************************************************************************)
(* Lemmas about the rows and the chain that the proofs of both withdraw    *)
(* paths use.                                                              *)
(***************************************************************************)
EXTENDS WalletRows, FiniteSetTheorems, TLAPS

\* The nonces contain 0, the one of a transaction that was never submitted.
LEMMA ZeroIsNonce == 0 \in Nonces
  <1>1. Cardinality(Txs) \in Nat
    BY TxsFinite, FS_CardinalityType
  <1> QED
    BY <1>1 DEF Nonces

\* A change of one row's status keeps the rows well typed.
LEMMA SetStatusType ==
  ASSUME NEW rows \in [Keys -> [status : RowStatus, txHash : BOOLEAN]],
         NEW k \in Keys, NEW s \in RowStatus
  PROVE  SetStatus(rows, k, s) \in [Keys -> [status : RowStatus, txHash : BOOLEAN]]
  BY DEF SetStatus

LEMMA SettledType ==
  ASSUME NEW rows \in [Keys -> [status : RowStatus, txHash : BOOLEAN]],
         NEW settled \in SettledRows(rows)
  PROVE  settled \in [Keys -> [status : RowStatus, txHash : BOOLEAN]]
  <1>1. \A k \in Keys : SettledStatus(rows, k) \in RowStatus
    BY DEF SettledStatus, RowStatus
  <1> QED
    BY <1>1, SetStatusType DEF SettledRows, OpenAb

LEMMA SubmitType ==
  ASSUME ChainTypeOK, NEW t \in Txs, NEW n \in Nonces, Submit(t, n)
  PROVE  ChainTypeOK'
  BY DEF ChainTypeOK, Submit, TxStates

\* Settling never touches a hash, and writes EXECUTED only from a receipt.
LEMMA SettleEffect ==
  ASSUME NEW rows \in [Keys -> [status : RowStatus, txHash : BOOLEAN]],
         NEW settled \in SettledRows(rows), NEW k \in Keys
  PROVE  /\ settled[k].txHash = rows[k].txHash
         /\ settled[k].status = "EXECUTED" => rows[k].status = "EXECUTED" \/ txState[k] = "success"
  BY DEF SettledRows, OpenAb, SetStatus, SettledStatus

\* It leaves a row BROADCASTED as it was, and fails one with a hash only when
\* its transaction reverted.
LEMMA SettleFailsReverted ==
  ASSUME NEW rows \in [Keys -> [status : RowStatus, txHash : BOOLEAN]],
         NEW settled \in SettledRows(rows), NEW k \in Keys
  PROVE  /\ settled[k].status = "BROADCASTED" => settled[k] = rows[k]
         /\ rows[k].status = "BROADCASTED" /\ rows[k].txHash
            /\ settled[k].status \notin {"BROADCASTED", "EXECUTED"}
               => txState[k] = "reverted"
         /\ rows[k].status = "EXECUTED" => settled[k] = rows[k]
  BY DEF SettledRows, OpenAb, SetStatus, SettledStatus, Settleable, HasReceipt

\* When at most one NORMAL_AB row is open, a settle that goes through leaves none.
LEMMA SettleClosesTheOnlyOpenRow ==
  ASSUME NEW rows \in [Keys -> [status : RowStatus, txHash : BOOLEAN]],
         \A j, k \in OpenAb(rows) : j = k,
         NEW settled \in SettledRows(rows)
  PROVE  OpenAb(settled) = {}
  <1>1. CASE OpenAb(rows) = {}
    BY <1>1 DEF SettledRows
  <1>2. CASE OpenAb(rows) # {}
    <2>1. PICK k \in OpenAb(rows) : settled = SetStatus(rows, k, SettledStatus(rows, k))
      BY <1>2 DEF SettledRows
    <2>2. SettledStatus(rows, k) \in {"EXECUTED", "FAILED"}
      BY DEF SettledStatus
    <2> QED
      BY <2>1, <2>2 DEF OpenAb, SetStatus
  <1> QED
    BY <1>1, <1>2
-----------------------------------------------------------------------------
(* Nonces of mined transactions *)

\* The mined transactions have the nonces from 0 up to the account's, each one
\* of its own.
NonceOrder ==
  /\ \A t \in Mined : txNonce[t] < AccountNonce
  /\ \A n \in Nat : n < AccountNonce => \E t \in Mined : txNonce[t] = n
  /\ \A t, u \in Mined : txNonce[t] = txNonce[u] => t = u

LEMMA AccountNonceType == IsFiniteSet(Mined) /\ AccountNonce \in Nat
  <1>1. Mined \in SUBSET Txs
    BY DEF Mined
  <1> QED
    BY <1>1, TxsFinite, FS_Subset, FS_CardinalityType DEF AccountNonce

\* Only a block moves the account nonce, by one.
LEMMA MineEffect ==
  ASSUME ChainTypeOK, NEW t \in Txs, Mine(t)
  PROVE  /\ t \notin Mined
         /\ Mined' = Mined \cup {t}
         /\ AccountNonce' = AccountNonce + 1
         /\ txNonce[t] = AccountNonce
         /\ UNCHANGED txNonce
  <1>1. t \notin Mined
    BY DEF Mine, Mined
  <1>2. Mined' = Mined \cup {t}
    BY DEF Mine, Mined, PendingAt, ChainTypeOK
  <1>3. Cardinality(Mined \cup {t}) = Cardinality(Mined) + 1
    BY <1>1, AccountNonceType, FS_AddElement
  <1> QED
    BY <1>1, <1>2, <1>3 DEF Mine, AccountNonce

LEMMA SubmitEffect ==
  ASSUME ChainTypeOK, NEW t \in Txs, NEW n \in Nonces, Submit(t, n)
  PROVE  /\ Mined' = Mined
         /\ AccountNonce' = AccountNonce
         /\ \A u \in Mined : txNonce'[u] = txNonce[u]
  <1>1. Mined' = Mined
    BY DEF Submit, Mined, PendingAt, ChainTypeOK
  <1>2. t \notin Mined
    BY DEF Submit, Mined
  <1> QED
    BY <1>1, <1>2 DEF Submit, AccountNonce, ChainTypeOK, Mined

LEMMA DropEffect ==
  ASSUME ChainTypeOK, NEW t \in Txs, Drop(t)
  PROVE  Mined' = Mined /\ AccountNonce' = AccountNonce /\ UNCHANGED txNonce
  <1>1. Mined' = Mined
    BY DEF Drop, Mined, ChainTypeOK
  <1> QED
    BY <1>1 DEF Drop, AccountNonce

\* Whatever the pool does, the mined transactions keep their order.
LEMMA NonceOrderKept ==
  ASSUME ChainTypeOK, NonceOrder,
         \/ UNCHANGED chainVars
         \/ \E t \in Txs : Mine(t) \/ Drop(t)
         \/ \E t \in Txs, n \in Nonces : Submit(t, n)
  PROVE  NonceOrder'
  <1>1. CASE UNCHANGED chainVars
    BY <1>1 DEF NonceOrder, chainVars, Mined, AccountNonce
  <1>2. ASSUME NEW t \in Txs, Mine(t)
        PROVE  NonceOrder'
    <2>1. /\ t \notin Mined
          /\ Mined' = Mined \cup {t}
          /\ AccountNonce' = AccountNonce + 1
          /\ txNonce[t] = AccountNonce
          /\ UNCHANGED txNonce
      BY <1>2, MineEffect
    <2>2. \A u \in Mined : txNonce[u] < AccountNonce
      BY DEF NonceOrder
    <2>3. AccountNonce \in Nat /\ \A u \in Txs : txNonce[u] \in Nat
      BY AccountNonceType, TxsFinite, FS_CardinalityType DEF ChainTypeOK, Nonces
    <2>4. \A u \in Mined' : txNonce'[u] < AccountNonce'
      BY <2>1, <2>2, <2>3 DEF Mined
    <2>5. ASSUME NEW n \in Nat, n < AccountNonce'
          PROVE  \E u \in Mined' : txNonce'[u] = n
      <3>1. CASE n = AccountNonce
        BY <2>1, <3>1
      <3>2. CASE n < AccountNonce
        BY <2>1, <3>2 DEF NonceOrder
      <3> QED
        BY <2>1, <2>3, <2>5, <3>1, <3>2
    <2>6. ASSUME NEW u \in Mined', NEW v \in Mined', txNonce'[u] = txNonce'[v]
          PROVE  u = v
      BY <2>1, <2>2, <2>3, <2>6 DEF NonceOrder
    <2> QED
      BY <2>4, <2>5, <2>6 DEF NonceOrder
  <1>3. ASSUME NEW t \in Txs, Drop(t)
        PROVE  NonceOrder'
    BY <1>3, DropEffect DEF NonceOrder
  <1>4. ASSUME NEW t \in Txs, NEW n \in Nonces, Submit(t, n)
        PROVE  NonceOrder'
    BY <1>4, SubmitEffect DEF NonceOrder
  <1> QED
    BY <1>1, <1>2, <1>3, <1>4

LEMMA NonceOrderInit == ASSUME ChainInit PROVE NonceOrder
  <1>1. Mined = {}
    BY DEF ChainInit, Mined
  <1>2. AccountNonce = 0
    BY <1>1, FS_EmptySet DEF AccountNonce
  <1> QED
    BY <1>1, <1>2 DEF NonceOrder

\* The pending nonce is unique, and no mined transaction has it.
LEMMA PendingNonceIsFree ==
  ASSUME ChainTypeOK, NonceOrder, NEW n \in Nonces, IsPendingNonce(n)
  PROVE  /\ \A t \in Mined : txNonce[t] < n
         /\ \A m \in Nonces : IsPendingNonce(m) => m = n
  <1>1. Nonces \subseteq Nat /\ \A u \in Txs : txNonce[u] \in Nat
    BY TxsFinite, FS_CardinalityType DEF ChainTypeOK, Nonces
  <1>2. \A t \in Mined : txNonce[t] < n
    BY <1>1, AccountNonceType DEF IsPendingNonce, NonceOrder, Mined
  <1>3. ASSUME NEW m \in Nonces, IsPendingNonce(m)
        PROVE  ~(m < n) /\ ~(n < m)
    BY <1>1, <1>3, AccountNonceType DEF IsPendingNonce
  <1> QED
    BY <1>1, <1>2, <1>3

===============================================================================
