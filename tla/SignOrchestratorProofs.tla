----------------------- MODULE SignOrchestratorProofs -----------------------
(***************************************************************************)
(* Proofs about SignOrchestrator for any number of keys, transactions and  *)
(* concurrent requests, and any set of faults.                             *)
(***************************************************************************)
EXTENDS SignOrchestrator, WalletRowsProofs

\* An idle request slot is well typed.
LEMMA IdleIsRequest == Idle \in Request
  BY ZeroIsNonce DEF Idle, Begun, Request

\* And so is one that start or complete fills in.
LEMMA BegunIsRequest ==
  ASSUME NEW pc \in StartPcs \cup CompletePcs, NEW k \in Keys, NEW n \in Nonces
  PROVE  Begun(pc, k, n) \in Request
  BY DEF Begun, Request

\* A handler's move to another await keeps the request table well typed.
LEMMA GotoType ==
  ASSUME TypeOK, NEW r \in Requests, req[r].pc # "idle",
         NEW pc \in {"idle"} \cup StartPcs \cup CompletePcs, Goto(r, pc)
  PROVE  /\ req' \in [Requests -> Request]
         /\ \A q \in Requests : req'[q].pc # "idle" => req'[q].key \in Keys
  BY DEF TypeOK, Goto, Request

LEMMA ReturnType ==
  ASSUME TypeOK, NEW r \in Requests, Return(r)
  PROVE  /\ req' \in [Requests -> Request]
         /\ \A q \in Requests : req'[q].pc # "idle" => req'[q].key \in Keys
  BY IdleIsRequest DEF TypeOK, Return, Idle, Begun

LEMMA ExpiredRowsType ==
  ASSUME RowTypeOK, NEW K
  PROVE  ExpiredRows(K) \in [Keys -> [status : RowStatus, txHash : BOOLEAN]]
  BY DEF RowTypeOK, ExpiredRows, RowStatus

\* Every step of start keeps the types.
LEMMA StartType ==
  ASSUME TypeOK, NEW r \in Requests, StartNext(r)
  PROVE  TypeOK'
  <1> USE DEF TypeOK
  <1>1. ASSUME NEW k \in Keys, StartCall(r, k)
        PROVE  TypeOK'
    <2>1. req' \in [Requests -> Request]
      <3>1. "lock" \in StartPcs
        BY DEF StartPcs
      <3> QED
        BY <1>1, <3>1, BegunIsRequest DEF StartCall
    <2>2. \A q \in Requests : req'[q].pc # "idle" => req'[q].key \in Keys
      BY <1>1 DEF StartCall, Idle, Begun
    <2>3. live' \subseteq Keys /\ expiring' \subseteq Keys
      BY <1>1 DEF StartCall, Gc, Kept
    <2> QED
      BY <1>1, <2>1, <2>2, <2>3 DEF StartCall, chainVars, rowVars, auxVars, ChainTypeOK, RowTypeOK
  <1>2. CASE StartLock(r)
    <2>1. req[r].key \in Keys /\ req[r].pc # "idle"
      BY <1>2 DEF StartLock, At
    <2>2. /\ req' \in [Requests -> Request]
          /\ \A q \in Requests : req'[q].pc # "idle" => req'[q].key \in Keys
      <3>1. CASE Return(r)
        BY <3>1, ReturnType
      <3>2. CASE req' = [req EXCEPT ![r].pc = "expire", ![r].stale = Stale]
        BY <2>1, <3>2 DEF Request, StartPcs, Stale
      <3> QED
        BY <1>2, <3>1, <3>2 DEF StartLock
    <2>3. live' \subseteq Keys
      BY <1>2 DEF StartLock
    <2> QED
      BY <1>2, <2>2, <2>3
         DEF StartLock, chainVars, rowVars, writeVars, auxVars, ChainTypeOK, RowTypeOK
  <1>4. CASE StartCommit(r)
    <2> DEFINE k == req[r].key
    <2>1. k \in Keys /\ req[r].pc # "idle"
      BY <1>4 DEF StartCommit, Commit, Rollback, rowVars, At
    <2>2. row' \in [Keys -> [status : RowStatus, txHash : BOOLEAN]]
      <3>1. CASE UNCHANGED row
        BY <3>1 DEF RowTypeOK
      <3>2. ASSUME NEW settled \in SettledRows(ExpiredRows(req[r].stale)),
                   row' = SetStatus(settled, k, "PROCESSING")
            PROVE  row' \in [Keys -> [status : RowStatus, txHash : BOOLEAN]]
        BY <2>1, <3>2, ExpiredRowsType, SettledType, SetStatusType DEF RowStatus
      <3> QED
        BY <1>4, <3>1, <3>2 DEF StartCommit, Commit, Rollback, rowVars
    <2>3. /\ req' \in [Requests -> Request]
          /\ \A q \in Requests : req'[q].pc # "idle" => req'[q].key \in Keys
      <3>1. CASE Return(r)
        BY <3>1, ReturnType
      <3>2. CASE req' = [req EXCEPT ![r].pc = "created", ![r].stale = {}]
        BY <2>1, <3>2 DEF Request, StartPcs
      <3> QED
        BY <1>4, <3>1, <3>2 DEF StartCommit, Commit, Rollback, rowVars
    <2>4. live' \subseteq Keys
      BY <1>4 DEF StartCommit, Commit, Rollback, rowVars
    <2> QED
      BY <1>4, <2>2, <2>3, <2>4
         DEF StartCommit, Commit, Rollback, chainVars, rowVars, writeVars, auxVars, ChainTypeOK, RowTypeOK
  <1>3. CASE SessionSet(r)
    <2>1. req[r].key \in Keys /\ req[r].nonce \in Nonces
      BY <1>3 DEF SessionSet, At, Request
    <2>2. step' \in [Keys -> Steps] /\ nonce' \in [Keys -> Nonces] /\ live' \subseteq Keys
      BY <1>3, <2>1 DEF SessionSet, Steps
    <2> QED
      BY <1>3, <2>2, ReturnType
         DEF SessionSet, chainVars, rowVars, writeVars, auxVars, ChainTypeOK, RowTypeOK
  <1> QED
    BY <1>1, <1>2, <1>3, <1>4 DEF StartNext

\* Every step of a complete handler keeps the types: the request moves on or
\* returns, at most one row changes, and only members of Keys are added to or
\* removed from the key sets.
LEMMA CompleteType ==
  ASSUME TypeOK, NEW r \in Requests, CompleteStep(r)
  PROVE  TypeOK'
  <1> DEFINE k == req[r].key
  <1>1. k \in Keys /\ req[r].pc # "idle"
    BY DEF TypeOK, CompleteStep, FindTerminal, ReadRow, ReadWallet, LeftActiveWrite, Sign,
           Broadcast, Record, Wait, Execute, CatchRead, FailWrite, At
  <1>2. Return(r) \/ \E pc \in CompletePcs : Goto(r, pc)
    BY DEF CompleteStep, FindTerminal, ReadRow, ReadWallet, LeftActiveWrite, Sign,
           Broadcast, Record, Wait, Execute, CatchRead, FailWrite, CompletePcs
  <1>3. /\ req' \in [Requests -> Request]
        /\ \A q \in Requests : req'[q].pc # "idle" => req'[q].key \in Keys
    BY <1>1, <1>2, ReturnType, GotoType
  <1>4. \/ UNCHANGED row
        \/ \E s \in RowStatus : row' = SetStatus(row, k, s)
        \/ row' = [row EXCEPT ![k] = Broadcasted]
    BY DEF CompleteStep, FindTerminal, ReadRow, ReadWallet, LeftActiveWrite, Sign,
           Broadcast, Record, Wait, Execute, CatchRead, FailWrite, RowStatus, rowVars
  <1>5. RowTypeOK'
    <2>1. UNCHANGED wallet
      BY DEF CompleteStep, FindTerminal, ReadRow, ReadWallet, LeftActiveWrite, Sign,
             Broadcast, Record, Wait, Execute, CatchRead, FailWrite, rowVars
    <2>2. row \in [Keys -> [status : RowStatus, txHash : BOOLEAN]]
      BY DEF TypeOK, RowTypeOK
    <2>3. Broadcasted \in [status : RowStatus, txHash : BOOLEAN]
      BY DEF Broadcasted, RowStatus
    <2>4. \A s \in RowStatus : SetStatus(row, k, s) \in [Keys -> [status : RowStatus, txHash : BOOLEAN]]
      BY <1>1, <2>2, SetStatusType
    <2>5. row' \in [Keys -> [status : RowStatus, txHash : BOOLEAN]]
      BY <1>4, <2>2, <2>3, <2>4
    <2> QED
      BY <2>1, <2>5 DEF TypeOK, RowTypeOK
  <1>6. ChainTypeOK'
    <2>1. UNCHANGED chainVars \/ Submit(k, nonce[k])
      BY DEF CompleteStep, FindTerminal, ReadRow, ReadWallet, LeftActiveWrite, Sign,
             Broadcast, Record, Wait, Execute, CatchRead, FailWrite
    <2>2. k \in Txs /\ nonce[k] \in Nonces
      BY <1>1, KeysAreTxs DEF TypeOK
    <2> QED
      BY <2>1, <2>2, SubmitType DEF TypeOK, ChainTypeOK, chainVars
  <1>7. /\ live' \subseteq Keys /\ aged' \subseteq Keys
        /\ expiring' \subseteq Keys /\ aborting' \subseteq Keys
        /\ revived' \subseteq Keys /\ untold' \subseteq Keys
    BY <1>1 DEF TypeOK, CompleteStep, FindTerminal, ReadRow, ReadWallet, LeftActiveWrite, Sign,
           Broadcast, Record, Wait, Execute, CatchRead, FailWrite, sessionVars, writeVars, auxVars
  <1>8. step' \in [Keys -> Steps] /\ nonce' \in [Keys -> Nonces]
    BY <1>1 DEF TypeOK, CompleteStep, FindTerminal, ReadRow, ReadWallet, LeftActiveWrite, Sign,
           Broadcast, Record, Wait, Execute, CatchRead, FailWrite, sessionVars, Steps
  <1> QED
    BY <1>3, <1>5, <1>6, <1>7, <1>8 DEF TypeOK

LEMMA CompleteCallType ==
  ASSUME TypeOK, NEW r \in Requests, NEW k \in Keys, CompleteCall(r, k)
  PROVE  TypeOK'
  <1>1. req' \in [Requests -> Request]
    BY IdleIsRequest DEF CompleteCall, TypeOK, Request, CompletePcs, Idle, Begun
  <1>2. \A q \in Requests : req'[q].pc # "idle" => req'[q].key \in Keys
    BY DEF CompleteCall, TypeOK, Idle, Begun
  <1>3. live' \subseteq Keys /\ expiring' \subseteq Keys
    BY DEF CompleteCall, TypeOK, Gc, Kept
  <1> QED
    BY <1>1, <1>2, <1>3
       DEF CompleteCall, TypeOK, chainVars, rowVars, auxVars, ChainTypeOK, RowTypeOK

\* Rounds, ageing, aborts and the conditional updates keep the types.
LEMMA KeyType ==
  ASSUME TypeOK, NEW k \in Keys, KeyNext(k)
  PROVE  TypeOK'
  <1> USE DEF TypeOK
  <1>1. CASE Round(k)
    <2>1. step' \in [Keys -> Steps]
      BY <1>1 DEF Round, NextStep, Steps
    <2>2. live' \subseteq Keys /\ expiring' \subseteq Keys
      BY <1>1 DEF Round, Gc, Kept
    <2> QED
      BY <1>1, <2>1, <2>2 DEF Round, chainVars, rowVars, auxVars, ChainTypeOK, RowTypeOK
  <1>2. CASE Age(k)
    BY <1>2 DEF Age, chainVars, rowVars, writeVars, auxVars, ChainTypeOK, RowTypeOK
  <1>3. CASE Abort(k)
    BY <1>3 DEF Abort, chainVars, rowVars, auxVars, ChainTypeOK, RowTypeOK
  <1>4. CASE ExpireWrite(k) \/ AbortWrite(k)
    <2>1. row' \in [Keys -> [status : RowStatus, txHash : BOOLEAN]]
      BY <1>4, SetStatusType DEF ExpireWrite, AbortWrite, RowTypeOK, RowStatus
    <2> QED
      BY <1>4, <2>1 DEF ExpireWrite, AbortWrite, chainVars, sessionVars, auxVars, ChainTypeOK, RowTypeOK
  <1> QED
    BY <1>1, <1>2, <1>3, <1>4 DEF KeyNext

\* Emergency start and cancel, a crash and the chain keep the types.
LEMMA OtherType ==
  ASSUME TypeOK, StartEmergency \/ CancelEmergency \/ Crash \/ Chain
  PROVE  TypeOK'
  <1> USE DEF TypeOK
  <1>1. CASE StartEmergency
    BY <1>1, SettledType DEF StartEmergency, chainVars, sessionVars, writeVars, auxVars,
           ChainTypeOK, RowTypeOK, WalletStatus
  <1>2. CASE CancelEmergency
    BY <1>2 DEF CancelEmergency, chainVars, sessionVars, writeVars, auxVars,
           ChainTypeOK, RowTypeOK, WalletStatus
  <1>3. CASE Crash
    <2>1. untold' \subseteq Keys
      BY <1>3 DEF Crash, Restart, At
    <2>2. nonce' \in [Keys -> Nonces] /\ step' \in [Keys -> Steps]
      BY <1>3, IdleIsRequest DEF Crash, Restart, Steps, Idle, Begun, Request
    <2> QED
      BY <1>3, <2>1, <2>2, IdleIsRequest DEF Crash, Restart, Idle, Begun, chainVars, rowVars, ChainTypeOK, RowTypeOK
  <1>4. CASE Chain
    <2>1. ChainTypeOK'
      BY <1>4 DEF Chain, Mine, Drop, ChainTypeOK, TxStates
    <2> QED
      BY <1>4, <2>1 DEF Chain, rowVars, sessionVars, writeVars, auxVars, RowTypeOK
  <1> QED
    BY <1>1, <1>2, <1>3, <1>4

\* Type correctness of the whole A+B module.
THEOREM TypeInvariant == Spec => []TypeOK
  <1>1. Init => TypeOK
    BY IdleIsRequest DEF Init, TypeOK, ChainInit, RowInit, ChainTypeOK, RowTypeOK, TxStates,
       WalletStatus, RowStatus, Steps, Idle, Begun, Request
  <1>2. TypeOK /\ [Next]_vars => TypeOK'
    <2> SUFFICES ASSUME TypeOK, [Next]_vars PROVE TypeOK'
      OBVIOUS
    <2>1. CASE UNCHANGED vars
      BY <2>1 DEF TypeOK, vars, chainVars, rowVars, sessionVars, writeVars, auxVars,
         ChainTypeOK, RowTypeOK
    <2> QED
      BY <2>1, StartType, CompleteType, CompleteCallType, KeyType, OtherType DEF Next
  <1> QED
    BY <1>1, <1>2, PTL DEF Spec

-----------------------------------------------------------------------------
(* Rows and the chain agree: ExecutedIsMined, HashMeansSent, SentIsTracked. *)

\* What the network knows it keeps knowing; a success is final.
LEMMA ChainIsMonotone ==
  ASSUME TypeOK, [Next]_vars, NEW t \in Txs
  PROVE  /\ txState[t] # "none" => txState'[t] # "none"
         /\ txState[t] = "success" => txState'[t] = "success"
  <1>1. CASE UNCHANGED txState
    BY <1>1
  <1>2. ASSUME NEW u \in Txs, NEW n \in Nonces, Submit(u, n)
        PROVE  /\ txState[t] # "none" => txState'[t] # "none"
               /\ txState[t] = "success" => txState'[t] = "success"
    BY <1>2 DEF Submit, PendingAt, TypeOK, ChainTypeOK
  <1>3. CASE Chain
    BY <1>3 DEF Chain, Mine, Drop, PendingAt, TypeOK, ChainTypeOK
  <1>4. ASSUME NEW r \in Requests, Broadcast(r)
        PROVE  UNCHANGED txState \/ \E u \in Txs, n \in Nonces : Submit(u, n)
    BY <1>4, KeysAreTxs DEF Broadcast, At, TypeOK, chainVars
  <1>5. \/ UNCHANGED txState
        \/ Chain
        \/ \E r \in Requests : Broadcast(r)
    BY DEF Next, vars, chainVars, StartNext, StartCall, StartLock, StartCommit, Commit, Rollback, SessionSet, CompleteStep,
           CompleteCall, FindTerminal, ReadRow, ReadWallet, LeftActiveWrite, Sign, Record, Wait,
           Execute, CatchRead, FailWrite, KeyNext, Round, Age, ExpireWrite, Abort, AbortWrite,
           StartEmergency, CancelEmergency, Crash, Restart
  <1> QED
    BY <1>1, <1>2, <1>3, <1>4, <1>5

\* The only writer of a hash is Record; EXECUTED is written after wait(1) or
\* from a receipt.
RowEffect(k) ==
  /\ row[k].txHash => row'[k].txHash
  /\ row'[k].txHash => row[k].txHash \/ \E r \in Requests : At(r, "record") /\ req[r].key = k
  /\ row'[k].status = "EXECUTED" =>
        \/ row[k].status = "EXECUTED"
        \/ txState[k] = "success"
        \/ \E r \in Requests : At(r, "execute") /\ req[r].key = k

LEMMA RowEffectHolds ==
  ASSUME TypeOK, [Next]_vars, NEW k \in Keys
  PROVE  RowEffect(k)
  <1> USE DEF RowEffect
  <1>0. row \in [Keys -> [status : RowStatus, txHash : BOOLEAN]]
    BY DEF TypeOK, RowTypeOK
  <1>1. CASE UNCHANGED row
    BY <1>1
  <1>2. ASSUME NEW r \in Requests, StartCommit(r)
        PROVE  RowEffect(k)
    <2> DEFINE expired == ExpiredRows(req[r].stale)
    <2>1. ASSUME NEW settled \in SettledRows(expired),
                 row' = SetStatus(settled, req[r].key, "PROCESSING")
          PROVE  RowEffect(k)
      <3>1. expired \in [Keys -> [status : RowStatus, txHash : BOOLEAN]]
        BY ExpiredRowsType DEF TypeOK
      <3>2. settled \in [Keys -> [status : RowStatus, txHash : BOOLEAN]]
        BY <3>1, SettledType
      <3>3. /\ row'[k].txHash = settled[k].txHash
            /\ row'[k].status = "EXECUTED" => settled[k].status = "EXECUTED"
        BY <2>1, <3>2 DEF SetStatus
      <3>4. /\ settled[k].txHash = expired[k].txHash
            /\ settled[k].status = "EXECUTED" =>
                  expired[k].status = "EXECUTED" \/ txState[k] = "success"
        BY <3>1, SettleEffect
      <3>5. /\ expired[k].txHash = row[k].txHash
            /\ expired[k].status = "EXECUTED" => row[k].status = "EXECUTED"
        BY <1>0 DEF ExpiredRows
      <3> QED
        BY <3>3, <3>4, <3>5
    <2> QED
      BY <1>1, <1>2, <2>1 DEF StartCommit, Commit, Rollback, rowVars
  <1>3. CASE StartEmergency
    BY <1>0, <1>3, SettleEffect DEF StartEmergency
  <1>4. ASSUME NEW r \in Requests, Record(r)
        PROVE  RowEffect(k)
    BY <1>0, <1>1, <1>4 DEF Record, At, Broadcasted
  <1>5. ASSUME NEW r \in Requests, Execute(r)
        PROVE  RowEffect(k)
    BY <1>0, <1>1, <1>5 DEF Execute, At, SetStatus
  <1>6. ASSUME NEW j \in Keys, NEW s \in {"FAILED", "EXPIRED"}, row' = SetStatus(row, j, s)
        PROVE  RowEffect(k)
    BY <1>0, <1>6 DEF SetStatus
  <1>7. ASSUME NEW r \in Requests, LeftActiveWrite(r) \/ FailWrite(r)
        PROVE  RowEffect(k)
    <2>1. req[r].key \in Keys
      BY <1>7 DEF LeftActiveWrite, FailWrite, At, TypeOK
    <2> QED
      BY <1>1, <1>6, <1>7, <2>1 DEF LeftActiveWrite, FailWrite
  <1>8. ASSUME NEW j \in Keys, ExpireWrite(j) \/ AbortWrite(j)
        PROVE  RowEffect(k)
    BY <1>1, <1>6, <1>8 DEF ExpireWrite, AbortWrite
  <1>9. \/ UNCHANGED row
        \/ StartEmergency
        \/ \E r \in Requests : StartCommit(r) \/ Record(r) \/ Execute(r) \/ LeftActiveWrite(r) \/ FailWrite(r)
        \/ \E j \in Keys : ExpireWrite(j) \/ AbortWrite(j)
    BY DEF Next, vars, rowVars, StartNext, StartCall, StartLock, SessionSet, CompleteStep,
           CompleteCall, FindTerminal, ReadRow, ReadWallet, Sign, Broadcast, Wait,
           CatchRead, KeyNext, Round, Age, Abort, CancelEmergency, Crash, Restart, Chain
  <1> QED
    BY <1>1, <1>2, <1>3, <1>4, <1>5, <1>7, <1>8, <1>9

\* A handler reaches record only by an accepted submission and execute only
\* after a success; it leaves record only with the hash stored or the loss noted.
RequestEffect(r) ==
  /\ At(r, "record")' =>
        \/ At(r, "record") /\ req'[r].key = req[r].key
        \/ txState'[req'[r].key] # "none"
  /\ At(r, "execute")' =>
        \/ At(r, "execute") /\ req'[r].key = req[r].key
        \/ txState[req'[r].key] = "success"
  /\ At(r, "record") =>
        \/ At(r, "record")' /\ req'[r].key = req[r].key
        \/ row'[req[r].key].txHash
        \/ req[r].key \in untold'

LEMMA RequestEffectHolds ==
  ASSUME TypeOK, [Next]_vars, NEW r \in Requests
  PROVE  RequestEffect(r)
  <1> USE DEF RequestEffect, At
  <1>0. /\ req \in [Requests -> Request]
        /\ \A q \in Requests : req[q].pc # "idle" => req[q].key \in Keys
        /\ row \in [Keys -> [status : RowStatus, txHash : BOOLEAN]]
        /\ txState \in [Txs -> TxStates]
    BY DEF TypeOK, RowTypeOK, ChainTypeOK
  <1>1. CASE UNCHANGED req
    BY <1>1
  <1>7. ASSUME req[r].pc # "record", req'[r].pc \notin {"record", "execute"}
        PROVE  RequestEffect(r)
    BY <1>7
  <1>2. ASSUME NEW q \in Requests, NEW k \in Keys, StartCall(q, k) \/ CompleteCall(q, k)
        PROVE  RequestEffect(r)
    <2>1. req[q].pc = "idle"
      BY <1>2 DEF StartCall, CompleteCall, Idle, Begun
    <2>2. \/ UNCHANGED req
          \/ \E new \in Request : new.pc \in {"lock", "findTerminal"} /\
                req' = [req EXCEPT ![q] = new]
      <3>1. CASE StartCall(q, k)
        <4>1. "lock" \in StartPcs
          BY DEF StartPcs
        <4>2. \A n \in Nonces : /\ Begun("lock", k, n) \in Request
                               /\ Begun("lock", k, n).pc = "lock"
          BY <4>1, BegunIsRequest DEF Begun
        <4> QED
          BY <3>1, <4>2 DEF StartCall
      <3>2. CASE CompleteCall(q, k)
        <4> DEFINE new == Begun("findTerminal", k, 0)
        <4>1. new \in Request /\ new.pc = "findTerminal"
          BY ZeroIsNonce, BegunIsRequest DEF Begun, CompletePcs
        <4> QED
          BY <3>2, <4>1 DEF CompleteCall
      <3> QED
        BY <1>2, <3>1, <3>2
    <2>3. req'[r] = req[r] \/ (req[r].pc = "idle" /\ req'[r].pc \in {"lock", "findTerminal"})
      <3>1. CASE UNCHANGED req
        BY <3>1
      <3>2. ASSUME NEW new \in Request, new.pc \in {"lock", "findTerminal"},
                   req' = [req EXCEPT ![q] = new]
            PROVE  req'[r] = req[r] \/ (req[r].pc = "idle" /\ req'[r].pc \in {"lock", "findTerminal"})
        <4>1. CASE q = r
          BY <1>0, <2>1, <3>2, <4>1
        <4>2. CASE q # r
          BY <1>0, <3>2, <4>2
        <4> QED
          BY <4>1, <4>2
      <3> QED
        BY <2>2, <3>1, <3>2
    <2>4. CASE req'[r] = req[r]
      BY <2>4
    <2> QED
      BY <1>7, <2>3, <2>4
  <1>3. ASSUME NEW q \in Requests, StartLock(q) \/ StartCommit(q) \/ SessionSet(q)
        PROVE  RequestEffect(r)
    <2>1. CASE q = r
      <3>1. req[r].pc # "record"
        BY <1>3, <2>1 DEF StartLock, StartCommit, Commit, Rollback, rowVars, SessionSet
      <3>2. \/ Return(r)
            \/ req' = [req EXCEPT ![r].pc = "expire", ![r].stale = Stale]
            \/ req' = [req EXCEPT ![r].pc = "created", ![r].stale = {}]
        BY <1>3, <2>1 DEF StartLock, StartCommit, Commit, Rollback, rowVars, SessionSet
      <3>3. req'[r].pc \in {"idle", "expire", "created"}
        BY <1>0, <3>2 DEF Return, Idle, Begun, Request
      <3> QED
        BY <1>7, <3>1, <3>3
    <2>2. CASE q # r
      <3>1. req'[r] = req[r]
        BY <1>0, <1>3, <2>2 DEF StartLock, StartCommit, Commit, Rollback, rowVars, SessionSet, Return
      <3> QED
        BY <3>1
    <2> QED
      BY <2>1, <2>2
  <1>4. ASSUME NEW q \in Requests, CompleteStep(q)
        PROVE  RequestEffect(r)
    <2>1. CASE q # r
      <3>1. req'[r] = req[r]
        BY <1>0, <1>4, <2>1 DEF CompleteStep, FindTerminal, ReadRow, ReadWallet, LeftActiveWrite,
             Sign, Broadcast, Record, Wait, Execute, CatchRead, FailWrite, Goto, Return
      <3> QED
        BY <3>1
    <2>2. CASE q = r /\ Broadcast(r)
      <3>1. req[r].pc = "broadcast" /\ req[r].key \in Txs
        BY <1>0, <2>2, KeysAreTxs DEF Broadcast
      <3>2. CASE Goto(r, "record") /\ Submit(req[r].key, nonce[req[r].key])
        <4>1. req'[r].pc = "record" /\ req'[r].key = req[r].key
          BY <1>0, <3>2 DEF Goto, Request
        <4>2. txState'[req[r].key] = "pending"
          BY <3>1, <3>2 DEF Submit
        <4> QED
          BY <3>1, <4>1, <4>2
      <3>3. CASE Goto(r, "catch")
        <4>1. req'[r].pc = "catch"
          BY <1>0, <3>3 DEF Goto, Request
        <4> QED
          BY <1>7, <3>1, <4>1
      <3> QED
        BY <2>2, <3>2, <3>3 DEF Broadcast
    <2>3. CASE q = r /\ Record(r)
      <3>1. req[r].pc = "record" /\ req[r].key \in Keys
        BY <1>0, <2>3 DEF Record
      <3>2. req'[r].pc \in {"wait", "catch"}
        BY <1>0, <2>3 DEF Record, Goto, Request
      <3>3. row'[req[r].key].txHash \/ req[r].key \in untold'
        BY <1>0, <2>3, <3>1 DEF Record, Broadcasted
      <3> QED
        BY <3>2, <3>3
    <2>4. CASE q = r /\ Wait(r)
      <3>1. CASE Goto(r, "execute") /\ txState[req[r].key] = "success"
        <4>1. req'[r].pc = "execute" /\ req'[r].key = req[r].key
          BY <1>0, <3>1 DEF Goto, Request
        <4> QED
          BY <2>4, <3>1, <4>1 DEF Wait
      <3>2. CASE Return(r)
        <4>1. req'[r].pc = "idle"
          BY <1>0, <3>2 DEF Return, Idle, Begun
        <4> QED
          BY <1>7, <2>4, <4>1 DEF Wait
      <3> QED
        BY <2>4, <3>1, <3>2 DEF Wait
    <2>5. CASE q = r /\ (FindTerminal(r) \/ ReadRow(r) \/ ReadWallet(r) \/ LeftActiveWrite(r)
                          \/ Sign(r) \/ Execute(r) \/ CatchRead(r) \/ FailWrite(r))
      <3>1. req[r].pc # "record"
        BY <2>5 DEF FindTerminal, ReadRow, ReadWallet, LeftActiveWrite, Sign, Execute,
             CatchRead, FailWrite
      <3>2. Return(r) \/ \E pc \in CompletePcs \ {"record", "execute"} : Goto(r, pc)
        BY <2>5 DEF FindTerminal, ReadRow, ReadWallet, LeftActiveWrite, Sign, Execute,
             CatchRead, FailWrite, CompletePcs
      <3>3. req'[r].pc \notin {"record", "execute"}
        BY <1>0, <3>2 DEF Goto, Return, Idle, Begun, Request
      <3> QED
        BY <1>7, <3>1, <3>3
    <2> QED
      BY <1>4, <2>1, <2>2, <2>3, <2>4, <2>5 DEF CompleteStep
  <1>5. CASE Crash
    BY <1>0, <1>5 DEF Crash, Restart, Idle, Begun
  <1>6. \/ UNCHANGED req
        \/ \E q \in Requests, k \in Keys : StartCall(q, k) \/ CompleteCall(q, k)
        \/ \E q \in Requests : StartLock(q) \/ StartCommit(q) \/ SessionSet(q) \/ CompleteStep(q)
        \/ Crash
    BY DEF Next, vars, StartNext, KeyNext, Round, Age, ExpireWrite, Abort, AbortWrite,
           StartEmergency, CancelEmergency, Chain
  <1> QED
    BY <1>1, <1>2, <1>3, <1>4, <1>5, <1>6

\* The only transaction that becomes known in a step is the one a handler
\* submits, and that handler goes to record or the loss is noted.
LEMMA SubmissionEffect ==
  ASSUME TypeOK, [Next]_vars, NEW k \in Keys
  PROVE  /\ k \in untold => k \in untold'
         /\ txState[k] = "none" /\ txState'[k] # "none" =>
              k \in untold' \/ \E r \in Requests : At(r, "record")' /\ req'[r].key = k
  <1>1. CASE UNCHANGED <<txState, untold>>
    BY <1>1
  <1>2. ASSUME NEW r \in Requests, Broadcast(r)
        PROVE  /\ k \in untold => k \in untold'
               /\ txState[k] = "none" /\ txState'[k] # "none" =>
                    k \in untold' \/ (At(r, "record")' /\ req'[r].key = k)
    BY <1>2, KeysAreTxs DEF Broadcast, Submit, PendingAt, At, Goto, chainVars,
       TypeOK, ChainTypeOK, Request
  <1>3. CASE Chain
    BY <1>3, KeysAreTxs DEF Chain, Mine, Drop, PendingAt, auxVars, TypeOK, ChainTypeOK
  <1>4. ASSUME (\E r \in Requests : Record(r)) \/ Crash
        PROVE  UNCHANGED txState /\ untold \subseteq untold'
    BY <1>4 DEF Record, Crash, Restart, chainVars
  <1>5. \/ UNCHANGED <<txState, untold>>
        \/ \E r \in Requests : Broadcast(r)
        \/ Chain
        \/ (\E r \in Requests : Record(r)) \/ Crash
    BY DEF Next, vars, chainVars, auxVars, StartNext, StartCall, StartLock, StartCommit, Commit, Rollback, SessionSet, CompleteStep,
           CompleteCall, FindTerminal, ReadRow, ReadWallet, LeftActiveWrite, Sign, Wait,
           Execute, CatchRead, FailWrite, KeyNext, Round, Age, ExpireWrite, Abort, AbortWrite,
           StartEmergency, CancelEmergency
  <1> QED
    BY <1>1, <1>2, <1>3, <1>4, <1>5

\* What the await a handler is in says about the chain.
HandlerFacts ==
  \A r \in Requests :
    /\ At(r, "record") => txState[req[r].key] # "none"
    /\ At(r, "execute") => txState[req[r].key] = "success"

PaymentInv == ExecutedIsMined /\ HashMeansSent /\ SentIsTracked /\ HandlerFacts

LEMMA PaymentInvInductive ==
  ASSUME TypeOK, TypeOK', PaymentInv, [Next]_vars
  PROVE  PaymentInv'
  <1> USE KeysAreTxs
  <1>1. ExecutedIsMined'
    <2> SUFFICES ASSUME NEW k \in Keys, row'[k].status = "EXECUTED"
                 PROVE  txState'[k] = "success"
      BY DEF ExecutedIsMined
    <2>1. RowEffect(k)
      BY RowEffectHolds
    <2>2. txState[k] = "success"
      BY <2>1 DEF RowEffect, PaymentInv, ExecutedIsMined, HandlerFacts
    <2> QED
      BY <2>2, ChainIsMonotone
  <1>2. HashMeansSent'
    <2> SUFFICES ASSUME NEW k \in Keys, row'[k].txHash
                 PROVE  txState'[k] # "none"
      BY DEF HashMeansSent
    <2>1. RowEffect(k)
      BY RowEffectHolds
    <2>2. txState[k] # "none"
      BY <2>1 DEF RowEffect, PaymentInv, HashMeansSent, HandlerFacts
    <2> QED
      BY <2>2, ChainIsMonotone
  <1>3. SentIsTracked'
    <2> SUFFICES ASSUME NEW k \in Keys, txState'[k] # "none"
                 PROVE  \/ row'[k].txHash
                        \/ k \in untold'
                        \/ \E r \in Requests : At(r, "record")' /\ req'[r].key = k
      BY DEF SentIsTracked, At
    <2>1. CASE txState[k] = "none"
      BY <2>1, SubmissionEffect
    <2>2. CASE txState[k] # "none"
      <3>1. CASE row[k].txHash
        BY <3>1, RowEffectHolds DEF RowEffect
      <3>2. CASE k \in untold
        BY <3>2, SubmissionEffect
      <3>3. ASSUME NEW r \in Requests, At(r, "record"), req[r].key = k
            PROVE  \/ row'[k].txHash
                   \/ k \in untold'
                   \/ At(r, "record")' /\ req'[r].key = k
        BY <3>3, RequestEffectHolds DEF RequestEffect
      <3> QED
        BY <2>2, <3>1, <3>2, <3>3 DEF PaymentInv, SentIsTracked
    <2> QED
      BY <2>1, <2>2
  <1>4. HandlerFacts'
    <2> SUFFICES ASSUME NEW r \in Requests
                 PROVE  /\ At(r, "record")' => txState'[req'[r].key] # "none"
                        /\ At(r, "execute")' => txState'[req'[r].key] = "success"
      BY DEF HandlerFacts, At
    <2>1. RequestEffect(r)
      BY RequestEffectHolds
    <2>2. At(r, "record")' \/ At(r, "execute")' => req'[r].key \in Txs
      BY DEF TypeOK, At
    <2>3. CASE At(r, "record")'
      BY <2>1, <2>2, <2>3, ChainIsMonotone DEF RequestEffect, PaymentInv, HandlerFacts, At
    <2>4. CASE At(r, "execute")'
      BY <2>1, <2>2, <2>4, ChainIsMonotone DEF RequestEffect, PaymentInv, HandlerFacts, At
    <2> QED
      BY <2>3, <2>4
  <1> QED
    BY <1>1, <1>2, <1>3, <1>4 DEF PaymentInv

\* Rows and chain agree in every reachable state: a withdraw shown EXECUTED
\* was mined and succeeded, a stored hash belongs to an accepted transaction,
\* and only a lost answer or a crash can leave an accepted one without a hash.
THEOREM PaymentsAreTracked == Spec => [](ExecutedIsMined /\ HashMeansSent /\ SentIsTracked)
  <1>1. Init => PaymentInv
    BY KeysAreTxs DEF Init, RowInit, ChainInit, Idle, Begun, PaymentInv, ExecutedIsMined, HashMeansSent,
       SentIsTracked, HandlerFacts, At
  <1>2. TypeOK /\ TypeOK' /\ PaymentInv /\ [Next]_vars => PaymentInv'
    BY PaymentInvInductive
  <1>3. PaymentInv => ExecutedIsMined /\ HashMeansSent /\ SentIsTracked
    BY DEF PaymentInv
  <1> QED
    BY <1>1, <1>2, <1>3, TypeInvariant, PTL DEF Spec

\* The two halves of it that say what a user may rely on.
THEOREM ExecutedWithdrawsAreMined == Spec => []ExecutedIsMined
  <1>1. ExecutedIsMined /\ HashMeansSent /\ SentIsTracked => ExecutedIsMined
    OBVIOUS
  <1> QED
    BY <1>1, PaymentsAreTracked, PTL

\* A stored hash belongs to a transaction that the network accepted.
THEOREM HashesAreSent == Spec => []HashMeansSent
  <1>1. ExecutedIsMined /\ HashMeansSent /\ SentIsTracked => HashMeansSent
    OBVIOUS
  <1> QED
    BY <1>1, PaymentsAreTracked, PTL

-----------------------------------------------------------------------------
(* What may close the row of a sent transaction *)

BroadcastedHasHash == \A k \in Keys : row[k].status = "BROADCASTED" => row[k].txHash

FailEffect(k) ==
  /\ row'[k].status = "BROADCASTED" => row'[k].txHash
  /\ Sent(row[k]) /\ ~Sent(row'[k]) =>
        \/ txState[k] = "reverted"
        \/ \E r \in Requests : At(r, "failWrite") /\ req[r].key = k
        \/ \E r \in Requests : At(r, "expire") /\ k \in req[r].stale

LEMMA FailEffectHolds ==
  ASSUME TypeOK, BroadcastedHasHash, [Next]_vars, NEW k \in Keys
  PROVE  FailEffect(k)
  <1> USE DEF FailEffect, Sent
  <1>0. /\ row \in [Keys -> [status : RowStatus, txHash : BOOLEAN]]
        /\ row[k].status = "BROADCASTED" => row[k].txHash
    BY DEF TypeOK, RowTypeOK, BroadcastedHasHash
  <1>1. CASE UNCHANGED row
    BY <1>0, <1>1
  <1>2. ASSUME NEW r \in Requests, StartCommit(r)
        PROVE  FailEffect(k)
    <2> DEFINE expired == ExpiredRows(req[r].stale)
    <2>1. ASSUME NEW settled \in SettledRows(expired),
                 row' = SetStatus(settled, req[r].key, "PROCESSING"),
                 row[req[r].key].status = "NONE"
          PROVE  FailEffect(k)
      <3>1. expired \in [Keys -> [status : RowStatus, txHash : BOOLEAN]]
        BY ExpiredRowsType DEF TypeOK
      <3>2. settled \in [Keys -> [status : RowStatus, txHash : BOOLEAN]]
        BY <3>1, SettledType
      <3>3. /\ row'[k].txHash = settled[k].txHash
            /\ Sent(row'[k]) => row'[k].status = settled[k].status
            /\ Sent(row[k]) => row'[k].status = settled[k].status
        BY <1>0, <2>1, <3>2 DEF SetStatus
      <3>4. /\ settled[k].status = "BROADCASTED" => settled[k] = expired[k]
            /\ Sent(expired[k]) /\ ~Sent(settled[k]) /\ expired[k].txHash => txState[k] = "reverted"
            /\ expired[k].status = "EXECUTED" => settled[k] = expired[k]
        BY <3>1, SettleFailsReverted
      <3>5. /\ expired[k].status = "BROADCASTED" => row[k].status = "BROADCASTED"
            /\ expired[k].txHash = row[k].txHash
            /\ k \notin req[r].stale => expired[k] = row[k]
        BY <1>0 DEF ExpiredRows
      <3>6. At(r, "expire")
        BY <1>2 DEF StartCommit, Commit, Rollback, rowVars
      <3> QED
        BY <1>0, <3>3, <3>4, <3>5, <3>6
    <2> QED
      BY <1>1, <1>2, <2>1 DEF StartCommit, Commit, Rollback, rowVars
  <1>3. CASE StartEmergency
    <2>1. PICK settled \in SettledRows(row) : row' = settled
      BY <1>3 DEF StartEmergency
    <2> QED
      BY <1>0, <2>1, SettleFailsReverted
  <1>4. ASSUME NEW r \in Requests, Record(r)
        PROVE  FailEffect(k)
    BY <1>0, <1>1, <1>4 DEF Record, Broadcasted
  <1>5. ASSUME NEW r \in Requests, Execute(r)
        PROVE  FailEffect(k)
    BY <1>0, <1>1, <1>5 DEF Execute, SetStatus
  <1>6. ASSUME NEW j \in Keys, NEW s \in {"FAILED", "EXPIRED"}, row' = SetStatus(row, j, s),
               row[j].status = "PROCESSING"
        PROVE  FailEffect(k)
    BY <1>0, <1>6 DEF SetStatus
  <1>7. ASSUME NEW r \in Requests, FailWrite(r)
        PROVE  FailEffect(k)
    BY <1>0, <1>1, <1>7 DEF FailWrite, SetStatus
  <1>8. ASSUME (\E r \in Requests : LeftActiveWrite(r)) \/ \E j \in Keys : ExpireWrite(j) \/ AbortWrite(j)
        PROVE  FailEffect(k)
    BY <1>1, <1>6, <1>8 DEF LeftActiveWrite, ExpireWrite, AbortWrite, At, TypeOK
  <1>9. \/ UNCHANGED row
        \/ StartEmergency
        \/ \E r \in Requests : StartCommit(r) \/ Record(r) \/ Execute(r) \/ LeftActiveWrite(r) \/ FailWrite(r)
        \/ \E j \in Keys : ExpireWrite(j) \/ AbortWrite(j)
    BY DEF Next, vars, rowVars, StartNext, StartCall, StartLock, SessionSet, CompleteStep,
           CompleteCall, FindTerminal, ReadRow, ReadWallet, Sign, Broadcast, Wait,
           CatchRead, KeyNext, Round, Age, Abort, CancelEmergency, Crash, Restart, Chain
  <1> QED
    BY <1>1, <1>2, <1>3, <1>4, <1>5, <1>7, <1>8, <1>9

\* A row of a sent transaction is closed as FAILED or EXPIRED only when the
\* transaction reverted, or by one of two writes by id: the
\* catch block of a complete, or a start that found the row stale. Abort,
\* expiry, the settle steps and the check of the wallet never do it.
THEOREM SentClosesByReceipt == Spec => ReceiptDecides
  <1>1. Init => BroadcastedHasHash
    BY DEF Init, RowInit, BroadcastedHasHash
  <1>2. TypeOK /\ BroadcastedHasHash /\ [Next]_vars => BroadcastedHasHash'
    BY FailEffectHolds DEF FailEffect, BroadcastedHasHash
  <1>3. TypeOK /\ BroadcastedHasHash /\ [Next]_vars =>
          [\A k \in Keys : Sent(row[k]) /\ ~Sent(row'[k])
              => \/ txState[k] = "reverted"
                 \/ \E r \in Requests : At(r, "failWrite") /\ req[r].key = k
                 \/ \E r \in Requests : At(r, "expire") /\ k \in req[r].stale]_vars
    BY FailEffectHolds DEF FailEffect
  <1> QED
    BY <1>1, <1>2, <1>3, TypeInvariant, PTL DEF Spec, ReceiptDecides

-----------------------------------------------------------------------------
(* Exclusion: OneOpenPerWallet. *)

\* Outside start and the emergency transaction no step opens a row, except
\* Record on a closed row, which it notes in revived.
OpensNothing == /\ OpenAb(row') \subseteq OpenAb(row) \/ revived' # {}
                /\ wallet' # "ACTIVE" => wallet # "ACTIVE"
                /\ revived \subseteq revived'

LEMMA OnlyStartOpensRows ==
  ASSUME TypeOK, [Next]_vars
  PROVE  \/ OpensNothing
         \/ StartEmergency
         \/ \E r \in Requests : StartCommit(r)
  <1> USE DEF OpensNothing
  <1>0. row \in [Keys -> [status : RowStatus, txHash : BOOLEAN]]
    BY DEF TypeOK, RowTypeOK
  <1>1. CASE UNCHANGED <<row, wallet, revived>>
    BY <1>1
  <1>2. ASSUME NEW r \in Requests, Record(r)
        PROVE  OpensNothing
    <2>1. req[r].key \in Keys
      BY <1>2 DEF Record, At, TypeOK
    <2>2. CASE UNCHANGED <<row, revived>>
      BY <1>2, <2>2 DEF Record
    <2>3. CASE req[r].key \in OpenAb(row) /\ row' = [row EXCEPT ![req[r].key] = Broadcasted]
      <3>1. OpenAb(row') \subseteq OpenAb(row)
        BY <1>0, <2>1, <2>3 DEF OpenAb, Broadcasted
      <3> QED
        BY <1>2, <3>1 DEF Record
    <2>4. CASE req[r].key \in revived'
      BY <1>2, <2>4 DEF Record
    <2> QED
      BY <1>2, <2>1, <2>2, <2>3, <2>4 DEF Record
  <1>3. ASSUME NEW k \in Keys, NEW s \in {"EXECUTED", "FAILED", "EXPIRED"},
               row' = SetStatus(row, k, s), UNCHANGED <<wallet, revived>>
        PROVE  OpensNothing
    BY <1>0, <1>3 DEF OpenAb, SetStatus
  <1>4. ASSUME NEW r \in Requests, Execute(r) \/ LeftActiveWrite(r) \/ FailWrite(r)
        PROVE  OpensNothing
    <2>1. req[r].key \in Keys /\ UNCHANGED <<wallet, revived>>
      BY <1>4 DEF Execute, LeftActiveWrite, FailWrite, At, TypeOK, auxVars
    <2>2. UNCHANGED row \/ \E s \in {"EXECUTED", "FAILED"} : row' = SetStatus(row, req[r].key, s)
      BY <1>4 DEF Execute, LeftActiveWrite, FailWrite
    <2> QED
      BY <1>1, <1>3, <2>1, <2>2
  <1>5. ASSUME NEW k \in Keys, ExpireWrite(k) \/ AbortWrite(k)
        PROVE  OpensNothing
    <2>1. UNCHANGED <<wallet, revived>>
      BY <1>5 DEF ExpireWrite, AbortWrite, auxVars
    <2>2. UNCHANGED row \/ \E s \in {"FAILED", "EXPIRED"} : row' = SetStatus(row, k, s)
      BY <1>5 DEF ExpireWrite, AbortWrite
    <2> QED
      BY <1>1, <1>3, <2>1, <2>2
  <1>6. CASE CancelEmergency
    BY <1>6 DEF CancelEmergency, auxVars
  <1>7. \/ UNCHANGED <<row, wallet, revived>>
        \/ StartEmergency \/ CancelEmergency
        \/ \E r \in Requests : StartCommit(r) \/ Record(r) \/ Execute(r) \/ LeftActiveWrite(r) \/ FailWrite(r)
        \/ \E k \in Keys : ExpireWrite(k) \/ AbortWrite(k)
    BY DEF Next, vars, rowVars, auxVars, StartNext, StartCall, StartLock, SessionSet, CompleteStep,
           CompleteCall, FindTerminal, ReadRow, ReadWallet, Sign, Broadcast, Wait,
           CatchRead, KeyNext, Round, Age, Abort, Crash, Restart, Chain
  <1> QED
    BY <1>1, <1>2, <1>4, <1>5, <1>6, <1>7

\* The status that a start read behind the lock stays ACTIVE: only the
\* emergency start changes it, and waits for the lock.
ActiveUnderLock == \A r \in Requests : At(r, "expire") => wallet = "ACTIVE"

LEMMA LockKeepsActive ==
  ASSUME TypeOK, ActiveUnderLock, [Next]_vars
  PROVE  ActiveUnderLock'
  <1> SUFFICES ASSUME NEW r \in Requests, req'[r].pc = "expire"
               PROVE  wallet' = "ACTIVE"
    BY DEF ActiveUnderLock, At
  <1>0. req \in [Requests -> Request]
    BY DEF TypeOK
  <1>1. CASE req[r].pc = "expire"
    <2>1. wallet = "ACTIVE" /\ ~StartEmergency
      BY <1>1 DEF ActiveUnderLock, At, StartEmergency, LockFree
    <2>2. UNCHANGED wallet \/ StartEmergency \/ CancelEmergency
      BY DEF Next, vars, rowVars, StartNext, StartCall, StartLock, StartCommit, Commit, Rollback, SessionSet,
             CompleteStep, CompleteCall, FindTerminal, ReadRow, ReadWallet, LeftActiveWrite, Sign,
             Broadcast, Record, Wait, Execute, CatchRead, FailWrite, KeyNext, Round, Age,
             ExpireWrite, Abort, AbortWrite, Crash, Restart, Chain
    <2> QED
      BY <2>1, <2>2 DEF CancelEmergency
  <1>2. CASE req[r].pc # "expire"
    <2>1. ASSUME NEW q \in Requests, NEW k \in Keys, StartCall(q, k) \/ CompleteCall(q, k)
          PROVE  FALSE
      BY <1>0, <1>2, <2>1 DEF StartCall, CompleteCall, Idle, Begun
    <2>2. ASSUME NEW q \in Requests, CompleteStep(q)
          PROVE  FALSE
      <3>1. Return(q) \/ \E pc \in CompletePcs : Goto(q, pc)
        BY <2>2 DEF CompleteStep, FindTerminal, ReadRow, ReadWallet, LeftActiveWrite, Sign,
           Broadcast, Record, Wait, Execute, CatchRead, FailWrite, CompletePcs
      <3>2. CASE Return(q)
        BY <1>0, <1>2, <3>2 DEF Return, Idle, Begun
      <3>3. ASSUME NEW pc \in CompletePcs, Goto(q, pc)
            PROVE  FALSE
        BY <1>0, <1>2, <3>3 DEF Goto, Request, CompletePcs
      <3> QED
        BY <3>1, <3>2, <3>3
    <2>3. ASSUME NEW q \in Requests, StartCommit(q) \/ SessionSet(q)
          PROVE  FALSE
      <3>1. \/ Return(q)
            \/ req' = [req EXCEPT ![q].pc = "created", ![q].stale = {}]
        BY <2>3 DEF StartCommit, Commit, Rollback, rowVars, SessionSet
      <3>2. CASE Return(q)
        BY <1>0, <1>2, <3>2 DEF Return, Idle, Begun
      <3>3. CASE req' = [req EXCEPT ![q].pc = "created", ![q].stale = {}]
        BY <1>0, <1>2, <3>3 DEF Request
      <3> QED
        BY <3>1, <3>2, <3>3
    <2>4. ASSUME Crash
          PROVE  FALSE
      BY <2>4 DEF Crash, Restart, Idle, Begun
    <2>5. PICK q \in Requests : StartLock(q)
      BY <1>0, <1>2, <2>1, <2>2, <2>3, <2>4 DEF Next, vars, StartNext, KeyNext, Round, Age,
         ExpireWrite, Abort, AbortWrite, StartEmergency, CancelEmergency, Chain
    <2>6. ~Return(q)
      BY <1>0, <1>2 DEF Return, Idle, Begun
    <2> QED
      BY <2>5, <2>6 DEF StartLock, rowVars
  <1> QED
    BY <1>1, <1>2

LEMMA OneOpenInductive ==
  ASSUME TypeOK, ActiveUnderLock, OneOpenPerWallet, [Next]_vars
  PROVE  OneOpenPerWallet'
  <1>0. row \in [Keys -> [status : RowStatus, txHash : BOOLEAN]]
    BY DEF TypeOK, RowTypeOK
  <1>1. CASE OpensNothing
    <2> SUFFICES ASSUME revived' = {}
                 PROVE  /\ \A j, k \in OpenAb(row') : j = k
                        /\ wallet' # "ACTIVE" => OpenAb(row') = {}
      BY DEF OneOpenPerWallet, OpenAb
    <2>1. revived = {} /\ OpenAb(row') \subseteq OpenAb(row)
      BY <1>1 DEF OpensNothing
    <2> QED
      BY <1>1, <2>1 DEF OpensNothing, OneOpenPerWallet
  <1>2. CASE StartEmergency
    <2> SUFFICES ASSUME revived = {}
                 PROVE  OpenAb(row') = {}
      BY <1>2 DEF OneOpenPerWallet, OpenAb, StartEmergency, auxVars
    <2> QED
      BY <1>0, <1>2, SettleClosesTheOnlyOpenRow DEF StartEmergency, OneOpenPerWallet
  <1>3. ASSUME NEW r \in Requests, StartCommit(r)
        PROVE  OneOpenPerWallet'
    <2> DEFINE k == req[r].key
               expired == ExpiredRows(req[r].stale)
    <2>0. k \in Keys /\ wallet = "ACTIVE" /\ UNCHANGED <<wallet, revived>>
      BY <1>3 DEF StartCommit, Commit, Rollback, At, TypeOK, auxVars, ActiveUnderLock, rowVars
    <2>1. CASE UNCHANGED row
      BY <2>0, <2>1 DEF OneOpenPerWallet, OpenAb
    <2>2. ASSUME NEW settled \in SettledRows(expired),
                 row' = SetStatus(settled, k, "PROCESSING")
          PROVE  OneOpenPerWallet'
      <3> SUFFICES ASSUME revived = {}
                   PROVE  \A i, j \in OpenAb(row') : i = j
        BY <2>0, <2>2 DEF OneOpenPerWallet, OpenAb
      <3>1. expired \in [Keys -> [status : RowStatus, txHash : BOOLEAN]]
        BY ExpiredRowsType DEF TypeOK
      <3>2. OpenAb(expired) \subseteq OpenAb(row)
        BY <1>0 DEF OpenAb, ExpiredRows
      <3>3. OpenAb(settled) = {}
        BY <3>1, <3>2, SettleClosesTheOnlyOpenRow DEF OneOpenPerWallet
      <3>4. settled \in [Keys -> [status : RowStatus, txHash : BOOLEAN]]
        BY <3>1, SettledType
      <3>5. OpenAb(row') \subseteq {k}
        BY <2>0, <2>2, <3>3, <3>4 DEF OpenAb, SetStatus
      <3> QED
        BY <3>5
    <2> QED
      BY <1>3, <2>1, <2>2 DEF StartCommit, Commit, Rollback, rowVars
  <1> QED
    BY <1>1, <1>2, <1>3, OnlyStartOpensRows

\* For every wallet, any number of concurrent requests and any crash or failed
\* reply: two NORMAL_AB withdraws are open at once, or one is open during
\* emergency recovery, only after complete wrote BROADCASTED over a row that
\* abort, expiry or a failure had closed.
THEOREM ExclusionHolds == Spec => []OneOpenPerWallet
  <1>1. Init => ActiveUnderLock /\ OneOpenPerWallet
    BY DEF Init, RowInit, ActiveUnderLock, At, Idle, Begun, OneOpenPerWallet, OpenAb
  <1>2. TypeOK /\ ActiveUnderLock /\ OneOpenPerWallet /\ [Next]_vars
            => ActiveUnderLock' /\ OneOpenPerWallet'
    BY LockKeepsActive, OneOpenInductive
  <1> QED
    BY <1>1, <1>2, TypeInvariant, PTL DEF Spec
=============================================================================
