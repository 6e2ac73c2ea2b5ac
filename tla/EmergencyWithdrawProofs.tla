------------------------ MODULE EmergencyWithdrawProofs ------------------------
(***************************************************************************)
(* Proofs about EmergencyWithdraw for any number of sweeps and concurrent  *)
(* requests, any balances and fees, and any set of faults.                 *)
(***************************************************************************)
EXTENDS EmergencyWithdraw, WalletRowsProofs, SequenceTheorems, WellFoundedInduction

(* The newest row of an asset and the first blocking row exist. *)

LEMMA LeastExists ==
  ASSUME NEW S \in SUBSET Nat, S # {}
  PROVE  \E s \in S : \A t \in S : s <= t
  <1> DEFINE R == OpToRel(<, Nat)
  <1>1. \E s \in S : \A t \in S : <<t, s>> \notin R
    BY NatLessThanWellFounded, WFMin
  <1>2. \A s, t \in Nat : <<t, s>> \notin R => s <= t
    BY DEF OpToRel
  <1> QED
    BY <1>1, <1>2

LEMMA GreatestExists ==
  ASSUME NEW n \in Nat, NEW S \in SUBSET (0..n), S # {}
  PROVE  \E s \in S : \A t \in S : t <= s
  <1> DEFINE D == {m \in 0..n : n - m \in S}
  <1>1. \A s \in S : n - s \in D
    <2> SUFFICES ASSUME NEW s \in S PROVE n - s \in D
      OBVIOUS
    <2>1. s \in 0..n
      OBVIOUS
    <2>2. n - s \in 0..n /\ n - (n - s) = s
      BY <2>1
    <2> QED
      BY <2>2
  <1>2. D \subseteq 0..n
    OBVIOUS
  <1> HIDE DEF D
  <1>3. D \in SUBSET Nat /\ D # {}
    <2>1. 0..n \subseteq Nat
      OBVIOUS
    <2>2. PICK s \in S : TRUE
      OBVIOUS
    <2>3. n - s \in D
      BY <1>1
    <2> QED
      BY <1>2, <2>1, <2>3
  <1>4. PICK d \in D : \A e \in D : d <= e
    BY <1>3, LeastExists
  <1>5. n - d \in S
    BY DEF D
  <1>6. \A t \in S : t <= n - d
    <2> SUFFICES ASSUME NEW t \in S PROVE t <= n - d
      OBVIOUS
    <2>1. d <= n - t
      BY <1>1, <1>4
    <2>2. t \in Nat /\ d \in Nat
      BY <1>3
    <2> QED
      BY <2>1, <2>2
  <1> QED
    BY <1>5, <1>6

\* The rows are a sequence of at most MaxSweeps.
LEMMA SweepDomain ==
  ASSUME TypeOK
  PROVE  /\ Len(sweep) \in Nat
         /\ DOMAIN sweep = 1..Len(sweep)
         /\ DOMAIN sweep \subseteq Sweeps
         /\ DOMAIN sweep \subseteq Txs
         /\ \A s \in DOMAIN sweep : sweep[s] \in SweepRow
  BY LenProperties, ElementOfSeq, BoundsAreNat, SweepsAreTxs DEF TypeOK, Sweeps

LEMMA LatestIsLast ==
  ASSUME TypeOK, NEW asset, Of(asset) # {}
  PROVE  Latest(asset) \in Of(asset) /\ \A t \in Of(asset) : t <= Latest(asset)
  <1>1. Of(asset) \in SUBSET (0..Len(sweep)) /\ Len(sweep) \in Nat
    BY SweepDomain DEF Of
  <1>2. \E s \in Of(asset) : \A t \in Of(asset) : t <= s
    BY <1>1, GreatestExists
  <1> QED
    BY <1>2 DEF Latest

LEMMA FirstBlockingExists ==
  ASSUME TypeOK, Blocking # {}
  PROVE  FirstBlocking \in Blocking
  <1> DEFINE T == {s \in Blocking : sweep[s].asset = "ERC20"}
  <1>1. Blocking \in SUBSET Nat /\ T \in SUBSET Nat
    BY SweepDomain DEF Blocking, OpenSweeps
  <1>2. \A s \in Blocking : sweep[s].asset \in {"ERC20", "ETH"}
    BY SweepDomain DEF Blocking, OpenSweeps, SweepRow, Assets
  <1>3. \E s \in Blocking : \A t \in Blocking : t = s \/ Before(s, t)
    <2>1. CASE T = {}
      <3>1. PICK s \in Blocking : \A t \in Blocking : s <= t
        BY <1>1, LeastExists
      <3> QED
        BY <1>1, <1>2, <2>1, <3>1 DEF Before
    <2>2. CASE T # {}
      <3>1. PICK s \in T : \A t \in T : s <= t
        BY <1>1, <2>2, LeastExists
      <3> QED
        BY <1>1, <1>2, <3>1 DEF Before
    <2> QED
      BY <2>1, <2>2
  <1> QED
    BY <1>3 DEF FirstBlocking

-----------------------------------------------------------------------------
(* Type correctness *)

LEMMA IdleIsRequest == Idle \in Request /\ Idle.pc = "idle"
  BY ZeroIsNonce, BoundsAreNat DEF Idle, Request, Pcs, Assets

LEMMA SettledSweepsType ==
  ASSUME TypeOK
  PROVE  /\ SettledSweeps \in Seq(SweepRow)
         /\ Len(SettledSweeps) = Len(sweep)
         /\ DOMAIN SettledSweeps = DOMAIN sweep
  <1>1. \A s \in DOMAIN sweep : SettledSweeps[s] \in SweepRow
    BY SweepDomain DEF SettledSweeps, ClosedStatus, SweepRow, RowStatus
  <1>2. SettledSweeps \in [1..Len(sweep) -> SweepRow]
    BY <1>1, SweepDomain DEF SettledSweeps
  <1> QED
    BY <1>2, SweepDomain

\* An update of one row keeps the rows well typed.
LEMMA UpdateType ==
  ASSUME TypeOK, NEW s \in DOMAIN sweep, NEW status \in RowStatus, NEW hash \in BOOLEAN
  PROVE  /\ [sweep EXCEPT ![s].status = status] \in Seq(SweepRow)
         /\ Len([sweep EXCEPT ![s].status = status]) = Len(sweep)
         /\ [sweep EXCEPT ![s].status = status, ![s].txHash = hash] \in Seq(SweepRow)
         /\ Len([sweep EXCEPT ![s].status = status, ![s].txHash = hash]) = Len(sweep)
  <1> DEFINE a == [sweep[s] EXCEPT !.status = status]
             b == [sweep[s] EXCEPT !.status = status, !.txHash = hash]
  <1>1. a \in SweepRow /\ b \in SweepRow
    BY SweepDomain DEF SweepRow
  <1>2. /\ [sweep EXCEPT ![s].status = status] = [sweep EXCEPT ![s] = a]
        /\ [sweep EXCEPT ![s].status = status, ![s].txHash = hash] = [sweep EXCEPT ![s] = b]
    BY SweepDomain DEF SweepRow
  <1> HIDE DEF a, b
  <1>3. s \in 1..Len(sweep)
    BY SweepDomain
  <1> QED
    BY <1>1, <1>2, <1>3, ExceptSeq DEF TypeOK

LEMMA AppendType ==
  ASSUME NEW rows \in Seq(SweepRow), NEW new \in SweepRow
  PROVE  /\ Append(rows, new) \in Seq(SweepRow)
         /\ Len(Append(rows, new)) = Len(rows) + 1
         /\ \A s \in 1..Len(rows) : Append(rows, new)[s] = rows[s]
         /\ Append(rows, new)[Len(rows) + 1] = new
  BY AppendProperties

\* Awaits in which a handler works on the sweep it opened.
Working == {"signStart", "sign", "persist", "send", "wait", "execute", "catch", "failSweep"}

\* A handler that works on a sweep, or sends one again, names an existing row.
HasSweep(rq, rows) == rq.pc \in Working \cup {"rebroadcast"} => rq.sweep \in 1..Len(rows)

HandlersHaveSweeps == \A r \in Requests : HasSweep(req[r], sweep)

TypeInv == TypeOK /\ HandlersHaveSweeps

\* Rows are never removed, so a step of one handler leaves the others' sweeps.
LEMMA MoveType ==
  ASSUME TypeInv, NEW r \in Requests, NEW x \in Request, req' = [req EXCEPT ![r] = x],
         Len(sweep') \in Nat, Len(sweep') >= Len(sweep), HasSweep(x, sweep')
  PROVE  req' \in [Requests -> Request] /\ HandlersHaveSweeps'
  <1>1. req' \in [Requests -> Request]
    BY DEF TypeInv, TypeOK
  <1>2. ASSUME NEW q \in Requests
        PROVE  HasSweep(req'[q], sweep')
    <2>1. 1..Len(sweep) \subseteq 1..Len(sweep')
      BY SweepDomain DEF TypeInv
    <2>2. CASE q = r
      BY <2>2 DEF TypeInv, TypeOK
    <2>3. CASE q # r
      BY <2>1, <2>3 DEF TypeInv, TypeOK, HandlersHaveSweeps, HasSweep
    <2> QED
      BY <2>2, <2>3
  <1> QED
    BY <1>1, <1>2 DEF HandlersHaveSweeps

LEMMA GotoType ==
  ASSUME TypeInv, NEW r \in Requests, NEW pc \in Pcs, Goto(r, pc),
         Len(sweep') \in Nat, Len(sweep') >= Len(sweep),
         pc \in Working \cup {"rebroadcast"} => req[r].pc \in Working \cup {"rebroadcast"}
  PROVE  req' \in [Requests -> Request] /\ HandlersHaveSweeps'
  <1> DEFINE x == [req[r] EXCEPT !.pc = pc]
  <1>1. x \in Request /\ x.pc = pc /\ x.sweep = req[r].sweep
    BY DEF TypeInv, TypeOK, Request
  <1>2. req' = [req EXCEPT ![r] = x]
    BY DEF Goto, TypeInv, TypeOK
  <1>3. HasSweep(x, sweep')
    BY <1>1, SweepDomain DEF HasSweep, HandlersHaveSweeps, TypeInv
  <1> HIDE DEF x
  <1> QED
    BY <1>1, <1>2, <1>3, MoveType

LEMMA LeaveType ==
  ASSUME TypeInv, NEW r \in Requests, NEW x, req' = [req EXCEPT ![r] = x],
         Len(sweep') \in Nat, Len(sweep') >= Len(sweep),
         \/ x = Idle
         \/ \E pc \in Pcs \ (Working \cup {"rebroadcast"}), b \in BOOLEAN : x = Enter(pc, b)
  PROVE  req' \in [Requests -> Request] /\ HandlersHaveSweeps'
  <1>1. x \in Request /\ x.pc \notin Working \cup {"rebroadcast"}
    BY IdleIsRequest DEF Enter, Request, Idle, Working
  <1> QED
    BY <1>1, MoveType DEF HasSweep

\* The handlers that leave the rows of the sweeps alone.
Moves(r) ==
  \/ CancelWrite(r) \/ Precheck(r) \/ RebroadcastAccepted(r) \/ RebroadcastRefused(r)
  \/ Token(r) \/ PrepToken(r) \/ Eth(r) \/ PrepEth(r) \/ Retire(r) \/ RetireC(r)
  \/ SignStart(r) \/ Sign(r) \/ Send(r) \/ Wait(r) \/ Catch(r)

LEMMA PreparedType ==
  ASSUME TypeInv, NEW r \in Requests, NEW asset \in Assets, NEW amount \in Nat,
         Prepared(r, asset, amount), UNCHANGED sweep
  PROVE  req' \in [Requests -> Request] /\ HandlersHaveSweeps'
  <1>1. PICK n \in Nonces : req' = [req EXCEPT ![r].pc = "open", ![r].asset = asset,
                                               ![r].amount = amount, ![r].nonce = n]
    BY DEF Prepared
  <1> DEFINE x == [req[r] EXCEPT !.pc = "open", !.asset = asset, !.amount = amount, !.nonce = n]
  <1>2. x \in Request /\ x.pc = "open"
    BY DEF TypeInv, TypeOK, Request, Pcs
  <1>3. req' = [req EXCEPT ![r] = x]
    BY <1>1 DEF TypeInv, TypeOK
  <1>4. HasSweep(x, sweep')
    BY <1>2 DEF HasSweep, Working
  <1>5. Len(sweep') \in Nat /\ Len(sweep') >= Len(sweep)
    BY SweepDomain DEF TypeInv
  <1> HIDE DEF x
  <1> QED
    BY <1>2, <1>3, <1>4, <1>5, MoveType

LEMMA MovesType ==
  ASSUME TypeInv, NEW r \in Requests, Moves(r)
  PROVE  TypeInv'
  <1> USE DEF TypeInv
  <1>0. UNCHANGED <<sweep, aged, eth, token, deposits, late, staled>>
    BY DEF Moves, CancelWrite, Precheck, RebroadcastAccepted, RebroadcastRefused, Token, PrepToken,
           Eth, PrepEth, Retire, RetireC, SignStart, Sign, Send, Wait, Catch, balanceVars, auxVars
  <1>1. req' \in [Requests -> Request] /\ HandlersHaveSweeps'
    <2>1. Len(sweep') \in Nat /\ Len(sweep') >= Len(sweep)
      BY <1>0, SweepDomain
    <2>2. CASE Return(r)
      BY <2>1, <2>2, LeaveType DEF Return
    <2>3. ASSUME NEW pc \in {"lock", "retire", "prepEth", "skip", "retireC"}, Goto(r, pc)
          PROVE  req' \in [Requests -> Request] /\ HandlersHaveSweeps'
      BY <2>1, <2>3, GotoType DEF Pcs, Working
    <2>4. ASSUME NEW pc \in {"sign", "persist", "wait", "execute", "failSweep", "catch"}, Goto(r, pc),
                 req[r].pc \in Working
          PROVE  req' \in [Requests -> Request] /\ HandlersHaveSweeps'
      BY <2>1, <2>4, GotoType DEF Pcs, Working
    <2>5. ASSUME NEW pc \in {"eth", "prepToken"}, NEW b \in BOOLEAN, req' = [req EXCEPT ![r] = Enter(pc, b)]
          PROVE  req' \in [Requests -> Request] /\ HandlersHaveSweeps'
      BY <2>1, <2>5, LeaveType DEF Pcs, Working
    <2>6. CASE PrepToken(r) /\ token > 0 /\ Prepared(r, "ERC20", token)
      <3>1. token \in Nat
        BY DEF TypeOK
      <3> QED
        BY <1>0, <2>6, <3>1, PreparedType DEF Assets
    <2>7. CASE PrepEth(r) /\ eth > Fee /\ Prepared(r, "ETH", eth - Fee)
      <3>1. eth - Fee \in Nat
        BY <2>7, BoundsAreNat, FeeIsPositive DEF TypeOK
      <3> QED
        BY <1>0, <2>7, <3>1, PreparedType DEF Assets
    <2>8. CASE \/ CancelWrite(r) \/ Precheck(r) \/ RebroadcastAccepted(r) \/ RebroadcastRefused(r)
               \/ Retire(r) \/ RetireC(r)
      <3>1. Return(r) \/ Goto(r, "lock") \/ Goto(r, "retireC")
        BY <2>8 DEF CancelWrite, Precheck, RebroadcastAccepted, RebroadcastRefused, Retire, RetireC
      <3> QED
        BY <2>2, <2>3, <3>1
    <2>9. CASE SignStart(r) \/ Sign(r) \/ Send(r) \/ Wait(r) \/ Catch(r)
      <3>1. req[r].pc \in Working
        BY <2>9 DEF SignStart, Sign, Send, Wait, Catch, At, Working
      <3>2. \/ Return(r) \/ Goto(r, "sign") \/ Goto(r, "persist") \/ Goto(r, "wait")
            \/ Goto(r, "execute") \/ Goto(r, "failSweep") \/ Goto(r, "catch")
        BY <2>9 DEF SignStart, Sign, Send, Wait, Catch
      <3> QED
        BY <2>2, <2>4, <3>1, <3>2
    <2>10. CASE Token(r) \/ PrepToken(r)
      <3>1. \/ Return(r)
            \/ \E pc \in {"eth", "prepToken"}, b \in BOOLEAN : req' = [req EXCEPT ![r] = Enter(pc, b)]
            \/ PrepToken(r) /\ token > 0 /\ Prepared(r, "ERC20", token)
        BY <2>10 DEF Token, PrepToken
      <3>2. CASE \E pc \in {"eth", "prepToken"}, b \in BOOLEAN : req' = [req EXCEPT ![r] = Enter(pc, b)]
        BY <2>5, <3>2
      <3> QED
        BY <2>2, <2>6, <3>1, <3>2
    <2>11. CASE Eth(r) \/ PrepEth(r)
      <3>1. \/ Return(r) \/ Goto(r, "retire") \/ Goto(r, "prepEth") \/ Goto(r, "skip")
            \/ PrepEth(r) /\ eth > Fee /\ Prepared(r, "ETH", eth - Fee)
        BY <2>11 DEF Eth, PrepEth
      <3> QED
        BY <2>2, <2>3, <2>7, <3>1
    <2> QED
      BY <2>8, <2>9, <2>10, <2>11 DEF Moves
  <1>2. ChainTypeOK'
    <2>1. CASE UNCHANGED chainVars
      BY <2>1 DEF TypeOK, ChainTypeOK, chainVars
    <2>2. ASSUME RebroadcastAccepted(r) \/ Send(r), Submit(req[r].sweep, sweep[req[r].sweep].nonce)
          PROVE  ChainTypeOK'
      <3>1. req[r].sweep \in DOMAIN sweep
        BY <2>2, SweepDomain DEF RebroadcastAccepted, Send, At, HandlersHaveSweeps, HasSweep, Working
      <3> QED
        BY <2>2, <3>1, SweepDomain, SubmitType DEF TypeOK, SweepRow
    <2>3. \/ UNCHANGED chainVars
          \/ RebroadcastAccepted(r) /\ Submit(req[r].sweep, sweep[req[r].sweep].nonce)
          \/ Send(r) /\ Submit(req[r].sweep, sweep[req[r].sweep].nonce)
      BY DEF Moves, CancelWrite, Precheck, RebroadcastAccepted, RebroadcastRefused, Token, PrepToken,
             Eth, PrepEth, Retire, RetireC, SignStart, Sign, Send, Wait, Catch
    <2> QED
      BY <2>1, <2>2, <2>3
  <1>3. RowTypeOK' /\ shareB' \in BOOLEAN /\ shareC' \in BOOLEAN /\ uncancelled' \in BOOLEAN
    <2>1. /\ UNCHANGED row
          /\ wallet' \in {wallet, "ACTIVE", "RETIRED"}
          /\ shareB' \in {shareB, FALSE}
          /\ shareC' \in {shareC, FALSE}
          /\ UNCHANGED uncancelled \/ uncancelled' = (uncancelled \/ wallet \in {"RETIRING", "RETIRED"})
      BY DEF Moves, CancelWrite, Precheck, RebroadcastAccepted, RebroadcastRefused, Token, PrepToken,
             Eth, PrepEth, Retire, RetireC, SignStart, Sign, Send, Wait, Catch, rowVars, shareVars, auxVars
    <2> QED
      BY <2>1 DEF TypeOK, RowTypeOK, WalletStatus
  <1> QED
    BY <1>0, <1>1, <1>2, <1>3 DEF TypeOK

\* The locked transactions and the updates of one row keep the types.
LEMMA RowHandlersType ==
  ASSUME TypeInv, NEW r \in Requests,
         LockTx(r) \/ Skip(r) \/ Open(r) \/ Persist(r) \/ Execute(r) \/ FailSweep(r)
  PROVE  TypeInv'
  <1> USE DEF TypeInv
  <1>0. Len(sweep) \in Nat
    BY SweepDomain
  <1>1. CASE Persist(r) \/ Execute(r) \/ FailSweep(r)
    <2> DEFINE s == req[r].sweep
    <2>1. s \in DOMAIN sweep /\ req[r].pc \in Working
      BY <1>1, SweepDomain DEF Persist, Execute, FailSweep, At, HandlersHaveSweeps, HasSweep, Working
    <2>2. \/ UNCHANGED sweep
          \/ \E status \in RowStatus : sweep' = [sweep EXCEPT ![s].status = status]
          \/ sweep' = [sweep EXCEPT ![s].status = "BROADCASTED", ![s].txHash = TRUE]
      BY <1>1 DEF Persist, Execute, FailSweep, SetSweep, RowStatus
    <2>3. sweep' \in Seq(SweepRow) /\ Len(sweep') = Len(sweep)
      <3>1. CASE UNCHANGED sweep
        BY <3>1 DEF TypeOK
      <3>2. ASSUME NEW status \in RowStatus, sweep' = [sweep EXCEPT ![s].status = status]
            PROVE  sweep' \in Seq(SweepRow) /\ Len(sweep') = Len(sweep)
        BY <2>1, <3>2, UpdateType
      <3>3. CASE sweep' = [sweep EXCEPT ![s].status = "BROADCASTED", ![s].txHash = TRUE]
        BY <2>1, <3>3, UpdateType DEF RowStatus
      <3> QED
        BY <2>2, <3>1, <3>2, <3>3
    <2>4. \/ Return(r)
          \/ Goto(r, "send") \/ Goto(r, "catch")
          \/ \E pc \in {"eth", "retire"}, b \in BOOLEAN : req' = [req EXCEPT ![r] = Enter(pc, b)]
      BY <1>1 DEF Persist, Execute, FailSweep, NextAfter
    <2>5. req' \in [Requests -> Request] /\ HandlersHaveSweeps'
      <3>1. Len(sweep') \in Nat /\ Len(sweep') >= Len(sweep)
        BY <1>0, <2>3
      <3>2. CASE Goto(r, "send") \/ Goto(r, "catch")
        BY <2>1, <3>1, <3>2, GotoType DEF Pcs
      <3>3. CASE Return(r)
        BY <3>1, <3>3, LeaveType DEF Return
      <3>4. ASSUME NEW pc \in {"eth", "retire"}, NEW b \in BOOLEAN, req' = [req EXCEPT ![r] = Enter(pc, b)]
            PROVE  req' \in [Requests -> Request] /\ HandlersHaveSweeps'
        BY <3>1, <3>4, LeaveType DEF Pcs, Working
      <3> QED
        BY <2>4, <3>2, <3>3, <3>4
    <2> QED
      BY <1>1, <2>3, <2>5 DEF Persist, Execute, FailSweep, TypeOK, chainVars, rowVars, shareVars,
         balanceVars, auxVars, ChainTypeOK, RowTypeOK
  <1>2. CASE Skip(r)
    <2>1. sweep' \in Seq(SweepRow) /\ Len(sweep') \in Nat /\ Len(sweep') >= Len(sweep) /\ Len(sweep') <= MaxSweeps
      <3>1. NewSweep("ETH", "EXECUTED", 0, 0) \in SweepRow
        BY ZeroIsNonce DEF NewSweep, SweepRow, Assets, RowStatus
      <3>2. CASE UNCHANGED sweep
        BY <1>0, <3>2 DEF TypeOK
      <3>3. CASE ~UNCHANGED sweep
        BY <1>0, <1>2, <3>1, <3>3, AppendType, BoundsAreNat DEF Skip, TypeOK
      <3> QED
        BY <3>2, <3>3
    <2>2. Return(r) \/ Goto(r, "retire")
      BY <1>2 DEF Skip
    <2>3. req' \in [Requests -> Request] /\ HandlersHaveSweeps'
      <3>1. CASE Return(r)
        BY <2>1, <3>1, LeaveType DEF Return
      <3>2. CASE Goto(r, "retire")
        BY <2>1, <3>2, GotoType DEF Pcs, Working
      <3> QED
        BY <2>2, <3>1, <3>2
    <2> QED
      BY <1>2, <2>1, <2>3 DEF Skip, TypeOK, chainVars, rowVars, shareVars, balanceVars, auxVars,
         ChainTypeOK, RowTypeOK
  <1>3. CASE LockTx(r)
    <2>1. sweep' \in Seq(SweepRow) /\ Len(sweep') = Len(sweep)
      BY <1>3, SettledSweepsType DEF LockTx, TypeOK
    <2>2. staled' \subseteq Sweeps
      BY <1>3, SweepDomain DEF LockTx, StaledNow, Closable, OpenSweeps, TypeOK
    <2>3. req' \in [Requests -> Request] /\ HandlersHaveSweeps'
      <3>1. Len(sweep') \in Nat /\ Len(sweep') >= Len(sweep)
        BY <1>0, <2>1
      <3>2. CASE Return(r)
        BY <3>1, <3>2, LeaveType DEF Return
      <3>3. ASSUME NEW pc \in {"token", "rebroadcast"}, NEW s \in 0..MaxSweeps,
                   req' = [req EXCEPT ![r].pc = pc, ![r].sweep = s],
                   pc = "rebroadcast" => s \in DOMAIN sweep
            PROVE  req' \in [Requests -> Request] /\ HandlersHaveSweeps'
        <4> DEFINE x == [req[r] EXCEPT !.pc = pc, !.sweep = s]
        <4>1. x \in Request /\ x.pc = pc /\ x.sweep = s
          BY DEF TypeOK, Request, Pcs
        <4>2. req' = [req EXCEPT ![r] = x]
          BY <3>3 DEF TypeOK
        <4>3. HasSweep(x, sweep')
          BY <2>1, <3>3, <4>1, SweepDomain DEF HasSweep, Working
        <4> HIDE DEF x
        <4> QED
          BY <3>1, <4>1, <4>2, <4>3, MoveType
      <3>4. SettleClear \/ FirstBlocking \in DOMAIN sweep
        BY FirstBlockingExists DEF SettleClear, Blocking, OpenSweeps
      <3>5. DOMAIN sweep \subseteq 0..MaxSweeps /\ 0 \in 0..MaxSweeps
        BY SweepDomain, BoundsAreNat DEF Sweeps
      <3>6. \/ Return(r)
            \/ SettleClear /\ req' = [req EXCEPT ![r].pc = "token", ![r].sweep = 0]
            \/ ~SettleClear /\ req' = [req EXCEPT ![r].pc = "rebroadcast", ![r].sweep = FirstBlocking]
        BY <1>3 DEF LockTx
      <3> QED
        BY <3>2, <3>3, <3>4, <3>5, <3>6
    <2>4. RowTypeOK'
      BY <1>3, SettledType DEF LockTx, TypeOK, RowTypeOK, WalletStatus, rowVars
    <2> QED
      BY <1>3, <2>1, <2>2, <2>3, <2>4 DEF LockTx, TypeOK, chainVars, shareVars, balanceVars, ChainTypeOK
  <1>4. CASE Open(r)
    <2>1. staled' \subseteq Sweeps
      BY <1>4, SweepDomain DEF Open, StaledNow, Closable, OpenSweeps, TypeOK
    <2> DEFINE new == NewSweep(req[r].asset, "PROCESSING", req[r].amount, req[r].nonce)
               n == Len(sweep) + 1
               x == [Idle EXCEPT !.pc = "signStart", !.asset = req[r].asset, !.sweep = n]
    <2>2. new \in SweepRow
      BY DEF NewSweep, SweepRow, RowStatus, TypeOK, Request
    <2>3. ASSUME sweep' \in {sweep, SettledSweeps},
                 \/ Return(r)
                 \/ \E pc \in {"eth", "retire"}, b \in BOOLEAN : req' = [req EXCEPT ![r] = Enter(pc, b)]
          PROVE  TypeInv'
      <3>1. sweep' \in Seq(SweepRow) /\ Len(sweep') = Len(sweep)
        BY <2>3, SettledSweepsType DEF TypeOK
      <3>2. Len(sweep') \in Nat /\ Len(sweep') >= Len(sweep)
        BY <1>0, <3>1
      <3>3. req' \in [Requests -> Request] /\ HandlersHaveSweeps'
        <4>1. CASE Return(r)
          BY <3>2, <4>1, LeaveType DEF Return
        <4>2. ASSUME NEW pc \in {"eth", "retire"}, NEW b \in BOOLEAN, req' = [req EXCEPT ![r] = Enter(pc, b)]
              PROVE  req' \in [Requests -> Request] /\ HandlersHaveSweeps'
          BY <3>2, <4>2, LeaveType DEF Pcs, Working
        <4> QED
          BY <2>3, <4>1, <4>2
      <3> QED
        BY <1>4, <2>1, <3>1, <3>3 DEF Open, TypeOK, chainVars, rowVars, shareVars, balanceVars,
           ChainTypeOK, RowTypeOK
    <2>4. CASE sweep' = Append(SettledSweeps, new) /\ Len(sweep) < MaxSweeps /\ req' = [req EXCEPT ![r] = x]
      <3>1. sweep' \in Seq(SweepRow) /\ Len(sweep') = n
        BY <2>2, <2>4, SettledSweepsType, AppendType
      <3>2. n \in 0..MaxSweeps /\ n \in 1..Len(sweep')
        BY <1>0, <2>4, <3>1, BoundsAreNat
      <3>3. x \in Request
        BY <3>2, IdleIsRequest DEF Request, Idle, Pcs, TypeOK
      <3>4. x.sweep = n
        BY DEF Idle
      <3>5. Len(sweep') \in Nat /\ Len(sweep') >= Len(sweep) /\ Len(sweep') <= MaxSweeps
        BY <1>0, <2>4, <3>1, BoundsAreNat
      <3>6. HasSweep(x, sweep')
        BY <3>2, <3>4 DEF HasSweep
      <3> HIDE DEF x, n
      <3>7. req' \in [Requests -> Request] /\ HandlersHaveSweeps'
        BY <2>4, <3>3, <3>5, <3>6, MoveType
      <3> QED
        BY <1>4, <2>1, <3>1, <3>5, <3>7 DEF Open, TypeOK, chainVars, rowVars, shareVars, balanceVars,
           ChainTypeOK, RowTypeOK
    <2>5. NextAfter(req[r].asset) \in {Enter("eth", TRUE), Enter("retire", FALSE)}
      BY DEF NextAfter
    <2> QED
      BY <1>4, <2>3, <2>4, <2>5 DEF Open
  <1> QED
    BY <1>1, <1>2, <1>3, <1>4

\* A new request, the user's start, ageing, deposits, blocks and a crash keep
\* the types.
LEMMA EnvironmentType ==
  ASSUME TypeInv,
         \/ StartEmergency
         \/ \E r \in Requests : CancelRead(r) \/ CallLast(r)
         \/ \E s \in DOMAIN sweep : Age(s) \/ MineSweep(s) \/ DropSweep(s)
         \/ Deposit
         \/ Crash
  PROVE  TypeInv'
  <1> USE DEF TypeInv
  <1>1. CASE StartEmergency
    BY <1>1, SettledType DEF StartEmergency, TypeOK, chainVars, shareVars, balanceVars, auxVars,
       ChainTypeOK, RowTypeOK, WalletStatus, HandlersHaveSweeps, HasSweep
  <1>2. ASSUME NEW r \in Requests, CancelRead(r) \/ CallLast(r)
        PROVE  TypeInv'
    <2>1. Len(sweep') \in Nat /\ Len(sweep') >= Len(sweep)
      BY <1>2, SweepDomain DEF CancelRead, CallLast
    <2>2. UNCHANGED req \/ Goto(r, "cancel") \/ Goto(r, "precheck")
      BY <1>2 DEF CancelRead, CallLast
    <2>3. req' \in [Requests -> Request] /\ HandlersHaveSweeps'
      <3>1. CASE UNCHANGED req
        BY <1>2, <3>1 DEF CancelRead, CallLast, TypeOK, HandlersHaveSweeps, HasSweep
      <3>2. CASE Goto(r, "cancel") \/ Goto(r, "precheck")
        BY <2>1, <3>2, GotoType DEF Pcs, Working
      <3> QED
        BY <2>2, <3>1, <3>2
    <2> QED
      BY <1>2, <2>3 DEF CancelRead, CallLast, TypeOK, chainVars, rowVars, shareVars, balanceVars,
         auxVars, ChainTypeOK, RowTypeOK
  <1>3. ASSUME NEW s \in DOMAIN sweep, Age(s) \/ DropSweep(s)
        PROVE  TypeInv'
    <2>1. aged' \subseteq Sweeps /\ txState' \in [Txs -> TxStates] /\ UNCHANGED txNonce
      BY <1>3, SweepDomain DEF Age, DropSweep, Drop, chainVars, TypeOK, ChainTypeOK, TxStates
    <2> QED
      BY <1>3, <2>1 DEF Age, DropSweep, TypeOK, rowVars, shareVars, balanceVars,
         auxVars, ChainTypeOK, RowTypeOK, HandlersHaveSweeps, HasSweep
  <1>4. ASSUME NEW s \in DOMAIN sweep, MineSweep(s)
        PROVE  TypeInv'
    <2>1. ChainTypeOK'
      BY <1>4 DEF MineSweep, Mine, TypeOK, ChainTypeOK, TxStates
    <2>2. sweep[s].amount \in Nat
      BY SweepDomain DEF SweepRow
    <2> DEFINE value == IF sweep[s].asset = "ETH" THEN sweep[s].amount ELSE 0
    <2>3. eth >= value + Fee /\ value \in Nat
      BY <1>4, <2>2 DEF MineSweep
    <2>4. PICK cost \in 1..Fee :
             /\ eth' = eth - value - cost \/ eth' = eth - cost
             /\ \/ UNCHANGED token
                \/ token >= sweep[s].amount /\ token' = token - sweep[s].amount
      BY <1>4 DEF MineSweep
    <2> HIDE DEF value
    <2>5. eth' \in 0..MaxEth
      <3>1. eth \in Nat /\ eth <= MaxEth /\ Fee \in Nat /\ cost \in Nat /\ cost <= Fee
        BY BoundsAreNat, FeeIsPositive DEF TypeOK
      <3>2. eth' \in Nat /\ eth' <= eth
        BY <2>3, <2>4, <3>1
      <3> QED
        BY <3>1, <3>2, BoundsAreNat
    <2>6. token' \in 0..MaxToken
      BY <2>2, <2>4, BoundsAreNat DEF TypeOK
    <2> QED
      BY <1>4, <2>1, <2>5, <2>6 DEF MineSweep, TypeOK, rowVars, shareVars,
         auxVars, RowTypeOK, HandlersHaveSweeps, HasSweep
  <1>5. CASE Deposit
    <2>1. eth' \in 0..MaxEth /\ token' \in 0..MaxToken /\ deposits' \in 0..MaxDeposits
      BY <1>5, BoundsAreNat DEF Deposit, TypeOK
    <2> QED
      BY <1>5, <2>1 DEF Deposit, TypeOK, chainVars, rowVars, shareVars,
         auxVars, ChainTypeOK, RowTypeOK, HandlersHaveSweeps, HasSweep
  <1>6. CASE Crash
    <2>1. req' \in [Requests -> Request] /\ HandlersHaveSweeps'
      BY <1>6, IdleIsRequest DEF Crash, Restart, HandlersHaveSweeps, HasSweep, Working
    <2> QED
      BY <1>6, <2>1 DEF Crash, Restart, TypeOK, chainVars, rowVars, shareVars, balanceVars,
         auxVars, ChainTypeOK, RowTypeOK
  <1> QED
    BY <1>1, <1>2, <1>3, <1>4, <1>5, <1>6

LEMMA TypeInvariant == Spec => []TypeInv
  <1>1. Init => TypeInv
    <2> SUFFICES ASSUME Init PROVE TypeInv
      OBVIOUS
    <2>1. TypeOK
      <3>1. ChainTypeOK /\ RowTypeOK
        BY ZeroIsNonce DEF Init, ChainInit, RowInit, ChainTypeOK, RowTypeOK, TxStates, WalletStatus, RowStatus
      <3>2. sweep \in Seq(SweepRow) /\ Len(sweep) <= MaxSweeps
        BY EmptySeq, BoundsAreNat DEF Init
      <3>3. req \in [Requests -> Request]
        BY IdleIsRequest DEF Init
      <3>4. shareB \in BOOLEAN /\ shareC \in BOOLEAN /\ late \in BOOLEAN /\ uncancelled \in BOOLEAN
        BY Zenon DEF Init
      <3>5. deposits \in 0..MaxDeposits /\ aged \subseteq Sweeps /\ staled \subseteq Sweeps
            /\ eth \in 0..MaxEth /\ token \in 0..MaxToken
        BY BoundsAreNat DEF Init
      <3> QED
        BY <3>1, <3>2, <3>3, <3>4, <3>5 DEF TypeOK
    <2>2. HandlersHaveSweeps
      BY IdleIsRequest DEF Init, HandlersHaveSweeps, HasSweep, Working
    <2> QED
      BY <2>1, <2>2 DEF TypeInv
  <1>2. TypeInv /\ [Next]_vars => TypeInv'
    <2> SUFFICES ASSUME TypeInv, [Next]_vars PROVE TypeInv'
      OBVIOUS
    <2>1. CASE UNCHANGED vars
      BY <2>1 DEF TypeInv, TypeOK, vars, chainVars, rowVars, shareVars, balanceVars, auxVars,
         ChainTypeOK, RowTypeOK, HandlersHaveSweeps, HasSweep
    <2>2. CASE \E r \in Requests : Handler(r)
      BY <2>2, MovesType, RowHandlersType DEF Handler, Moves
    <2> QED
      BY <2>1, <2>2, EnvironmentType DEF Next
  <1> QED
    BY <1>1, <1>2, PTL DEF Spec

\* Type correctness of the whole emergency module.
THEOREM TypeCorrect == Spec => []TypeOK
  BY TypeInvariant, PTL DEF TypeInv

-----------------------------------------------------------------------------
(* What a step may do to a row, to the chain and to a handler *)

\* A handler that updates its row goes on in the same step.
MovesOn(r) == req'[r].pc \notin {"signStart", "sign", "persist", "failSweep"}

\* A row changes by the settle step or by the handler that works on it.
RowEffect(s) ==
  \/ sweep'[s] = sweep[s]
  \/ s \in Closable /\ sweep'[s] = [sweep[s] EXCEPT !.status = ClosedStatus(s)]
  \/ \E r \in Requests :
        /\ req[r].sweep = s
        /\ MovesOn(r)
        /\ \/ /\ At(r, "persist")
              /\ sweep'[s] = [sweep[s] EXCEPT !.status = "BROADCASTED", !.txHash = TRUE]
           \/ At(r, "execute") /\ sweep'[s] = [sweep[s] EXCEPT !.status = "EXECUTED"]
           \/ At(r, "failSweep") /\ sweep'[s] = [sweep[s] EXCEPT !.status = "FAILED"]

\* A row is opened when none is left to wait for and the newest row of its
\* asset is not EXECUTED.
OpensRow(r) ==
  LET asset == req[r].asset IN
  /\ At(r, "open")
  /\ Blocking = {}
  /\ Of(asset) # {} => SettledSweeps[Latest(asset)].status # "EXECUTED"
  /\ sweep' = Append(SettledSweeps, NewSweep(asset, "PROCESSING", req[r].amount, req[r].nonce))
  /\ req' = [req EXCEPT ![r] = [Idle EXCEPT !.pc = "signStart", !.asset = asset, !.sweep = Len(sweep) + 1]]

SkipsRow == \E r \in Requests : /\ At(r, "skip")
                                /\ sweep' = Append(sweep, NewSweep("ETH", "EXECUTED", 0, 0))
                                /\ Goto(r, "retire")

UpdatesRow(r) ==
  LET s == req[r].sweep IN
  /\ MovesOn(r)
  /\ \/ At(r, "persist") /\ sweep' = [sweep EXCEPT ![s].status = "BROADCASTED", ![s].txHash = TRUE]
     \/ At(r, "execute") /\ sweep' = [sweep EXCEPT ![s].status = "EXECUTED"]
     \/ At(r, "failSweep") /\ sweep' = [sweep EXCEPT ![s].status = "FAILED"]

\* Every step leaves the rows alone, settles them, adds one or updates one.
LEMMA RowSteps ==
  ASSUME TypeInv, [Next]_vars
  PROVE  \/ UNCHANGED sweep
         \/ sweep' = SettledSweeps
         \/ SkipsRow
         \/ \E r \in Requests : OpensRow(r) \/ UpdatesRow(r)
  <1>1. CASE UNCHANGED vars
    BY <1>1 DEF vars
  <1>2. CASE StartEmergency \/ Deposit \/ Crash
    BY <1>2 DEF StartEmergency, Deposit, Crash, Restart
  <1>3. ASSUME NEW s \in DOMAIN sweep, Age(s) \/ MineSweep(s) \/ DropSweep(s)
        PROVE  UNCHANGED sweep
    BY <1>3 DEF Age, MineSweep, DropSweep
  <1>4. ASSUME NEW r \in Requests, CancelRead(r) \/ CallLast(r)
        PROVE  UNCHANGED sweep
    BY <1>4 DEF CancelRead, CallLast
  <1>5. ASSUME NEW r \in Requests, Moves(r)
        PROVE  UNCHANGED sweep
    BY <1>5 DEF Moves, CancelWrite, Precheck, RebroadcastAccepted, RebroadcastRefused, Token, PrepToken,
       Eth, PrepEth, Retire, RetireC, SignStart, Sign, Send, Wait, Catch
  <1>6. ASSUME NEW r \in Requests, LockTx(r)
        PROVE  UNCHANGED sweep \/ sweep' = SettledSweeps
    BY <1>6 DEF LockTx
  <1>7. ASSUME NEW r \in Requests, Skip(r)
        PROVE  UNCHANGED sweep \/ SkipsRow
    BY <1>7 DEF Skip, SkipsRow
  <1>8. ASSUME NEW r \in Requests, Open(r)
        PROVE  UNCHANGED sweep \/ sweep' = SettledSweeps \/ OpensRow(r)
    BY <1>8 DEF Open, OpensRow, SettleClear, FoundExecuted
  <1>9. ASSUME NEW r \in Requests, Persist(r) \/ Execute(r) \/ FailSweep(r)
        PROVE  UNCHANGED sweep \/ UpdatesRow(r)
    <2>1. \/ Goto(r, "send") \/ Goto(r, "catch") \/ Return(r)
          \/ req' = [req EXCEPT ![r] = NextAfter(req[r].asset)]
      BY <1>9 DEF Persist, Execute, FailSweep
    <2>2. Idle.pc = "idle" /\ NextAfter(req[r].asset).pc \in {"eth", "retire"}
      BY DEF Idle, NextAfter, Enter
    <2>3. MovesOn(r)
      BY <2>1, <2>2 DEF MovesOn, Goto, Return, TypeInv, TypeOK, Request
    <2> QED
      BY <1>9, <2>3 DEF Persist, Execute, FailSweep, SetSweep, UpdatesRow
  <1>10. \/ UNCHANGED vars
         \/ StartEmergency \/ Deposit \/ Crash
         \/ \E s \in DOMAIN sweep : Age(s) \/ MineSweep(s) \/ DropSweep(s)
         \/ \E r \in Requests : \/ CancelRead(r) \/ CallLast(r) \/ Moves(r) \/ LockTx(r) \/ Skip(r)
                                \/ Open(r) \/ Persist(r) \/ Execute(r) \/ FailSweep(r)
    BY DEF Next, Handler, Moves
  <1> QED
    BY <1>1, <1>2, <1>3, <1>4, <1>5, <1>6, <1>7, <1>8, <1>9, <1>10

LEMMA RowEffectHolds ==
  ASSUME TypeInv, [Next]_vars, NEW s \in DOMAIN sweep
  PROVE  s \in DOMAIN sweep' /\ RowEffect(s)
  <1>1. s \in 1..Len(sweep) /\ sweep \in Seq(SweepRow) /\ Len(sweep) \in Nat /\ sweep[s] \in SweepRow
    BY SweepDomain DEF TypeInv, TypeOK
  <1>2. CASE UNCHANGED sweep
    BY <1>2 DEF RowEffect
  <1>3. \/ SettledSweeps[s] = sweep[s]
        \/ s \in Closable /\ SettledSweeps[s] = [sweep[s] EXCEPT !.status = ClosedStatus(s)]
    BY DEF SettledSweeps
  <1>4. CASE sweep' = SettledSweeps
    BY <1>3, <1>4, SettledSweepsType DEF RowEffect, TypeInv
  <1>5. CASE SkipsRow
    <2>1. NewSweep("ETH", "EXECUTED", 0, 0) \in SweepRow
      BY ZeroIsNonce DEF NewSweep, SweepRow, Assets, RowStatus
    <2>2. sweep'[s] = sweep[s] /\ s \in 1..Len(sweep') /\ sweep' \in Seq(SweepRow)
      BY <1>1, <1>5, <2>1, AppendType DEF SkipsRow
    <2> QED
      BY <2>2, LenProperties DEF RowEffect
  <1>6. ASSUME NEW r \in Requests, OpensRow(r)
        PROVE  s \in DOMAIN sweep' /\ RowEffect(s)
    <2> DEFINE new == NewSweep(req[r].asset, "PROCESSING", req[r].amount, req[r].nonce)
    <2>1. new \in SweepRow
      BY DEF NewSweep, SweepRow, RowStatus, TypeInv, TypeOK, Request
    <2>2. sweep' = Append(SettledSweeps, new)
      BY <1>6 DEF OpensRow
    <2> HIDE DEF new
    <2>3. sweep'[s] = SettledSweeps[s] /\ s \in 1..Len(sweep') /\ sweep' \in Seq(SweepRow)
      BY <1>1, <2>1, <2>2, SettledSweepsType, AppendType DEF TypeInv
    <2> QED
      BY <1>3, <2>3, LenProperties DEF RowEffect
  <1>7. ASSUME NEW r \in Requests, UpdatesRow(r)
        PROVE  s \in DOMAIN sweep' /\ RowEffect(s)
    <2>1. DOMAIN sweep' = DOMAIN sweep
      BY <1>7 DEF UpdatesRow
    <2>2. CASE req[r].sweep # s
      BY <1>7, <2>1, <2>2 DEF UpdatesRow, RowEffect
    <2>3. CASE req[r].sweep = s
      BY <1>1, <1>7, <2>1, <2>3 DEF UpdatesRow, RowEffect, SweepRow
    <2> QED
      BY <2>2, <2>3
  <1> QED
    BY <1>2, <1>4, <1>5, <1>6, <1>7, RowSteps

\* The same, field by field.
RowFields(s) ==
  /\ sweep'[s].asset = sweep[s].asset
  /\ sweep'[s].amount = sweep[s].amount
  /\ sweep'[s].nonce = sweep[s].nonce
  /\ \/ sweep'[s].status = Status(s) /\ sweep'[s].txHash = sweep[s].txHash
     \/ s \in Closable /\ sweep'[s].status = ClosedStatus(s) /\ sweep'[s].txHash = sweep[s].txHash
     \/ \E r \in Requests :
           /\ req[r].sweep = s
           /\ MovesOn(r)
           /\ \/ At(r, "persist") /\ sweep'[s].status = "BROADCASTED" /\ sweep'[s].txHash
              \/ At(r, "execute") /\ sweep'[s].status = "EXECUTED" /\ sweep'[s].txHash = sweep[s].txHash
              \/ At(r, "failSweep") /\ sweep'[s].status = "FAILED" /\ sweep'[s].txHash = sweep[s].txHash

LEMMA RowFieldsHold ==
  ASSUME TypeInv, [Next]_vars, NEW s \in DOMAIN sweep
  PROVE  s \in DOMAIN sweep' /\ RowFields(s)
  <1>1. s \in DOMAIN sweep' /\ RowEffect(s)
    BY RowEffectHolds
  <1>2. sweep[s] \in SweepRow
    BY SweepDomain DEF TypeInv
  <1>3. ASSUME NEW status \in RowStatus, sweep'[s] = [sweep[s] EXCEPT !.status = status]
        PROVE  /\ sweep'[s].asset = sweep[s].asset
               /\ sweep'[s].amount = sweep[s].amount
               /\ sweep'[s].nonce = sweep[s].nonce
               /\ sweep'[s].status = status
               /\ sweep'[s].txHash = sweep[s].txHash
    BY <1>2, <1>3 DEF SweepRow
  <1>4. ASSUME sweep'[s] = [sweep[s] EXCEPT !.status = "BROADCASTED", !.txHash = TRUE]
        PROVE  /\ sweep'[s].asset = sweep[s].asset
               /\ sweep'[s].amount = sweep[s].amount
               /\ sweep'[s].nonce = sweep[s].nonce
               /\ sweep'[s].status = "BROADCASTED"
               /\ sweep'[s].txHash
    BY <1>2, <1>4 DEF SweepRow
  <1>5. ClosedStatus(s) \in RowStatus /\ {"EXECUTED", "FAILED"} \subseteq RowStatus
    BY DEF ClosedStatus, RowStatus
  <1>6. CASE sweep'[s] = sweep[s]
    BY <1>1, <1>6 DEF RowFields, Status
  <1>7. CASE s \in Closable /\ sweep'[s] = [sweep[s] EXCEPT !.status = ClosedStatus(s)]
    BY <1>1, <1>3, <1>5, <1>7 DEF RowFields
  <1>8. ASSUME NEW r \in Requests, req[r].sweep = s, MovesOn(r),
               \/ /\ At(r, "persist")
                  /\ sweep'[s] = [sweep[s] EXCEPT !.status = "BROADCASTED", !.txHash = TRUE]
               \/ At(r, "execute") /\ sweep'[s] = [sweep[s] EXCEPT !.status = "EXECUTED"]
               \/ At(r, "failSweep") /\ sweep'[s] = [sweep[s] EXCEPT !.status = "FAILED"]
        PROVE  RowFields(s)
    BY <1>3, <1>4, <1>5, <1>8 DEF RowFields
  <1> QED
    BY <1>1, <1>6, <1>7, <1>8 DEF RowEffect

\* A row that was not there before is the last one: a skip row, or the row a
\* handler has just opened.
LEMMA NewRowEffect ==
  ASSUME TypeInv, [Next]_vars, NEW s \in DOMAIN sweep', s \notin DOMAIN sweep
  PROVE  /\ s = Len(sweep) + 1
         /\ \/ SkipsRow /\ sweep'[s] = NewSweep("ETH", "EXECUTED", 0, 0)
            \/ \E r \in Requests :
                  /\ OpensRow(r)
                  /\ sweep'[s] = NewSweep(req[r].asset, "PROCESSING", req[r].amount, req[r].nonce)
  <1>1. sweep \in Seq(SweepRow) /\ Len(sweep) \in Nat /\ DOMAIN sweep = 1..Len(sweep)
    BY SweepDomain DEF TypeInv, TypeOK
  <1>2. DOMAIN sweep' # DOMAIN sweep
    OBVIOUS
  <1>3. ASSUME NEW rows \in Seq(SweepRow), Len(rows) = Len(sweep), NEW new \in SweepRow, sweep' = Append(rows, new)
        PROVE  s = Len(sweep) + 1 /\ sweep'[s] = new
    <2>1. sweep' \in Seq(SweepRow) /\ Len(sweep') = Len(sweep) + 1 /\ sweep'[Len(sweep) + 1] = new
      BY <1>3, AppendType
    <2>2. DOMAIN sweep' = 1..(Len(sweep) + 1)
      BY <2>1, LenProperties
    <2> QED
      BY <1>1, <2>1, <2>2
  <1>4. CASE SkipsRow
    <2>1. NewSweep("ETH", "EXECUTED", 0, 0) \in SweepRow
      BY ZeroIsNonce DEF NewSweep, SweepRow, Assets, RowStatus
    <2> QED
      BY <1>1, <1>3, <1>4, <2>1 DEF SkipsRow
  <1>5. ASSUME NEW r \in Requests, OpensRow(r)
        PROVE  /\ s = Len(sweep) + 1
               /\ sweep'[s] = NewSweep(req[r].asset, "PROCESSING", req[r].amount, req[r].nonce)
    <2> DEFINE new == NewSweep(req[r].asset, "PROCESSING", req[r].amount, req[r].nonce)
    <2>1. new \in SweepRow
      BY DEF NewSweep, SweepRow, RowStatus, TypeInv, TypeOK, Request
    <2>2. sweep' = Append(SettledSweeps, new)
      BY <1>5 DEF OpensRow
    <2> HIDE DEF new
    <2>3. s = Len(sweep) + 1 /\ sweep'[s] = new
      BY <1>3, <2>1, <2>2, SettledSweepsType DEF TypeInv
    <2> QED
      BY <2>3 DEF new
  <1>6. UNCHANGED sweep \/ sweep' = SettledSweeps \/ (\E r \in Requests : UpdatesRow(r))
        => DOMAIN sweep' = DOMAIN sweep
    BY SettledSweepsType DEF UpdatesRow, TypeInv
  <1> QED
    BY <1>2, <1>4, <1>5, <1>6, RowSteps

\* What the network knows it keeps knowing, receipts are final, and only a
\* handler that sends a stored sweep makes a transaction known.
ChainEffect(t) ==
  /\ txState[t] # "none" => txState'[t] # "none"
  /\ HasReceipt(t) => txState'[t] = txState[t]
  /\ txState[t] = "none" /\ txState'[t] # "none" =>
        \E r \in Requests : req[r].pc \in {"send", "rebroadcast"} /\ req[r].sweep = t

\* The network hears of sweeps from two handlers, and decides on its own.
LEMMA ChainSteps ==
  ASSUME [Next]_vars
  PROVE  \/ UNCHANGED chainVars
         \/ \E s \in DOMAIN sweep : MineSweep(s) \/ DropSweep(s)
         \/ \E r \in Requests : RebroadcastAccepted(r) \/ Send(r)
  <1>1. CASE UNCHANGED vars \/ StartEmergency \/ Deposit \/ Crash
    BY <1>1 DEF vars, StartEmergency, Deposit, Crash, Restart
  <1>2. ASSUME NEW s \in DOMAIN sweep, Age(s)
        PROVE  UNCHANGED chainVars
    BY <1>2 DEF Age
  <1>3. ASSUME NEW r \in Requests, CancelRead(r) \/ CallLast(r) \/ Handler(r)
        PROVE  UNCHANGED chainVars \/ RebroadcastAccepted(r) \/ Send(r)
    BY <1>3 DEF Handler, CancelRead, CallLast, CancelWrite, Precheck, LockTx, RebroadcastRefused, Token,
       PrepToken, Eth, PrepEth, Skip, Retire, RetireC, Open, SignStart, Sign, Persist, Wait, Execute,
       Catch, FailSweep
  <1> QED
    BY <1>1, <1>2, <1>3 DEF Next

LEMMA ChainEffectHolds ==
  ASSUME TypeInv, [Next]_vars, NEW t \in Txs
  PROVE  ChainEffect(t)
  <1>0. txState \in [Txs -> TxStates]
    BY DEF TypeInv, TypeOK, ChainTypeOK
  <1>1. CASE UNCHANGED txState
    BY <1>1 DEF ChainEffect
  <1>2. ASSUME NEW s \in DOMAIN sweep, MineSweep(s) \/ DropSweep(s)
        PROVE  ChainEffect(t)
    BY <1>0, <1>2 DEF MineSweep, DropSweep, Mine, Drop, PendingAt, HasReceipt, ChainEffect
  <1>3. ASSUME NEW r \in Requests, RebroadcastAccepted(r) \/ Send(r)
        PROVE  ChainEffect(t)
    <2>1. CASE Submit(req[r].sweep, sweep[req[r].sweep].nonce)
      BY <1>0, <1>3, <2>1 DEF RebroadcastAccepted, Send, Submit, PendingAt, HasReceipt, ChainEffect, At
    <2> QED
      BY <1>1, <1>3, <2>1 DEF RebroadcastAccepted, Send, chainVars
  <1> QED
    BY <1>1, <1>2, <1>3, ChainSteps DEF chainVars

\* A handler starts to work on a sweep when it opens it, and goes on to the
\* next await as listed; LockTx names a stored sweep to send again.
HandlerEffect(r) ==
  LET s == req[r].sweep IN
  \/ req'[r] = req[r]
  \/ req'[r].pc \notin Working \cup {"rebroadcast"}
  \/ /\ req'[r].pc = "rebroadcast"
     /\ req'[r].sweep \in DOMAIN sweep
     /\ Status(req'[r].sweep) = "BROADCASTED"
  \/ /\ OpensRow(r)
     /\ req'[r].pc = "signStart" /\ req'[r].sweep = Len(sweep) + 1 /\ req'[r].asset = req[r].asset
  \/ /\ req[r].pc \in Working
     /\ req'[r].sweep = s /\ req'[r].asset = req[r].asset
     /\ \/ req'[r].pc = "sign" /\ At(r, "signStart")
        \/ req'[r].pc = "persist" /\ At(r, "sign")
        \/ req'[r].pc = "send" /\ At(r, "persist") /\ sweep'[s].txHash
        \/ req'[r].pc = "wait" /\ At(r, "send")
        \/ req'[r].pc = "execute" /\ At(r, "wait") /\ txState[s] = "success"
        \/ req'[r].pc = "catch"
        \/ req'[r].pc = "failSweep" /\ At(r, "catch") /\ Status(s) = "PROCESSING" /\ UNCHANGED sweep

LEMMA HandlerEffectHolds ==
  ASSUME TypeInv, [Next]_vars, NEW r \in Requests
  PROVE  HandlerEffect(r)
  <1>0. req \in [Requests -> Request] /\ req[r] \in Request
    BY DEF TypeInv, TypeOK
  <1>1. CASE req'[r] = req[r]
    BY <1>1 DEF HandlerEffect
  <1>2. CASE Return(r) \/ Crash
    BY <1>0, <1>2, IdleIsRequest DEF Return, Crash, Restart, HandlerEffect, Working
  <1>3. ASSUME NEW pc \in Pcs \ (Working \cup {"rebroadcast"}), NEW b \in BOOLEAN,
               Goto(r, pc) \/ req' = [req EXCEPT ![r] = Enter(pc, b)]
        PROVE  HandlerEffect(r)
    <2>1. Enter(pc, b).pc = pc
      BY DEF Enter, Idle
    <2>2. req'[r].pc = pc
      BY <1>0, <1>3, <2>1 DEF Goto, Request
    <2> QED
      BY <2>2 DEF HandlerEffect
  <1>4. CASE SignStart(r) \/ Sign(r) \/ Send(r) \/ Wait(r) \/ Catch(r)
    <2>1. \/ Return(r)
          \/ req[r].pc \in Working /\ req'[r].sweep = req[r].sweep /\ req'[r].asset = req[r].asset
             /\ \/ req'[r].pc = "sign" /\ At(r, "signStart")
                \/ req'[r].pc = "persist" /\ At(r, "sign")
                \/ req'[r].pc = "wait" /\ At(r, "send")
                \/ req'[r].pc = "execute" /\ At(r, "wait") /\ txState[req[r].sweep] = "success"
                \/ req'[r].pc = "catch"
                \/ req'[r].pc = "failSweep" /\ At(r, "catch") /\ Status(req[r].sweep) = "PROCESSING" /\ UNCHANGED sweep
      BY <1>0, <1>4 DEF SignStart, Sign, Send, Wait, Catch, At, Goto, Request, Working
    <2> QED
      BY <1>2, <2>1 DEF HandlerEffect
  <1>5. CASE Persist(r)
    <2>1. req[r].sweep \in DOMAIN sweep
      BY <1>5, SweepDomain DEF Persist, At, TypeInv, HandlersHaveSweeps, HasSweep, Working
    <2>2. sweep[req[r].sweep] \in SweepRow
      BY <2>1, SweepDomain DEF TypeInv
    <2>3. req'[r].sweep = req[r].sweep /\ req'[r].asset = req[r].asset /\ req[r].pc \in Working
      BY <1>0, <1>5 DEF Persist, At, Goto, Request, Working
    <2>4. CASE Goto(r, "send") /\ sweep' = [sweep EXCEPT ![req[r].sweep].status = "BROADCASTED",
                                                          ![req[r].sweep].txHash = TRUE]
      BY <1>0, <1>5, <2>1, <2>2, <2>3, <2>4 DEF Goto, Request, SweepRow, HandlerEffect, Persist
    <2>5. CASE Goto(r, "catch")
      BY <1>0, <2>3, <2>5 DEF Goto, Request, HandlerEffect
    <2> QED
      BY <1>5, <2>4, <2>5 DEF Persist
  <1>6. CASE LockTx(r)
    <2>1. CASE SettleClear /\ req' = [req EXCEPT ![r].pc = "token", ![r].sweep = 0]
      BY <1>0, <2>1 DEF Request, HandlerEffect, Working
    <2>2. CASE ~SettleClear /\ MustRebroadcast
               /\ req' = [req EXCEPT ![r].pc = "rebroadcast", ![r].sweep = FirstBlocking]
      <3>1. FirstBlocking \in DOMAIN sweep /\ Status(FirstBlocking) = "BROADCASTED"
        BY <2>2, FirstBlockingExists DEF MustRebroadcast, Blocking, OpenSweeps, TypeInv
      <3> QED
        BY <1>0, <2>2, <3>1 DEF Request, HandlerEffect
    <2> QED
      BY <1>2, <1>6, <2>1, <2>2 DEF LockTx
  <1>7. CASE Open(r)
    <2>1. CASE OpensRow(r)
      <3>1. req'[r].pc = "signStart" /\ req'[r].sweep = Len(sweep) + 1 /\ req'[r].asset = req[r].asset
        BY <1>0, <2>1 DEF OpensRow, Idle
      <3> QED
        BY <2>1, <3>1 DEF HandlerEffect
    <2>2. NextAfter(req[r].asset) \in {Enter("eth", TRUE), Enter("retire", FALSE)}
      BY DEF NextAfter
    <2>3. \/ Return(r) \/ OpensRow(r)
          \/ \E pc \in {"eth", "retire"}, b \in BOOLEAN : req' = [req EXCEPT ![r] = Enter(pc, b)]
      BY <1>7, <2>2 DEF Open, OpensRow, SettleClear, FoundExecuted
    <2>4. {"eth", "retire"} \subseteq Pcs \ (Working \cup {"rebroadcast"})
      BY DEF Pcs, Working
    <2> QED
      BY <1>2, <1>3, <2>1, <2>3, <2>4
  <1>8. CASE \/ CancelRead(r) \/ CallLast(r) \/ CancelWrite(r) \/ Precheck(r) \/ RebroadcastAccepted(r)
             \/ RebroadcastRefused(r) \/ Token(r) \/ PrepToken(r) \/ Eth(r) \/ PrepEth(r) \/ Retire(r)
             \/ RetireC(r) \/ Skip(r) \/ Execute(r) \/ FailSweep(r)
    <2> DEFINE Others == Pcs \ (Working \cup {"rebroadcast"})
    <2>1. {"cancel", "precheck", "lock", "eth", "prepToken", "retire", "prepEth", "skip", "retireC", "open"}
             \subseteq Others
      BY DEF Pcs, Working
    <2>2. CASE CancelRead(r) \/ CallLast(r) \/ Precheck(r) \/ Eth(r) \/ Retire(r) \/ RetireC(r) \/ Skip(r)
      <3>1. UNCHANGED req \/ Return(r) \/ \E pc \in Others : Goto(r, pc)
        BY <2>1, <2>2 DEF CancelRead, CallLast, Precheck, Eth, Retire, RetireC, Skip
      <3> QED
        BY <1>1, <1>2, <1>3, <3>1
    <2>3. CASE CancelWrite(r) \/ RebroadcastAccepted(r) \/ RebroadcastRefused(r) \/ FailSweep(r)
      BY <1>2, <2>3 DEF CancelWrite, RebroadcastAccepted, RebroadcastRefused, FailSweep
    <2>4. ASSUME NEW asset, NEW amount, Prepared(r, asset, amount)
          PROVE  HandlerEffect(r)
      <3>1. req'[r].pc = "open"
        BY <1>0, <2>4 DEF Prepared, Request
      <3> QED
        BY <2>1, <3>1 DEF HandlerEffect
    <2>5. CASE Token(r) \/ Execute(r)
      <3>1. NextAfter(req[r].asset) \in {Enter("eth", TRUE), Enter("retire", FALSE)}
        BY DEF NextAfter
      <3>2. Return(r) \/ \E pc \in Others, b \in BOOLEAN : req' = [req EXCEPT ![r] = Enter(pc, b)]
        BY <2>1, <2>5, <3>1 DEF Token, Execute
      <3> QED
        BY <1>2, <1>3, <3>2
    <2>6. CASE PrepToken(r)
      <3>1. \/ Return(r) \/ Prepared(r, "ERC20", token)
            \/ \E pc \in Others, b \in BOOLEAN : req' = [req EXCEPT ![r] = Enter(pc, b)]
        BY <2>1, <2>6 DEF PrepToken
      <3>2. CASE PrepToken(r) /\ Prepared(r, "ERC20", token)
        BY <2>4, <3>2
      <3> QED
        BY <1>2, <1>3, <2>6, <3>1, <3>2
    <2>7. CASE PrepEth(r)
      <3>1. Return(r) \/ Prepared(r, "ETH", eth - Fee) \/ Goto(r, "skip")
        BY <2>7 DEF PrepEth
      <3>2. CASE Prepared(r, "ETH", eth - Fee)
        BY <2>4, <3>2
      <3> QED
        BY <1>2, <1>3, <2>1, <3>1, <3>2
    <2> QED
      BY <1>8, <2>2, <2>3, <2>5, <2>6, <2>7
  <1>9. ASSUME NEW q \in Requests, CancelRead(q) \/ CallLast(q) \/ Handler(q), q # r
        PROVE  req'[r] = req[r]
    BY <1>0, <1>9 DEF CancelRead, CallLast, Handler, CancelWrite, Precheck, LockTx, RebroadcastAccepted,
       RebroadcastRefused, Token, PrepToken, Prepared, Eth, PrepEth, Retire, RetireC, Skip, Open, SignStart,
       Sign, Persist, Send, Wait, Execute, Catch, FailSweep, Goto, Return
  <1>10. \/ UNCHANGED req \/ Crash
         \/ \E q \in Requests : CancelRead(q) \/ CallLast(q) \/ Handler(q)
    BY DEF Next, vars, StartEmergency, Deposit, Age, MineSweep, DropSweep
  <1> QED
    BY <1>1, <1>2, <1>4, <1>5, <1>6, <1>7, <1>8, <1>9, <1>10 DEF Handler

-----------------------------------------------------------------------------
(* Rows and the chain agree: SentIsPersisted, ExecutedSweepIsMined. *)

\* What the await a handler is in says about its sweep, under any faults.
HandlerFacts ==
  \A r \in Requests :
    /\ req[r].pc \in {"send", "wait", "execute", "rebroadcast"} => sweep[req[r].sweep].txHash
    /\ At(r, "execute") => txState[req[r].sweep] = "success"

\* A row is BROADCASTED only with its hash, PROCESSING only without.
HashFollowsStatus ==
  \A s \in DOMAIN sweep : /\ Status(s) = "BROADCASTED" => sweep[s].txHash
                          /\ Status(s) = "PROCESSING" => ~sweep[s].txHash

SweepInv == SentIsPersisted /\ ExecutedSweepIsMined /\ HandlerFacts /\ HashFollowsStatus

\* A stored hash stays.
LEMMA HashStays ==
  ASSUME TypeInv, [Next]_vars, NEW s \in DOMAIN sweep
  PROVE  /\ s \in DOMAIN sweep'
         /\ sweep[s].txHash => sweep'[s].txHash
         /\ sweep'[s].asset = sweep[s].asset
         /\ sweep'[s].amount = sweep[s].amount
         /\ sweep'[s].nonce = sweep[s].nonce
  BY RowFieldsHold DEF RowFields

LEMMA SweepInvInductive ==
  ASSUME TypeInv, TypeInv', SweepInv, [Next]_vars
  PROVE  SweepInv'
  <1>1. SentIsPersisted'
    <2> SUFFICES ASSUME NEW s \in Sweeps, txState'[s] # "none"
                 PROVE  s \in DOMAIN sweep' /\ sweep'[s].txHash
      BY DEF SentIsPersisted
    <2>1. s \in DOMAIN sweep /\ sweep[s].txHash
      <3>1. CASE txState[s] # "none"
        BY <3>1 DEF SweepInv, SentIsPersisted
      <3>2. CASE txState[s] = "none"
        <4>1. PICK r \in Requests : req[r].pc \in {"send", "rebroadcast"} /\ req[r].sweep = s
          BY <3>2, ChainEffectHolds, SweepsAreTxs DEF ChainEffect
        <4> QED
          BY <4>1, SweepDomain DEF SweepInv, HandlerFacts, TypeInv, HandlersHaveSweeps, HasSweep, Working
      <3> QED
        BY <3>1, <3>2
    <2> QED
      BY <2>1, HashStays
  <1>2. \A s \in DOMAIN sweep' :
           /\ sweep'[s].status = "EXECUTED" /\ sweep'[s].txHash => txState'[s] = "success"
           /\ sweep'[s].status = "BROADCASTED" => sweep'[s].txHash
           /\ sweep'[s].status = "PROCESSING" => ~sweep'[s].txHash
    <2> SUFFICES ASSUME NEW s \in DOMAIN sweep'
                 PROVE  /\ sweep'[s].status = "EXECUTED" /\ sweep'[s].txHash => txState'[s] = "success"
                        /\ sweep'[s].status = "BROADCASTED" => sweep'[s].txHash
                        /\ sweep'[s].status = "PROCESSING" => ~sweep'[s].txHash
      OBVIOUS
    <2>1. CASE s \notin DOMAIN sweep
      BY <2>1, NewRowEffect DEF NewSweep
    <2>2. CASE s \in DOMAIN sweep
      <3>1. sweep[s] \in SweepRow /\ s \in Txs
        BY <2>2, SweepDomain DEF TypeInv
      <3>2. txState[s] = "success" => txState'[s] = "success"
        BY <3>1, ChainEffectHolds DEF ChainEffect, HasReceipt
      <3>3. RowFields(s)
        BY <2>2, RowFieldsHold
      <3>4. /\ Status(s) = "EXECUTED" /\ sweep[s].txHash => txState[s] = "success"
            /\ Status(s) = "BROADCASTED" => sweep[s].txHash
            /\ Status(s) = "PROCESSING" => ~sweep[s].txHash
        BY <2>2 DEF SweepInv, ExecutedSweepIsMined, HashFollowsStatus
      <3>5. ASSUME NEW r \in Requests, At(r, "execute"), req[r].sweep = s
            PROVE  txState[s] = "success"
        BY <3>5 DEF SweepInv, HandlerFacts
      <3> QED
        BY <3>1, <3>2, <3>3, <3>4, <3>5 DEF RowFields, ClosedStatus
    <2> QED
      BY <2>1, <2>2
  <1>3. HandlerFacts'
    <2> SUFFICES ASSUME NEW r \in Requests
                 PROVE  /\ req'[r].pc \in {"send", "wait", "execute", "rebroadcast"} => sweep'[req'[r].sweep].txHash
                        /\ req'[r].pc = "execute" => txState'[req'[r].sweep] = "success"
      BY DEF HandlerFacts, At
    <2> DEFINE s == req[r].sweep
    <2>1. HandlerEffect(r)
      BY HandlerEffectHolds
    <2>2. req[r].pc \in Working \cup {"rebroadcast"} => s \in DOMAIN sweep /\ s \in Txs
      BY SweepDomain DEF TypeInv, HandlersHaveSweeps, HasSweep
    <2>3. CASE req'[r].pc = "rebroadcast" /\ req'[r].sweep \in DOMAIN sweep /\ Status(req'[r].sweep) = "BROADCASTED"
      BY <2>3, HashStays DEF SweepInv, HashFollowsStatus
    <2>4. CASE req'[r].pc = "send" /\ sweep'[s].txHash /\ req'[r].sweep = s
      BY <2>4
    <2>5. CASE /\ req'[r].pc \in {"send", "wait", "execute", "rebroadcast"}
               /\ req'[r].sweep = s
               /\ req[r].pc \in {"send", "wait", "execute", "rebroadcast"}
               /\ req'[r].pc = "execute" => txState[s] = "success"
      <3>1. s \in DOMAIN sweep /\ s \in Txs /\ sweep[s].txHash
        BY <2>2, <2>5 DEF SweepInv, HandlerFacts, Working
      <3> QED
        BY <2>5, <3>1, HashStays, ChainEffectHolds DEF ChainEffect, HasReceipt
    <2>6. CASE req'[r].pc \notin {"send", "wait", "execute", "rebroadcast"}
      BY <2>6
    <2>7. req[r].pc = "execute" => txState[s] = "success"
      BY DEF SweepInv, HandlerFacts, At
    <2> QED
      BY <2>1, <2>3, <2>4, <2>5, <2>6, <2>7 DEF HandlerEffect, Working, At
  <1> QED
    BY <1>1, <1>2, <1>3 DEF SweepInv, ExecutedSweepIsMined, HashFollowsStatus, Status

LEMMA SweepInvariant == Spec => []SweepInv
  <1>1. Init => SweepInv
    <2> SUFFICES ASSUME Init PROVE SweepInv
      OBVIOUS
    <2>1. DOMAIN sweep = {}
      BY DEF Init
    <2>2. \A r \in Requests : req[r].pc = "idle"
      BY IdleIsRequest DEF Init
    <2> QED
      BY <2>1, <2>2, SweepsAreTxs DEF Init, ChainInit, SweepInv, SentIsPersisted,
         ExecutedSweepIsMined, HandlerFacts, HashFollowsStatus, At
  <1>2. TypeInv /\ TypeInv' /\ SweepInv /\ [Next]_vars => SweepInv'
    BY SweepInvInductive
  <1> QED
    BY <1>1, <1>2, TypeInvariant, PTL DEF Spec

\* Whatever crashes and whichever call fails, a sweep the network knows of is
\* on its row, and a sweep shown as EXECUTED was mined and succeeded.
THEOREM SweepsArePersisted == Spec => [](SentIsPersisted /\ ExecutedSweepIsMined)
  BY SweepInvariant, PTL DEF SweepInv

-----------------------------------------------------------------------------
(* While signing is prompt: OneSweepPerAsset, SweepsAreSequential. *)

\* The transaction of a live row was mined as a sweep, or may still be.
Live(s) == Status(s) \in {"PROCESSING", "BROADCASTED"} \/ (Status(s) = "EXECUTED" /\ sweep[s].txHash)

IsSkipRow(s) == Status(s) = "EXECUTED" /\ ~sweep[s].txHash

OneOpenSweep == \A s, t \in OpenSweeps : s = t

\* A sweep has one handler, the row of a handler is young, and it is
\* PROCESSING up to the update that stores the hash.
HandlersAreYoung ==
  /\ aged \subseteq DOMAIN sweep
  /\ \A r \in Requests : req[r].pc \in Working => req[r].sweep \notin aged

HandlerIsFirst ==
  \A r \in Requests :
    req[r].pc \in {"signStart", "sign", "persist", "failSweep"} => Status(req[r].sweep) = "PROCESSING"

OneHandler ==
  \A q, r \in Requests :
    req[q].pc \in Working /\ req[r].pc \in Working /\ req[q].sweep = req[r].sweep => q = r

\* A stored transaction that did not revert keeps its row open until it has
\* succeeded.
StoredIsTracked ==
  \A s \in DOMAIN sweep :
    sweep[s].txHash /\ txState[s] # "reverted" =>
      \/ Status(s) = "BROADCASTED"
      \/ Status(s) = "EXECUTED" /\ txState[s] = "success"

\* Only skip rows follow a live row of the same asset.
LiveIsLast ==
  \A s, t \in DOMAIN sweep :
    sweep[s].asset = sweep[t].asset /\ s < t /\ Live(s) => IsSkipRow(t)

PromptInv == /\ OneOpenSweep
             /\ HandlersAreYoung
             /\ HandlerIsFirst
             /\ OneHandler
             /\ StoredIsTracked
             /\ LiveIsLast

\* The settle step closes no young PROCESSING row and no row that waits for a
\* receipt.
LEMMA ClosableRows ==
  ASSUME TypeInv, SweepInv, NEW s \in Closable
  PROVE  /\ s \in OpenSweeps
         /\ Status(s) = "PROCESSING" => s \in aged
         /\ Status(s) = "BROADCASTED" => HasReceipt(s)
  <1>1. s \in OpenSweeps /\ s \in DOMAIN sweep /\ s \in Nat
    BY SweepDomain DEF Closable, OpenSweeps, TypeInv
  <1>2. s \notin Blocking
    BY <1>1 DEF Closable, Before
  <1> QED
    BY <1>1, <1>2 DEF Blocking, SweepInv, HashFollowsStatus

\* When a row is opened every other open row has been closed.
LEMMA OpenedRow ==
  ASSUME TypeInv, NEW r \in Requests, OpensRow(r)
  PROVE  /\ sweep'[Len(sweep) + 1].status = "PROCESSING"
         /\ sweep'[Len(sweep) + 1].asset = req[r].asset
         /\ \A s \in DOMAIN sweep : /\ sweep'[s] = SettledSweeps[s]
                                    /\ sweep'[s].status \notin {"PROCESSING", "BROADCASTED"}
  <1> DEFINE new == NewSweep(req[r].asset, "PROCESSING", req[r].amount, req[r].nonce)
  <1>1. new \in SweepRow
    BY DEF NewSweep, SweepRow, RowStatus, TypeInv, TypeOK, Request
  <1>2. new.status = "PROCESSING" /\ new.asset = req[r].asset
    BY DEF NewSweep
  <1>3. sweep' = Append(SettledSweeps, new)
    BY DEF OpensRow
  <1> HIDE DEF new
  <1>4. /\ sweep'[Len(sweep) + 1] = new
        /\ \A s \in DOMAIN sweep : sweep'[s] = SettledSweeps[s]
    BY <1>1, <1>3, SettledSweepsType, AppendType, SweepDomain DEF TypeInv
  <1>5. ASSUME NEW s \in DOMAIN sweep
        PROVE  SettledSweeps[s].status \notin {"PROCESSING", "BROADCASTED"}
    <2>1. CASE s \in OpenSweeps
      <3>1. s \in Closable
        BY <2>1 DEF OpensRow, Closable
      <3>2. SettledSweeps[s] = [sweep[s] EXCEPT !.status = ClosedStatus(s)]
        BY <3>1 DEF SettledSweeps
      <3>3. sweep[s] \in SweepRow
        BY SweepDomain DEF TypeInv
      <3>4. SettledSweeps[s].status = ClosedStatus(s)
        BY <3>2, <3>3 DEF SweepRow
      <3> QED
        BY <3>4 DEF ClosedStatus
    <2>2. CASE s \notin OpenSweeps
      BY <2>2 DEF OpenSweeps, SettledSweeps, Closable, Status
    <2> QED
      BY <2>1, <2>2
  <1> QED
    BY <1>2, <1>4, <1>5

\* Without slow signing a row grows old only when no handler works on it.
LEMMA AgedEffect ==
  ASSUME [Next]_vars, "slow" \notin Faults
  PROVE  \/ aged' = aged
         \/ \E s \in DOMAIN sweep : /\ aged' = aged \cup {s}
                                    /\ \A r \in Requests : req[r].sweep # s
                                    /\ UNCHANGED req
  BY DEF Next, vars, Handler, CancelWrite, Precheck, LockTx, RebroadcastAccepted, RebroadcastRefused,
     Token, PrepToken, Eth, PrepEth, Skip, Retire, RetireC, Open, SignStart, Sign, Persist, Send, Wait,
     Execute, Catch, FailSweep, StartEmergency, CancelRead, CallLast, Age, MineSweep, DropSweep, Deposit,
     Crash, Restart

\* What happens to an old row while signing is prompt.
LEMMA PromptRow ==
  ASSUME TypeInv, SweepInv, PromptInv, [Next]_vars, NEW s \in DOMAIN sweep
  PROVE  \/ sweep'[s].status = Status(s) /\ sweep'[s].txHash = sweep[s].txHash
         \/ /\ Status(s) = "PROCESSING" /\ s \in aged
            /\ sweep'[s].status = "FAILED" /\ ~sweep'[s].txHash
         \/ /\ Status(s) = "BROADCASTED" /\ sweep[s].txHash /\ HasReceipt(s)
            /\ sweep'[s].status = ClosedStatus(s) /\ sweep'[s].txHash
         \/ \E r \in Requests :
               /\ req[r].sweep = s /\ MovesOn(r)
               /\ \/ /\ At(r, "persist") /\ Status(s) = "PROCESSING"
                     /\ sweep'[s].status = "BROADCASTED" /\ sweep'[s].txHash
                  \/ /\ At(r, "execute") /\ sweep[s].txHash /\ txState[s] = "success"
                     /\ sweep'[s].status = "EXECUTED" /\ sweep'[s].txHash
                  \/ /\ At(r, "failSweep") /\ Status(s) = "PROCESSING"
                     /\ sweep'[s].status = "FAILED" /\ ~sweep'[s].txHash
  <1>1. RowFields(s)
    BY RowFieldsHold
  <1>2. /\ Status(s) = "BROADCASTED" => sweep[s].txHash
        /\ Status(s) = "PROCESSING" => ~sweep[s].txHash
    BY DEF SweepInv, HashFollowsStatus
  <1>3. CASE s \in Closable /\ sweep'[s].status = ClosedStatus(s) /\ sweep'[s].txHash = sweep[s].txHash
    BY <1>2, <1>3, ClosableRows DEF OpenSweeps, ClosedStatus
  <1>4. ASSUME NEW r \in Requests, req[r].sweep = s, MovesOn(r),
               \/ At(r, "persist") /\ sweep'[s].status = "BROADCASTED" /\ sweep'[s].txHash
               \/ At(r, "execute") /\ sweep'[s].status = "EXECUTED" /\ sweep'[s].txHash = sweep[s].txHash
               \/ At(r, "failSweep") /\ sweep'[s].status = "FAILED" /\ sweep'[s].txHash = sweep[s].txHash
        PROVE  /\ At(r, "persist") \/ At(r, "failSweep") => Status(s) = "PROCESSING"
               /\ At(r, "execute") => sweep[s].txHash /\ txState[s] = "success"
    BY <1>4 DEF PromptInv, HandlerIsFirst, SweepInv, HandlerFacts, At
  <1> QED
    BY <1>1, <1>2, <1>3, <1>4 DEF RowFields

LEMMA OneOpenSweepKept ==
  ASSUME TypeInv, TypeInv', SweepInv, PromptInv, [Next]_vars
  PROVE  OneOpenSweep'
  <1>1. ASSUME NEW s \in DOMAIN sweep, s \in OpenSweeps'
        PROVE  s \in OpenSweeps
    BY <1>1, PromptRow DEF OpenSweeps, ClosedStatus, Status
  <1>2. ASSUME NEW s \in OpenSweeps', s \notin DOMAIN sweep
        PROVE  s = Len(sweep) + 1 /\ OpenSweeps' \cap DOMAIN sweep = {}
    <2>1. s \in DOMAIN sweep' /\ sweep'[s].status \in {"PROCESSING", "BROADCASTED"}
      BY <1>2 DEF OpenSweeps, Status
    <2>2. PICK r \in Requests : OpensRow(r)
      BY <1>2, <2>1, NewRowEffect DEF NewSweep
    <2>3. \A t \in DOMAIN sweep : sweep'[t].status \notin {"PROCESSING", "BROADCASTED"}
      BY <2>2, OpenedRow
    <2> QED
      BY <1>2, <2>1, <2>3, NewRowEffect DEF OpenSweeps, Status
  <1> QED
    BY <1>1, <1>2 DEF OneOpenSweep, PromptInv

LEMMA HandlersKept ==
  ASSUME TypeInv, TypeInv', SweepInv, PromptInv, [Next]_vars, "slow" \notin Faults
  PROVE  HandlersAreYoung' /\ HandlerIsFirst' /\ OneHandler'
  <1>1. \A r \in Requests : req[r].pc \in Working => req[r].sweep \in DOMAIN sweep /\ req[r].sweep \notin aged
    BY SweepDomain DEF TypeInv, HandlersHaveSweeps, HasSweep, PromptInv, HandlersAreYoung
  <1>2. Len(sweep) + 1 \notin DOMAIN sweep /\ aged \subseteq DOMAIN sweep /\ DOMAIN sweep \subseteq DOMAIN sweep'
    BY SweepDomain, RowFieldsHold DEF TypeInv, PromptInv, HandlersAreYoung
  <1>3. \A r \in Requests : req'[r].pc \in Working =>
           \/ req[r].pc \in Working /\ req'[r].sweep = req[r].sweep
           \/ OpensRow(r) /\ req'[r].pc = "signStart" /\ req'[r].sweep = Len(sweep) + 1
    BY HandlerEffectHolds DEF HandlerEffect, Working
  <1>4. \A q, r \in Requests : OpensRow(q) /\ req'[r].pc \in Working /\ q # r => req'[r] = req[r] /\ req[r].pc # "open"
    BY DEF OpensRow, TypeInv, TypeOK, Working
  <1>5. HandlersAreYoung'
    <2>1. aged' \subseteq DOMAIN sweep'
      BY <1>2, AgedEffect
    <2>2. ASSUME NEW r \in Requests, req'[r].pc \in Working
          PROVE  req'[r].sweep \notin aged'
      <3>1. CASE aged' = aged
        BY <1>1, <1>2, <1>3, <2>2, <3>1
      <3>2. ASSUME NEW s \in DOMAIN sweep, aged' = aged \cup {s}, req[r].sweep # s, UNCHANGED req
            PROVE  req'[r].sweep \notin aged'
        BY <1>1, <2>2, <3>2
      <3> QED
        BY <3>1, <3>2, AgedEffect
    <2> QED
      BY <2>1, <2>2 DEF HandlersAreYoung
  <1>6. OneHandler'
    <2> SUFFICES ASSUME NEW q \in Requests, NEW r \in Requests, req'[q].pc \in Working, req'[r].pc \in Working,
                        req'[q].sweep = req'[r].sweep
                 PROVE  q = r
      BY DEF OneHandler
    <2>1. CASE OpensRow(q) /\ OpensRow(r)
      BY <1>4, <2>1 DEF OpensRow, At
    <2>2. CASE req[q].pc \in Working /\ req'[q].sweep = req[q].sweep
               /\ req[r].pc \in Working /\ req'[r].sweep = req[r].sweep
      BY <2>2 DEF PromptInv, OneHandler
    <2> QED
      BY <1>1, <1>2, <1>3, <2>1, <2>2
  <1>7. HandlerIsFirst'
    <2> DEFINE First == {"signStart", "sign", "persist", "failSweep"}
    <2> SUFFICES ASSUME NEW r \in Requests, req'[r].pc \in First
                 PROVE  sweep'[req'[r].sweep].status = "PROCESSING"
      BY DEF HandlerIsFirst, Status
    <2> DEFINE s == req[r].sweep
    <2>1. CASE OpensRow(r) /\ req'[r].sweep = Len(sweep) + 1
      BY <2>1, OpenedRow
    <2>2. ASSUME req[r].pc \in Working, s \in DOMAIN sweep, s \notin aged, Status(s) = "PROCESSING"
          PROVE  sweep'[s].status = "PROCESSING"
      <3>1. ASSUME NEW q \in Requests, req[q].sweep = s, MovesOn(q),
                   At(q, "persist") \/ At(q, "execute") \/ At(q, "failSweep")
            PROVE  FALSE
        <4>1. q = r
          BY <2>2, <3>1 DEF PromptInv, OneHandler, At, Working
        <4> QED
          BY <3>1, <4>1 DEF MovesOn
      <3> QED
        BY <2>2, <3>1, PromptRow
    <2>3. CASE req[r].pc \in Working /\ req'[r].sweep = s
      <3>1. s \in DOMAIN sweep /\ s \notin aged
        BY <1>1, <2>3
      <3>2. Status(s) = "PROCESSING"
        BY HandlerEffectHolds, <2>3 DEF HandlerEffect, PromptInv, HandlerIsFirst, At, Working, OpensRow
      <3> QED
        BY <2>2, <2>3, <3>1, <3>2
    <2> QED
      BY <1>3, <2>1, <2>3 DEF Working
  <1> QED
    BY <1>5, <1>6, <1>7

LEMMA StoredIsTrackedKept ==
  ASSUME TypeInv, SweepInv, PromptInv, [Next]_vars
  PROVE  StoredIsTracked'
  <1> SUFFICES ASSUME NEW s \in DOMAIN sweep', sweep'[s].txHash, txState'[s] # "reverted"
               PROVE  \/ sweep'[s].status = "BROADCASTED"
                      \/ sweep'[s].status = "EXECUTED" /\ txState'[s] = "success"
    BY DEF StoredIsTracked, Status
  <1>1. s \in DOMAIN sweep
    BY NewRowEffect DEF NewSweep
  <1>2. s \in Txs
    BY <1>1, SweepDomain DEF TypeInv
  <1>3. HasReceipt(s) => txState[s] = "success" /\ txState'[s] = "success"
    BY <1>2, ChainEffectHolds DEF ChainEffect, HasReceipt
  <1>4. sweep[s].txHash => \/ Status(s) = "BROADCASTED"
                           \/ Status(s) = "EXECUTED" /\ txState[s] = "success"
    BY <1>1, <1>3 DEF PromptInv, StoredIsTracked, HasReceipt
  <1> QED
    BY <1>1, <1>3, <1>4, PromptRow DEF ClosedStatus, HasReceipt

LEMMA LiveIsLastKept ==
  ASSUME TypeInv, TypeInv', SweepInv, PromptInv, [Next]_vars
  PROVE  LiveIsLast'
  <1>1. ASSUME NEW s \in DOMAIN sweep, Live(s)'
        PROVE  Live(s)
    <2>1. sweep[s].txHash /\ txState[s] = "success" => Live(s)
      BY DEF PromptInv, StoredIsTracked, Live
    <2> QED
      BY <1>1, <2>1, PromptRow DEF Live, Status
  <1>2. ASSUME NEW t \in DOMAIN sweep, IsSkipRow(t)
        PROVE  IsSkipRow(t)'
    BY <1>2, PromptRow DEF IsSkipRow, Status
  <1> SUFFICES ASSUME NEW s \in DOMAIN sweep', NEW t \in DOMAIN sweep',
                      sweep'[s].asset = sweep'[t].asset, s < t, Live(s)'
               PROVE  IsSkipRow(t)'
    BY DEF LiveIsLast
  <1>3. CASE t \in DOMAIN sweep
    <2>1. s \in DOMAIN sweep
      BY <1>3, NewRowEffect, SweepDomain DEF TypeInv
    <2>2. sweep[s].asset = sweep[t].asset
      BY <1>3, <2>1, RowFieldsHold DEF RowFields
    <2> QED
      BY <1>1, <1>2, <1>3, <2>1, <2>2 DEF PromptInv, LiveIsLast
  <1>4. CASE t \notin DOMAIN sweep
    <2>1. t = Len(sweep) + 1
      BY <1>4, NewRowEffect
    <2>2. s \in DOMAIN sweep
      BY <2>1, NewRowEffect, SweepDomain DEF TypeInv
    <2>3. CASE SkipsRow /\ sweep'[t] = NewSweep("ETH", "EXECUTED", 0, 0)
      BY <2>3 DEF NewSweep, IsSkipRow, Status
    <2>4. ASSUME NEW r \in Requests, OpensRow(r)
          PROVE  FALSE
      <3> DEFINE asset == req[r].asset
                 l == Latest(asset)
      <3>1. sweep[s].asset = asset
        BY <2>1, <2>2, <2>4, OpenedRow, RowFieldsHold DEF RowFields
      <3>2. s \in Of(asset)
        BY <2>2, <3>1 DEF Of
      <3>3. l \in Of(asset) /\ s <= l
        BY <3>2, LatestIsLast DEF TypeInv
      <3>4. l \in DOMAIN sweep /\ sweep[l].asset = asset /\ sweep'[l].status # "EXECUTED"
        BY <2>4, <3>2, <3>3, OpenedRow DEF OpensRow, Of
      <3>5. sweep'[s].status = "EXECUTED"
        BY <2>2, <2>4, OpenedRow DEF Live, Status
      <3>6. s < l
        BY <2>2, <3>3, <3>4, <3>5, SweepDomain DEF TypeInv
      <3>7. IsSkipRow(l)
        BY <1>1, <2>2, <3>1, <3>4, <3>6 DEF PromptInv, LiveIsLast
      <3> QED
        BY <1>2, <3>4, <3>7 DEF IsSkipRow, Status
    <2> QED
      BY <1>4, <2>3, <2>4, NewRowEffect
  <1> QED
    BY <1>3, <1>4

LEMMA PromptInvariant == ASSUME "slow" \notin Faults PROVE Spec => []PromptInv
  <1>1. Init => PromptInv
    <2> SUFFICES ASSUME Init PROVE PromptInv
      OBVIOUS
    <2>1. DOMAIN sweep = {} /\ aged = {}
      BY DEF Init
    <2>2. \A r \in Requests : req[r].pc = "idle"
      BY IdleIsRequest DEF Init
    <2> QED
      BY <2>1, <2>2 DEF PromptInv, OneOpenSweep, OpenSweeps, HandlersAreYoung, HandlerIsFirst,
         OneHandler, StoredIsTracked, LiveIsLast, Working
  <1>2. TypeInv /\ TypeInv' /\ SweepInv /\ PromptInv /\ [Next]_vars => PromptInv'
    BY OneOpenSweepKept, HandlersKept, StoredIsTrackedKept, LiveIsLastKept DEF PromptInv
  <1> QED
    BY <1>1, <1>2, TypeInvariant, SweepInvariant, PTL DEF Spec

\* For any number of rows, requests and crashes: while signing takes less than
\* the stale limit, an asset is swept by one transaction at most, unless the
\* earlier one reverted, and no sweep starts while another is in flight.
THEOREM OneSweepAtATime == Spec => [](OneSweepPerAsset /\ SweepsAreSequential)
  <1>1. CASE "slow" \in Faults
    <2>1. OneSweepPerAsset /\ SweepsAreSequential
      BY <1>1 DEF OneSweepPerAsset, SweepsAreSequential
    <2> QED
      BY <2>1, PTL
  <1>2. CASE "slow" \notin Faults
    <2>1. TypeInv /\ SweepInv /\ PromptInv => OneSweepPerAsset /\ SweepsAreSequential
      <3> SUFFICES ASSUME TypeInv, SweepInv, PromptInv PROVE OneSweepPerAsset /\ SweepsAreSequential
        OBVIOUS
      <3>1. ASSUME NEW s \in DOMAIN sweep, txState[s] \in {"pending", "dropped", "success"}
            PROVE  sweep[s].txHash /\ Live(s)
        <4>1. sweep[s].txHash
          BY <3>1, SweepDomain DEF TypeInv, SweepInv, SentIsPersisted
        <4> QED
          BY <3>1, <4>1 DEF PromptInv, StoredIsTracked, Live
      <3>2. OneSweepPerAsset
        <4> SUFFICES ASSUME NEW s \in DOMAIN sweep, NEW t \in DOMAIN sweep, sweep[s].asset = sweep[t].asset,
                            txState[s] \in {"pending", "dropped", "success"},
                            txState[t] \in {"pending", "dropped", "success"}
                     PROVE  s = t
          BY DEF OneSweepPerAsset
        <4>1. ~(s < t) /\ ~(t < s)
          BY <3>1 DEF PromptInv, LiveIsLast, IsSkipRow
        <4> QED
          BY <4>1, SweepDomain DEF TypeInv
      <3>3. SweepsAreSequential
        <4> SUFFICES ASSUME NEW s \in DOMAIN sweep, NEW t \in DOMAIN sweep,
                            txState[s] \in {"pending", "dropped"}, Status(t) \in {"PROCESSING", "BROADCASTED"}
                     PROVE  s = t
          BY DEF SweepsAreSequential
        <4>1. Status(s) = "BROADCASTED"
          BY <3>1 DEF PromptInv, StoredIsTracked
        <4> QED
          BY <4>1 DEF PromptInv, OneOpenSweep, OpenSweeps
      <3> QED
        BY <3>2, <3>3
    <2> QED
      BY <1>2, <2>1, TypeInvariant, SweepInvariant, PromptInvariant, PTL
  <1> QED
    BY <1>1, <1>2

\* An EXECUTED sweep with a hash succeeded on chain.
THEOREM ExecutedSweepsAreMined == Spec => []ExecutedSweepIsMined
  <1>1. SentIsPersisted /\ ExecutedSweepIsMined => ExecutedSweepIsMined
    OBVIOUS
  <1> QED
    BY <1>1, SweepsArePersisted, PTL

\* While one sweep is in flight, no other row is open, ETH or token.
THEOREM SweepsFollowEachOther == Spec => []SweepsAreSequential
  <1>1. OneSweepPerAsset /\ SweepsAreSequential => SweepsAreSequential
    OBVIOUS
  <1> QED
    BY <1>1, OneSweepAtATime, PTL

-----------------------------------------------------------------------------
(* Rows given up as stale *)

StaledIsClosed == \A s \in staled : s \in DOMAIN sweep /\ Status(s) = "FAILED" /\ ~sweep[s].txHash

LEMMA StaledSteps ==
  ASSUME [Next]_vars
  PROVE  \/ staled' = staled
         \/ /\ staled' = staled \cup StaledNow
            /\ sweep' = SettledSweeps \/ \E r \in Requests : OpensRow(r)
  <1>1. ASSUME NEW r \in Requests, LockTx(r)
        PROVE  staled' = staled \/ (staled' = staled \cup StaledNow /\ sweep' = SettledSweeps)
    BY <1>1 DEF LockTx
  <1>2. ASSUME NEW r \in Requests, Open(r)
        PROVE  \/ staled' = staled
               \/ staled' = staled \cup StaledNow /\ (sweep' = SettledSweeps \/ OpensRow(r))
    BY <1>2 DEF Open, OpensRow, SettleClear, FoundExecuted
  <1>3. \/ staled' = staled
        \/ \E r \in Requests : LockTx(r) \/ Open(r)
    BY DEF Next, vars, auxVars, Handler, CancelWrite, Precheck, RebroadcastAccepted, RebroadcastRefused,
       Token, PrepToken, Eth, PrepEth, Skip, Retire, RetireC, SignStart, Sign, Persist, Send, Wait,
       Execute, Catch, FailSweep, StartEmergency, CancelRead, CallLast, Age, MineSweep, DropSweep,
       Deposit, Crash, Restart
  <1> QED
    BY <1>1, <1>2, <1>3

LEMMA StaledKept ==
  ASSUME TypeInv, SweepInv, PromptInv, StaledIsClosed, [Next]_vars
  PROVE  StaledIsClosed'
  <1> SUFFICES ASSUME NEW s \in staled'
               PROVE  s \in DOMAIN sweep' /\ sweep'[s].status = "FAILED" /\ ~sweep'[s].txHash
    BY DEF StaledIsClosed, Status
  <1>1. CASE s \in staled
    <2>1. s \in DOMAIN sweep /\ Status(s) = "FAILED" /\ ~sweep[s].txHash
      BY <1>1 DEF StaledIsClosed
    <2> QED
      BY <2>1, PromptRow, RowFieldsHold
  <1>2. ASSUME s \in StaledNow, sweep' = SettledSweeps \/ \E r \in Requests : OpensRow(r)
        PROVE  s \in DOMAIN sweep' /\ sweep'[s].status = "FAILED" /\ ~sweep'[s].txHash
    <2>1. s \in Closable /\ s \in DOMAIN sweep /\ Status(s) = "PROCESSING"
      BY <1>2 DEF StaledNow, Closable, OpenSweeps
    <2>2. ~sweep[s].txHash /\ sweep[s] \in SweepRow
      BY <2>1, SweepDomain DEF SweepInv, HashFollowsStatus, TypeInv
    <2>3. SettledSweeps[s] = [sweep[s] EXCEPT !.status = ClosedStatus(s)] /\ ClosedStatus(s) = "FAILED"
      BY <2>1, <2>2 DEF SettledSweeps, ClosedStatus
    <2>4. sweep'[s] = SettledSweeps[s]
      BY <1>2, <2>1, OpenedRow
    <2>5. sweep'[s].status = "FAILED" /\ ~sweep'[s].txHash
      BY <2>2, <2>3, <2>4 DEF SweepRow
    <2> QED
      BY <2>1, <2>5, RowFieldsHold
  <1> QED
    BY <1>1, <1>2, StaledSteps

\* While signing takes less than the stale limit, what the settle step gives
\* up as stale has no hash and never gets one, and so is never sent.
THEOREM GivenUpIsNeverSent == Spec => []StaleWasNeverSent
  <1>1. CASE "slow" \in Faults
    <2>1. StaleWasNeverSent
      BY <1>1 DEF StaleWasNeverSent
    <2> QED
      BY <2>1, PTL
  <1>2. CASE "slow" \notin Faults
    <2>1. Init => StaledIsClosed
      BY DEF Init, StaledIsClosed
    <2>2. TypeInv /\ SweepInv /\ PromptInv /\ StaledIsClosed /\ [Next]_vars => StaledIsClosed'
      BY StaledKept
    <2>3. TypeInv /\ SweepInv /\ StaledIsClosed => StaleWasNeverSent
      BY SweepDomain DEF StaledIsClosed, StaleWasNeverSent, SweepInv, SentIsPersisted, TypeInv
    <2> QED
      BY <1>2, <2>1, <2>2, <2>3, TypeInvariant, SweepInvariant, PromptInvariant, PTL DEF Spec
  <1> QED
    BY <1>1, <1>2
-----------------------------------------------------------------------------
(* One handler at a time moves, and the balances only fall: RetiredIsEmpty. *)

\* Awaits of a last withdraw that has taken the wallet row lock.
Entered == {"rebroadcast", "token", "prepToken", "eth", "prepEth", "open", "skip", "retire", "retireC"}
           \cup Working

\* Nothing of the asset is left that a transfer could move.
Swept(asset) == IF asset = "ERC20" THEN token = 0 ELSE eth <= Fee

TokenSucceeded == \E s \in Of("ERC20") : txState[s] = "success"

\* A transfer of this amount takes all there is: the token balance it was
\* prepared for only falls when a token sweep succeeds, and ETH is prepared
\* when no token is left.
TakesAll(asset, amount) ==
  IF asset = "ERC20" THEN /\ token <= amount /\ amount > 0
                          /\ token < amount => TokenSucceeded
  ELSE token = 0 /\ eth <= amount + Fee

NotBegun == DOMAIN sweep = {} /\ \A r \in Requests : req[r].pc \notin Entered

RowsTakeAll ==
  \A s \in DOMAIN sweep :
    /\ TakesAll(sweep[s].asset, sweep[s].amount)
    /\ Status(s) = "EXECUTED" \/ txState[s] = "success" => Swept(sweep[s].asset)

\* What each await of the last withdraw has established.
HandlerTakesAll(rq) ==
  /\ rq.pc \in {"eth", "prepEth", "skip", "retire", "retireC"} => token = 0
  /\ rq.pc \in {"skip", "retire", "retireC"} => eth <= Fee
  /\ rq.pc = "open" => TakesAll(rq.asset, rq.amount)

EmptyInv ==
  ~late /\ ~uncancelled =>
    /\ wallet \in {"RETIRING", "RETIRED"} \/ NotBegun
    /\ RowsTakeAll
    /\ \A r \in Requests : HandlerTakesAll(req[r])
    /\ wallet = "RETIRED" => token = 0 /\ eth <= Fee

\* The handler of a sweep works for the asset of its row.
AssetsAgree == \A r \in Requests : req[r].pc \in Working => req[r].asset = sweep[req[r].sweep].asset

LEMMA OthersWait ==
  ASSUME TypeInv, NEW q \in Requests, NEW r \in Requests, q # r, CancelRead(q) \/ CallLast(q) \/ Handler(q)
  PROVE  req'[r] = req[r]
  BY DEF TypeInv, TypeOK, CancelRead, CallLast, Handler, CancelWrite, Precheck, LockTx, RebroadcastAccepted,
     RebroadcastRefused, Token, PrepToken, Prepared, Eth, PrepEth, Retire, RetireC, Skip, Open, SignStart,
     Sign, Persist, Send, Wait, Execute, Catch, FailSweep, Goto, Return

LEMMA PreparedFields ==
  ASSUME TypeInv, NEW r \in Requests, NEW asset, NEW amount, Prepared(r, asset, amount)
  PROVE  /\ req'[r].pc = "open" /\ req'[r].asset = asset /\ req'[r].amount = amount
         /\ req'[r].nonce \in Nonces /\ IsPendingNonce(req'[r].nonce)
  <1>1. PICK n \in Nonces : /\ IsPendingNonce(n)
                            /\ req' = [req EXCEPT ![r].pc = "open", ![r].asset = asset,
                                                  ![r].amount = amount, ![r].nonce = n]
    BY DEF Prepared
  <1>2. req[r] \in Request /\ req \in [Requests -> Request]
    BY DEF TypeInv, TypeOK
  <1>3. req'[r] = [req[r] EXCEPT !.pc = "open", !.asset = asset, !.amount = amount, !.nonce = n]
    BY <1>1, <1>2
  <1> QED
    BY <1>1, <1>2, <1>3 DEF Request

\* Only deposits and blocks change the balances; three handlers and the
\* user's start write the wallet row.
LEMMA HandlerKeepsBalances ==
  ASSUME NEW r \in Requests, CancelRead(r) \/ CallLast(r) \/ Handler(r)
  PROVE  /\ UNCHANGED <<eth, token, late>>
         /\ CancelWrite(r) \/ LockTx(r) \/ Retire(r) \/ UNCHANGED <<wallet, uncancelled>>
  <1>1. CASE CancelRead(r) \/ CallLast(r) \/ CancelWrite(r) \/ Precheck(r) \/ LockTx(r)
    BY <1>1 DEF CancelRead, CallLast, CancelWrite, Precheck, LockTx, balanceVars, rowVars, auxVars
  <1>2. CASE \/ RebroadcastAccepted(r) \/ RebroadcastRefused(r) \/ Token(r) \/ PrepToken(r) \/ Eth(r)
             \/ PrepEth(r) \/ Skip(r) \/ Retire(r) \/ RetireC(r)
    BY <1>2 DEF RebroadcastAccepted, RebroadcastRefused, Token, PrepToken, Eth, PrepEth, Skip, Retire,
       RetireC, balanceVars, rowVars, auxVars
  <1>3. CASE \/ Open(r) \/ SignStart(r) \/ Sign(r) \/ Persist(r) \/ Send(r) \/ Wait(r) \/ Execute(r)
             \/ Catch(r) \/ FailSweep(r)
    BY <1>3 DEF Open, SignStart, Sign, Persist, Send, Wait, Execute, Catch, FailSweep,
       balanceVars, rowVars, auxVars
  <1> QED
    BY <1>1, <1>2, <1>3 DEF Handler

LEMMA BalanceSteps ==
  ASSUME [Next]_vars
  PROVE  Deposit \/ (\E s \in DOMAIN sweep : MineSweep(s)) \/ UNCHANGED <<eth, token, late>>
  <1>1. CASE UNCHANGED vars \/ StartEmergency \/ Crash
    BY <1>1 DEF vars, StartEmergency, Crash, Restart, balanceVars
  <1>2. ASSUME NEW s \in DOMAIN sweep, Age(s) \/ DropSweep(s)
        PROVE  UNCHANGED <<eth, token, late>>
    BY <1>2 DEF Age, DropSweep, balanceVars
  <1> QED
    BY <1>1, <1>2, HandlerKeepsBalances DEF Next

LEMMA WalletSteps ==
  ASSUME [Next]_vars
  PROVE  \/ UNCHANGED <<wallet, uncancelled>>
         \/ StartEmergency
         \/ \E r \in Requests : CancelWrite(r) \/ LockTx(r) \/ Retire(r)
  <1>1. CASE UNCHANGED vars \/ Deposit \/ Crash
    BY <1>1 DEF vars, Deposit, Crash, Restart, rowVars, auxVars
  <1>2. ASSUME NEW s \in DOMAIN sweep, Age(s) \/ MineSweep(s) \/ DropSweep(s)
        PROVE  UNCHANGED <<wallet, uncancelled>>
    BY <1>2 DEF Age, MineSweep, DropSweep, rowVars, auxVars
  <1> QED
    BY <1>1, <1>2, HandlerKeepsBalances DEF Next

\* A block that includes a sweep moves at most its value and the fee.
LEMMA MinedBalances ==
  ASSUME TypeInv, NEW s \in DOMAIN sweep, MineSweep(s)
  PROVE  /\ UNCHANGED late
         /\ eth' \in Nat /\ eth' <= eth
         /\ token' \in Nat /\ token' <= token
         /\ txState'[s] = "success" /\ sweep[s].asset = "ERC20" =>
              token >= sweep[s].amount /\ token' = token - sweep[s].amount
         /\ txState'[s] = "success" /\ sweep[s].asset = "ETH" => eth' <= eth - sweep[s].amount
         /\ token' # token => txState'[s] = "success" /\ sweep[s].asset = "ERC20"
  <1>1. sweep[s] \in SweepRow /\ eth \in Nat /\ token \in Nat /\ Fee \in Nat
    BY SweepDomain, BoundsAreNat, FeeIsPositive DEF TypeInv, TypeOK
  <1>2. sweep[s].amount \in Nat /\ sweep[s].asset \in {"ERC20", "ETH"}
    BY <1>1 DEF SweepRow, Assets
  <1> DEFINE value == IF sweep[s].asset = "ETH" THEN sweep[s].amount ELSE 0
  <1>3. eth >= value + Fee /\ value \in Nat /\ UNCHANGED late
    BY <1>2 DEF MineSweep
  <1>4. PICK cost \in 1..Fee :
           IF txState'[s] = "success"
           THEN /\ sweep[s].asset = "ERC20" => token >= sweep[s].amount
                /\ eth' = eth - value - cost
                /\ token' = IF sweep[s].asset = "ERC20" THEN token - sweep[s].amount ELSE token
           ELSE eth' = eth - cost /\ UNCHANGED token
    BY DEF MineSweep
  <1> QED
    BY <1>1, <1>2, <1>3, <1>4

\* A transaction succeeds in the block that includes it.
LEMMA SuccessIsMined ==
  ASSUME TypeInv, [Next]_vars, NEW s \in Txs, txState[s] # "success", txState'[s] = "success"
  PROVE  s \in DOMAIN sweep /\ MineSweep(s)
  <1>0. txState \in [Txs -> TxStates]
    BY DEF TypeInv, TypeOK, ChainTypeOK
  <1>1. ASSUME NEW t \in DOMAIN sweep, MineSweep(t)
        PROVE  s \in DOMAIN sweep /\ MineSweep(s)
    BY <1>0, <1>1 DEF MineSweep, Mine
  <1>2. ASSUME NEW t \in DOMAIN sweep, DropSweep(t)
        PROVE  FALSE
    BY <1>0, <1>2 DEF DropSweep, Drop
  <1>3. ASSUME NEW r \in Requests, RebroadcastAccepted(r) \/ Send(r)
        PROVE  FALSE
    BY <1>0, <1>3 DEF RebroadcastAccepted, Send, Submit, chainVars
  <1> QED
    BY <1>1, <1>2, <1>3, ChainSteps DEF chainVars

LEMMA AssetsAgreeKept ==
  ASSUME TypeInv, AssetsAgree, [Next]_vars
  PROVE  AssetsAgree'
  <1> SUFFICES ASSUME NEW r \in Requests, req'[r].pc \in Working
               PROVE  req'[r].asset = sweep'[req'[r].sweep].asset
    BY DEF AssetsAgree
  <1>1. CASE OpensRow(r) /\ req'[r].sweep = Len(sweep) + 1 /\ req'[r].asset = req[r].asset
    BY <1>1, OpenedRow
  <1>2. CASE req[r].pc \in Working /\ req'[r].sweep = req[r].sweep /\ req'[r].asset = req[r].asset
    <2>1. req[r].sweep \in DOMAIN sweep /\ req[r].asset = sweep[req[r].sweep].asset
      BY <1>2, SweepDomain DEF TypeInv, HandlersHaveSweeps, HasSweep, AssetsAgree
    <2> QED
      BY <1>2, <2>1, HashStays
  <1> QED
    BY <1>1, <1>2, HandlerEffectHolds DEF HandlerEffect, Working

LEMMA AssetsAgreeInvariant == Spec => []AssetsAgree
  <1>1. Init => AssetsAgree
    BY IdleIsRequest DEF Init, AssetsAgree, Working
  <1>2. TypeInv /\ AssetsAgree /\ [Next]_vars => AssetsAgree'
    BY AssetsAgreeKept
  <1> QED
    BY <1>1, <1>2, TypeInvariant, PTL DEF Spec

\* Before the last withdraw has taken the lock there are no rows, and the step
\* that takes it only goes on to the token or to an earlier sweep.
LEMMA LockIsFirst ==
  ASSUME TypeInv, [Next]_vars, NotBegun, wallet \notin {"RETIRING", "RETIRED"}
  PROVE  /\ DOMAIN sweep' = {}
         /\ wallet' # "RETIRED"
         /\ wallet' = "RETIRING" \/ NotBegun'
         /\ \A r \in Requests : req'[r].pc \notin Entered \ {"token", "rebroadcast"}
  <1>0. req \in [Requests -> Request] /\ \A r \in Requests : req[r].pc \notin Entered
    BY DEF TypeInv, TypeOK, NotBegun
  <1>1. CASE UNCHANGED vars \/ StartEmergency \/ Deposit
    BY <1>0, <1>1 DEF vars, rowVars, StartEmergency, Deposit, NotBegun
  <1>2. CASE Crash
    <2>1. \A r \in Requests : req'[r].pc = "idle"
      BY <1>2, IdleIsRequest DEF Crash, Restart
    <2> QED
      BY <1>2, <2>1 DEF Crash, Restart, NotBegun, rowVars, Entered, Working
  <1>3. ASSUME NEW s \in DOMAIN sweep
        PROVE  FALSE
    BY <1>3 DEF NotBegun
  <1>4. ASSUME NEW q \in Requests, CancelRead(q) \/ CallLast(q) \/ Handler(q)
        PROVE  /\ DOMAIN sweep' = {}
               /\ wallet' # "RETIRED"
               /\ wallet' = "RETIRING" \/ req'[q].pc \notin Entered
               /\ req'[q].pc \notin Entered \ {"token", "rebroadcast"}
    <2>1. CancelRead(q) \/ CallLast(q) \/ CancelWrite(q) \/ Precheck(q) \/ LockTx(q)
      BY <1>0, <1>4 DEF Handler, RebroadcastAccepted, RebroadcastRefused, Token, PrepToken, Eth, PrepEth, Skip,
         Retire, RetireC, Open, SignStart, Sign, Persist, Send, Wait, Execute, Catch, FailSweep, At,
         Entered, Working
    <2>2. CASE CancelRead(q) \/ CallLast(q) \/ CancelWrite(q) \/ Precheck(q)
      <3>1. UNCHANGED req \/ Return(q) \/ Goto(q, "cancel") \/ Goto(q, "precheck") \/ Goto(q, "lock")
        BY <2>2 DEF CancelRead, CallLast, CancelWrite, Precheck
      <3>2. req'[q].pc \in {req[q].pc, "idle", "cancel", "precheck", "lock"}
        BY <1>0, <3>1, IdleIsRequest DEF Return, Goto, Request
      <3>3. req'[q].pc \notin Entered
        BY <1>0, <3>2 DEF Entered, Working
      <3>4. UNCHANGED sweep /\ wallet' \in {wallet, "ACTIVE"}
        BY <2>2 DEF CancelRead, CallLast, CancelWrite, Precheck, rowVars
      <3> QED
        BY <3>3, <3>4 DEF NotBegun
    <2>3. CASE LockTx(q)
      <3>1. DOMAIN sweep' = {}
        BY <2>3, SettledSweepsType DEF LockTx, NotBegun, TypeInv
      <3>2. CASE Return(q) /\ UNCHANGED rowVars
        BY <1>0, <3>1, <3>2, IdleIsRequest DEF Return, rowVars, Entered, Working
      <3>3. CASE /\ wallet' = "RETIRING"
                 /\ req' = [req EXCEPT ![q].pc = IF SettleClear THEN "token" ELSE "rebroadcast",
                                       ![q].sweep = IF SettleClear THEN 0 ELSE FirstBlocking]
        <4>1. req'[q].pc \in {"token", "rebroadcast"}
          BY <1>0, <3>3 DEF Request
        <4> QED
          BY <3>1, <3>3, <4>1
      <3> QED
        BY <2>3, <3>2, <3>3 DEF LockTx
    <2> QED
      BY <2>1, <2>2, <2>3
  <1>5. ASSUME NEW q \in Requests, CancelRead(q) \/ CallLast(q) \/ Handler(q), NEW r \in Requests, r # q
        PROVE  req'[r].pc \notin Entered
    BY <1>0, <1>5, OthersWait
  <1>6. ASSUME NEW q \in Requests, CancelRead(q) \/ CallLast(q) \/ Handler(q)
        PROVE  /\ DOMAIN sweep' = {}
               /\ wallet' # "RETIRED"
               /\ wallet' = "RETIRING" \/ NotBegun'
               /\ \A r \in Requests : req'[r].pc \notin Entered \ {"token", "rebroadcast"}
    BY <1>4, <1>5, <1>6 DEF NotBegun
  <1>7. CASE UNCHANGED vars \/ StartEmergency \/ Deposit \/ Crash
    <2>1. DOMAIN sweep' = {} /\ wallet' # "RETIRED" /\ NotBegun'
      BY <1>1, <1>2, <1>7 DEF NotBegun, vars, rowVars, StartEmergency, Deposit, Crash, Restart
    <2> QED
      BY <2>1 DEF NotBegun
  <1> QED
    BY <1>3, <1>6, <1>7 DEF Next

\* From the lock on the balances only fall, unless a deposit is late or cancel
\* undid the lock.
LEMMA BalancesFall ==
  ASSUME TypeInv, [Next]_vars, ~late', ~uncancelled'
  PROVE  /\ ~late /\ ~uncancelled
         /\ wallet \in {"RETIRING", "RETIRED"} =>
              /\ wallet' \in {"RETIRING", "RETIRED"}
              /\ eth' \in Nat /\ eth' <= eth
              /\ token' \in Nat /\ token' <= token
              /\ token' < token => TokenSucceeded'
  <1>0. eth \in Nat /\ token \in Nat /\ late \in BOOLEAN /\ uncancelled \in BOOLEAN
    BY BoundsAreNat DEF TypeInv, TypeOK
  <1>1. ~late
    <2>1. CASE Deposit
      BY <1>0, <2>1 DEF Deposit
    <2> QED
      BY <2>1, BalanceSteps, MinedBalances
  <1>2. /\ ~uncancelled
        /\ wallet \in {"RETIRING", "RETIRED"} => wallet' \in {"RETIRING", "RETIRED"}
    <2>1. CASE StartEmergency
      BY <2>1 DEF StartEmergency, auxVars
    <2>2. ASSUME NEW r \in Requests, CancelWrite(r)
          PROVE  ~uncancelled /\ wallet \notin {"RETIRING", "RETIRED"}
      BY <1>0, <2>2 DEF CancelWrite
    <2>3. ASSUME NEW r \in Requests, LockTx(r) \/ Retire(r)
          PROVE  UNCHANGED uncancelled /\ wallet' \in {wallet, "RETIRING", "RETIRED"}
      BY <2>3 DEF LockTx, Retire, rowVars, auxVars
    <2> QED
      BY <2>1, <2>2, <2>3, WalletSteps
  <1>3. ASSUME wallet \in {"RETIRING", "RETIRED"}
        PROVE  /\ eth' \in Nat /\ eth' <= eth
               /\ token' \in Nat /\ token' <= token
               /\ token' < token => TokenSucceeded'
    <2>1. ~Deposit
      BY <1>3 DEF Deposit
    <2>2. CASE UNCHANGED <<eth, token, late>>
      BY <1>0, <2>2
    <2>3. ASSUME NEW s \in DOMAIN sweep, MineSweep(s)
          PROVE  /\ eth' \in Nat /\ eth' <= eth
                 /\ token' \in Nat /\ token' <= token
                 /\ token' < token => TokenSucceeded'
      <3>1. /\ eth' \in Nat /\ eth' <= eth
            /\ token' \in Nat /\ token' <= token
            /\ token' # token => txState'[s] = "success" /\ sweep[s].asset = "ERC20"
        BY <2>3, MinedBalances
      <3>2. UNCHANGED sweep
        BY <2>3 DEF MineSweep
      <3>3. ASSUME token' < token
            PROVE  TokenSucceeded'
        <4>1. token' # token
          BY <1>0, <3>3
        <4> QED
          BY <3>1, <3>2, <4>1 DEF TokenSucceeded, Of
      <3> QED
        BY <3>1, <3>3
    <2> QED
      BY <2>1, <2>2, <2>3, BalanceSteps
  <1> QED
    BY <1>1, <1>2, <1>3

LEMMA TokenStaysSwept ==
  ASSUME TypeInv, [Next]_vars, TokenSucceeded
  PROVE  TokenSucceeded'
  <1>1. PICK s \in DOMAIN sweep : sweep[s].asset = "ERC20" /\ txState[s] = "success"
    BY DEF TokenSucceeded, Of
  <1>2. s \in Txs
    BY <1>1, SweepDomain DEF TypeInv
  <1> QED
    BY <1>1, <1>2, HashStays, ChainEffectHolds DEF TokenSucceeded, Of, ChainEffect, HasReceipt

\* What a transfer was prepared for stays all there is.
LEMMA TakesAllStays ==
  ASSUME TypeInv, [Next]_vars, ~late', ~uncancelled', wallet \in {"RETIRING", "RETIRED"},
         NEW asset, NEW amount \in Nat, TakesAll(asset, amount)
  PROVE  IF asset = "ERC20" THEN /\ token' <= amount /\ amount > 0
                                 /\ token' < amount => TokenSucceeded'
         ELSE token' = 0 /\ eth' <= amount + Fee
  <1>1. /\ eth' \in Nat /\ eth' <= eth
        /\ token' \in Nat /\ token' <= token
        /\ token' < token => TokenSucceeded'
    BY BalancesFall
  <1>2. eth \in Nat /\ token \in Nat /\ Fee \in Nat
    BY BoundsAreNat, FeeIsPositive DEF TypeInv, TypeOK
  <1>3. CASE asset = "ERC20"
    <2>1. token <= amount /\ amount > 0 /\ (token < amount => TokenSucceeded)
      BY <1>3 DEF TakesAll
    <2>2. token < amount => TokenSucceeded'
      BY <2>1, TokenStaysSwept
    <2>3. token' < amount => token < amount \/ token' < token
      BY <1>1, <1>2, <2>1
    <2> QED
      BY <1>1, <1>2, <1>3, <2>1, <2>2, <2>3
  <1>4. CASE asset # "ERC20"
    BY <1>1, <1>2, <1>4 DEF TakesAll
  <1> QED
    BY <1>3, <1>4

\* An asset whose transfer was mined with success has nothing left to move.
LEMMA SuccessSweeps ==
  ASSUME TypeInv, [Next]_vars, ~late', ~uncancelled', wallet \in {"RETIRING", "RETIRED"}, RowsTakeAll,
         NEW s \in DOMAIN sweep, Status(s) = "EXECUTED" \/ txState'[s] = "success"
  PROVE  IF sweep[s].asset = "ERC20" THEN token' = 0 ELSE eth' <= Fee
  <1>1. /\ eth' \in Nat /\ eth' <= eth
        /\ token' \in Nat /\ token' <= token
    BY BalancesFall
  <1>2. /\ eth \in Nat /\ token \in Nat /\ Fee \in Nat /\ s \in Txs
        /\ sweep[s].amount \in Nat /\ sweep[s].asset \in {"ERC20", "ETH"}
    BY BoundsAreNat, FeeIsPositive, SweepDomain DEF TypeInv, TypeOK, SweepRow, Assets
  <1>3. CASE Status(s) = "EXECUTED" \/ txState[s] = "success"
    <2>1. Swept(sweep[s].asset)
      BY <1>3 DEF RowsTakeAll
    <2> QED
      BY <1>1, <1>2, <2>1 DEF Swept
  <1>4. CASE txState[s] # "success" /\ txState'[s] = "success"
    <2>1. MineSweep(s)
      BY <1>2, <1>4, SuccessIsMined
    <2>2. TakesAll(sweep[s].asset, sweep[s].amount)
      BY DEF RowsTakeAll
    <2>3. CASE sweep[s].asset = "ERC20"
      <3>1. token >= sweep[s].amount /\ token' = token - sweep[s].amount
        BY <1>4, <2>1, <2>3, MinedBalances
      <3> QED
        BY <1>2, <2>2, <2>3, <3>1 DEF TakesAll
    <2>4. CASE sweep[s].asset = "ETH"
      <3>1. eth' <= eth - sweep[s].amount
        BY <1>4, <2>1, <2>4, MinedBalances
      <3> QED
        BY <1>1, <1>2, <2>2, <2>4, <3>1 DEF TakesAll
    <2> QED
      BY <1>2, <2>3, <2>4
  <1> QED
    BY <1>3, <1>4

LEMMA RowsTakeAllKept ==
  ASSUME TypeInv, TypeInv', SweepInv, SweepInv', [Next]_vars, ~late', ~uncancelled',
         wallet \in {"RETIRING", "RETIRED"}, RowsTakeAll, \A r \in Requests : HandlerTakesAll(req[r])
  PROVE  RowsTakeAll'
  <1>0. Fee \in Nat /\ token \in Nat /\ eth \in Nat /\ token' \in Nat /\ eth' \in Nat
        /\ token' <= token /\ eth' <= eth
    BY BoundsAreNat, FeeIsPositive, BalancesFall DEF TypeInv, TypeOK
  <1> SUFFICES ASSUME NEW s \in DOMAIN sweep'
               PROVE  /\ IF sweep'[s].asset = "ERC20"
                         THEN /\ token' <= sweep'[s].amount /\ sweep'[s].amount > 0
                              /\ token' < sweep'[s].amount => TokenSucceeded'
                         ELSE token' = 0 /\ eth' <= sweep'[s].amount + Fee
                      /\ sweep'[s].status = "EXECUTED" \/ txState'[s] = "success" =>
                            IF sweep'[s].asset = "ERC20" THEN token' = 0 ELSE eth' <= Fee
    BY DEF RowsTakeAll, TakesAll, Swept, Status
  <1>1. CASE s \in DOMAIN sweep
    <2>1. /\ TakesAll(sweep[s].asset, sweep[s].amount)
          /\ sweep'[s].asset = sweep[s].asset /\ sweep'[s].amount = sweep[s].amount
          /\ sweep[s].amount \in Nat
      BY <1>1, HashStays, SweepDomain DEF RowsTakeAll, TypeInv, SweepRow
    <2>2. sweep'[s].status = "EXECUTED" \/ txState'[s] = "success" =>
            Status(s) = "EXECUTED" \/ txState'[s] = "success"
      <3>1. s \in Txs
        BY <1>1, SweepDomain DEF TypeInv
      <3>2. txState[s] = "success" => txState'[s] = "success"
        BY <3>1, ChainEffectHolds DEF ChainEffect, HasReceipt
      <3>3. ASSUME NEW r \in Requests, At(r, "execute"), req[r].sweep = s
            PROVE  txState[s] = "success"
        BY <3>3 DEF SweepInv, HandlerFacts
      <3> QED
        BY <1>1, <3>2, <3>3, RowFieldsHold DEF RowFields, ClosedStatus
    <2> QED
      BY <1>1, <2>1, <2>2, TakesAllStays, SuccessSweeps
  <1>2. CASE s \notin DOMAIN sweep
    <2>1. CASE SkipsRow /\ sweep'[s] = NewSweep("ETH", "EXECUTED", 0, 0)
      <3>1. token = 0 /\ eth <= Fee
        BY <2>1 DEF SkipsRow, HandlerTakesAll, At
      <3> QED
        BY <1>0, <2>1, <3>1 DEF NewSweep
    <2>2. ASSUME NEW r \in Requests, OpensRow(r),
                 sweep'[s] = NewSweep(req[r].asset, "PROCESSING", req[r].amount, req[r].nonce)
          PROVE  /\ IF sweep'[s].asset = "ERC20"
                    THEN /\ token' <= sweep'[s].amount /\ sweep'[s].amount > 0
                         /\ token' < sweep'[s].amount => TokenSucceeded'
                    ELSE token' = 0 /\ eth' <= sweep'[s].amount + Fee
                 /\ sweep'[s].status # "EXECUTED" /\ txState'[s] # "success"
      <3>1. TakesAll(req[r].asset, req[r].amount) /\ req[r].amount \in Nat
        BY <2>2 DEF OpensRow, HandlerTakesAll, At, TypeInv, TypeOK, Request
      <3>2. /\ sweep'[s].asset = req[r].asset /\ sweep'[s].amount = req[r].amount
            /\ sweep'[s].status = "PROCESSING" /\ ~sweep'[s].txHash
        BY <2>2 DEF NewSweep
      <3>3. s \in Sweeps
        <4>1. Len(sweep') \in Nat /\ DOMAIN sweep' = 1..Len(sweep') /\ Len(sweep') <= MaxSweeps
          BY LenProperties DEF TypeInv, TypeOK
        <4> QED
          BY <4>1, BoundsAreNat DEF Sweeps
      <3>4. txState'[s] = "none"
        BY <3>2, <3>3 DEF SweepInv, SentIsPersisted
      <3> QED
        BY <3>1, <3>2, <3>4, TakesAllStays
    <2> QED
      BY <1>2, <2>1, <2>2, NewRowEffect
  <1> QED
    BY <1>1, <1>2

\* Once the newest row of an asset is shown as EXECUTED, or settles as such,
\* the asset is swept.
LEMMA LatestIsSwept ==
  ASSUME TypeInv, RowsTakeAll, NEW asset \in Assets, Of(asset) # {},
         \/ LatestStatus(asset) = "EXECUTED"
         \/ SettledSweeps[Latest(asset)].status = "EXECUTED"
  PROVE  Swept(asset) /\ (asset = "ETH" => token = 0)
  <1> DEFINE s == Latest(asset)
  <1>1. s \in DOMAIN sweep /\ sweep[s].asset = asset /\ sweep[s] \in SweepRow
    BY LatestIsLast, SweepDomain DEF TypeInv, Of
  <1>2. Status(s) = "EXECUTED" \/ txState[s] = "success"
    <2>1. CASE LatestStatus(asset) = "EXECUTED"
      BY <2>1 DEF LatestStatus
    <2>2. CASE SettledSweeps[s].status = "EXECUTED"
      <3>1. CASE s \in Closable
        <4>1. SettledSweeps[s] = [sweep[s] EXCEPT !.status = ClosedStatus(s)]
          BY <1>1, <3>1 DEF SettledSweeps
        <4>2. SettledSweeps[s].status = ClosedStatus(s)
          BY <1>1, <4>1 DEF SweepRow
        <4> QED
          BY <2>2, <4>2 DEF ClosedStatus
      <3>2. CASE s \notin Closable
        BY <1>1, <2>2, <3>2 DEF SettledSweeps, Status
      <3> QED
        BY <3>1, <3>2
    <2> QED
      BY <2>1, <2>2
  <1> QED
    BY <1>1, <1>2 DEF RowsTakeAll, TakesAll

\* What the next await of a handler has established, in the balances of now.
NextTakesAll(r) ==
  /\ req'[r].pc \in {"eth", "prepEth", "skip", "retire", "retireC"} => token = 0
  /\ req'[r].pc \in {"skip", "retire", "retireC"} => eth <= Fee
  /\ req'[r].pc = "open" => /\ req'[r].amount \in Nat
                            /\ IF req'[r].asset = "ERC20" THEN /\ token <= req'[r].amount /\ req'[r].amount > 0
                                                               /\ token < req'[r].amount => TokenSucceeded
                               ELSE token = 0 /\ eth <= req'[r].amount + Fee

LEMMA HandlerStepTakesAll ==
  ASSUME TypeInv, SweepInv, AssetsAgree, RowsTakeAll, NEW r \in Requests, HandlerTakesAll(req[r]),
         CancelRead(r) \/ CallLast(r) \/ Handler(r), req'[r] # req[r]
  PROVE  NextTakesAll(r)
  <1> DEFINE Claims == {"eth", "prepEth", "skip", "retire", "retireC", "open"}
  <1>0. req \in [Requests -> Request] /\ req[r] \in Request /\ token \in Nat /\ eth \in Nat /\ Fee \in Nat
    BY BoundsAreNat, FeeIsPositive DEF TypeInv, TypeOK
  <1>1. ASSUME NEW pc \in Pcs \ Claims, Goto(r, pc)
        PROVE  NextTakesAll(r)
    <2>1. req'[r].pc = pc
      BY <1>0, <1>1 DEF Goto, Request
    <2> QED
      BY <1>1, <2>1 DEF NextTakesAll
  <1>2. CASE Return(r)
    BY <1>0, <1>2, IdleIsRequest DEF Return, NextTakesAll
  <1>3. ASSUME NEW pc \in Pcs, NEW b \in BOOLEAN, req' = [req EXCEPT ![r] = Enter(pc, b)],
               pc \in {"eth", "retire"} => token = 0, pc = "retire" => eth <= Fee,
               pc \in {"eth", "prepToken", "retire"}
        PROVE  NextTakesAll(r)
    <2>1. Enter(pc, b).pc = pc
      BY DEF Enter, Idle
    <2>2. req'[r].pc = pc
      BY <1>0, <1>3, <2>1
    <2> QED
      BY <1>3, <2>2 DEF NextTakesAll
  <1>4. ASSUME NEW pc \in {"prepEth", "skip", "retire", "retireC"}, Goto(r, pc),
               token = 0, pc # "prepEth" => eth <= Fee
        PROVE  NextTakesAll(r)
    <2>1. req'[r].pc = pc
      BY <1>0, <1>4 DEF Goto, Request
    <2> QED
      BY <1>4, <2>1 DEF NextTakesAll
  <1>5. ASSUME NEW asset \in Assets, NEW amount \in Nat, Prepared(r, asset, amount), TakesAll(asset, amount)
        PROVE  NextTakesAll(r)
    <2>1. req'[r].pc = "open" /\ req'[r].asset = asset /\ req'[r].amount = amount
      BY <1>5, PreparedFields
    <2> QED
      BY <1>5, <2>1 DEF NextTakesAll, TakesAll
  <1>6. CASE Token(r)
    <2>1. CASE LatestStatus("ERC20") = "EXECUTED"
      <3>1. Of("ERC20") # {}
        BY <2>1 DEF LatestStatus
      <3>2. token = 0
        BY <2>1, <3>1, LatestIsSwept DEF Swept, Assets
      <3> QED
        BY <1>3, <1>6, <2>1, <3>2 DEF Token, Pcs
    <2>2. CASE LatestStatus("ERC20") # "EXECUTED"
      BY <1>3, <1>6, <2>2 DEF Token, Pcs
    <2> QED
      BY <2>1, <2>2
  <1>7. CASE PrepToken(r)
    <2>1. CASE token = 0 /\ req' = [req EXCEPT ![r] = Enter("eth", FALSE)]
      BY <1>3, <2>1 DEF Pcs
    <2>2. CASE token > 0 /\ Prepared(r, "ERC20", token)
      <3>1. TakesAll("ERC20", token)
        BY <1>0, <2>2 DEF TakesAll
      <3> QED
        BY <1>0, <1>5, <2>2, <3>1 DEF Assets
    <2> QED
      BY <1>2, <1>7, <2>1, <2>2 DEF PrepToken
  <1>8. CASE Eth(r)
    <2>1. token = 0
      BY <1>8 DEF Eth, At, HandlerTakesAll
    <2>2. CASE LatestStatus("ETH") = "EXECUTED"
      <3>1. Of("ETH") # {}
        BY <2>2 DEF LatestStatus
      <3>2. eth <= Fee
        BY <2>2, <3>1, LatestIsSwept DEF Swept, Assets
      <3> QED
        BY <1>4, <1>8, <2>1, <2>2, <3>2 DEF Eth
    <2>3. CASE LatestStatus("ETH") # "EXECUTED"
      BY <1>4, <1>8, <2>1, <2>3 DEF Eth
    <2> QED
      BY <2>2, <2>3
  <1>9. CASE PrepEth(r)
    <2>1. token = 0
      BY <1>9 DEF PrepEth, At, HandlerTakesAll
    <2>2. CASE eth <= Fee /\ Goto(r, "skip")
      BY <1>4, <2>1, <2>2
    <2>3. CASE eth > Fee /\ Prepared(r, "ETH", eth - Fee)
      <3>1. eth - Fee \in Nat /\ TakesAll("ETH", eth - Fee)
        BY <1>0, <2>1, <2>3 DEF TakesAll
      <3> QED
        BY <1>5, <2>3, <3>1 DEF Assets
    <2>4. (eth = 0 \/ (eth <= Fee /\ req[r].tokenTx)) => eth <= Fee
      BY <1>0
    <2>5. \/ eth <= Fee /\ Goto(r, "skip")
          \/ eth > Fee /\ Prepared(r, "ETH", eth - Fee)
          \/ Return(r)
      BY <1>9, <2>4 DEF PrepEth
    <2> QED
      BY <1>2, <2>2, <2>3, <2>5
  <1>10. CASE Skip(r) \/ Retire(r)
    <2>1. token = 0 /\ eth <= Fee
      BY <1>10 DEF Skip, Retire, At, HandlerTakesAll
    <2>2. Return(r) \/ Goto(r, "retire") \/ Goto(r, "retireC")
      BY <1>10 DEF Skip, Retire
    <2> QED
      BY <1>2, <1>4, <2>1, <2>2
  <1>11. ASSUME NEW asset \in Assets, Swept(asset), asset = "ETH" => token = 0,
                req' = [req EXCEPT ![r] = NextAfter(asset)]
         PROVE  NextTakesAll(r)
    <2>1. CASE asset = "ERC20"
      BY <1>3, <1>11, <2>1 DEF NextAfter, Swept, Pcs
    <2>2. CASE asset = "ETH"
      BY <1>3, <1>11, <2>2 DEF NextAfter, Swept, Pcs
    <2> QED
      BY <2>1, <2>2 DEF Assets
  <1>12. CASE Open(r)
    <2> DEFINE asset == req[r].asset
    <2>1. asset \in Assets
      BY <1>0 DEF Request
    <2>2. CASE /\ Of(asset) # {} /\ SettledSweeps[Latest(asset)].status = "EXECUTED"
               /\ req' = [req EXCEPT ![r] = NextAfter(asset)]
      BY <1>11, <2>1, <2>2, LatestIsSwept
    <2>3. CASE OpensRow(r)
      <3>1. req'[r].pc = "signStart"
        BY <1>0, <2>3 DEF OpensRow, Idle
      <3> QED
        BY <3>1 DEF NextTakesAll
    <2> QED
      BY <1>2, <1>12, <2>2, <2>3 DEF Open, OpensRow, SettleClear, FoundExecuted
  <1>13. CASE Execute(r)
    <2>1. req[r].sweep \in DOMAIN sweep /\ req[r].asset = sweep[req[r].sweep].asset /\ req[r].asset \in Assets
      BY <1>0, <1>13, SweepDomain DEF Execute, At, Working, TypeInv, HandlersHaveSweeps, HasSweep, AssetsAgree,
         Request
    <2>2. txState[req[r].sweep] = "success"
      BY <1>13 DEF Execute, SweepInv, HandlerFacts
    <2>3. Swept(req[r].asset) /\ (req[r].asset = "ETH" => token = 0)
      BY <2>1, <2>2 DEF RowsTakeAll, TakesAll
    <2> QED
      BY <1>2, <1>11, <1>13, <2>1, <2>3 DEF Execute
  <1>14. CASE LockTx(r)
    <2>1. CASE req' = [req EXCEPT ![r].pc = IF SettleClear THEN "token" ELSE "rebroadcast",
                                  ![r].sweep = IF SettleClear THEN 0 ELSE FirstBlocking]
      <3>1. req'[r].pc \in {"token", "rebroadcast"}
        BY <1>0, <2>1 DEF Request
      <3> QED
        BY <3>1 DEF NextTakesAll
    <2> QED
      BY <1>2, <1>14, <2>1 DEF LockTx
  <1>15. CASE \/ CancelRead(r) \/ CallLast(r) \/ CancelWrite(r) \/ Precheck(r) \/ RebroadcastAccepted(r)
              \/ RebroadcastRefused(r) \/ RetireC(r) \/ SignStart(r) \/ Sign(r) \/ Persist(r) \/ Send(r)
              \/ Wait(r) \/ Catch(r) \/ FailSweep(r)
    <2>1. {"cancel", "precheck", "lock", "sign", "persist", "send", "wait", "execute", "catch", "failSweep"}
             \subseteq Pcs \ Claims
      BY DEF Pcs
    <2>2. Return(r) \/ \E pc \in Pcs \ Claims : Goto(r, pc)
      BY <1>15, <2>1 DEF CancelRead, CallLast, CancelWrite, Precheck, RebroadcastAccepted,
         RebroadcastRefused, RetireC, SignStart, Sign, Persist, Send, Wait, Catch, FailSweep
    <2> QED
      BY <1>1, <1>2, <2>2
  <1> QED
    BY <1>6, <1>7, <1>8, <1>9, <1>10, <1>12, <1>13, <1>14, <1>15 DEF Handler

LEMMA HandlersTakeAllKept ==
  ASSUME TypeInv, TypeInv', SweepInv, AssetsAgree, [Next]_vars, ~late', ~uncancelled',
         wallet \in {"RETIRING", "RETIRED"}, RowsTakeAll, \A q \in Requests : HandlerTakesAll(req[q]),
         NEW r \in Requests
  PROVE  HandlerTakesAll(req[r])'
  <1>0. Fee \in Nat /\ token \in Nat /\ eth \in Nat /\ req[r] \in Request
        /\ token' \in Nat /\ eth' \in Nat /\ token' <= token /\ eth' <= eth
    BY BoundsAreNat, FeeIsPositive, BalancesFall DEF TypeInv, TypeOK
  <1>1. HandlerTakesAll(req[r])
    OBVIOUS
  <1>2. CASE req'[r] = req[r]
    <2>1. CASE req[r].pc = "open"
      <3>1. TakesAll(req[r].asset, req[r].amount) /\ req[r].amount \in Nat
        BY <1>0, <1>1, <2>1 DEF HandlerTakesAll, Request
      <3> QED
        BY <1>2, <2>1, <3>1, TakesAllStays DEF HandlerTakesAll, TakesAll
    <2>2. CASE req[r].pc # "open"
      BY <1>0, <1>1, <1>2, <2>2 DEF HandlerTakesAll
    <2> QED
      BY <2>1, <2>2
  <1>3. CASE req'[r] # req[r] /\ (CancelRead(r) \/ CallLast(r) \/ Handler(r))
    <2>1. NextTakesAll(r)
      BY <1>1, <1>3, HandlerStepTakesAll
    <2>2. UNCHANGED <<eth, token>>
      BY <1>3, HandlerKeepsBalances
    <2> QED
      BY <2>1, <2>2, TokenStaysSwept DEF NextTakesAll, HandlerTakesAll, TakesAll
  <1>4. CASE Crash
    BY <1>4, IdleIsRequest DEF Crash, Restart, HandlerTakesAll
  <1>5. \/ UNCHANGED req \/ Crash
        \/ \E q \in Requests : CancelRead(q) \/ CallLast(q) \/ Handler(q)
    BY DEF Next, vars, StartEmergency, Deposit, Age, MineSweep, DropSweep
  <1> QED
    BY <1>2, <1>3, <1>4, <1>5, OthersWait

LEMMA EmptyInvKept ==
  ASSUME TypeInv, TypeInv', SweepInv, SweepInv', AssetsAgree, EmptyInv, [Next]_vars
  PROVE  EmptyInv'
  <1> SUFFICES ASSUME ~late', ~uncancelled'
               PROVE  /\ wallet' \in {"RETIRING", "RETIRED"} \/ NotBegun'
                      /\ RowsTakeAll'
                      /\ \A r \in Requests : HandlerTakesAll(req[r])'
                      /\ wallet' = "RETIRED" => token' = 0 /\ eth' <= Fee
    BY DEF EmptyInv
  <1>1. ~late /\ ~uncancelled
    BY BalancesFall
  <1>2. CASE wallet \notin {"RETIRING", "RETIRED"}
    <2>1. /\ DOMAIN sweep' = {}
          /\ wallet' # "RETIRED"
          /\ wallet' = "RETIRING" \/ NotBegun'
          /\ \A r \in Requests : req'[r].pc \notin Entered \ {"token", "rebroadcast"}
      BY <1>1, <1>2, LockIsFirst DEF EmptyInv
    <2>2. RowsTakeAll'
      BY <2>1 DEF RowsTakeAll
    <2>3. \A r \in Requests : HandlerTakesAll(req[r])'
      BY <2>1 DEF HandlerTakesAll, Entered
    <2> QED
      BY <2>1, <2>2, <2>3
  <1>3. CASE wallet \in {"RETIRING", "RETIRED"}
    <2>1. /\ RowsTakeAll
          /\ \A r \in Requests : HandlerTakesAll(req[r])
          /\ wallet = "RETIRED" => token = 0 /\ eth <= Fee
      BY <1>1 DEF EmptyInv
    <2>2. RowsTakeAll'
      BY <1>3, <2>1, RowsTakeAllKept
    <2>3. \A r \in Requests : HandlerTakesAll(req[r])'
      BY <1>3, <2>1, HandlersTakeAllKept
    <2>4. /\ wallet' \in {"RETIRING", "RETIRED"}
          /\ eth' \in Nat /\ eth' <= eth
          /\ token' \in Nat /\ token' <= token
      BY <1>3, BalancesFall
    <2>5. ASSUME wallet' = "RETIRED"
          PROVE  token' = 0 /\ eth' <= Fee
      <3>1. token = 0 /\ eth <= Fee
        <4>1. CASE wallet = "RETIRED"
          BY <2>1, <4>1
        <4>2. CASE wallet # "RETIRED"
          <5>1. PICK r \in Requests : Retire(r)
            BY <2>5, <4>2, WalletSteps DEF StartEmergency, CancelWrite, LockTx, rowVars
          <5> QED
            BY <2>1, <5>1 DEF Retire, At, HandlerTakesAll
        <4> QED
          BY <4>1, <4>2
      <3> QED
        BY <2>4, <3>1, BoundsAreNat, FeeIsPositive DEF TypeInv, TypeOK
    <2> QED
      BY <2>2, <2>3, <2>4, <2>5
  <1> QED
    BY <1>2, <1>3

LEMMA EmptyInvariant == Spec => []EmptyInv
  <1>1. Init => EmptyInv
    <2> SUFFICES ASSUME Init PROVE EmptyInv
      OBVIOUS
    <2>1. DOMAIN sweep = {} /\ wallet = "ACTIVE"
      BY DEF Init, RowInit
    <2>2. \A r \in Requests : req[r].pc = "idle"
      BY IdleIsRequest DEF Init
    <2> QED
      BY <2>1, <2>2 DEF EmptyInv, NotBegun, RowsTakeAll, HandlerTakesAll, Entered, Working
  <1>2. TypeInv /\ TypeInv' /\ SweepInv /\ SweepInv' /\ AssetsAgree /\ EmptyInv /\ [Next]_vars => EmptyInv'
    BY EmptyInvKept
  <1> QED
    BY <1>1, <1>2, TypeInvariant, SweepInvariant, AssetsAgreeInvariant, PTL DEF Spec

\* For any balances and fees, whatever fails, restarts, reverts or is called
\* twice: a last withdraw that reached RETIRED left no token and no more ETH
\* than the fee of one transfer, but for late deposits and a cancel that
\* overwrote RETIRING.
THEOREM RetiredWalletIsEmpty == Spec => []RetiredIsEmpty
  <1>1. EmptyInv => RetiredIsEmpty
    BY DEF EmptyInv, RetiredIsEmpty
  <1> QED
    BY <1>1, EmptyInvariant, PTL

-----------------------------------------------------------------------------
(* Nonces of the sweeps: StoredIsSendable *)

LEMMA ChainStepsOfTxs ==
  ASSUME TypeInv, [Next]_vars
  PROVE  \/ UNCHANGED chainVars
         \/ \E t \in Txs : Mine(t) \/ Drop(t)
         \/ \E t \in Txs, n \in Nonces : Submit(t, n)
  <1>1. ASSUME NEW s \in DOMAIN sweep, MineSweep(s) \/ DropSweep(s)
        PROVE  s \in Txs /\ (Mine(s) \/ Drop(s))
    BY <1>1, SweepDomain DEF TypeInv, MineSweep, DropSweep
  <1>2. ASSUME NEW r \in Requests, RebroadcastAccepted(r) \/ Send(r)
        PROVE  UNCHANGED chainVars \/ \E t \in Txs, n \in Nonces : Submit(t, n)
    <2>1. req[r].sweep \in DOMAIN sweep
      BY <1>2, SweepDomain DEF RebroadcastAccepted, Send, At, Working, TypeInv, HandlersHaveSweeps, HasSweep
    <2>2. req[r].sweep \in Txs /\ sweep[req[r].sweep].nonce \in Nonces
      BY <2>1, SweepDomain DEF TypeInv, SweepRow
    <2> QED
      BY <1>2, <2>2 DEF RebroadcastAccepted, Send
  <1> QED
    BY <1>1, <1>2, ChainSteps

\* The network knows only sweeps that have a row.
KnownAreSweeps == \A t \in Txs : txState[t] # "none" => t \in DOMAIN sweep

LEMMA KnownAreSweepsKept ==
  ASSUME TypeInv, KnownAreSweeps, [Next]_vars
  PROVE  KnownAreSweeps'
  <1> SUFFICES ASSUME NEW t \in Txs, txState'[t] # "none"
               PROVE  t \in DOMAIN sweep'
    BY DEF KnownAreSweeps
  <1>1. t \in DOMAIN sweep
    <2>1. CASE txState[t] # "none"
      BY <2>1 DEF KnownAreSweeps
    <2>2. CASE txState[t] = "none"
      BY <2>2, ChainEffectHolds, SweepDomain DEF ChainEffect, TypeInv, HandlersHaveSweeps, HasSweep, Working
    <2> QED
      BY <2>1, <2>2
  <1> QED
    BY <1>1, HashStays

\* A mined transaction keeps its nonce.
LEMMA MinedKeepNonce ==
  ASSUME TypeInv, [Next]_vars, NEW t \in Mined
  PROVE  txNonce'[t] = txNonce[t]
  BY ChainStepsOfTxs, MineEffect, DropEffect, SubmitEffect DEF chainVars, TypeInv, TypeOK

LEMMA NonceInvariant == Spec => [](NonceOrder /\ KnownAreSweeps)
  <1>1. Init => NonceOrder /\ KnownAreSweeps
    BY NonceOrderInit DEF Init, ChainInit, KnownAreSweeps
  <1>2. TypeInv /\ NonceOrder /\ KnownAreSweeps /\ [Next]_vars => (NonceOrder /\ KnownAreSweeps)'
    BY ChainStepsOfTxs, NonceOrderKept, KnownAreSweepsKept DEF TypeInv, TypeOK
  <1> QED
    BY <1>1, <1>2, TypeInvariant, PTL DEF Spec

\* Every token sweep that succeeded has a smaller nonce.
AfterTokens(n) == \A t \in Of("ERC20") : txState[t] = "success" => txNonce[t] < n

\* ETH is prepared when no token is left, so after the nonces of its sweeps.
EthFollowsTokens ==
  ~late /\ ~uncancelled =>
    /\ \A s \in Of("ETH") : IsSkipRow(s) \/ AfterTokens(sweep[s].nonce)
    /\ \A r \in Requests : At(r, "open") /\ req[r].asset = "ETH" => AfterTokens(req[r].nonce)

\* With no token left no further token sweep succeeds.
LEMMA AfterTokensStays ==
  ASSUME TypeInv, SweepInv, SweepInv', RowsTakeAll, [Next]_vars, token = 0, NEW n \in Nat, AfterTokens(n),
         TypeInv'
  PROVE  \A t \in Of("ERC20")' : txState'[t] = "success" => txNonce'[t] < n
  <1> SUFFICES ASSUME NEW t \in DOMAIN sweep', sweep'[t].asset = "ERC20", txState'[t] = "success"
               PROVE  txNonce'[t] < n
    BY DEF Of
  <1>1. t \in DOMAIN sweep
    <2>1. t \in Sweeps
      <3>1. Len(sweep') \in Nat /\ DOMAIN sweep' = 1..Len(sweep') /\ Len(sweep') <= MaxSweeps
        BY LenProperties DEF TypeInv, TypeOK
      <3> QED
        BY <3>1, BoundsAreNat DEF Sweeps
    <2>2. sweep'[t].txHash
      BY <2>1 DEF SweepInv, SentIsPersisted
    <2> QED
      BY <2>2, NewRowEffect DEF NewSweep
  <1>2. sweep[t].asset = "ERC20" /\ t \in Txs
    BY <1>1, HashStays, SweepDomain DEF TypeInv
  <1>3. CASE txState[t] = "success"
    <2>1. t \in Mined /\ txNonce[t] < n
      BY <1>1, <1>2, <1>3 DEF AfterTokens, Of, Mined
    <2> QED
      BY <2>1, MinedKeepNonce
  <1>4. CASE txState[t] # "success"
    <2>1. MineSweep(t)
      BY <1>2, <1>4, SuccessIsMined
    <2>2. token >= sweep[t].amount /\ sweep[t].amount \in Nat
      BY <1>1, <1>2, <2>1, MinedBalances, SweepDomain DEF TypeInv, SweepRow
    <2>3. sweep[t].amount > 0
      BY <1>1, <1>2 DEF RowsTakeAll, TakesAll
    <2> QED
      BY <2>2, <2>3
  <1> QED
    BY <1>3, <1>4

\* A handler goes on to open an ETH row from prepareFullBalanceTransfer only.
LEMMA OpensPrepared ==
  ASSUME TypeInv, NEW r \in Requests, CancelRead(r) \/ CallLast(r) \/ Handler(r),
         req'[r].pc = "open", req'[r].asset = "ETH"
  PROVE  req'[r] = req[r] \/ (PrepEth(r) /\ Prepared(r, "ETH", eth - Fee))
  <1> DEFINE Others == Pcs \ {"open"}
  <1>0. req \in [Requests -> Request] /\ req[r] \in Request
    BY DEF TypeInv, TypeOK
  <1>1. ASSUME NEW pc \in Others, Goto(r, pc)
        PROVE  FALSE
    BY <1>0, <1>1 DEF Goto, Request
  <1>2. ASSUME NEW pc \in Others, NEW b \in BOOLEAN, req' = [req EXCEPT ![r] = Enter(pc, b)]
        PROVE  FALSE
    BY <1>0, <1>2 DEF Enter, Idle
  <1>3. ~Return(r)
    BY <1>0, IdleIsRequest DEF Return
  <1>4. {"cancel", "precheck", "lock", "eth", "prepToken", "prepEth", "skip", "retire", "retireC", "sign", "persist",
         "send", "wait", "execute", "catch", "failSweep"} \subseteq Others
    BY DEF Pcs
  <1>5. ~PrepToken(r)
    <2>1. ~Prepared(r, "ERC20", token)
      BY PreparedFields
    <2> QED
      BY <1>2, <1>3, <1>4, <2>1 DEF PrepToken
  <1>6. ASSUME PrepEth(r)
        PROVE  Prepared(r, "ETH", eth - Fee)
    BY <1>1, <1>3, <1>4, <1>6 DEF PrepEth
  <1>7. ~(Token(r) \/ Execute(r))
    <2>1. NextAfter(req[r].asset) \in {Enter("eth", TRUE), Enter("retire", FALSE)}
      BY DEF NextAfter
    <2> QED
      BY <1>2, <1>3, <1>4, <2>1 DEF Token, Execute
  <1>8. ~Open(r)
    <2>1. NextAfter(req[r].asset) \in {Enter("eth", TRUE), Enter("retire", FALSE)}
      BY DEF NextAfter
    <2>2. ~OpensRow(r)
      BY <1>0 DEF OpensRow, Idle
    <2> QED
      BY <1>2, <1>3, <1>4, <2>1, <2>2 DEF Open, OpensRow, SettleClear, FoundExecuted
  <1>9. ~LockTx(r)
    <2>1. req' # [req EXCEPT ![r].pc = IF SettleClear THEN "token" ELSE "rebroadcast",
                             ![r].sweep = IF SettleClear THEN 0 ELSE FirstBlocking]
      BY <1>0 DEF Request
    <2> QED
      BY <1>3, <2>1 DEF LockTx
  <1>10. ASSUME \/ CancelRead(r) \/ CallLast(r) \/ CancelWrite(r) \/ Precheck(r) \/ RebroadcastAccepted(r)
                \/ RebroadcastRefused(r) \/ Eth(r) \/ Skip(r) \/ Retire(r) \/ RetireC(r) \/ SignStart(r)
                \/ Sign(r) \/ Persist(r) \/ Send(r) \/ Wait(r) \/ Catch(r) \/ FailSweep(r)
         PROVE  req'[r] = req[r]
    <2>1. UNCHANGED req \/ Return(r) \/ \E pc \in Others : Goto(r, pc)
      BY <1>4, <1>10 DEF CancelRead, CallLast, CancelWrite, Precheck, RebroadcastAccepted, RebroadcastRefused,
         Eth, Skip, Retire, RetireC, SignStart, Sign, Persist, Send, Wait, Catch, FailSweep
    <2> QED
      BY <1>1, <1>3, <2>1
  <1> QED
    BY <1>5, <1>6, <1>7, <1>8, <1>9, <1>10 DEF Handler

LEMMA EthFollowsTokensKept ==
  ASSUME TypeInv, TypeInv', SweepInv, SweepInv', PromptInv, EmptyInv, NonceOrder, EthFollowsTokens, [Next]_vars
  PROVE  EthFollowsTokens'
  <1> DEFINE NowAfter(n) == \A t \in Of("ERC20")' : txState'[t] = "success" => txNonce'[t] < n
  <1> SUFFICES ASSUME ~late', ~uncancelled'
               PROVE  /\ \A s \in DOMAIN sweep' : sweep'[s].asset = "ETH" =>
                           \/ sweep'[s].status = "EXECUTED" /\ ~sweep'[s].txHash
                           \/ NowAfter(sweep'[s].nonce)
                      /\ \A r \in Requests : req'[r].pc = "open" /\ req'[r].asset = "ETH" =>
                           NowAfter(req'[r].nonce)
    BY DEF EthFollowsTokens, Of, At, IsSkipRow, Status, AfterTokens
  <1>1. ~late /\ ~uncancelled
    BY BalancesFall
  <1>2. CASE wallet \notin {"RETIRING", "RETIRED"}
    <2>1. DOMAIN sweep' = {} /\ \A r \in Requests : req'[r].pc # "open"
      BY <1>1, <1>2, LockIsFirst DEF EmptyInv, Entered, Working
    <2> QED
      BY <2>1
  <1>3. CASE wallet \in {"RETIRING", "RETIRED"}
    <2>0. /\ RowsTakeAll /\ Nonces \subseteq Nat
          /\ \A s \in DOMAIN sweep : sweep[s].nonce \in Nat
          /\ \A r \in Requests : req[r].nonce \in Nat /\ HandlerTakesAll(req[r])
      BY <1>1, <1>3, TxsFinite, FS_CardinalityType, SweepDomain
         DEF EmptyInv, Nonces, SweepRow, TypeInv, TypeOK, Request
    <2>1. ASSUME token = 0, NEW n \in Nat, AfterTokens(n)
          PROVE  NowAfter(n)
      BY <2>0, <2>1, AfterTokensStays
    <2> HIDE DEF NowAfter
    <2>2. ASSUME NEW r \in Requests, req[r].pc = "open", req[r].asset = "ETH"
          PROVE  NowAfter(req[r].nonce)
      BY <1>1, <2>0, <2>1, <2>2 DEF HandlerTakesAll, TakesAll, At, EthFollowsTokens
    <2>3. ASSUME NEW s \in DOMAIN sweep', sweep'[s].asset = "ETH",
                 ~(sweep'[s].status = "EXECUTED" /\ ~sweep'[s].txHash)
          PROVE  NowAfter(sweep'[s].nonce)
      <3>1. CASE s \in DOMAIN sweep
        <4>1. s \in Of("ETH") /\ sweep'[s].nonce = sweep[s].nonce
          BY <2>3, <3>1, HashStays DEF Of
        <4>2. token = 0
          BY <2>0, <4>1 DEF RowsTakeAll, TakesAll, Of
        <4>3. ~IsSkipRow(s)
          BY <2>3, <3>1, PromptRow DEF IsSkipRow, Status
        <4> QED
          BY <1>1, <2>0, <2>1, <3>1, <4>1, <4>2, <4>3 DEF EthFollowsTokens
      <3>2. CASE s \notin DOMAIN sweep
        <4>1. PICK r \in Requests : /\ OpensRow(r)
                                    /\ sweep'[s] = NewSweep(req[r].asset, "PROCESSING", req[r].amount, req[r].nonce)
          BY <2>3, <3>2, NewRowEffect DEF NewSweep
        <4> QED
          BY <2>2, <2>3, <4>1 DEF OpensRow, NewSweep, At
      <3> QED
        BY <3>1, <3>2
    <2>4. ASSUME NEW r \in Requests, req'[r].pc = "open", req'[r].asset = "ETH"
          PROVE  NowAfter(req'[r].nonce)
      <3>1. CASE req'[r] = req[r]
        BY <2>2, <2>4, <3>1
      <3>2. CASE PrepEth(r) /\ Prepared(r, "ETH", eth - Fee)
        <4>1. req'[r].nonce \in Nonces /\ IsPendingNonce(req'[r].nonce)
          BY <3>2, PreparedFields
        <4>2. \A t \in Mined : txNonce[t] < req'[r].nonce
          BY <4>1, PendingNonceIsFree DEF TypeInv, TypeOK
        <4>3. UNCHANGED <<sweep, txState, txNonce>>
          BY <3>2 DEF PrepEth, chainVars
        <4>4. DOMAIN sweep \subseteq Txs
          BY SweepDomain DEF TypeInv
        <4> QED
          BY <4>2, <4>3, <4>4 DEF NowAfter, Of, Mined
      <3>3. CASE Crash
        BY <2>4, <3>3, IdleIsRequest DEF Crash, Restart
      <3>4. \/ UNCHANGED req \/ Crash
            \/ \E q \in Requests : CancelRead(q) \/ CallLast(q) \/ Handler(q)
        BY DEF Next, vars, StartEmergency, Deposit, Age, MineSweep, DropSweep
      <3> QED
        BY <2>4, <3>1, <3>2, <3>3, <3>4, OthersWait, OpensPrepared
    <2> QED
      BY <2>3, <2>4
  <1> QED
    BY <1>2, <1>3

LEMMA EthFollowsTokensInvariant == ASSUME "slow" \notin Faults PROVE Spec => []EthFollowsTokens
  <1>1. Init => EthFollowsTokens
    <2> SUFFICES ASSUME Init PROVE EthFollowsTokens
      OBVIOUS
    <2>1. DOMAIN sweep = {}
      BY DEF Init
    <2>2. \A r \in Requests : req[r].pc = "idle"
      BY IdleIsRequest DEF Init
    <2> QED
      BY <2>1, <2>2 DEF EthFollowsTokens, Of, At
  <1>2. /\ TypeInv /\ TypeInv' /\ SweepInv /\ SweepInv' /\ PromptInv /\ EmptyInv /\ NonceOrder
        /\ EthFollowsTokens /\ [Next]_vars
        => EthFollowsTokens'
    BY EthFollowsTokensKept
  <1>3. NonceOrder /\ KnownAreSweeps => NonceOrder
    OBVIOUS
  <1> QED
    BY <1>1, <1>2, <1>3, TypeInvariant, SweepInvariant, PromptInvariant, EmptyInvariant, NonceInvariant, PTL
    DEF Spec

\* Of an asset at most one transaction can still succeed or has succeeded.
LEMMA SuccessIsOnly ==
  ASSUME TypeInv, SweepInv, PromptInv, NEW s \in DOMAIN sweep, NEW t \in DOMAIN sweep, s # t,
         sweep[s].asset = sweep[t].asset, txState[t] = "success"
  PROVE  Status(s) # "BROADCASTED"
  <1>1. sweep[t].txHash
    BY SweepDomain DEF TypeInv, SweepInv, SentIsPersisted
  <1>2. Live(t) /\ ~IsSkipRow(t)
    BY <1>1 DEF PromptInv, StoredIsTracked, Live, IsSkipRow
  <1>3. s < t \/ t < s
    BY SweepDomain DEF TypeInv
  <1> QED
    BY <1>2, <1>3 DEF PromptInv, LiveIsLast, Live, IsSkipRow

\* While signing takes less than the stale limit, a stored sweep that waits for
\* its receipt can be sent again: its nonce is unused, or a sweep that reverted
\* used it, or, after a late deposit or an overwritten RETIRING, the transfer
\* of the other asset.
THEOREM StoredSweepIsSendable == Spec => []StoredIsSendable
  <1>1. CASE "slow" \in Faults
    <2>1. StoredIsSendable
      BY <1>1 DEF StoredIsSendable
    <2> QED
      BY <2>1, PTL
  <1>2. CASE "slow" \notin Faults
    <2>1. TypeInv /\ SweepInv /\ PromptInv /\ EmptyInv /\ NonceOrder /\ KnownAreSweeps /\ EthFollowsTokens
          => StoredIsSendable
      <3> SUFFICES ASSUME TypeInv, SweepInv, PromptInv, EmptyInv, NonceOrder, KnownAreSweeps, EthFollowsTokens,
                          NEW s \in DOMAIN sweep, Status(s) = "BROADCASTED", ~HasReceipt(s),
                          ~(sweep[s].nonce >= AccountNonce)
                   PROVE  Overtaken(s)
        BY DEF StoredIsSendable
      <3>1. sweep[s].nonce \in Nat /\ sweep[s].amount \in Nat /\ sweep[s].asset \in {"ERC20", "ETH"}
        BY SweepDomain, TxsFinite, FS_CardinalityType DEF TypeInv, SweepRow, Nonces, Assets
      <3>2. PICK t \in Mined : txNonce[t] = sweep[s].nonce
        BY <3>1, AccountNonceType DEF NonceOrder
      <3>3. t \in DOMAIN sweep /\ t \in Sweeps /\ t # s /\ sweep[t].asset \in {"ERC20", "ETH"}
        BY SweepDomain DEF KnownAreSweeps, Mined, HasReceipt, TypeInv, SweepRow, Assets
      <3>4. CASE txState[t] = "reverted"
        BY <3>2, <3>3, <3>4 DEF Overtaken
      <3>5. CASE txState[t] = "success"
        <4>1. sweep[t].asset # sweep[s].asset
          BY <3>3, <3>5, SuccessIsOnly
        <4>2. CASE late \/ uncancelled
          BY <3>2, <3>3, <3>5, <4>1, <4>2 DEF Overtaken
        <4>3. CASE ~late /\ ~uncancelled
          <5>1. ~(sweep[s].asset = "ETH" /\ sweep[t].asset = "ERC20")
            BY <3>1, <3>2, <3>3, <3>5, <4>3 DEF EthFollowsTokens, AfterTokens, Of, IsSkipRow
          <5>2. ASSUME sweep[s].asset = "ERC20", sweep[t].asset = "ETH"
                PROVE  FALSE
            <6>1. TokenSucceeded
              BY <3>1, <3>3, <4>3, <5>2 DEF EmptyInv, RowsTakeAll, TakesAll
            <6>2. PICK u \in DOMAIN sweep : sweep[u].asset = "ERC20" /\ txState[u] = "success"
              BY <6>1 DEF TokenSucceeded, Of
            <6>3. u # s
              BY <6>2 DEF HasReceipt
            <6> QED
              BY <5>2, <6>2, <6>3, SuccessIsOnly
          <5> QED
            BY <3>1, <3>3, <4>1, <5>1, <5>2
        <4> QED
          BY <4>2, <4>3
      <3> QED
        BY <3>4, <3>5 DEF Mined
    <2> QED
      BY <1>2, <2>1, TypeInvariant, SweepInvariant, PromptInvariant, EmptyInvariant, NonceInvariant,
         EthFollowsTokensInvariant, PTL
  <1> QED
    BY <1>1, <1>2

-----------------------------------------------------------------------------
(* The rows keep the promise of LastSweep *)

\* A sweep that is under way or done is live, and its row has its hash.
LEMMA StageOfRow ==
  ASSUME TypeInv, SweepInv, PromptInv, NEW s \in DOMAIN sweep, Stage(s) # "held"
  PROVE  /\ sweep[s].txHash /\ Live(s) /\ ~IsSkipRow(s)
         /\ Stage(s) # "swept" => s \in OpenSweeps
  <1>1. s \in Sweeps /\ s \in Txs /\ txState[s] \in TxStates
    BY SweepDomain DEF TypeInv, TypeOK, ChainTypeOK
  <1>2. sweep[s].txHash
    BY <1>1 DEF Stage, SweepInv, SentIsPersisted
  <1>3. Status(s) = "BROADCASTED" \/ (Status(s) = "EXECUTED" /\ txState[s] = "success")
    BY <1>2 DEF Stage, PromptInv, StoredIsTracked
  <1> QED
    BY <1>2, <1>3 DEF Live, IsSkipRow, OpenSweeps, Stage

\* So the asset of a live sweep is as far as that sweep.
LEMMA OneStage ==
  ASSUME TypeInv, SweepInv, PromptInv, NEW s \in DOMAIN sweep, NEW t \in DOMAIN sweep,
         sweep[s].asset = sweep[t].asset, s # t, Live(s), ~IsSkipRow(s)
  PROVE  Stage(t) = "held"
  <1>1. s < t \/ t < s
    BY SweepDomain DEF TypeInv
  <1> QED
    BY <1>1, StageOfRow DEF PromptInv, LiveIsLast

Stored(asset) == {s \in Of(asset) : sweep[s].txHash}

PhaseFollowsStage ==
  \A a \in Assets : /\ (\A s \in Of(a) : Stage(s) = "held") => Phase(a) = "held"
                    /\ \A s \in Of(a) : Stage(s) # "held" => Phase(a) = Stage(s)

LEMMA PhaseIsStage == TypeInv /\ SweepInv /\ PromptInv => PhaseFollowsStage
  <1> SUFFICES ASSUME TypeInv, SweepInv, PromptInv, NEW a \in Assets
               PROVE  /\ (\A s \in Of(a) : Stage(s) = "held") => Phase(a) = "held"
                      /\ \A s \in Of(a) : Stage(s) # "held" => Phase(a) = Stage(s)
    BY DEF PhaseFollowsStage
  <1> DEFINE newest == CHOOSE s \in Stored(a) : \A t \in Stored(a) : t <= s
  <1>1. ASSUME Stored(a) # {}
        PROVE  newest \in Stored(a) /\ \A t \in Stored(a) : t <= newest
    <2>1. Stored(a) \in SUBSET (0..Len(sweep)) /\ Len(sweep) \in Nat
      BY SweepDomain DEF TypeInv, Stored, Of
    <2>2. \E s \in Stored(a) : \A t \in Stored(a) : t <= s
      BY <1>1, <2>1, GreatestExists
    <2> QED
      BY <2>2
  <1>2. Phase(a) = IF Stored(a) = {} THEN "held" ELSE Stage(newest)
    BY DEF Phase, Stored
  <1> HIDE DEF newest
  <1>3. ASSUME \A s \in Of(a) : Stage(s) = "held"
        PROVE  Phase(a) = "held"
    BY <1>1, <1>2, <1>3 DEF Stored
  <1>4. ASSUME NEW s \in Of(a), Stage(s) # "held"
        PROVE  Phase(a) = Stage(s)
    <2>1. s \in DOMAIN sweep /\ sweep[s].asset = a /\ s \in Stored(a) /\ Live(s)
      BY <1>4, StageOfRow DEF Of, Stored
    <2>2. newest \in DOMAIN sweep /\ sweep[newest].asset = a /\ sweep[newest].txHash /\ s <= newest
      BY <1>1, <2>1 DEF Stored, Of
    <2>3. ~(s < newest)
      BY <2>1, <2>2 DEF PromptInv, LiveIsLast, IsSkipRow
    <2>4. newest = s
      BY <2>1, <2>2, <2>3, SweepDomain DEF TypeInv
    <2> QED
      BY <1>2, <2>1, <2>4
  <1> QED
    BY <1>3, <1>4

LEMMA PhaseIsStageNext == (TypeInv /\ SweepInv /\ PromptInv => PhaseFollowsStage)'
  BY PhaseIsStage, PTL

LEMMA NewRowIsHeld ==
  ASSUME TypeInv, TypeInv', SweepInv', [Next]_vars, NEW s \in DOMAIN sweep', s \notin DOMAIN sweep
  PROVE  Stage(s)' = "held"
  <1>1. ~sweep'[s].txHash
    BY NewRowEffect DEF NewSweep
  <1>2. s \in Sweeps
    <2>1. Len(sweep') \in Nat /\ DOMAIN sweep' = 1..Len(sweep') /\ Len(sweep') <= MaxSweeps
      BY LenProperties DEF TypeInv, TypeOK
    <2> QED
      BY <2>1, BoundsAreNat DEF Sweeps
  <1>3. txState'[s] = "none"
    BY <1>1, <1>2 DEF SweepInv, SentIsPersisted
  <1> QED
    BY <1>1, <1>3 DEF Stage

\* One sweep advances, the others stay as far as they are.
AdvancesSweep(s) ==
  /\ <<Stage(s), Stage(s)'>> \in Promise!Steps
  /\ Stage(s)' = "stored" =>
       \A t \in DOMAIN sweep : /\ Stage(t) \notin {"stored", "moving"}
                               /\ sweep[t].asset = sweep[s].asset => Stage(t) = "held"
  /\ \A t \in DOMAIN sweep \ {s} : Stage(t)' = Stage(t)

StagesStay == \A s \in DOMAIN sweep : Stage(s)' = Stage(s)

\* Without the network: the update that stores the hash of a sweep.
LEMMA StoreStages ==
  ASSUME TypeInv, SweepInv, PromptInv, [Next]_vars, UNCHANGED chainVars
  PROVE  StagesStay \/ \E s \in DOMAIN sweep : AdvancesSweep(s)
  <1>1. CASE \A s \in DOMAIN sweep : sweep'[s].txHash <=> sweep[s].txHash
    BY <1>1 DEF StagesStay, Stage, chainVars
  <1>2. ASSUME NEW s \in DOMAIN sweep, ~(sweep'[s].txHash <=> sweep[s].txHash)
        PROVE  AdvancesSweep(s)
    <2>1. ASSUME NEW t \in DOMAIN sweep, ~(sweep'[t].txHash <=> sweep[t].txHash)
          PROVE  Status(t) = "PROCESSING" /\ ~sweep[t].txHash /\ sweep'[t].txHash
      <3>1. Status(t) = "PROCESSING" => ~sweep[t].txHash
        BY DEF SweepInv, HashFollowsStatus
      <3> QED
        BY <2>1, <3>1, PromptRow
    <2>2. Status(s) = "PROCESSING" /\ ~sweep[s].txHash /\ sweep'[s].txHash
      BY <1>2, <2>1
    <2>3. s \in OpenSweeps /\ Live(s) /\ ~IsSkipRow(s)
      BY <2>2 DEF OpenSweeps, Live, IsSkipRow
    <2>4. txState[s] = "none"
      BY <2>2, SweepDomain DEF SweepInv, SentIsPersisted, TypeInv
    <2>5. Stage(s) = "held" /\ Stage(s)' = "stored"
      BY <2>2, <2>4 DEF Stage, chainVars
    <2>6. ASSUME NEW t \in DOMAIN sweep, t # s
          PROVE  /\ Stage(t) \notin {"stored", "moving"}
                 /\ sweep[t].asset = sweep[s].asset => Stage(t) = "held"
                 /\ Stage(t)' = Stage(t)
      <3>1. t \notin OpenSweeps
        BY <2>3, <2>6 DEF PromptInv, OneOpenSweep
      <3>2. Stage(t) \in {"held", "swept"}
        BY <3>1, StageOfRow DEF Stage
      <3>3. sweep'[t].txHash <=> sweep[t].txHash
        BY <2>1, <3>1 DEF OpenSweeps
      <3> QED
        BY <2>3, <2>6, <3>2, <3>3, OneStage DEF Stage, chainVars
    <2>7. <<Stage(s), Stage(s)'>> \in Promise!Steps
      BY <2>5 DEF Promise!Steps
    <2> QED
      BY <2>5, <2>6, <2>7 DEF AdvancesSweep
  <1> QED
    BY <1>1, <1>2

\* The network: a block decides a sweep, or the pool takes or drops one.
LEMMA ChainStages ==
  ASSUME TypeInv, SweepInv, [Next]_vars
  PROVE  UNCHANGED chainVars \/ StagesStay \/ \E s \in DOMAIN sweep : AdvancesSweep(s)
  <1>0. txState \in [Txs -> TxStates] /\ DOMAIN sweep \subseteq Txs
    BY SweepDomain DEF TypeInv, TypeOK, ChainTypeOK
  <1>1. ASSUME NEW s \in DOMAIN sweep, MineSweep(s)
        PROVE  AdvancesSweep(s)
    <2>1. UNCHANGED sweep /\ Mine(s)
      BY <1>1 DEF MineSweep
    <2>2. txState[s] \in {"pending", "dropped"} /\ txState'[s] \in {"success", "reverted"}
      BY <1>0, <2>1 DEF Mine
    <2>3. \A t \in DOMAIN sweep \ {s} : txState'[t] = txState[t] \/ (txState[t] = "pending" /\ txState'[t] = "dropped")
      BY <1>0, <2>1 DEF Mine, PendingAt
    <2>4. Stage(s) = "moving" /\ Stage(s)' \in {"swept", "held"}
      BY <2>1, <2>2 DEF Stage
    <2>5. \A t \in DOMAIN sweep \ {s} : Stage(t)' = Stage(t)
      BY <2>1, <2>3 DEF Stage
    <2> QED
      BY <2>4, <2>5 DEF AdvancesSweep, Promise!Steps
  <1>2. ASSUME NEW s \in DOMAIN sweep, DropSweep(s)
        PROVE  StagesStay
    BY <1>0, <1>2 DEF DropSweep, Drop, StagesStay, Stage
  <1>3. ASSUME NEW s \in DOMAIN sweep, NEW n, sweep[s].txHash, Submit(s, n), UNCHANGED sweep
        PROVE  StagesStay \/ AdvancesSweep(s)
    <2>1. txState[s] \in {"none", "dropped"} /\ txState'[s] = "pending"
      BY <1>0, <1>3 DEF Submit
    <2>2. \A t \in DOMAIN sweep \ {s} : txState'[t] = txState[t] \/ (txState[t] = "pending" /\ txState'[t] = "dropped")
      BY <1>0, <1>3 DEF Submit, PendingAt
    <2>3. \A t \in DOMAIN sweep \ {s} : Stage(t)' = Stage(t)
      BY <1>3, <2>2 DEF Stage
    <2>4. Stage(s) \in {"stored", "moving"} /\ Stage(s)' = "moving"
      BY <1>3, <2>1 DEF Stage
    <2> QED
      BY <2>3, <2>4 DEF StagesStay, AdvancesSweep, Promise!Steps
  <1>4. ASSUME NEW r \in Requests, RebroadcastAccepted(r) \/ Send(r)
        PROVE  UNCHANGED chainVars \/ StagesStay \/ \E s \in DOMAIN sweep : AdvancesSweep(s)
    <2>1. /\ UNCHANGED sweep
          /\ UNCHANGED chainVars \/ Submit(req[r].sweep, sweep[req[r].sweep].nonce)
          /\ At(r, "rebroadcast") \/ At(r, "send")
      BY <1>4 DEF RebroadcastAccepted, Send
    <2>2. req[r].sweep \in DOMAIN sweep /\ sweep[req[r].sweep].txHash
      BY <2>1, SweepDomain DEF TypeInv, HandlersHaveSweeps, HasSweep, Working, At, SweepInv, HandlerFacts
    <2> QED
      BY <1>3, <2>1, <2>2
  <1> QED
    BY <1>1, <1>2, <1>4, ChainSteps

\* Every step takes one asset a step of LastSweep further, or none.
LEMMA PhaseSteps ==
  ASSUME TypeInv, TypeInv', SweepInv, SweepInv', PromptInv, PhaseFollowsStage, PhaseFollowsStage', [Next]_vars
  PROVE  \/ \A a \in Assets : Phase(a)' = Phase(a)
         \/ \E a \in Assets :
               /\ <<Phase(a), Phase(a)'>> \in Promise!Steps
               /\ Phase(a)' = "stored" => \A b \in Assets : Phase(b) \notin {"stored", "moving"}
               /\ \A b \in Assets \ {a} : Phase(b)' = Phase(b)
  <1>1. /\ \A s \in DOMAIN sweep : /\ s \in DOMAIN sweep' /\ sweep'[s].asset = sweep[s].asset
                                   /\ sweep[s].asset \in Assets
        /\ \A s \in DOMAIN sweep' : s \notin DOMAIN sweep => Stage(s)' = "held"
    BY HashStays, NewRowIsHeld, SweepDomain DEF TypeInv, SweepRow
  <1>2. ASSUME NEW a \in Assets, \A s \in Of(a) : Stage(s)' = Stage(s)
        PROVE  Phase(a)' = Phase(a)
    <2>1. CASE \A s \in Of(a) : Stage(s) = "held"
      <3>1. \A s \in DOMAIN sweep' : sweep'[s].asset = a => Stage(s)' = "held"
        BY <1>1, <1>2, <2>1 DEF Of
      <3> QED
        BY <2>1, <3>1 DEF PhaseFollowsStage, Of
    <2>2. ASSUME NEW s \in Of(a), Stage(s) # "held"
          PROVE  Phase(a)' = Phase(a)
      <3>1. s \in DOMAIN sweep' /\ sweep'[s].asset = a /\ Stage(s)' = Stage(s)
        BY <1>1, <1>2, <2>2 DEF Of
      <3> QED
        BY <2>2, <3>1 DEF PhaseFollowsStage, Of
    <2> QED
      BY <2>1, <2>2
  <1>3. CASE StagesStay
    BY <1>2, <1>3 DEF StagesStay, Of
  <1>4. ASSUME NEW s \in DOMAIN sweep, AdvancesSweep(s), NEW a, a = sweep[s].asset
        PROVE  /\ a \in Assets
               /\ Phase(a) = Stage(s) /\ Phase(a)' = Stage(s)'
               /\ \A b \in Assets \ {a} : Phase(b)' = Phase(b)
    <2>1. a \in Assets /\ s \in Of(a) /\ s \in DOMAIN sweep' /\ sweep'[s].asset = a
      BY <1>1, <1>4 DEF Of
    <2>2. <<Stage(s), Stage(s)'>> \in {<<"held", "stored">>, <<"stored", "moving">>,
                                       <<"moving", "swept">>, <<"moving", "held">>}
      BY <1>4 DEF AdvancesSweep, Promise!Steps
    <2>3. \A b \in Assets \ {a} : Phase(b)' = Phase(b)
      BY <1>2, <1>4 DEF AdvancesSweep, Of
    <2>4. Phase(a) = Stage(s)
      <3>1. CASE Stage(s) = "held"
        <4>1. \A t \in Of(a) : Stage(t) = "held"
          BY <1>4, <2>2, <3>1 DEF AdvancesSweep, Of
        <4> QED
          BY <2>1, <3>1, <4>1 DEF PhaseFollowsStage
      <3> QED
        BY <2>1, <3>1 DEF PhaseFollowsStage
    <2>5. Phase(a)' = Stage(s)'
      <3>1. CASE Stage(s)' = "held"
        <4>1. Live(s) /\ ~IsSkipRow(s)
          BY <2>2, <3>1, StageOfRow
        <4>2. \A t \in Of(a) : t # s => Stage(t) = "held"
          BY <1>4, <4>1, OneStage DEF Of
        <4>3. \A t \in DOMAIN sweep' : sweep'[t].asset = a => Stage(t)' = "held"
          BY <1>1, <1>4, <3>1, <4>2 DEF AdvancesSweep, Of
        <4> QED
          BY <2>1, <3>1, <4>3 DEF PhaseFollowsStage, Of
      <3> QED
        BY <2>1, <3>1 DEF PhaseFollowsStage, Of
    <2> QED
      BY <2>1, <2>3, <2>4, <2>5
  <1>5. ASSUME NEW s \in DOMAIN sweep, AdvancesSweep(s), Stage(s)' = "stored", NEW b \in Assets
        PROVE  Phase(b) \notin {"stored", "moving"}
    <2>1. \A t \in Of(b) : Stage(t) \notin {"stored", "moving"}
      BY <1>5 DEF AdvancesSweep, Of
    <2> QED
      BY <2>1 DEF PhaseFollowsStage
  <1>6. StagesStay \/ \E s \in DOMAIN sweep : AdvancesSweep(s)
    BY StoreStages, ChainStages
  <1> QED
    BY <1>3, <1>4, <1>5, <1>6 DEF AdvancesSweep

\* The last withdraw keeps the promise of LastSweep for any number of rows,
\* requests, crashes, failed calls, dropped and reverted transactions: with
\* its rows, retries and rebroadcasts it never does more for an asset than
\* store, send, sweep and, after a revert, start again, one asset at a time.
THEOREM LastSweepIsKept == ASSUME "slow" \notin Faults PROVE Spec => ImplementsLastSweep
  <1> DEFINE bar == [a \in Assets |-> Phase(a)]
  <1>1. Init => Promise!Init
    BY DEF Init, Promise!Init, Phase, Of
  <1>2. /\ TypeInv /\ TypeInv' /\ SweepInv /\ SweepInv' /\ PromptInv /\ PromptInv' /\ [Next]_vars
        => [Promise!Next]_bar
    <2> SUFFICES ASSUME TypeInv, TypeInv', SweepInv, SweepInv', PromptInv, PromptInv', [Next]_vars
                 PROVE  [Promise!Next]_bar
      OBVIOUS
    <2>1. PhaseFollowsStage /\ PhaseFollowsStage'
      BY PhaseIsStage, PhaseIsStageNext
    <2>2. CASE \A a \in Assets : Phase(a)' = Phase(a)
      BY <2>2
    <2>3. ASSUME NEW a \in Assets,
                 <<Phase(a), Phase(a)'>> \in Promise!Steps,
                 Phase(a)' = "stored" => \A b \in Assets : Phase(b) \notin {"stored", "moving"},
                 \A b \in Assets \ {a} : Phase(b)' = Phase(b)
          PROVE  Promise!Next
      <3>1. \A b \in Assets : Phase(b)' \in Promise!Phases
        BY DEF Phase, Stage, Promise!Phases
      <3>2. Promise!Advance(a)
        BY <2>3 DEF Promise!Advance, Promise!InFlight
      <3> QED
        BY <3>1, <3>2 DEF Promise!Next
    <2> QED
      BY <2>1, <2>2, <2>3, PhaseSteps
  <1> QED
    BY <1>1, <1>2, TypeInvariant, SweepInvariant, PromptInvariant, PTL
    DEF Spec, ImplementsLastSweep, Promise!Spec

=============================================================================
