-------------------------- MODULE DkgSessionProofs --------------------------
(***************************************************************************)
(* Proofs about DkgSession for any number of wallet ids, concurrent calls  *)
(* and tabs, and any set of faults.                                        *)
(***************************************************************************)
EXTENDS DkgSession, TLAPS

Slot == [pc : Pcs \cup {"idle"}, w : Wallets \cup {NoWallet}, call : Calls, heard : BOOLEAN]

SlotsOK == /\ req \in [Requests -> Slot]
           /\ \A r \in Requests : req[r].pc # "idle" => req[r].w \in Wallets

BrowserOK == /\ browser \in [Wallets -> BrowserState]
             /\ partyA \in [Wallets -> 0 .. LastRound]

LEMMA IdleIsSlot == Idle \in Slot /\ Idle.pc = "idle"
  BY DEF Idle, Slot, Calls

LEMMA GotoType ==
  ASSUME SlotsOK, NEW r \in Requests, req[r].pc # "idle", NEW pc \in Pcs, Goto(r, pc)
  PROVE  SlotsOK'
  BY DEF SlotsOK, Slot, Goto

LEMMA ReturnType ==
  ASSUME SlotsOK, NEW r \in Requests, Return(r)
  PROVE  SlotsOK'
  BY IdleIsSlot DEF SlotsOK, Return

LEMMA AnswerType ==
  ASSUME BrowserOK, NEW w \in Wallets, NEW c \in Calls,
         Succeed(w, c) \/ Refuse(w, c) \/ UNCHANGED browserVars
  PROVE  BrowserOK'
  <1>1. CASE Succeed(w, c)
    BY <1>1 DEF BrowserOK, Succeed, WaitsFor, browserVars, BrowserState, Calls, LastRound
  <1>2. CASE Refuse(w, c)
    BY <1>2 DEF BrowserOK, Refuse, BrowserState
  <1>3. CASE UNCHANGED browserVars
    BY <1>3 DEF BrowserOK, browserVars
  <1> QED
    BY <1>1, <1>2, <1>3

\* A handler that goes on, answers or throws keeps the slots and the browsers
\* well typed.
LEMMA HandlerType ==
  ASSUME SlotsOK, BrowserOK, NEW r \in Requests, req[r].pc # "idle",
         \/ \E pc \in Pcs : Goto(r, pc) /\ UNCHANGED browserVars
         \/ Reply(r)
         \/ Fail(r)
  PROVE  SlotsOK' /\ BrowserOK'
  <1>1. req[r].w \in Wallets /\ req[r].call \in Calls
    BY DEF SlotsOK, Slot
  <1>2. CASE \E pc \in Pcs : Goto(r, pc) /\ UNCHANGED browserVars
    BY <1>1, <1>2, GotoType, AnswerType
  <1>3. CASE Reply(r)
    BY <1>1, <1>3, ReturnType, AnswerType DEF Reply
  <1>4. CASE Fail(r)
    BY <1>1, <1>4, ReturnType, AnswerType DEF Fail
  <1> QED
    BY <1>2, <1>3, <1>4

StartPcs == {"live", "startC", "round1C"}
CompletePcs == {"recheck", "find", "insert", "create", "audit"}

\* The awaits of one handler: it goes from one of start to one of start, and
\* from one of complete to one of complete.
SameHandler(p, q) == \/ p \in StartPcs /\ q \in StartPcs
                     \/ p \in CompletePcs /\ q \in CompletePcs

\* What one step of a handler may do to its slot and its browser.
LEMMA HandlerMoves ==
  ASSUME NEW r \in Requests, HandlerStep(r)
  PROVE  /\ req[r].pc # "idle"
         /\ \/ \E pc \in Pcs : /\ SameHandler(req[r].pc, pc)
                               /\ Goto(r, pc) /\ UNCHANGED browserVars
            \/ Reply(r)
            \/ Fail(r)
  <1> USE DEF At, Pcs, RecoveryPcs, StartPcs, CompletePcs, SameHandler
  <1>1. CASE StartLive(r)
    BY <1>1 DEF StartLive
  <1>2. CASE StartC(r)
    BY <1>2 DEF StartC, CallFails, browserVars
  <1>3. CASE Round1C(r)
    BY <1>3 DEF Round1C, CallFails, CallRefused
  <1>4. CASE RoundC(r)
    BY <1>4 DEF RoundC, CallFails, CallRefused
  <1>5. CASE Recheck(r)
    BY <1>5 DEF Recheck
  <1>6. CASE Find(r)
    BY <1>6 DEF Find
  <1>7. CASE Insert(r)
    BY <1>7 DEF Insert
  <1>8. CASE Create(r)
    BY <1>8 DEF Create
  <1>9. CASE Audit(r)
    BY <1>9 DEF Audit
  <1> QED
    BY <1>1, <1>2, <1>3, <1>4, <1>5, <1>6, <1>7, <1>8, <1>9 DEF HandlerStep

\* The rest of the state: both servers' Maps and rows, and the calls between them.
ServersOK == /\ ShareTypeOK
             /\ apiLive \subseteq Wallets
             /\ step \in [Wallets -> 1 .. 6]
             /\ partyB \in [Wallets -> 0 .. LastRound]
             /\ recLive \subseteq Wallets
             /\ partyC \in [Wallets -> 0 .. LastRound]
             /\ aged \subseteq Wallets
             /\ walletRow \in [Wallets -> {"NONE", "ACTIVE", "RETIRED"}]
             /\ aborting \subseteq Wallets
             /\ retiring \subseteq Wallets

LEMMA TypeParts == TypeOK <=> SlotsOK /\ BrowserOK /\ ServersOK
  BY DEF TypeOK, SlotsOK, BrowserOK, ServersOK, Slot

LEMMA TypePartsNext == TypeOK' <=> SlotsOK' /\ BrowserOK' /\ ServersOK'
  BY DEF TypeOK, SlotsOK, BrowserOK, ServersOK, Slot, ShareTypeOK

LEMMA HandleCType ==
  ASSUME ServersOK, NEW w \in Wallets, NEW c \in 1 .. LastRound, HandleC(w, c)
  PROVE  recLive' \subseteq Wallets /\ partyC' \in [Wallets -> 0 .. LastRound]
  BY DEF ServersOK, HandleC, RecKept, LastRound

\* A handler serves the call it is the handler of.
RoundsHaveCalls ==
    \A r \in Requests : /\ req[r].pc \in StartPcs => req[r].call = 1
                        /\ req[r].pc = "roundC" => req[r].call \in 2 .. LastRound
                        /\ req[r].pc \in CompletePcs => req[r].call = 5

LEMMA ServersType ==
  ASSUME TypeOK, RoundsHaveCalls, NEW r \in Requests, HandlerStep(r)
  PROVE  ServersOK'
  <1> DEFINE w == req[r].w
             c == req[r].call
  <1>0. w \in Wallets /\ ServersOK
    BY HandlerMoves, TypeParts DEF TypeOK
  <1> USE <1>0
  <1>1. CASE StartLive(r)
    BY <1>1 DEF StartLive, ServersOK, ShareTypeOK, apiVars, recVars, callVars
  <1>2. CASE StartC(r)
    <2>1. /\ recLive' \subseteq Wallets
          /\ partyC' \in [Wallets -> 0 .. LastRound]
          /\ partyB' \in [Wallets -> 0 .. LastRound]
      BY <1>2 DEF StartC, SessionC, CallFails, RecKept, ServersOK, recVars, apiVars, LastRound
    <2> QED
      BY <1>2, <2>1 DEF StartC, CallFails, ServersOK, ShareTypeOK, apiVars, callVars
  <1>3. CASE Round1C(r)
    <2>1. HandleC(w, 1) \/ UNCHANGED recVars \/ (recLive' = RecKept /\ UNCHANGED partyC)
      BY <1>3 DEF Round1C, CallFails, CallRefused
    <2>2. recLive' \subseteq Wallets /\ partyC' \in [Wallets -> 0 .. LastRound]
      <3>1. 1 \in 1 .. LastRound
        BY DEF LastRound
      <3> QED
        BY <2>1, <3>1, HandleCType DEF ServersOK, recVars, RecKept
    <2>3. apiLive' \subseteq Wallets /\ step' \in [Wallets -> 1 .. 6] /\ UNCHANGED partyB
      BY <1>3 DEF Round1C, CallFails, CallRefused, ServersOK, apiVars
    <2> QED
      BY <1>3, <2>2, <2>3 DEF Round1C, ServersOK, ShareTypeOK, callVars
  <1>4. CASE RoundC(r)
    <2>0. c \in 2 .. LastRound /\ c \in 1 .. LastRound
      BY <1>4 DEF RoundC, At, RoundsHaveCalls, LastRound
    <2>1. HandleC(w, c) \/ UNCHANGED recVars \/ (recLive' = RecKept /\ UNCHANGED partyC)
      BY <1>4 DEF RoundC, CallFails, CallRefused
    <2>2. recLive' \subseteq Wallets /\ partyC' \in [Wallets -> 0 .. LastRound]
      BY <2>0, <2>1, HandleCType DEF ServersOK, recVars, RecKept
    <2>3. apiLive' \subseteq Wallets /\ step' \in [Wallets -> 1 .. 6] /\ UNCHANGED partyB
      BY <1>4, <2>0 DEF RoundC, CallFails, CallRefused, ServersOK, apiVars, LastRound
    <2> QED
      BY <1>4, <2>2, <2>3 DEF RoundC, ServersOK, ShareTypeOK, callVars
  <1>5. CASE Recheck(r)
    BY <1>5 DEF Recheck, ServersOK, ShareTypeOK, apiVars, recVars, callVars
  <1>6. CASE Find(r)
    BY <1>6 DEF Find, RecKept, ServersOK, ShareTypeOK, apiVars, callVars
  <1>7. CASE Insert(r)
    <2>1. shareC' \in [Wallets -> ShareStatus] /\ recLive' \subseteq Wallets
      BY <1>7 DEF Insert, InsertShareC, ServersOK, ShareTypeOK, ShareStatus
    <2> QED
      BY <1>7, <2>1 DEF Insert, ServersOK, ShareTypeOK, apiVars, callVars
  <1>8. CASE Create(r)
    <2>1. walletRow' \in [Wallets -> {"NONE", "ACTIVE", "RETIRED"}]
      BY <1>8 DEF Create, CreateWallet, ServersOK
    <2> QED
      BY <1>8, <2>1 DEF Create, ServersOK, ShareTypeOK, apiVars, recVars, callVars
  <1>9. CASE Audit(r)
    BY <1>9 DEF Audit, ServersOK, ShareTypeOK, recVars, callVars
  <1> QED
    BY <1>1, <1>2, <1>3, <1>4, <1>5, <1>6, <1>7, <1>8, <1>9 DEF HandlerStep

LEMMA HandlerStepType ==
  ASSUME TypeOK, RoundsHaveCalls, NEW r \in Requests, HandlerStep(r)
  PROVE  TypeOK'
  BY HandlerMoves, HandlerType, ServersType, TypeParts, TypePartsNext

\* What one step of a handler may do to any slot.
LEMMA HandlerSlots ==
  ASSUME SlotsOK, NEW r \in Requests, HandlerStep(r), NEW q \in Requests
  PROVE  \/ req'[q].pc = "idle"
         \/ req'[q] = req[q]
         \/ /\ SameHandler(req[q].pc, req'[q].pc)
            /\ req'[q].w = req[q].w /\ req'[q].call = req[q].call /\ req'[q].heard = req[q].heard
  <1>1. CASE Return(r)
    BY <1>1, IdleIsSlot DEF Return, SlotsOK
  <1>2. ASSUME NEW pc \in Pcs, SameHandler(req[r].pc, pc), Goto(r, pc)
        PROVE  req'[q] = req[q] \/ (q = r /\ req'[r] = [req[r] EXCEPT !.pc = pc])
    BY <1>2 DEF Goto, SlotsOK
  <1>3. ASSUME NEW pc \in Pcs, SameHandler(req[r].pc, pc), Goto(r, pc), q = r
        PROVE  /\ req'[q].pc = pc
               /\ req'[q].w = req[q].w /\ req'[q].call = req[q].call /\ req'[q].heard = req[q].heard
    BY <1>3 DEF Goto, SlotsOK, Slot
  <1> QED
    BY <1>1, <1>2, <1>3, HandlerMoves DEF Reply, Fail

\* A call that the API takes: which slot it gets, and the browser that waits.
NewSlot(r, w, pc, c) == req' = [req EXCEPT ![r] = [pc |-> pc, w |-> w, call |-> c, heard |-> TRUE]]

LEMMA ReceiveSlots ==
  ASSUME NEW w \in Wallets, Receive(w)
  PROVE  \/ UNCHANGED req
         \/ \E r \in Requests : ReceiveStart(r, w) /\ NewSlot(r, w, "live", 1)
         \/ \E r \in Requests : ReceiveComplete(r, w) /\ NewSlot(r, w, "recheck", 5)
         \/ \E r \in Requests, c \in 2 .. LastRound :
                ReceiveRound(r, w, c) /\ NewSlot(r, w, "roundC", c)
  BY DEF Receive, ReceiveStart, ReceiveComplete, ReceiveRound, RefuseCall, NewSlot

LEMMA NewSlotType ==
  ASSUME SlotsOK, NEW r \in Requests, NEW w \in Wallets, NEW c \in Calls, NEW pc \in Pcs,
         NewSlot(r, w, pc, c)
  PROVE  SlotsOK'
  BY DEF SlotsOK, Slot, NewSlot

\* Every call that arrives keeps the types.
LEMMA ReceiveType ==
  ASSUME TypeOK, NEW w \in Wallets, Receive(w)
  PROVE  TypeOK'
  <1>0. SlotsOK /\ BrowserOK /\ ServersOK
    BY TypeParts
  <1>1. SlotsOK'
    <2>1. CASE UNCHANGED req
      BY <1>0, <2>1 DEF SlotsOK, Slot
    <2>2. ASSUME NEW r \in Requests,
                 \/ NewSlot(r, w, "live", 1) \/ NewSlot(r, w, "recheck", 5)
                 \/ \E c \in 2 .. LastRound : NewSlot(r, w, "roundC", c)
          PROVE  SlotsOK'
      <3>1. /\ "live" \in Pcs /\ "recheck" \in Pcs /\ "roundC" \in Pcs
            /\ 1 \in Calls /\ 5 \in Calls /\ 2 .. LastRound \subseteq Calls
        BY DEF Pcs, Calls, LastRound
      <3> QED
        BY <1>0, <2>2, <3>1, NewSlotType
    <2> QED
      BY <2>1, <2>2, ReceiveSlots
  <1>2. BrowserOK'
    <2>1. /\ UNCHANGED partyA
          /\ \/ UNCHANGED browser
             \/ browser' = [browser EXCEPT ![w] = "waiting"]
             \/ browser' = [browser EXCEPT ![w] = "failing"]
      BY DEF Receive, ReceiveStart, ReceiveComplete, ReceiveRound, RefuseCall, Arrives
    <2> QED
      BY <1>0, <2>1 DEF BrowserOK, BrowserState
  <1>3. ServersOK'
    <2>1. UNCHANGED <<shareC, step, recVars, aged, walletRow, retiring>> /\ ApiGc
      BY DEF Receive, ReceiveStart, ReceiveComplete, ReceiveRound, RefuseCall
    <2>2. partyB' \in [Wallets -> 0 .. LastRound]
      <3>1. UNCHANGED partyB \/ \E c \in 2 .. LastRound : partyB' = [partyB EXCEPT ![w] = c]
        BY DEF Receive, ReceiveStart, ReceiveComplete, ReceiveRound, RefuseCall
      <3> QED
        BY <1>0, <3>1 DEF ServersOK, LastRound
    <2> QED
      BY <1>0, <2>1, <2>2 DEF ServersOK, ShareTypeOK, ApiGc, ApiKept, recVars
  <1> QED
    BY <1>1, <1>2, <1>3, TypePartsNext

\* The other steps: no handler runs in them.
BackgroundStep ==
    \/ \E r \in Requests : HangUp(r)
    \/ \E w \in Wallets : \/ BrowserStep(w) \/ LoseConnection(w) \/ CloseTab(w)
                          \/ AbortC(w) \/ RetireWallet(w) \/ RetireC(w) \/ GrowOld(w)
    \/ RestartApi \/ RestartRecovery

LEMMA NextSplit ==
  ASSUME Next
  PROVE  \/ \E r \in Requests : HandlerStep(r)
         \/ \E w \in Wallets : Receive(w)
         \/ BackgroundStep
  BY DEF Next, BackgroundStep

\* A background step frees a slot or stops listening to it, and starts no handler.
LEMMA BackgroundSlots ==
  ASSUME SlotsOK, BackgroundStep
  PROVE  /\ SlotsOK'
         /\ \A q \in Requests :
               \/ req'[q].pc = "idle"
               \/ /\ req'[q].pc = req[q].pc /\ req'[q].w = req[q].w /\ req'[q].call = req[q].call
                  /\ req'[q].heard => req[q].heard
  <1>1. ASSUME NEW r \in Requests, HangUp(r)
        PROVE  /\ SlotsOK'
               /\ \A q \in Requests : /\ req'[q].pc = req[q].pc /\ req'[q].w = req[q].w
                                      /\ req'[q].call = req[q].call
                                      /\ req'[q].heard => req[q].heard
    BY <1>1 DEF HangUp, SlotsOK, Slot
  <1>2. CASE UNCHANGED req
    BY <1>2 DEF SlotsOK, Slot
  <1>3. CASE RestartApi
    BY <1>3, IdleIsSlot DEF RestartApi, SlotsOK, Slot
  <1>4. CASE RestartRecovery
    BY <1>4, IdleIsSlot DEF RestartRecovery, SlotsOK, Slot
  <1>5. ASSUME NEW w \in Wallets,
               \/ BrowserStep(w) \/ LoseConnection(w) \/ CloseTab(w)
               \/ AbortC(w) \/ RetireWallet(w) \/ RetireC(w) \/ GrowOld(w)
        PROVE  UNCHANGED req
    BY <1>5 DEF BrowserStep, Open, SaveShareA, GiveUp, LoseConnection, CloseTab,
                AbortC, RetireWallet, RetireC, GrowOld
  <1> QED
    BY <1>1, <1>2, <1>3, <1>4, <1>5 DEF BackgroundStep

\* What a background step may do to a browser.
LEMMA BackgroundBrowser ==
  ASSUME BrowserOK, BackgroundStep
  PROVE  /\ BrowserOK'
         /\ UNCHANGED partyA
         /\ \A v \in Wallets :
               \/ browser'[v] = browser[v]
               \/ browser[v] = "closed" /\ browser'[v] = "asking"
               \/ browser[v] = "saving" /\ browser'[v] = "done"
               \/ browser[v] # "closed" /\ browser'[v] \in {"failing", "gone"}
  <1>0. UNCHANGED partyA
    BY DEF BackgroundStep, HangUp, Refuse, BrowserStep, Open, SaveShareA, GiveUp, LoseConnection,
           CloseTab, AbortC, RetireWallet, RetireC, GrowOld, RestartApi, RestartRecovery, browserVars
  <1>1. ASSUME NEW w \in Wallets,
               \/ BrowserStep(w) \/ LoseConnection(w) \/ CloseTab(w)
               \/ AbortC(w) \/ RetireWallet(w) \/ RetireC(w) \/ GrowOld(w)
        PROVE  \/ UNCHANGED browser
               \/ browser[w] = "closed" /\ browser' = [browser EXCEPT ![w] = "asking"]
               \/ browser[w] = "saving" /\ browser' = [browser EXCEPT ![w] = "done"]
               \/ browser[w] # "closed" /\ \E b \in {"failing", "gone"} : browser' = [browser EXCEPT ![w] = b]
    BY <1>1 DEF BrowserStep, Open, SaveShareA, GiveUp, LoseConnection, CloseTab, Running,
                AbortC, RetireWallet, RetireC, GrowOld, browserVars
  <1>2. ASSUME NEW r \in Requests, HangUp(r)
        PROVE  \/ UNCHANGED browser
               \/ \E w \in {req[r].w} : browser[w] # "closed" /\ browser' = [browser EXCEPT ![w] = "failing"]
    BY <1>2 DEF HangUp, Refuse, WaitsFor
  <1>3. ASSUME RestartApi \/ RestartRecovery
        PROVE  \E R \in SUBSET Requests : Dropped(R)
    BY <1>3 DEF RestartApi, RestartRecovery
  <1>4. ASSUME NEW R \in SUBSET Requests, Dropped(R)
        PROVE  /\ browser' \in [Wallets -> BrowserState]
               /\ \A u \in Wallets : \/ browser'[u] = browser[u]
                                     \/ browser[u] # "closed" /\ browser'[u] = "failing"
    BY <1>4 DEF Dropped, WaitsFor, BrowserOK, BrowserState
  <1>5. browser' \in [Wallets -> BrowserState]
    BY <1>1, <1>2, <1>3, <1>4 DEF BackgroundStep, BrowserOK, BrowserState
  <1>6. ASSUME NEW v \in Wallets
        PROVE  \/ browser'[v] = browser[v]
               \/ browser[v] = "closed" /\ browser'[v] = "asking"
               \/ browser[v] = "saving" /\ browser'[v] = "done"
               \/ browser[v] # "closed" /\ browser'[v] \in {"failing", "gone"}
    BY <1>1, <1>2, <1>3, <1>4 DEF BackgroundStep, BrowserOK
  <1> QED
    BY <1>0, <1>5, <1>6 DEF BrowserOK

\* What a background step may do to the servers.
LEMMA BackgroundServers ==
  ASSUME ServersOK, BackgroundStep
  PROVE  /\ ServersOK'
         /\ UNCHANGED <<step, partyB, partyC>>
         /\ apiLive' \subseteq apiLive
  <1>1. UNCHANGED <<step, partyB, partyC>> /\ apiLive' \subseteq apiLive
    BY DEF BackgroundStep, HangUp, BrowserStep, Open, SaveShareA, GiveUp, LoseConnection,
           CloseTab, AbortC, RetireWallet, RetireC, GrowOld, RestartApi, RestartRecovery,
           apiVars, recVars
  <1>2. recLive' \subseteq recLive
    BY DEF BackgroundStep, HangUp, BrowserStep, Open, SaveShareA, GiveUp, LoseConnection,
           CloseTab, AbortC, RetireWallet, RetireC, GrowOld, RestartApi, RestartRecovery,
           apiVars, recVars
  <1>3. /\ aged' \subseteq Wallets /\ aborting' \subseteq Wallets /\ retiring' \subseteq Wallets
    BY DEF BackgroundStep, HangUp, BrowserStep, Open, SaveShareA, GiveUp, LoseConnection,
           CloseTab, AbortC, RetireWallet, RetireC, GrowOld, RestartApi, RestartRecovery,
           callVars, ServersOK
  <1>4. UNCHANGED shareC \/ \E w \in Wallets : RetireShare(w)
    BY DEF BackgroundStep, HangUp, BrowserStep, Open, SaveShareA, GiveUp, LoseConnection,
           CloseTab, AbortC, RetireWallet, RetireC, GrowOld, RestartApi, RestartRecovery
  <1>5. UNCHANGED walletRow \/ \E w \in Wallets : walletRow' = [walletRow EXCEPT ![w] = "RETIRED"]
    BY DEF BackgroundStep, HangUp, BrowserStep, Open, SaveShareA, GiveUp, LoseConnection,
           CloseTab, AbortC, RetireWallet, RetireC, GrowOld, RestartApi, RestartRecovery
  <1>6. shareC' \in [Wallets -> ShareStatus]
    BY <1>4 DEF RetireShare, ServersOK, ShareTypeOK, ShareStatus
  <1>7. walletRow' \in [Wallets -> {"NONE", "ACTIVE", "RETIRED"}]
    BY <1>5 DEF ServersOK
  <1> QED
    BY <1>1, <1>2, <1>3, <1>6, <1>7 DEF ServersOK, ShareTypeOK

LEMMA InitType == Init => TypeOK /\ RoundsHaveCalls
  BY IdleIsSlot DEF Init, TypeOK, ShareInit, ShareTypeOK, ShareStatus, BrowserState, Slot, Idle,
                    RoundsHaveCalls, StartPcs, CompletePcs, LastRound

LEMMA NextType == TypeOK /\ RoundsHaveCalls /\ [Next]_vars => TypeOK'
  <1> SUFFICES ASSUME TypeOK, RoundsHaveCalls, [Next]_vars
               PROVE  TypeOK'
    OBVIOUS
  <1>1. CASE BackgroundStep
    BY <1>1, TypeParts, BackgroundSlots, BackgroundServers, BackgroundBrowser, TypePartsNext
  <1>2. CASE UNCHANGED vars
    BY <1>2 DEF TypeOK, ShareTypeOK, vars, apiVars, recVars, browserVars, callVars
  <1> QED
    BY <1>1, <1>2, NextSplit, HandlerStepType, ReceiveType

LEMMA NextCalls == TypeOK /\ RoundsHaveCalls /\ [Next]_vars => RoundsHaveCalls'
  <1> SUFFICES ASSUME TypeOK, RoundsHaveCalls, [Next]_vars
               PROVE  RoundsHaveCalls'
    OBVIOUS
  <1>0. SlotsOK
    BY TypeParts
  <1> USE DEF RoundsHaveCalls, StartPcs, CompletePcs
  <1>1. ASSUME NEW r \in Requests, HandlerStep(r)
        PROVE  RoundsHaveCalls'
    BY <1>0, <1>1, HandlerSlots DEF SameHandler
  <1>2. ASSUME NEW w \in Wallets, Receive(w)
        PROVE  RoundsHaveCalls'
    <2>1. CASE UNCHANGED req
      BY <2>1
    <2>2. ASSUME NEW r \in Requests,
                 \/ NewSlot(r, w, "live", 1) \/ NewSlot(r, w, "recheck", 5)
                 \/ \E c \in 2 .. LastRound : NewSlot(r, w, "roundC", c)
          PROVE  RoundsHaveCalls'
      BY <1>0, <2>2 DEF NewSlot, SlotsOK
    <2> QED
      BY <1>2, <2>1, <2>2, ReceiveSlots
  <1>3. CASE BackgroundStep
    BY <1>0, <1>3, BackgroundSlots
  <1>4. CASE UNCHANGED vars
    BY <1>4 DEF vars
  <1> QED
    BY <1>1, <1>2, <1>3, <1>4, NextSplit

\* The state of a creation is well typed at any time: every await of a handler
\* has a wallet id, and no party handles more rounds than there are.
THEOREM TypeCorrect == Spec => []TypeOK
  <1>1. Init => TypeOK /\ RoundsHaveCalls
    BY InitType
  <1>2. TypeOK /\ RoundsHaveCalls /\ [Next]_vars => TypeOK' /\ RoundsHaveCalls'
    BY NextType, NextCalls
  <1> QED
    BY <1>1, <1>2, PTL DEF Spec

---------------------------------------------------------------------------
(* A creation has one start handler, and it runs before any other *)

StartsFirst ==
    /\ \A r \in Requests : /\ req[r].pc \in StartPcs => step[req[r].w] = 1
                           /\ req[r].pc \in {"roundC"} \cup CompletePcs => step[req[r].w] >= 2
    /\ \A w \in apiLive : step[w] >= 2

StartsOnce ==
    /\ \A r, q \in Requests :
          req[r].pc \in StartPcs /\ req[q].pc \in StartPcs /\ req[r].w = req[q].w => r = q
    /\ \A w \in Wallets : browser[w] \in {"closed", "asking"} /\ partyA[w] = 0 =>
          step[w] = 1 /\ \A r \in Requests : req[r].pc \in StartPcs => req[r].w # w

StartInv == TypeOK /\ RoundsHaveCalls /\ StartsFirst /\ StartsOnce

\* What a step of a handler may do to a browser: an error, a round, or the last
\* answer, which only a complete handler with a wallet row gives.
LEMMA HandlerBrowser ==
  ASSUME TypeOK, RoundsHaveCalls, NEW r \in Requests, HandlerStep(r), NEW v \in Wallets
  PROVE  \/ browser'[v] = browser[v] /\ partyA'[v] = partyA[v]
         \/ browser'[v] = "failing" /\ partyA'[v] = partyA[v]
         \/ browser[v] = "waiting" /\ browser'[v] = "asking" /\ partyA'[v] >= 1
         \/ v = req[r].w /\ Audit(r) /\ browser'[v] = "saving" /\ partyA'[v] = partyA[v]
  <1> DEFINE w == req[r].w
             c == req[r].call
  <1>0. w \in Wallets /\ BrowserOK /\ req[r].pc # "idle"
    BY HandlerMoves, TypeParts DEF TypeOK
  <1>1. CASE UNCHANGED browserVars
    BY <1>1 DEF browserVars
  <1>2. CASE Fail(r)
    BY <1>0, <1>2 DEF Fail, Refuse, BrowserOK, browserVars
  <1>3. CASE Reply(r) /\ c \in 1 .. LastRound
    BY <1>0, <1>3 DEF Reply, Succeed, WaitsFor, BrowserOK, browserVars, LastRound
  <1>4. CASE Audit(r)
    <2>1. c = 5
      BY <1>4 DEF Audit, At, RoundsHaveCalls, CompletePcs
    <2> QED
      BY <1>0, <1>4, <2>1 DEF Audit, Reply, Succeed, BrowserOK, browserVars
  <1>5. CASE HandlerStep(r) /\ ~Audit(r)
    <2>1. Reply(r) => Round1C(r) \/ RoundC(r) \/ UNCHANGED browserVars \/ Fail(r)
      BY <1>5 DEF HandlerStep, StartLive, StartC, CallFails, Recheck, Find, Insert, Create, browserVars
    <2>2. Round1C(r) \/ RoundC(r) => c \in 1 .. LastRound
      BY DEF Round1C, RoundC, At, RoundsHaveCalls, StartPcs, LastRound
    <2> QED
      BY <1>1, <1>2, <1>3, <2>1, <2>2, HandlerMoves
  <1> QED
    BY <1>4, <1>5

\* What a step of a handler may do to the sessions of the API.
LEMMA HandlerSession ==
  ASSUME TypeOK, RoundsHaveCalls, NEW r \in Requests, HandlerStep(r)
  PROVE  \/ UNCHANGED step /\ apiLive' \subseteq apiLive
         \/ /\ \E k \in 2 .. 6 : step' = [step EXCEPT ![req[r].w] = k]
            /\ apiLive' \subseteq apiLive \cup {req[r].w}
            /\ Return(r)
  <1>1. CASE Round1C(r)
    BY <1>1 DEF Round1C, CallFails, CallRefused, apiVars, Reply
  <1>2. CASE RoundC(r)
    <2>1. req[r].call + 1 \in 2 .. 6
      BY <1>2 DEF RoundC, At, RoundsHaveCalls, LastRound
    <2> QED
      BY <1>2, <2>1 DEF RoundC, CallFails, CallRefused, apiVars, Reply
  <1>3. CASE Audit(r)
    BY <1>3 DEF Audit, Reply
  <1> QED
    BY <1>1, <1>2, <1>3
       DEF HandlerStep, StartLive, StartC, CallFails, Recheck, Find, Insert, Create, apiVars

LEMMA HandlerKeepsStartInv ==
  ASSUME StartInv, NEW r \in Requests, HandlerStep(r)
  PROVE  StartsFirst' /\ StartsOnce'
  <1> DEFINE w == req[r].w
  <1>0. /\ SlotsOK /\ BrowserOK /\ ServersOK /\ TypeOK /\ RoundsHaveCalls
        /\ StartsFirst /\ StartsOnce
        /\ w \in Wallets /\ req[r].pc # "idle"
    BY HandlerMoves, TypeParts DEF StartInv, TypeOK
  <1>1. \A q \in Requests :
           \/ req'[q].pc = "idle"
           \/ /\ req'[q].w = req[q].w
              /\ req'[q].pc = req[q].pc \/ SameHandler(req[q].pc, req'[q].pc)
    BY <1>0, HandlerSlots
  <1>2. Return(r) => req'[r].pc = "idle"
    BY <1>0, IdleIsSlot DEF Return, SlotsOK
  <1>3. \A q \in Requests : req[q].pc # "idle" => req[q].w \in Wallets
    BY <1>0 DEF SlotsOK
  <1>4. \A q \in Requests : req[q].pc \in StartPcs /\ q # r => req[q].w # w
    <2>1. req[r].pc \in StartPcs \cup {"roundC"} \cup CompletePcs
      BY <1>0 DEF SlotsOK, Slot, Pcs, RecoveryPcs, StartPcs, CompletePcs
    <2>2. CASE req[r].pc \in StartPcs
      BY <1>0, <2>2 DEF StartsOnce
    <2>3. CASE req[r].pc \in {"roundC"} \cup CompletePcs
      BY <1>0, <2>3 DEF StartsFirst
    <2> QED
      BY <2>1, <2>2, <2>3
  <1>5. CASE UNCHANGED step /\ apiLive' \subseteq apiLive
    <2>1. StartsFirst'
      BY <1>0, <1>1, <1>5 DEF StartsFirst, SameHandler, StartPcs, CompletePcs
    <2>2. \A q \in Requests : req'[q].pc \in StartPcs => req[q].pc \in StartPcs /\ req'[q].w = req[q].w
      BY <1>1 DEF SameHandler, StartPcs, CompletePcs
    <2>3. ASSUME NEW v \in Wallets, browser'[v] \in {"closed", "asking"}, partyA'[v] = 0
          PROVE  browser[v] \in {"closed", "asking"} /\ partyA[v] = 0
      <3>1. partyA[v] \in Nat
        BY <1>0 DEF BrowserOK, LastRound
      <3> QED
        BY <1>0, <2>3, <3>1, HandlerBrowser
    <2> QED
      BY <1>0, <1>5, <2>1, <2>2, <2>3 DEF StartsOnce
  <1>6. ASSUME NEW k \in 2 .. 6, step' = [step EXCEPT ![w] = k],
               apiLive' \subseteq apiLive \cup {w}, Return(r)
        PROVE  StartsFirst' /\ StartsOnce'
    <2>1. \A v \in Wallets : step'[v] = IF v = w THEN k ELSE step[v]
      BY <1>0, <1>6 DEF ServersOK
    <2>2. \A q \in Requests : req'[q].pc \in StartPcs =>
             q # r /\ req[q].pc \in StartPcs /\ req'[q].w = req[q].w /\ req[q].w # w
      BY <1>1, <1>2, <1>4, <1>6 DEF SameHandler, StartPcs, CompletePcs
    <2>3. \A q \in Requests : req'[q].pc \in {"roundC"} \cup CompletePcs =>
             req[q].pc \in {"roundC"} \cup CompletePcs /\ req'[q].w = req[q].w
      BY <1>1 DEF SameHandler, StartPcs, CompletePcs
    <2>4. StartsFirst'
      <3>1. \A q \in Requests : req'[q].pc \in StartPcs => step'[req'[q].w] = 1
        BY <1>0, <1>3, <2>1, <2>2 DEF StartsFirst, StartPcs
      <3>2. \A q \in Requests : req'[q].pc \in {"roundC"} \cup CompletePcs => step'[req'[q].w] >= 2
        BY <1>0, <1>3, <2>1, <2>3 DEF StartsFirst, CompletePcs
      <3>3. \A v \in apiLive' : step'[v] >= 2
        BY <1>0, <1>6, <2>1 DEF StartsFirst, ServersOK
      <3> QED
        BY <3>1, <3>2, <3>3 DEF StartsFirst
    <2>5. ASSUME NEW v \in Wallets, browser'[v] \in {"closed", "asking"}, partyA'[v] = 0
          PROVE  browser[v] \in {"closed", "asking"} /\ partyA[v] = 0 /\ v # w
      <3>1. partyA[v] \in Nat
        BY <1>0 DEF BrowserOK, LastRound
      <3>2. browser[v] \in {"closed", "asking"} /\ partyA[v] = 0
        BY <1>0, <2>5, <3>1, HandlerBrowser
      <3>3. ~(browser[w] \in {"closed", "asking"} /\ partyA[w] = 0)
        <4>1. req[r].pc \in StartPcs \cup {"roundC"} \cup CompletePcs
          BY <1>0 DEF SlotsOK, Slot, Pcs, RecoveryPcs, StartPcs, CompletePcs
        <4> QED
          BY <1>0, <4>1 DEF StartsFirst, StartsOnce
      <3> QED
        BY <3>2, <3>3
    <2> QED
      BY <1>0, <2>1, <2>2, <2>4, <2>5 DEF StartsOnce
  <1> QED
    BY <1>0, <1>5, <1>6, HandlerSession

LEMMA StartIsInductive == StartInv /\ [Next]_vars => StartInv'
  <1> SUFFICES ASSUME StartInv, [Next]_vars
               PROVE  StartInv'
    OBVIOUS
  <1>0. /\ TypeOK /\ RoundsHaveCalls /\ StartsFirst /\ StartsOnce
        /\ SlotsOK /\ BrowserOK /\ ServersOK
    BY TypeParts DEF StartInv
  <1>1. TypeOK' /\ RoundsHaveCalls'
    BY <1>0, NextType, NextCalls
  <1>2. ASSUME NEW w \in Wallets, Receive(w)
        PROVE  StartsFirst' /\ StartsOnce'
    <2>1. UNCHANGED <<step, partyA>> /\ apiLive' \subseteq apiLive
      BY <1>2 DEF Receive, ReceiveStart, ReceiveComplete, ReceiveRound, RefuseCall, ApiGc, ApiKept
    <2>2. \A v \in Wallets : browser'[v] = browser[v] \/ browser'[v] \in {"waiting", "failing"}
      BY <1>0, <1>2 DEF Receive, ReceiveStart, ReceiveComplete, ReceiveRound, RefuseCall, Arrives, BrowserOK
    <2>3. CASE UNCHANGED req
      BY <1>0, <2>1, <2>2, <2>3 DEF StartsFirst, StartsOnce
    <2>4. ASSUME NEW r \in Requests, ReceiveStart(r, w), NewSlot(r, w, "live", 1)
          PROVE  StartsFirst' /\ StartsOnce'
      <3>1. \A q \in Requests : IF q = r THEN req'[q].pc = "live" /\ req'[q].w = w ELSE req'[q] = req[q]
        BY <1>0, <2>4 DEF NewSlot, SlotsOK
      <3>2. /\ step[w] = 1 /\ \A q \in Requests : req[q].pc \in StartPcs => req[q].w # w
            /\ browser'[w] = "waiting"
        BY <1>0, <2>4 DEF ReceiveStart, StartsOnce, BrowserOK
      <3>3. StartsFirst'
        BY <1>0, <2>1, <3>1, <3>2 DEF StartsFirst, StartPcs, CompletePcs
      <3>4. StartsOnce'
        BY <1>0, <2>1, <2>2, <3>1, <3>2 DEF StartsOnce, StartPcs
      <3> QED
        BY <3>3, <3>4
    <2>5. ASSUME NEW r \in Requests,
                 \/ ReceiveComplete(r, w) /\ NewSlot(r, w, "recheck", 5)
                 \/ \E c \in 2 .. LastRound : ReceiveRound(r, w, c) /\ NewSlot(r, w, "roundC", c)
          PROVE  StartsFirst' /\ StartsOnce'
      <3>1. \A q \in Requests : IF q = r THEN req'[q].pc \in {"recheck", "roundC"} /\ req'[q].w = w
                                       ELSE req'[q] = req[q]
        BY <1>0, <2>5 DEF NewSlot, SlotsOK
      <3>2. step[w] >= 2
        BY <2>5 DEF ReceiveComplete, ReceiveRound, InStep
      <3>3. StartsFirst'
        BY <1>0, <2>1, <3>1, <3>2 DEF StartsFirst, StartPcs, CompletePcs
      <3>4. StartsOnce'
        BY <1>0, <2>1, <2>2, <3>1 DEF StartsOnce, StartPcs
      <3> QED
        BY <3>3, <3>4
    <2> QED
      BY <1>2, <2>3, <2>4, <2>5, ReceiveSlots
  <1>3. CASE BackgroundStep
    <2>1. UNCHANGED <<step, partyA>> /\ apiLive' \subseteq apiLive
      BY <1>0, <1>3, BackgroundServers, BackgroundBrowser
    <2>2. \A v \in Wallets : browser'[v] \in {"closed", "asking"} => browser[v] \in {"closed", "asking"}
      BY <1>0, <1>3, BackgroundBrowser
    <2>3. \A q \in Requests : req'[q].pc = "idle" \/ (req'[q].pc = req[q].pc /\ req'[q].w = req[q].w)
      BY <1>0, <1>3, BackgroundSlots
    <2>4. StartsFirst'
      BY <1>0, <2>1, <2>3 DEF StartsFirst, StartPcs, CompletePcs
    <2>5. StartsOnce'
      BY <1>0, <2>1, <2>2, <2>3 DEF StartsOnce, StartPcs
    <2> QED
      BY <1>1, <2>4, <2>5 DEF StartInv
  <1>4. CASE UNCHANGED vars
    <2>1. UNCHANGED <<step, apiLive, browser, partyA, req>>
      BY <1>4 DEF vars, apiVars, browserVars
    <2>2. StartsFirst'
      BY <1>0, <2>1 DEF StartsFirst
    <2>3. StartsOnce'
      BY <1>0, <2>1 DEF StartsOnce
    <2> QED
      BY <1>1, <2>2, <2>3 DEF StartInv
  <1> QED
    BY <1>0, <1>1, <1>2, <1>3, <1>4, NextSplit, HandlerKeepsStartInv DEF StartInv

LEMMA InitStart == Init => StartInv
  BY InitType DEF Init, StartInv, StartsFirst, StartsOnce, StartPcs, CompletePcs, Idle

---------------------------------------------------------------------------
(* The rounds the servers have handled *)

\* How far the parties are while a handler waits.
RoundsOfHandlers ==
    \A r \in Requests :
        /\ req[r].pc = "round1C" => partyB[req[r].w] >= 1
        /\ req[r].pc = "roundC" => partyB[req[r].w] >= req[r].call
        /\ req[r].pc \in {"find", "insert", "create", "audit"} => partyB[req[r].w] = LastRound
        /\ req[r].pc \in {"insert", "create", "audit"} => partyC[req[r].w] = LastRound

\* How far they are when a session waits for a call, also one that left the Map.
RoundsOfSessions ==
    /\ \A w \in Wallets : step[w] \in 2 .. 5 => partyB[w] >= step[w] - 1 /\ partyC[w] >= step[w] - 1
    /\ \A w \in apiLive : step[w] <= 5

RoundInv == StartInv /\ RoundsOfHandlers /\ RoundsOfSessions

\* What a step of a handler may do to the parties: start resets them, party C
\* handles the round of the call, and only rounds in order are handled.
LEMMA HandlerParties ==
  ASSUME TypeOK, RoundsHaveCalls, NEW r \in Requests, HandlerStep(r)
  PROVE  \/ UNCHANGED <<partyB, partyC>>
         \/ /\ At(r, "startC")
            /\ partyB' = partyB \/ partyB' = [partyB EXCEPT ![req[r].w] = 1]
            /\ partyC' = [partyC EXCEPT ![req[r].w] = 0]
         \/ /\ At(r, "round1C") \/ At(r, "roundC")
            /\ UNCHANGED partyB
            /\ partyC[req[r].w] = req[r].call - 1
            /\ partyC' = [partyC EXCEPT ![req[r].w] = req[r].call]
  <1>1. CASE StartC(r)
    BY <1>1 DEF StartC, SessionC, CallFails, apiVars, recVars
  <1>2. CASE Round1C(r)
    <2>1. req[r].call = 1
      BY <1>2 DEF Round1C, At, RoundsHaveCalls, StartPcs
    <2> QED
      BY <1>2, <2>1 DEF Round1C, HandleC, CanHandle, Handles, CallFails, CallRefused, apiVars, recVars
  <1>3. CASE RoundC(r)
    BY <1>3 DEF RoundC, HandleC, CanHandle, Handles, CallFails, CallRefused, apiVars, recVars
  <1> QED
    BY <1>1, <1>2, <1>3
       DEF HandlerStep, StartLive, Recheck, Find, Insert, Create, Audit, apiVars, recVars

\* A round of a creation is handled only before all of them are.
LEMMA PartiesAdvance ==
  ASSUME StartInv, NEW r \in Requests, HandlerStep(r), NEW v \in Wallets, step[v] >= 2
  PROVE  /\ partyB'[v] = partyB[v]
         /\ partyC'[v] >= partyC[v]
         /\ partyC[v] = LastRound => partyC'[v] = LastRound
  <1>0. TypeOK /\ RoundsHaveCalls /\ StartsFirst /\ ServersOK /\ SlotsOK
    BY TypeParts DEF StartInv
  <1>1. At(r, "startC") => req[r].w # v
    BY <1>0 DEF At, StartsFirst, StartPcs
  <1>2. At(r, "round1C") \/ At(r, "roundC") => req[r].call \in 1 .. LastRound
    BY <1>0 DEF At, RoundsHaveCalls, StartPcs, LastRound
  <1>3. partyB[v] \in 0 .. LastRound /\ partyC[v] \in 0 .. LastRound
    BY <1>0 DEF ServersOK
  <1> QED
    BY <1>0, <1>1, <1>2, <1>3, HandlerParties DEF ServersOK, LastRound

\* From await to await: the guard that lets a handler go on.
LEMMA HandlerNext ==
  ASSUME NEW r \in Requests, HandlerStep(r)
  PROVE  \/ Return(r)
         \/ At(r, "live") /\ Goto(r, "startC")
         \/ At(r, "startC") /\ Goto(r, "round1C") /\ partyB' = [partyB EXCEPT ![req[r].w] = 1]
         \/ At(r, "recheck") /\ Goto(r, "find") /\ partyB[req[r].w] = LastRound
         \/ At(r, "find") /\ Goto(r, "insert") /\ partyC[req[r].w] = LastRound
         \/ At(r, "insert") /\ Goto(r, "create") /\ InsertShareC(req[r].w)
         \/ At(r, "create") /\ Goto(r, "audit") /\ CreateWallet(req[r].w)
  <1> USE DEF Reply, Fail
  <1>1. CASE StartLive(r)
    BY <1>1 DEF StartLive
  <1>2. CASE StartC(r)
    BY <1>2 DEF StartC, CallFails
  <1>3. CASE Round1C(r)
    BY <1>3 DEF Round1C, CallFails, CallRefused
  <1>4. CASE RoundC(r)
    BY <1>4 DEF RoundC, CallFails, CallRefused
  <1>5. CASE Recheck(r)
    BY <1>5 DEF Recheck
  <1>6. CASE Find(r)
    BY <1>6 DEF Find
  <1>7. CASE Insert(r)
    BY <1>7 DEF Insert
  <1>8. CASE Create(r)
    BY <1>8 DEF Create
  <1>9. CASE Audit(r)
    BY <1>9 DEF Audit
  <1> QED
    BY <1>1, <1>2, <1>3, <1>4, <1>5, <1>6, <1>7, <1>8, <1>9 DEF HandlerStep

\* The slot of the handler after its step, and the slots of the others.
LEMMA SlotAfter ==
  ASSUME SlotsOK, NEW r \in Requests
  PROVE  /\ Return(r) => /\ req'[r].pc = "idle"
                         /\ \A q \in Requests \ {r} : req'[q] = req[q]
         /\ \A pc \in Pcs : Goto(r, pc) => /\ req'[r].pc = pc
                                           /\ req'[r].w = req[r].w
                                           /\ req'[r].call = req[r].call
                                           /\ \A q \in Requests \ {r} : req'[q] = req[q]
  BY IdleIsSlot DEF Return, Goto, SlotsOK, Slot

LEMMA HandlerKeepsRoundInv ==
  ASSUME RoundInv, NEW r \in Requests, HandlerStep(r)
  PROVE  RoundsOfHandlers' /\ RoundsOfSessions'
  <1> DEFINE w == req[r].w
  <1>0. /\ StartInv /\ RoundsOfHandlers /\ RoundsOfSessions
        /\ TypeOK /\ RoundsHaveCalls /\ StartsFirst /\ StartsOnce
        /\ SlotsOK /\ ServersOK
        /\ w \in Wallets /\ req[r].pc # "idle"
    BY HandlerMoves, TypeParts DEF RoundInv, StartInv, TypeOK
  <1>1. \A v \in Wallets : step[v] >= 2 =>
           /\ partyB'[v] = partyB[v]
           /\ partyC'[v] >= partyC[v]
           /\ partyC[v] = LastRound => partyC'[v] = LastRound
    BY <1>0, PartiesAdvance
  <1>2. \A v \in Wallets : /\ partyB[v] \in Nat /\ partyC[v] \in Nat /\ partyC'[v] \in Nat
                           /\ step[v] \in 1 .. 6
    BY <1>0, ServersType DEF ServersOK, LastRound
  <1>3. RoundsOfHandlers'
    <2>1. ASSUME NEW q \in Requests, q # r, req'[q] = req[q]
          PROVE  /\ req[q].pc = "round1C" => partyB'[req[q].w] >= 1
                 /\ req[q].pc = "roundC" => partyB'[req[q].w] >= req[q].call
                 /\ req[q].pc \in {"find", "insert", "create", "audit"} => partyB'[req[q].w] = LastRound
                 /\ req[q].pc \in {"insert", "create", "audit"} => partyC'[req[q].w] = LastRound
      <3>1. req[q].pc # "idle" => req[q].w \in Wallets
        BY <1>0 DEF SlotsOK
      <3>2. CASE req[q].pc \in {"roundC"} \cup CompletePcs
        <4>1. req[q].w \in Wallets /\ step[req[q].w] >= 2
          BY <1>0, <3>1, <3>2 DEF StartsFirst, CompletePcs
        <4>2. /\ partyB'[req[q].w] = partyB[req[q].w]
              /\ partyC[req[q].w] = LastRound => partyC'[req[q].w] = LastRound
          BY <1>1, <4>1
        <4> QED
          BY <1>0, <3>2, <4>2 DEF RoundsOfHandlers, CompletePcs
      <3>3. CASE req[q].pc = "round1C"
        <4>1. At(r, "startC") => req[q].w # w
          BY <1>0, <2>1, <3>3 DEF At, StartsOnce, StartPcs
        <4>2. partyB'[req[q].w] = partyB[req[q].w]
          BY <1>0, <3>1, <3>3, <4>1, HandlerParties DEF ServersOK
        <4> QED
          BY <1>0, <3>3, <4>2 DEF RoundsOfHandlers
      <3> QED
        BY <3>2, <3>3 DEF CompletePcs
    <2>2. \A q \in Requests \ {r} : req'[q] = req[q]
      BY <1>0, HandlerNext, SlotAfter DEF Pcs, RecoveryPcs
    <2>3. /\ req'[r].pc = "round1C" => partyB'[req'[r].w] >= 1
          /\ req'[r].pc = "roundC" => partyB'[req'[r].w] >= req'[r].call
          /\ req'[r].pc \in {"find", "insert", "create", "audit"} => partyB'[req'[r].w] = LastRound
          /\ req'[r].pc \in {"insert", "create", "audit"} => partyC'[req'[r].w] = LastRound
      <3>1. CASE Return(r)
        BY <1>0, <3>1, SlotAfter
      <3>2. CASE At(r, "live") /\ Goto(r, "startC")
        BY <1>0, <3>2, SlotAfter DEF Pcs
      <3>3. CASE At(r, "startC") /\ Goto(r, "round1C") /\ partyB' = [partyB EXCEPT ![w] = 1]
        <4>1. req'[r].pc = "round1C" /\ req'[r].w = w
          BY <1>0, <3>3, SlotAfter DEF Pcs
        <4>2. partyB'[w] = 1
          BY <1>0, <3>3 DEF ServersOK
        <4> QED
          BY <4>1, <4>2
      <3>4. ASSUME NEW pc \in {"find", "insert", "create", "audit"}, Goto(r, pc),
                   req[r].pc \in CompletePcs,
                   partyB[w] = LastRound,
                   pc # "find" => partyC[w] = LastRound
            PROVE  /\ req'[r].pc = pc
                   /\ partyB'[req'[r].w] = LastRound
                   /\ pc # "find" => partyC'[req'[r].w] = LastRound
        <4>1. req'[r].pc = pc /\ req'[r].w = w
          BY <1>0, <3>4, SlotAfter DEF Pcs, RecoveryPcs
        <4>2. step[w] >= 2
          BY <1>0, <3>4 DEF StartsFirst
        <4>3. /\ partyB'[w] = partyB[w]
              /\ partyC[w] = LastRound => partyC'[w] = LastRound
          BY <1>0, <1>1, <4>2
        <4> QED
          BY <3>4, <4>1, <4>3
      <3>5. CASE At(r, "recheck") /\ Goto(r, "find") /\ partyB[w] = LastRound
        BY <3>4, <3>5 DEF At, CompletePcs
      <3>6. CASE At(r, "find") /\ Goto(r, "insert") /\ partyC[w] = LastRound
        BY <1>0, <3>4, <3>6 DEF At, CompletePcs, RoundsOfHandlers
      <3>7. CASE At(r, "insert") /\ Goto(r, "create")
        BY <1>0, <3>4, <3>7 DEF At, CompletePcs, RoundsOfHandlers
      <3>8. CASE At(r, "create") /\ Goto(r, "audit")
        BY <1>0, <3>4, <3>8 DEF At, CompletePcs, RoundsOfHandlers
      <3> QED
        BY <3>1, <3>2, <3>3, <3>5, <3>6, <3>7, <3>8, HandlerNext
    <2> QED
      BY <2>1, <2>2, <2>3 DEF RoundsOfHandlers
  <1>4. ASSUME NEW v \in Wallets, step'[v] = step[v]
        PROVE  step'[v] \in 2 .. 5 => partyB'[v] >= step'[v] - 1 /\ partyC'[v] >= step'[v] - 1
    BY <1>0, <1>1, <1>2, <1>4 DEF RoundsOfSessions
  <1>5. CASE UNCHANGED step /\ apiLive' \subseteq apiLive
    BY <1>0, <1>3, <1>4, <1>5 DEF RoundsOfSessions, ServersOK
  <1>6. CASE Round1C(r) \/ RoundC(r)
    <2>1. CASE UNCHANGED step /\ UNCHANGED apiLive
      BY <1>0, <1>3, <1>4, <2>1 DEF RoundsOfSessions, ServersOK
    <2>2. ASSUME NEW c \in 1 .. LastRound, c = req[r].call, partyB[w] >= c, HandleC(w, c), UNCHANGED partyB,
                 step' = [step EXCEPT ![w] = c + 1], apiLive' = apiLive \cup {w}
          PROVE  RoundsOfSessions'
      <3>1. partyB'[w] >= c /\ partyC'[w] = c /\ step'[w] = c + 1
        BY <1>0, <2>2 DEF HandleC, ServersOK
      <3>2. \A v \in Wallets : v # w => step'[v] = step[v]
        BY <1>0, <2>2 DEF ServersOK
      <3> QED
        BY <1>0, <1>4, <2>2, <3>1, <3>2 DEF RoundsOfSessions, ServersOK, LastRound
    <2>3. CASE Round1C(r)
      <3>1. req[r].call = 1 /\ partyB[w] >= 1
        BY <1>0, <2>3 DEF Round1C, At, RoundsHaveCalls, StartPcs, RoundsOfHandlers
      <3> QED
        BY <1>0, <1>3, <2>1, <2>2, <2>3, <3>1
           DEF Round1C, CallFails, CallRefused, apiVars, LastRound
    <2>4. CASE RoundC(r)
      <3>1. req[r].call \in 2 .. LastRound /\ partyB[w] >= req[r].call
        BY <1>0, <2>4 DEF RoundC, At, RoundsHaveCalls, RoundsOfHandlers
      <3> QED
        BY <1>0, <1>3, <2>1, <2>2, <2>4, <3>1
           DEF RoundC, CallFails, CallRefused, apiVars, LastRound
    <2> QED
      BY <1>3, <1>6, <2>3, <2>4
  <1>7. CASE Audit(r)
    <2>1. step'[w] = 6 /\ \A v \in Wallets : v # w => step'[v] = step[v]
      BY <1>0, <1>7 DEF Audit, ServersOK
    <2>2. apiLive' = apiLive \ {w}
      BY <1>7 DEF Audit
    <2> QED
      BY <1>0, <1>3, <1>4, <2>1, <2>2 DEF RoundsOfSessions, ServersOK
  <1> QED
    BY <1>3, <1>5, <1>6, <1>7
       DEF HandlerStep, StartLive, StartC, CallFails, Recheck, Find, Insert, Create, apiVars

\* A call that arrives lets party B handle its round.
LEMMA ReceiveKeepsRoundInv ==
  ASSUME RoundInv, NEW w \in Wallets, Receive(w)
  PROVE  RoundsOfHandlers' /\ RoundsOfSessions'
  <1>0. /\ RoundsOfHandlers /\ RoundsOfSessions /\ SlotsOK /\ ServersOK
    BY TypeParts DEF RoundInv, StartInv
  <1>1. UNCHANGED <<step, partyC>> /\ apiLive' \subseteq apiLive
    BY DEF Receive, ReceiveStart, ReceiveComplete, ReceiveRound, RefuseCall, ApiGc, ApiKept, recVars
  <1>2. \/ UNCHANGED partyB /\ UNCHANGED req
        \/ \E r \in Requests :
              UNCHANGED partyB /\ (NewSlot(r, w, "live", 1) \/ NewSlot(r, w, "recheck", 5))
        \/ \E r \in Requests, c \in 2 .. LastRound :
              /\ NewSlot(r, w, "roundC", c)
              /\ partyB[w] = c - 1 /\ partyB' = [partyB EXCEPT ![w] = c]
    BY ReceiveSlots DEF Receive, ReceiveStart, ReceiveComplete, ReceiveRound, RefuseCall, NewSlot, Handles
  <1>3. \A v \in Wallets : partyB[v] \in Nat /\ partyC[v] \in Nat /\ step[v] \in 1 .. 6
    BY <1>0 DEF ServersOK, LastRound
  <1>4. CASE UNCHANGED partyB /\ UNCHANGED req
    BY <1>0, <1>1, <1>4 DEF RoundsOfHandlers, RoundsOfSessions
  <1>5. ASSUME NEW r \in Requests, UNCHANGED partyB,
               NewSlot(r, w, "live", 1) \/ NewSlot(r, w, "recheck", 5)
        PROVE  RoundsOfHandlers' /\ RoundsOfSessions'
    <2>1. \A q \in Requests : req'[q] = req[q] \/ req'[q].pc \in {"live", "recheck"}
      BY <1>0, <1>5 DEF NewSlot, SlotsOK
    <2>2. RoundsOfHandlers'
      BY <1>0, <1>1, <1>5, <2>1 DEF RoundsOfHandlers
    <2>3. RoundsOfSessions'
      BY <1>0, <1>1, <1>5 DEF RoundsOfSessions
    <2> QED
      BY <2>2, <2>3
  <1>6. ASSUME NEW r \in Requests, NEW c \in 2 .. LastRound, NewSlot(r, w, "roundC", c),
               partyB[w] = c - 1, partyB' = [partyB EXCEPT ![w] = c]
        PROVE  RoundsOfHandlers' /\ RoundsOfSessions'
    <2>1. \A q \in Requests :
             \/ req'[q] = req[q]
             \/ req'[q].pc = "roundC" /\ req'[q].w = w /\ req'[q].call = c
      BY <1>0, <1>6 DEF NewSlot, SlotsOK
    <2>2. \A v \in Wallets : partyB'[v] = IF v = w THEN c ELSE partyB[v]
      BY <1>0, <1>6 DEF ServersOK
    <2>3. c \in Nat /\ c >= 1 /\ partyB[w] # LastRound
      BY <1>6 DEF LastRound
    <2>4. \A q \in Requests : req[q].pc # "idle" => req[q].w \in Wallets /\ req[q].call \in Nat
      BY <1>0 DEF SlotsOK, Slot, Calls
    <2>5. \A v \in Wallets :
             /\ partyB'[v] >= partyB[v]
             /\ partyB[v] = LastRound => partyB'[v] = LastRound
      BY <1>3, <1>6, <2>2, <2>3
    <2>6. \A v \in Wallets : partyB'[v] \in Nat
      BY <1>3, <2>2, <2>3
    <2>7. RoundsOfHandlers'
      <3>1. ASSUME NEW q \in Requests, req'[q] = req[q]
            PROVE  /\ req[q].pc = "round1C" => partyB'[req[q].w] >= 1
                   /\ req[q].pc = "roundC" => partyB'[req[q].w] >= req[q].call
                   /\ req[q].pc \in {"find", "insert", "create", "audit"} => partyB'[req[q].w] = LastRound
                   /\ req[q].pc \in {"insert", "create", "audit"} => partyC'[req[q].w] = LastRound
        BY <1>0, <1>1, <1>3, <2>4, <2>5, <2>6 DEF RoundsOfHandlers
      <3>2. ASSUME NEW q \in Requests, req'[q].pc = "roundC", req'[q].w = w, req'[q].call = c
            PROVE  partyB'[req'[q].w] >= req'[q].call
        BY <2>2, <2>3, <3>2
      <3> QED
        BY <2>1, <3>1, <3>2 DEF RoundsOfHandlers
    <2>8. RoundsOfSessions'
      BY <1>0, <1>1, <1>3, <2>5, <2>6 DEF RoundsOfSessions
    <2> QED
      BY <2>7, <2>8
  <1> QED
    BY <1>2, <1>4, <1>5, <1>6

LEMMA RoundIsInductive == RoundInv /\ [Next]_vars => RoundInv'
  <1> SUFFICES ASSUME RoundInv, [Next]_vars
               PROVE  RoundInv'
    OBVIOUS
  <1>0. /\ RoundsOfHandlers /\ RoundsOfSessions /\ SlotsOK /\ ServersOK
    BY TypeParts DEF RoundInv, StartInv
  <1>1. StartInv'
    BY StartIsInductive DEF RoundInv
  <1>2. CASE BackgroundStep
    <2>1. UNCHANGED <<step, partyB, partyC>> /\ apiLive' \subseteq apiLive
      BY <1>0, <1>2, BackgroundServers
    <2>2. \A q \in Requests :
             \/ req'[q].pc = "idle"
             \/ req'[q].pc = req[q].pc /\ req'[q].w = req[q].w /\ req'[q].call = req[q].call
      BY <1>0, <1>2, BackgroundSlots
    <2>3. RoundsOfHandlers'
      BY <1>0, <2>1, <2>2 DEF RoundsOfHandlers
    <2>4. RoundsOfSessions'
      BY <1>0, <2>1 DEF RoundsOfSessions
    <2> QED
      BY <1>1, <2>3, <2>4 DEF RoundInv
  <1>3. CASE UNCHANGED vars
    <2>1. UNCHANGED <<step, partyB, partyC, apiLive, req>>
      BY <1>3 DEF vars, apiVars, recVars
    <2> QED
      BY <1>0, <1>1, <2>1 DEF RoundInv, RoundsOfHandlers, RoundsOfSessions
  <1> QED
    BY <1>1, <1>2, <1>3, NextSplit, HandlerKeepsRoundInv, ReceiveKeepsRoundInv DEF RoundInv

LEMMA InitRound == Init => RoundInv
  BY InitStart DEF Init, RoundInv, RoundsOfHandlers, RoundsOfSessions, Idle

\* A session never waits for a call whose previous round a server has not
\* handled: RoundsOfSessions, for every session in the API's Map.
THEOREM SessionsFollowTheParties == Spec => []StepMeansHandled
  <1>1. RoundInv => StepMeansHandled
    <2> SUFFICES ASSUME RoundInv, NEW w \in apiLive
                 PROVE  partyB[w] >= step[w] - 1 /\ partyC[w] >= step[w] - 1
      BY DEF StepMeansHandled
    <2>1. /\ RoundsOfSessions /\ StartsFirst /\ ServersOK
      BY TypeParts DEF RoundInv, StartInv
    <2>2. w \in Wallets /\ step[w] \in 2 .. 5
      BY <2>1 DEF RoundsOfSessions, StartsFirst, ServersOK
    <2> QED
      BY <2>1, <2>2 DEF RoundsOfSessions
  <1> QED
    BY <1>1, InitRound, RoundIsInductive, PTL DEF Spec


---------------------------------------------------------------------------
(* Rows: the wallets, their Share C, and the browser's Share A *)

\* What a step may do to a Share C row: a finalize inserts it where there is
\* none, and retireShareC retires it.
LEMMA ShareSteps ==
  ASSUME TypeOK, Next, NEW v \in Wallets
  PROVE  \/ shareC'[v] = shareC[v]
         \/ shareC[v] = "NONE" /\ shareC'[v] = "ACTIVE"
         \/ v \in retiring /\ shareC[v] # "NONE" /\ shareC'[v] = "RETIRED"
  <1>0. ServersOK
    BY TypeParts
  <1>1. ASSUME NEW r \in Requests, HandlerStep(r)
        PROVE  UNCHANGED shareC \/ InsertShareC(req[r].w)
    BY <1>1 DEF HandlerStep, StartLive, StartC, Round1C, RoundC, Recheck, Find, Insert, Create, Audit
  <1>2. ASSUME NEW w \in Wallets, Receive(w)
        PROVE  UNCHANGED shareC
    BY <1>2 DEF Receive, ReceiveStart, ReceiveComplete, ReceiveRound, RefuseCall
  <1>3. ASSUME BackgroundStep
        PROVE  UNCHANGED shareC \/ \E w \in retiring : RetireShare(w)
    BY <1>3 DEF BackgroundStep, HangUp, BrowserStep, Open, SaveShareA, GiveUp, LoseConnection,
                CloseTab, AbortC, RetireWallet, RetireC, GrowOld, RestartApi, RestartRecovery
  <1> QED
    BY <1>0, <1>1, <1>2, <1>3, NextSplit DEF InsertShareC, RetireShare, ServersOK, ShareTypeOK

\* What a step may do to the wallets: a complete handler creates one while no
\* other is live, and the last withdraw retires one.
LEMMA RowSteps ==
  ASSUME TypeOK, Next
  PROVE  \/ UNCHANGED <<walletRow, retiring>>
         \/ \E w \in retiring : retiring' = retiring \ {w} /\ UNCHANGED walletRow
         \/ \E w \in Wallets : /\ walletRow[w] # "NONE"
                               /\ walletRow' = [walletRow EXCEPT ![w] = "RETIRED"]
                               /\ retiring' = retiring \cup {w}
         \/ \E r \in Requests : /\ At(r, "create") /\ CreateWallet(req[r].w)
                                /\ UNCHANGED retiring
  <1>1. ASSUME NEW r \in Requests, HandlerStep(r)
        PROVE  UNCHANGED retiring /\ (UNCHANGED walletRow \/ (At(r, "create") /\ CreateWallet(req[r].w)))
    BY <1>1 DEF HandlerStep, StartLive, StartC, Round1C, RoundC, Recheck, Find, Insert, Create, Audit, callVars
  <1>2. ASSUME NEW w \in Wallets, Receive(w)
        PROVE  UNCHANGED <<walletRow, retiring>>
    BY <1>2 DEF Receive, ReceiveStart, ReceiveComplete, ReceiveRound, RefuseCall
  <1>3. CASE BackgroundStep
    BY <1>3 DEF BackgroundStep, HangUp, BrowserStep, Open, SaveShareA, GiveUp, LoseConnection,
                CloseTab, AbortC, RetireWallet, RetireC, GrowOld, RestartApi, RestartRecovery, callVars
  <1> QED
    BY <1>1, <1>2, <1>3, NextSplit

\* A creation whose rounds are all handled stays so.
LEMMA DoneStays ==
  ASSUME StartInv, Next, NEW v \in Wallets,
         step[v] >= 2, partyB[v] = LastRound, partyC[v] = LastRound
  PROVE  step'[v] >= 2 /\ partyB'[v] = LastRound /\ partyC'[v] = LastRound
  <1>0. TypeOK /\ RoundsHaveCalls /\ ServersOK /\ SlotsOK
    BY TypeParts DEF StartInv
  <1>1. ASSUME NEW r \in Requests, HandlerStep(r)
        PROVE  step'[v] >= 2 /\ partyB'[v] = LastRound /\ partyC'[v] = LastRound
    <2>1. step'[v] = step[v] \/ step'[v] \in 2 .. 6
      BY <1>0, <1>1, HandlerSession DEF ServersOK
    <2>2. step'[v] >= 2
      BY <2>1
    <2> QED
      BY <1>1, <2>2, PartiesAdvance
  <1>2. ASSUME NEW w \in Wallets, Receive(w)
        PROVE  step'[v] >= 2 /\ partyB'[v] = LastRound /\ partyC'[v] = LastRound
    <2>1. UNCHANGED <<step, partyC>>
      BY <1>2 DEF Receive, ReceiveStart, ReceiveComplete, ReceiveRound, RefuseCall, recVars
    <2>2. \/ UNCHANGED partyB
          \/ \E c \in 2 .. LastRound : partyB[w] = c - 1 /\ partyB' = [partyB EXCEPT ![w] = c]
      BY <1>2 DEF Receive, ReceiveStart, ReceiveComplete, ReceiveRound, RefuseCall, Handles
    <2> QED
      BY <1>0, <2>1, <2>2 DEF ServersOK, LastRound
  <1>3. CASE BackgroundStep
    BY <1>0, <1>3, BackgroundServers
  <1> QED
    BY <1>1, <1>2, <1>3, NextSplit

\* Before a complete handler creates the wallet its Share C is stored, and
\* before it answers the wallet is there.
RowsOfHandlers ==
    \A r \in Requests : /\ req[r].pc \in {"create", "audit"} => shareC[req[r].w] # "NONE"
                        /\ req[r].pc = "audit" => walletRow[req[r].w] # "NONE"

\* Every wallet, live or retired, has a finished key generation and a Share C,
\* and only a retired wallet's Share C is retired.
RowsOfWallets ==
    \A w \in Wallets :
        /\ walletRow[w] # "NONE" => /\ step[w] >= 2
                                    /\ partyB[w] = LastRound /\ partyC[w] = LastRound
                                    /\ shareC[w] # "NONE"
        /\ shareC[w] = "RETIRED" \/ w \in retiring => walletRow[w] = "RETIRED"

WalletInv ==
    RoundInv /\ RowsOfHandlers /\ RowsOfWallets /\ OneLiveWallet /\ StoredShareHasWallet

\* The awaits of complete after which a row exists, before and after a step.
LEMMA RowSlots ==
  ASSUME RoundInv, Next, NEW q \in Requests, req'[q].pc \in {"create", "audit"}
  PROVE  /\ req'[q].w = req[q].w /\ req[q].w \in Wallets
         /\ \/ req[q].pc = req'[q].pc
            \/ req[q].pc = "insert" /\ req'[q].pc = "create" /\ InsertShareC(req[q].w)
            \/ req[q].pc = "create" /\ req'[q].pc = "audit" /\ CreateWallet(req[q].w)
  <1>0. TypeOK /\ RoundsHaveCalls /\ SlotsOK
    BY TypeParts DEF RoundInv, StartInv
  <1>1. ASSUME NEW r \in Requests, HandlerStep(r)
        PROVE  /\ req'[q].w = req[q].w
               /\ \/ req[q].pc = req'[q].pc
                  \/ req[q].pc = "insert" /\ req'[q].pc = "create" /\ InsertShareC(req[q].w)
                  \/ req[q].pc = "create" /\ req'[q].pc = "audit" /\ CreateWallet(req[q].w)
    <2>1. CASE q # r
      BY <1>0, <1>1, <2>1, HandlerNext, SlotAfter DEF Pcs, RecoveryPcs
    <2>2. CASE q = r
      BY <1>0, <1>1, <2>2, HandlerNext, SlotAfter DEF Pcs, RecoveryPcs, At
    <2> QED
      BY <2>1, <2>2
  <1>2. ASSUME NEW w \in Wallets, Receive(w)
        PROVE  req'[q] = req[q]
    <2>1. ASSUME NEW r \in Requests, NEW pc \in {"live", "recheck", "roundC"},
                 NEW c \in Calls, NewSlot(r, w, pc, c)
          PROVE  req'[q] = req[q]
      BY <1>0, <2>1 DEF NewSlot, SlotsOK
    <2>2. 1 \in Calls /\ 5 \in Calls /\ 2 .. LastRound \subseteq Calls
      BY DEF Calls, LastRound
    <2> QED
      BY <1>2, <2>1, <2>2, ReceiveSlots
  <1>3. ASSUME BackgroundStep
        PROVE  req'[q].w = req[q].w /\ req'[q].pc = req[q].pc
    BY <1>0, <1>3, BackgroundSlots
  <1>4. /\ req'[q].w = req[q].w
        /\ \/ req[q].pc = req'[q].pc
           \/ req[q].pc = "insert" /\ req'[q].pc = "create" /\ InsertShareC(req[q].w)
           \/ req[q].pc = "create" /\ req'[q].pc = "audit" /\ CreateWallet(req[q].w)
    BY <1>1, <1>2, <1>3, NextSplit
  <1>5. req[q].pc # "idle"
    BY <1>4
  <1> QED
    BY <1>0, <1>4, <1>5 DEF SlotsOK

\* A browser comes to hold a Share A to store only by the answer of complete.
LEMMA SavingComesFromAudit ==
  ASSUME StartInv, Next, NEW v \in Wallets, browser'[v] \in {"saving", "done"}
  PROVE  \/ browser[v] \in {"saving", "done"}
         \/ \E r \in Requests : At(r, "audit") /\ req[r].w = v
  <1>0. TypeOK /\ RoundsHaveCalls /\ BrowserOK
    BY TypeParts DEF StartInv
  <1>1. ASSUME NEW r \in Requests, HandlerStep(r)
        PROVE  browser[v] \in {"saving", "done"} \/ (At(r, "audit") /\ req[r].w = v)
    BY <1>0, <1>1, HandlerBrowser DEF Audit
  <1>2. ASSUME NEW w \in Wallets, Receive(w)
        PROVE  browser[v] \in {"saving", "done"}
    <2>1. \/ UNCHANGED browser
          \/ browser' = [browser EXCEPT ![w] = "waiting"]
          \/ browser' = [browser EXCEPT ![w] = "failing"]
      BY <1>2 DEF Receive, ReceiveStart, ReceiveComplete, ReceiveRound, RefuseCall, Arrives
    <2> QED
      BY <1>0, <2>1 DEF BrowserOK
  <1>3. ASSUME BackgroundStep
        PROVE  browser[v] \in {"saving", "done"}
    BY <1>0, <1>3, BackgroundBrowser
  <1> QED
    BY <1>1, <1>2, <1>3, NextSplit

LEMMA WalletIsInductive == WalletInv /\ [Next]_vars => WalletInv'
  <1> SUFFICES ASSUME WalletInv, [Next]_vars
               PROVE  WalletInv'
    OBVIOUS
  <1>0. /\ RoundInv /\ RoundInv' /\ StartInv /\ TypeOK /\ ServersOK /\ SlotsOK
        /\ RowsOfHandlers /\ RowsOfWallets /\ OneLiveWallet /\ StoredShareHasWallet
        /\ RoundsOfHandlers /\ StartsFirst
    BY RoundIsInductive, TypeParts DEF WalletInv, RoundInv, StartInv
  <1>1. CASE UNCHANGED vars
    <2>1. UNCHANGED <<shareC, walletRow, retiring, step, partyB, partyC, browser, req>>
      BY <1>1 DEF vars, apiVars, recVars, browserVars, callVars
    <2> QED
      BY <1>0, <2>1 DEF WalletInv, RowsOfHandlers, RowsOfWallets, OneLiveWallet, StoredShareHasWallet
  <1>2. CASE Next
    <2>1. \A v \in Wallets : shareC[v] # "NONE" => shareC'[v] # "NONE"
      BY <1>0, <1>2, ShareSteps
    <2>2. \A v \in Wallets : walletRow[v] # "NONE" => walletRow'[v] # "NONE"
      BY <1>0, <1>2, RowSteps DEF CreateWallet, ServersOK
    <2>3. RowsOfHandlers'
      <3> SUFFICES ASSUME NEW q \in Requests, req'[q].pc \in {"create", "audit"}
                   PROVE  /\ shareC'[req'[q].w] # "NONE"
                          /\ req'[q].pc = "audit" => walletRow'[req'[q].w] # "NONE"
        BY DEF RowsOfHandlers
      <3>1. /\ req'[q].w = req[q].w /\ req[q].w \in Wallets
            /\ \/ req[q].pc = req'[q].pc
               \/ req[q].pc = "insert" /\ req'[q].pc = "create" /\ InsertShareC(req[q].w)
               \/ req[q].pc = "create" /\ req'[q].pc = "audit" /\ CreateWallet(req[q].w)
        BY <1>0, <1>2, RowSlots
      <3>2. InsertShareC(req[q].w) => shareC'[req[q].w] # "NONE"
        BY <1>0, <3>1 DEF InsertShareC, ServersOK, ShareTypeOK
      <3>3. CreateWallet(req[q].w) => walletRow'[req[q].w] # "NONE"
        BY <1>0, <3>1 DEF CreateWallet, ServersOK
      <3> QED
        BY <1>0, <2>1, <2>2, <3>1, <3>2, <3>3 DEF RowsOfHandlers
    <2>4. ASSUME NEW v \in Wallets, walletRow'[v] # "NONE"
          PROVE  step'[v] >= 2 /\ partyB'[v] = LastRound /\ partyC'[v] = LastRound /\ shareC'[v] # "NONE"
      <3>1. \/ walletRow[v] # "NONE"
            \/ \E r \in Requests : req[r].pc = "create" /\ req[r].w = v
        BY <1>0, <1>2, <2>4, RowSteps DEF CreateWallet, ServersOK, At
      <3>2. step[v] >= 2 /\ partyB[v] = LastRound /\ partyC[v] = LastRound /\ shareC[v] # "NONE"
        BY <1>0, <3>1 DEF RowsOfWallets, RowsOfHandlers, RoundsOfHandlers, StartsFirst, CompletePcs
      <3> QED
        BY <1>0, <1>2, <2>1, <3>2, DoneStays
    <2>5. ASSUME NEW v \in Wallets, shareC'[v] = "RETIRED" \/ v \in retiring'
          PROVE  walletRow'[v] = "RETIRED"
      <3>1. walletRow[v] = "RETIRED" => walletRow'[v] = "RETIRED"
        BY <1>0, <1>2, RowSteps DEF CreateWallet, ServersOK
      <3>2. shareC'[v] = "RETIRED" => shareC[v] = "RETIRED" \/ v \in retiring
        BY <1>0, <1>2, ShareSteps
      <3>3. v \in retiring' => v \in retiring \/ walletRow'[v] = "RETIRED"
        BY <1>0, <1>2, RowSteps DEF ServersOK
      <3> QED
        BY <1>0, <2>5, <3>1, <3>2, <3>3 DEF RowsOfWallets
    <2>6. OneLiveWallet'
      BY <1>0, <1>2, RowSteps DEF OneLiveWallet, CreateWallet, NoLiveWallet, ServersOK
    <2>7. StoredShareHasWallet'
      BY <1>0, <1>2, <2>2, SavingComesFromAudit DEF StoredShareHasWallet, RowsOfHandlers, At
    <2>8. RowsOfWallets'
      BY <2>4, <2>5 DEF RowsOfWallets
    <2> QED
      BY <1>0, <2>3, <2>6, <2>7, <2>8 DEF WalletInv
  <1> QED
    BY <1>1, <1>2

LEMMA InitWallet == Init => WalletInv
  BY InitRound DEF Init, ShareInit, WalletInv, RowsOfHandlers, RowsOfWallets, OneLiveWallet,
                   StoredShareHasWallet, Idle

LEMMA AlwaysWalletInv == Spec => []WalletInv
  BY InitWallet, WalletIsInductive, PTL DEF Spec

\* Two creations of a user may both pass assertNoLiveWallet; only one of their
\* wallets is ever created, whatever the calls, faults and restarts.
THEOREM NeverTwoLiveWallets == Spec => []OneLiveWallet
  <1>1. WalletInv => OneLiveWallet
    BY DEF WalletInv
  <1> QED
    BY <1>1, AlwaysWalletInv, PTL

\* A live wallet has its Share C and a key generation that both servers ended.
THEOREM LiveWalletsHaveTheirShares == Spec => []WalletHasItsShares
  <1>1. WalletInv => WalletHasItsShares
    <2> SUFFICES ASSUME WalletInv, NEW w \in Wallets, walletRow[w] = "ACTIVE"
                 PROVE  shareC[w] = "ACTIVE" /\ partyB[w] = LastRound /\ partyC[w] = LastRound
      BY DEF WalletHasItsShares
    <2>1. RowsOfWallets /\ ServersOK
      BY TypeParts DEF WalletInv, RoundInv, StartInv
    <2> QED
      BY <2>1 DEF RowsOfWallets, ServersOK, ShareTypeOK, ShareStatus
  <1> QED
    BY <1>1, AlwaysWalletInv, PTL

\* A Share A is stored in the browser only for a wallet that exists.
THEOREM NoShareWithoutWallet == Spec => []StoredShareHasWallet
  <1>1. WalletInv => StoredShareHasWallet
    BY DEF WalletInv
  <1> QED
    BY <1>1, AlwaysWalletInv, PTL

---------------------------------------------------------------------------
(* The promise about Share C *)

\* What a step does to the two rows.
LEMMA HandlerRows ==
  ASSUME NEW r \in Requests, HandlerStep(r)
  PROVE  \/ UNCHANGED <<shareC, walletRow>>
         \/ At(r, "insert") /\ InsertShareC(req[r].w) /\ UNCHANGED walletRow
         \/ At(r, "create") /\ CreateWallet(req[r].w) /\ UNCHANGED shareC
  BY DEF HandlerStep, StartLive, StartC, Round1C, RoundC, Recheck, Find, Insert, Create, Audit

LEMMA ReceiveRows ==
  ASSUME NEW w \in Wallets, Receive(w)
  PROVE  UNCHANGED <<shareC, walletRow>>
  BY DEF Receive, ReceiveStart, ReceiveComplete, ReceiveRound, RefuseCall

LEMMA BackgroundRows ==
  ASSUME BackgroundStep
  PROVE  \/ UNCHANGED <<shareC, walletRow>>
         \/ \E w \in Wallets : /\ walletRow[w] # "NONE"
                               /\ walletRow' = [walletRow EXCEPT ![w] = "RETIRED"]
                               /\ UNCHANGED shareC
         \/ \E w \in retiring : RetireShare(w) /\ UNCHANGED walletRow
  BY DEF BackgroundStep, HangUp, BrowserStep, Open, SaveShareA, GiveUp, LoseConnection,
         CloseTab, AbortC, RetireWallet, RetireC, GrowOld, RestartApi, RestartRecovery

\* Every step of the two servers is a step of Custody or none.
LEMMA StepKeepsPromise ==
  ASSUME WalletInv, Next
  PROVE  [Promise!Next]_(Promise!vars)
  <1>0. TypeOK /\ ServersOK /\ SlotsOK /\ RowsOfWallets /\ RowsOfHandlers
    BY TypeParts DEF WalletInv, RoundInv, StartInv
  <1>1. UNCHANGED <<shareC, walletRow>> => UNCHANGED Promise!vars
    BY DEF Promise!vars
  <1>2. ASSUME NEW w \in Wallets, InsertShareC(w), UNCHANGED walletRow
        PROVE  Promise!Next
    BY <1>2 DEF Promise!Next, Promise!Store, InsertShareC
  <1>3. ASSUME NEW w \in Wallets, shareC[w] # "NONE", CreateWallet(w), UNCHANGED shareC
        PROVE  Promise!Next
    <2>1. shareC[w] = "ACTIVE"
      BY <1>0, <1>3 DEF RowsOfWallets, ServersOK, ShareTypeOK, ShareStatus, CreateWallet, NoLiveWallet
    <2>2. Promise!Create(w)
      BY <1>3, <2>1 DEF Promise!Create, CreateWallet, NoLiveWallet
    <2> QED
      BY <2>2 DEF Promise!Next
  <1>4. ASSUME NEW w \in Wallets, walletRow[w] # "NONE", UNCHANGED shareC,
               walletRow' = [walletRow EXCEPT ![w] = "RETIRED"]
        PROVE  Promise!Next \/ UNCHANGED Promise!vars
    <2>1. CASE walletRow[w] = "ACTIVE"
      BY <1>4, <2>1 DEF Promise!Next, Promise!Retire
    <2>2. CASE walletRow[w] = "RETIRED"
      <3>1. walletRow' = walletRow
        BY <1>0, <1>4, <2>2 DEF ServersOK
      <3> QED
        BY <1>1, <1>4, <3>1
    <2> QED
      BY <1>0, <1>4, <2>1, <2>2 DEF ServersOK
  <1>5. ASSUME NEW w \in retiring, RetireShare(w), UNCHANGED walletRow
        PROVE  Promise!Next \/ UNCHANGED Promise!vars
    <2>1. w \in Wallets /\ walletRow[w] = "RETIRED"
      BY <1>0 DEF RowsOfWallets, ServersOK
    <2>2. CASE shareC[w] = "ACTIVE"
      BY <1>5, <2>1, <2>2 DEF Promise!Next, Promise!Wipe, RetireShare
    <2>3. CASE shareC[w] = "RETIRED"
      <3>1. shareC' = shareC
        BY <1>0, <1>5, <2>1, <2>3 DEF RetireShare, ServersOK, ShareTypeOK
      <3> QED
        BY <1>1, <1>5, <3>1
    <2> QED
      BY <1>0, <1>5, <2>1, <2>2, <2>3 DEF RetireShare, ServersOK, ShareTypeOK, ShareStatus
  <1>6. ASSUME NEW r \in Requests, HandlerStep(r)
        PROVE  Promise!Next \/ UNCHANGED Promise!vars
    <2>1. CASE UNCHANGED <<shareC, walletRow>>
      BY <1>1, <2>1
    <2>2. CASE At(r, "insert") /\ InsertShareC(req[r].w) /\ UNCHANGED walletRow
      BY <1>0, <1>2, <2>2 DEF At, SlotsOK
    <2>3. CASE At(r, "create") /\ CreateWallet(req[r].w) /\ UNCHANGED shareC
      <3>1. req[r].w \in Wallets /\ shareC[req[r].w] # "NONE"
        BY <1>0, <2>3 DEF RowsOfHandlers, At, SlotsOK
      <3> QED
        BY <1>3, <2>3, <3>1
    <2> QED
      BY <1>6, <2>1, <2>2, <2>3, HandlerRows
  <1>7. ASSUME NEW w \in Wallets, Receive(w)
        PROVE  UNCHANGED Promise!vars
    BY <1>1, <1>7, ReceiveRows
  <1>8. CASE BackgroundStep
    BY <1>1, <1>4, <1>5, <1>8, BackgroundRows
  <1> QED
    BY <1>6, <1>7, <1>8, NextSplit

\* Key generation keeps the promise of Custody about Share C, with any number
\* of overlapping creations, lost calls, crashes and late finalize calls: a
\* wallet only on a stored share, one live wallet, a retired share for good.
THEOREM KeyGenerationKeepsCustody == Spec => ImplementsCustody
  <1>1. Init => Promise!Init
    BY DEF Init, ShareInit, Promise!Init
  <1>2. WalletInv /\ [Next]_vars => [Promise!Next]_(Promise!vars)
    <2>1. UNCHANGED vars => UNCHANGED Promise!vars
      BY DEF vars, Promise!vars
    <2> QED
      BY <2>1, StepKeepsPromise
  <1> QED
    BY <1>1, <1>2, AlwaysWalletInv, PTL DEF Spec, ImplementsCustody, Promise!Spec
=============================================================================
