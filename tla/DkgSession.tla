----------------------------- MODULE DkgSession -----------------------------
(***************************************************************************)
(* Creation of the wallets of one user: the 2-of-3 key generation between  *)
(* the browser (party A), the API (party B) and the Recovery server (party *)
(* C), from the browser's first message to its stored Share A.             *)
(*                                                                         *)
(* The API draws a fresh session id and a fresh wallet id for a creation,  *)
(* so a wallet id w names the creation, both servers' sessions, the rows   *)
(* and the browser run. The browser makes five calls: 1 is start, 2 to 4   *)
(* are the message rounds, 5 is complete. A call is served by a request    *)
(* slot; a step is the code from one await to the next. The handlers of    *)
(* the Recovery server are synchronous except finalize, so their answer    *)
(* and the API's continuation are one step.                                *)
(*                                                                         *)
(* KeygenSession is a counter of the rounds whose messages the party has   *)
(* handled: it throws, and the saved state stays, on messages of any other *)
(* round. All parties see the same messages, so their keys agree.          *)
(***************************************************************************)
EXTENDS RecoveryShares

CONSTANTS
    Requests,   \* slots for API calls being served at the same time
    NoWallet,   \* the wallet id of an idle slot
    Tabs,       \* bound: creations a user runs at the same time
    Faults      \* which faults the environment may inject

ASSUME NoWalletIsNoWallet == NoWallet \notin Wallets
ASSUME TabsIsNat == Tabs \in Nat
ASSUME FaultsKnown == Faults \subseteq {"crash", "db", "rpc", "net", "close", "dup", "slow"}

VARIABLES
    apiLive,    \* wallets whose session is in the API's sessions Map
    step,       \* DkgSession.step: the call the session waits for, 6 is DONE
    partyB,     \* rounds that party B has handled (stateB64)
    recLive,    \* wallets whose session is in the Recovery server's Map
    partyC,     \* rounds that party C has handled
    aged,       \* wallets whose sessions are older than SESSION_TTL_MS
    walletRow,  \* Wallet.status of each id; ACTIVE stands for every live status
    browser,    \* what the browser run is doing
    partyA,     \* rounds that party A has handled
    req,        \* what each request in progress is waiting for
    aborting,   \* wallets with a dkgAbort on its way to the Recovery server
    retiring    \* wallets with a retireShareC on its way there

apiVars == <<apiLive, step, partyB>>
recVars == <<recLive, partyC>>
browserVars == <<browser, partyA>>
callVars == <<aborting, retiring>>
vars == <<shareC, apiVars, recVars, aged, walletRow, browserVars, req, callVars>>

LastRound == 4      \* keyshare() is available after round 4
Calls == 1 .. 5

RecoveryPcs == {"find", "insert"}
Pcs == {"live", "startC", "round1C", "roundC", "recheck", "create", "audit"} \cup RecoveryPcs

BrowserState == {"closed", "asking", "waiting", "saving", "done", "failing", "gone"}

Idle == [pc |-> "idle", w |-> NoWallet, call |-> 1, heard |-> FALSE]

TypeOK == /\ ShareTypeOK
          /\ apiLive \subseteq Wallets
          /\ step \in [Wallets -> 1 .. 6]
          /\ partyB \in [Wallets -> 0 .. LastRound]
          /\ recLive \subseteq Wallets
          /\ partyC \in [Wallets -> 0 .. LastRound]
          /\ aged \subseteq Wallets
          /\ walletRow \in [Wallets -> {"NONE", "ACTIVE", "RETIRED"}]
          /\ browser \in [Wallets -> BrowserState]
          /\ partyA \in [Wallets -> 0 .. LastRound]
          /\ req \in [Requests -> [pc : Pcs \cup {"idle"}, w : Wallets \cup {NoWallet},
                                   call : Calls, heard : BOOLEAN]]
          /\ \A r \in Requests : req[r].pc # "idle" => req[r].w \in Wallets
          /\ aborting \subseteq Wallets
          /\ retiring \subseteq Wallets

Init == /\ ShareInit
        /\ apiLive = {} /\ recLive = {} /\ aged = {}
        /\ step = [w \in Wallets |-> 1]
        /\ partyA = [w \in Wallets |-> 0]
        /\ partyB = [w \in Wallets |-> 0]
        /\ partyC = [w \in Wallets |-> 0]
        /\ walletRow = [w \in Wallets |-> "NONE"]
        /\ browser = [w \in Wallets |-> "closed"]
        /\ req = [r \in Requests |-> Idle]
        /\ aborting = {} /\ retiring = {}

---------------------------------------------------------------------------
(* Requests and answers *)

At(r, pc) == req[r].pc = pc

Goto(r, pc) == req' = [req EXCEPT ![r].pc = pc]

\* The browser waits for the answer to call c of w.
WaitsFor(w, c) == browser[w] = "waiting" /\ c = partyA[w] + 1

\* The answer to call c: the browser handles the round and sends the next
\* call, or takes its keyshare after call 4 and stores it after call 5.
Succeed(w, c) ==
    IF WaitsFor(w, c)
    THEN /\ browser' = [browser EXCEPT ![w] = IF c = 5 THEN "saving" ELSE "asking"]
         /\ partyA' = [partyA EXCEPT ![w] = IF c = 5 THEN @ ELSE c]
    ELSE UNCHANGED browserVars

\* An error answer: the browser goes to its catch block.
Refuse(w, c) ==
    /\ browser' = IF WaitsFor(w, c) THEN [browser EXCEPT ![w] = "failing"] ELSE browser
    /\ UNCHANGED partyA

\* Mutant: a finished request is not taken off the table.
ReturnForgets(r) == req' = [req EXCEPT ![r].w = NoWallet]

Return(r) == req' = [req EXCEPT ![r] = Idle]

Reply(r) == Return(r) /\ Succeed(req[r].w, req[r].call)

\* The handler throws; after a hang-up no one hears it.
Fail(r) ==
    /\ Return(r)
    /\ IF req[r].heard THEN Refuse(req[r].w, req[r].call) ELSE UNCHANGED browserVars

\* What gc leaves in the two Maps; the API also sends an abort for each
\* session it drops.
ApiKept == apiLive \ aged
RecKept == recLive \ aged
ApiGc == apiLive' = ApiKept /\ aborting' = aborting \cup (apiLive \cap aged)

\* Mutant: a Share C row counts as a wallet.
NoWalletOrShare == \A w \in Wallets : walletRow[w] # "ACTIVE" /\ shareC[w] # "ACTIVE"

\* assertNoLiveWallet
NoLiveWallet == \A w \in Wallets : walletRow[w] # "ACTIVE"

---------------------------------------------------------------------------
(* The browser: createMpcWalletViaDkg *)

Running(w) == browser[w] \in {"asking", "waiting", "saving"}

Open(w) ==
    /\ browser[w] = "closed"
    /\ Cardinality({v \in Wallets : Running(v)}) < Tabs
    /\ browser' = [browser EXCEPT ![w] = "asking"]
    /\ UNCHANGED <<shareC, apiVars, recVars, aged, walletRow, partyA, req, callVars>>

\* The connection breaks: the call throws in the browser, its handler goes on.
LoseConnection(w) ==
    /\ "net" \in Faults
    /\ browser[w] \in {"asking", "waiting"}
    /\ browser' = [browser EXCEPT ![w] = "failing"]
    /\ UNCHANGED <<shareC, apiVars, recVars, aged, walletRow, partyA, req, callVars>>

\* The tab is closed: no catch block runs.
CloseTab(w) ==
    /\ "close" \in Faults
    /\ Running(w)
    /\ browser' = [browser EXCEPT ![w] = "gone"]
    /\ UNCHANGED <<shareC, apiVars, recVars, aged, walletRow, partyA, req, callVars>>

\* saveBrowserShareA
SaveShareA(w) ==
    /\ browser[w] = "saving"
    /\ \/ browser' = [browser EXCEPT ![w] = "done"]
       \/ "db" \in Faults /\ browser' = [browser EXCEPT ![w] = "failing"]
    /\ UNCHANGED <<shareC, apiVars, recVars, aged, walletRow, partyA, req, callVars>>

\* The catch block wipes Share A and aborts the session, if it learned the id;
\* the API's abort removes the session and passes the abort on.
GiveUp(w) ==
    /\ browser[w] = "failing"
    /\ browser' = [browser EXCEPT ![w] = "gone"]
    /\ \/ /\ partyA[w] > 0 /\ w \in apiLive
          /\ apiLive' = apiLive \ {w}
          /\ aborting' = aborting \cup {w}
       \/ /\ partyA[w] = 0 \/ w \notin apiLive \/ "net" \in Faults
          /\ UNCHANGED <<apiLive, aborting>>
    /\ UNCHANGED <<shareC, step, partyB, recVars, aged, walletRow, partyA, req, retiring>>

---------------------------------------------------------------------------
(* Calls to the Recovery server *)

\* request() throws: nothing was done, or it was and the answer is lost.
\* done is the Recovery server's step.
CallFails(r, done) ==
    /\ "rpc" \in Faults
    /\ done \/ UNCHANGED recVars
    /\ Fail(r)
    /\ UNCHANGED apiVars

\* The Recovery server refuses with an error, which is a 503 for the API.
CallRefused(r) ==
    /\ recLive' = RecKept
    /\ UNCHANGED partyC
    /\ Fail(r)
    /\ UNCHANGED apiVars

\* KeygenSession.handleMessages goes through for the messages of call c's round.
Handles(party, c) == party = c - 1

\* handleRound1, handleP2P and handleBroadcast of the Recovery server.
CanHandle(w, c) == w \in RecKept /\ Handles(partyC[w], c)

HandleC(w, c) == /\ CanHandle(w, c)
                 /\ recLive' = RecKept
                 /\ partyC' = [partyC EXCEPT ![w] = c]

---------------------------------------------------------------------------
(* start *)

ReceiveStart(r, w) ==
    /\ At(r, "idle")
    /\ browser[w] = "asking" /\ partyA[w] = 0
    /\ req' = [req EXCEPT ![r] = [pc |-> "live", w |-> w, call |-> 1, heard |-> TRUE]]
    /\ browser' = [browser EXCEPT ![w] = "waiting"]
    /\ ApiGc
    /\ UNCHANGED <<shareC, step, partyB, recVars, aged, walletRow, partyA, retiring>>

StartLive(r) ==
    /\ At(r, "live")
    /\ \/ NoLiveWallet /\ Goto(r, "startC") /\ UNCHANGED browserVars
       \/ (~NoLiveWallet \/ "db" \in Faults) /\ Fail(r)
    /\ UNCHANGED <<shareC, apiVars, recVars, aged, walletRow, callVars>>

\* The Recovery server's start; then party B handles round 1.
SessionC(w) == /\ w \notin RecKept
               /\ recLive' = RecKept \cup {w}
               /\ partyC' = [partyC EXCEPT ![w] = 0]

StartC(r) ==
    /\ At(r, "startC")
    /\ LET w == req[r].w IN
       \/ /\ SessionC(w)
          /\ partyB' = [partyB EXCEPT ![w] = 1]
          /\ Goto(r, "round1C")
          /\ UNCHANGED <<apiLive, step, browserVars>>
       \/ CallFails(r, SessionC(w))
    /\ UNCHANGED <<shareC, aged, walletRow, callVars>>

\* The Recovery server's round 1; then the session enters the API's Map.
Round1C(r) ==
    /\ At(r, "round1C")
    /\ LET w == req[r].w IN
       \/ /\ HandleC(w, 1)
          /\ apiLive' = apiLive \cup {w}
          /\ step' = [step EXCEPT ![w] = 2]
          /\ Reply(r)
          /\ UNCHANGED partyB
       \/ ~CanHandle(w, 1) /\ CallRefused(r)
       \/ CallFails(r, HandleC(w, 1))
    /\ UNCHANGED <<shareC, aged, walletRow, callVars>>

---------------------------------------------------------------------------
(* round2, round3, round4 *)

\* Call c reaches the API: as the browser sent it, or once more.
Arrives(w, c) ==
    \/ browser[w] = "asking" /\ c = partyA[w] + 1 /\ browser' = [browser EXCEPT ![w] = "waiting"]
    \/ /\ "dup" \in Faults
       /\ c <= partyA[w] \/ WaitsFor(w, c)
       /\ UNCHANGED browser

\* requireOwned and the step check.
InStep(w, c) == w \in ApiKept /\ step[w] = c

\* Party B handles the messages before the await of party C.
ReceiveRound(r, w, c) ==
    /\ At(r, "idle")
    /\ Arrives(w, c)
    /\ InStep(w, c) /\ Handles(partyB[w], c)
    /\ partyB' = [partyB EXCEPT ![w] = c]
    /\ req' = [req EXCEPT ![r] = [pc |-> "roundC", w |-> w, call |-> c, heard |-> TRUE]]
    /\ ApiGc
    /\ UNCHANGED <<shareC, step, recVars, aged, walletRow, partyA, retiring>>

\* Mutant: the step moves on when party C failed, too.
RoundCEager(r) ==
    /\ At(r, "roundC")
    /\ LET w == req[r].w  c == req[r].call IN
       /\ HandleC(w, c) \/ (~CanHandle(w, c) /\ UNCHANGED recVars)
       /\ apiLive' = apiLive \cup {w}
       /\ step' = [step EXCEPT ![w] = c + 1]
       /\ Reply(r)
       /\ UNCHANGED partyB
    /\ UNCHANGED <<shareC, aged, walletRow, callVars>>

\* Party C handles them; sessions.set also brings back a session that was
\* aborted or expired during the await.
RoundC(r) ==
    /\ At(r, "roundC")
    /\ LET w == req[r].w  c == req[r].call IN
       \/ /\ HandleC(w, c)
          /\ apiLive' = apiLive \cup {w}
          /\ step' = [step EXCEPT ![w] = c + 1]
          /\ Reply(r)
          /\ UNCHANGED partyB
       \/ ~CanHandle(w, c) /\ CallRefused(r)
       \/ CallFails(r, HandleC(w, c))
    /\ UNCHANGED <<shareC, aged, walletRow, callVars>>

\* No such session, another step, or a keygen state of another round.
RefuseCall(w, c) ==
    /\ ~InStep(w, c) \/ (c < 5 /\ ~Handles(partyB[w], c))
    /\ \/ /\ \/ browser[w] = "asking" /\ c = partyA[w] + 1
             \/ "dup" \in Faults /\ WaitsFor(w, c)
          /\ browser' = [browser EXCEPT ![w] = "failing"]
       \/ "dup" \in Faults /\ c <= partyA[w] /\ UNCHANGED browser
    /\ ApiGc
    /\ UNCHANGED <<shareC, step, partyB, recVars, aged, walletRow, partyA, req, retiring>>

---------------------------------------------------------------------------
(* complete *)

ReceiveComplete(r, w) ==
    /\ At(r, "idle")
    /\ Arrives(w, 5)
    /\ InStep(w, 5)
    /\ req' = [req EXCEPT ![r] = [pc |-> "recheck", w |-> w, call |-> 5, heard |-> TRUE]]
    /\ ApiGc
    /\ UNCHANGED <<shareC, step, partyB, recVars, aged, walletRow, partyA, retiring>>

\* assertNoLiveWallet again, then party B's keyshare.
Recheck(r) ==
    /\ At(r, "recheck")
    /\ \/ /\ NoLiveWallet /\ partyB[req[r].w] = LastRound
          /\ Goto(r, "find")
          /\ UNCHANGED browserVars
       \/ /\ ~NoLiveWallet \/ partyB[req[r].w] # LastRound \/ "db" \in Faults
          /\ Fail(r)
    /\ UNCHANGED <<shareC, apiVars, recVars, aged, walletRow, callVars>>

\* Recovery finalize: its session, its keyshare, and no row for the wallet id.
Find(r) ==
    /\ At(r, "find")
    /\ LET w == req[r].w
           found == w \in RecKept /\ partyC[w] = LastRound /\ InsertAllowed(w)
       IN \/ found /\ Goto(r, "insert") /\ UNCHANGED browserVars
          \/ (~found \/ "db" \in Faults) /\ Fail(r)
    /\ recLive' = RecKept
    /\ UNCHANGED <<shareC, apiVars, partyC, aged, walletRow, callVars>>

\* Mutant: a failed finalize call is swallowed like a failed abort.
InsertSwallowed(r) ==
    /\ At(r, "insert")
    /\ LET w == req[r].w IN
       \/ InsertShareC(w) /\ recLive' = recLive \ {w}
       \/ "db" \in Faults /\ UNCHANGED <<shareC, recLive>>
    /\ IF req[r].heard THEN Goto(r, "create") /\ UNCHANGED browserVars ELSE Fail(r)
    /\ UNCHANGED <<apiVars, partyC, aged, walletRow, callVars>>

\* The row is inserted and the session removed; the API goes on with the
\* wallet if it still waits. A failed insert, also one that was done, keeps
\* the session.
Insert(r) ==
    /\ At(r, "insert")
    /\ LET w == req[r].w IN
       \/ /\ InsertShareC(w)
          /\ recLive' = recLive \ {w}
          /\ IF req[r].heard THEN Goto(r, "create") /\ UNCHANGED browserVars ELSE Fail(r)
       \/ ~InsertAllowed(w) /\ Fail(r) /\ UNCHANGED <<shareC, recLive>>
       \/ "db" \in Faults /\ (InsertShareC(w) \/ UNCHANGED shareC) /\ Fail(r) /\ UNCHANGED recLive
    /\ UNCHANGED <<apiVars, partyC, aged, walletRow, callVars>>

\* The connection breaks: the API's handler throws, finalize goes on.
HangUp(r) ==
    /\ "rpc" \in Faults
    /\ req[r].pc \in RecoveryPcs /\ req[r].heard
    /\ req' = [req EXCEPT ![r].heard = FALSE]
    /\ Refuse(req[r].w, req[r].call)
    /\ UNCHANGED <<shareC, apiVars, recVars, aged, walletRow, callVars>>

\* Mutant: no unique index on the live wallets of a user.
CreateWalletAnyway(w) ==
    walletRow[w] = "NONE" /\ walletRow' = [walletRow EXCEPT ![w] = "ACTIVE"]

\* prisma.wallet.create under the unique id and the unique index on live wallets.
CreateWallet(w) ==
    /\ walletRow[w] = "NONE" /\ NoLiveWallet
    /\ walletRow' = [walletRow EXCEPT ![w] = "ACTIVE"]

\* Mutant: a failed create is answered as a success.
CreateAnswersAnyway(r) ==
    /\ At(r, "create")
    /\ CreateWallet(req[r].w) \/ UNCHANGED walletRow
    /\ Goto(r, "audit")
    /\ UNCHANGED <<shareC, apiVars, recVars, aged, browserVars, callVars>>

Create(r) ==
    /\ At(r, "create")
    /\ LET w == req[r].w IN
       \/ CreateWallet(w) /\ Goto(r, "audit") /\ UNCHANGED browserVars
       \/ (walletRow[w] # "NONE" \/ ~NoLiveWallet) /\ Fail(r) /\ UNCHANGED walletRow
       \/ "db" \in Faults /\ (CreateWallet(w) \/ UNCHANGED walletRow) /\ Fail(r)
    /\ UNCHANGED <<shareC, apiVars, recVars, aged, callVars>>

\* audit.write never throws; then the session ends.
Audit(r) ==
    /\ At(r, "audit")
    /\ step' = [step EXCEPT ![req[r].w] = 6]
    /\ apiLive' = apiLive \ {req[r].w}
    /\ Reply(r)
    /\ UNCHANGED <<shareC, partyB, recVars, aged, walletRow, callVars>>

---------------------------------------------------------------------------
(* Background calls, retirement, time, crashes *)

\* dkgAbort arrives, or is lost and its error swallowed.
AbortC(w) ==
    /\ w \in aborting
    /\ aborting' = aborting \ {w}
    /\ recLive' = recLive \ {w} \/ ("rpc" \in Faults /\ UNCHANGED recLive)
    /\ UNCHANGED <<shareC, apiVars, partyC, aged, walletRow, browserVars, req, retiring>>

\* A last withdraw, also one that runs beside another, retires the wallet and
\* then calls retireShareC.
RetireWallet(w) ==
    /\ walletRow[w] # "NONE"
    /\ walletRow' = [walletRow EXCEPT ![w] = "RETIRED"]
    /\ retiring' = retiring \cup {w}
    /\ UNCHANGED <<shareC, apiVars, recVars, aged, browserVars, req, aborting>>

\* retireShareC arrives, or is lost and its error only logged.
RetireC(w) ==
    /\ w \in retiring
    /\ retiring' = retiring \ {w}
    /\ RetireShare(w) \/ ("rpc" \in Faults /\ UNCHANGED shareC)
    /\ UNCHANGED <<apiVars, recVars, aged, walletRow, browserVars, req, aborting>>

\* SESSION_TTL_MS passes; the API's session is created within the start call.
GrowOld(w) ==
    /\ "slow" \in Faults
    /\ w \in (apiLive \cup recLive) \ aged
    /\ \A r \in Requests : req[r].w = w => req[r].pc # "round1C"
    /\ aged' = aged \cup {w}
    /\ UNCHANGED <<shareC, apiVars, recVars, walletRow, browserVars, req, callVars>>

\* Browsers whose call c is being served by a slot in R lose their connection.
Dropped(R) ==
    browser' = [w \in Wallets |->
                   IF \E r \in R : req[r].w = w /\ req[r].heard /\ WaitsFor(w, req[r].call)
                   THEN "failing" ELSE browser[w]]

\* The API process restarts; finalize calls go on without it.
RestartApi ==
    /\ apiLive' = {}
    /\ LET served == {r \in Requests : req[r].pc # "idle"} IN
       /\ req' = [r \in Requests |-> IF req[r].pc \in RecoveryPcs
                                     THEN [req[r] EXCEPT !.heard = FALSE] ELSE Idle]
       /\ Dropped(served)
    /\ UNCHANGED <<shareC, step, partyB, recVars, aged, walletRow, partyA, callVars>>

RestartRecovery ==
    /\ recLive' = {}
    /\ LET served == {r \in Requests : req[r].pc \in RecoveryPcs} IN
       /\ req' = [r \in Requests |-> IF r \in served THEN Idle ELSE req[r]]
       /\ Dropped(served)
    /\ UNCHANGED <<shareC, apiVars, partyC, aged, walletRow, partyA, callVars>>

---------------------------------------------------------------------------

HandlerStep(r) ==
    \/ StartLive(r) \/ StartC(r) \/ Round1C(r) \/ RoundC(r)
    \/ Recheck(r) \/ Find(r) \/ Insert(r) \/ Create(r) \/ Audit(r)

\* An idle slot or no slot takes the call.
Receive(w) ==
    \/ \E r \in Requests : \/ ReceiveStart(r, w) \/ ReceiveComplete(r, w)
                           \/ \E c \in 2 .. LastRound : ReceiveRound(r, w, c)
    \/ \E c \in 2 .. 5 : RefuseCall(w, c)

BrowserStep(w) == Open(w) \/ SaveShareA(w) \/ GiveUp(w)

Next ==
    \/ \E r \in Requests : HandlerStep(r) \/ HangUp(r)
    \/ \E w \in Wallets : \/ Receive(w) \/ BrowserStep(w) \/ LoseConnection(w) \/ CloseTab(w)
                          \/ AbortC(w) \/ RetireWallet(w) \/ RetireC(w) \/ GrowOld(w)
    \/ "crash" \in Faults /\ (RestartApi \/ RestartRecovery)

Spec == Init /\ [][Next]_vars

\* An await that was started is answered, a call that was sent arrives, and the
\* user of a closed page tries once more.
Fairness ==
    /\ \A r \in Requests : WF_vars(HandlerStep(r))
    /\ \A w \in Wallets : WF_vars(Receive(w)) /\ WF_vars(BrowserStep(w))

---------------------------------------------------------------------------
(* Properties *)

\* A user never has two live wallets, whatever creations ran at the same time:
\* both may pass assertNoLiveWallet, and the unique index decides.
OneLiveWallet ==
    \A v, w \in Wallets : walletRow[v] = "ACTIVE" /\ walletRow[w] = "ACTIVE" => v = w

\* A live wallet has its Share C on the Recovery server and was made by a key
\* generation that both servers finished: complete stores Share C first and
\* creates no wallet when the answer of finalize was lost.
WalletHasItsShares ==
    \A w \in Wallets : walletRow[w] = "ACTIVE" =>
        shareC[w] = "ACTIVE" /\ partyB[w] = LastRound /\ partyC[w] = LastRound

\* A session never waits for a call whose previous round a server has not
\* handled, also after lost answers, repeated calls and sessions that an await
\* brought back into the Map.
StepMeansHandled ==
    \A w \in apiLive : partyB[w] >= step[w] - 1 /\ partyC[w] >= step[w] - 1

\* The browser stores Share A only for a wallet that exists: createMpcWallet
\* ends well only after complete committed the row.
StoredShareHasWallet ==
    \A w \in Wallets : browser[w] \in {"saving", "done"} => walletRow[w] # "NONE"

Promise == INSTANCE Custody WITH Attempts <- {}, wallet <- walletRow,
                                 phase <- [a \in {} |-> "new"]

\* Every creation, whatever overlaps, fails or is repeated, is a series of the
\* steps Custody allows: the share first, then at most one live wallet on it,
\* and a share that goes for good after its wallet.
ImplementsCustody == Promise!Spec

\* README:60-63: creation ends with Share A in the browser, B in the API and C
\* on the Recovery server, so a new wallet's Share A is stored or still held.
WalletKeepsShareA ==
    \A w \in Wallets : walletRow[w] = "ACTIVE" => browser[w] \in {"waiting", "saving", "done"}

\* A user who tries again after a failed creation gets a wallet: what a crash
\* left behind (sessions, an orphaned Share C row) does not stand in the way.
RetryCreates == <>(\E w \in Wallets : walletRow[w] = "ACTIVE")
=============================================================================
