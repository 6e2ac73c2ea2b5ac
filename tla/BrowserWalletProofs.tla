------------------------- MODULE BrowserWalletProofs -------------------------
(***************************************************************************)
(* Proofs about BrowserWallet for any number of tabs, any intents and any  *)
(* state of the node.                                                      *)
(***************************************************************************)
EXTENDS BrowserWallet, TransferProofs

Job == [pc : Pcs, want : Intents \cup {NoIntent}, session : BOOLEAN,
        answer : Answer \cup {<<>>}, digest : Tx \cup {<<>>}]

Row == [status : {"NONE", "PROCESSING", "BROADCASTED", "EXECUTED", "FAILED"},
        by : Tabs \cup {NoTab}, want : Intents \cup {NoIntent}, tx : Tx \cup {<<>>},
        lost : BOOLEAN]

Typed == /\ wallet \in Statuses
         /\ row \in Row
         /\ shareA \in BOOLEAN /\ shareB \in BOOLEAN
         /\ view \in [Tabs -> [status : Statuses \cup {"NONE"}, has : BOOLEAN]]
         /\ job \in [Tabs -> Job]

Rounds == {"round1", "round2", "round3", "complete"}

\* A job with a session, and one that signs a digest.
JobOK(j) == /\ j.pc \in SignPcs => j.want \in Intents
            /\ j.pc = "answered" => j.answer \in Answer
            /\ j.pc \in Rounds => j.digest \in Tx /\ Does(j.digest, j.want)
            /\ j.session => j.pc \in Rounds \cup {"answered", "abort"}
            /\ j.pc = "wipe" => ~shareB

\* The row, and the job of the tab that opened it.
RowOK == /\ row.status # "NONE" => row.want \in Intents /\ row.tx \in Tx
         /\ row.status \in {"BROADCASTED", "EXECUTED"} => Does(row.tx, row.want)
         /\ \A t \in Tabs : HoldsSession(t) => row.want = job[t].want
         /\ row.status = "PROCESSING" /\ ~row.lost => row.by \in Tabs /\ job[row.by].session

WalletInv == Typed /\ (\A t \in Tabs : JobOK(job[t])) /\ RowOK

LEMMA InvTypes == WalletInv => TypeOK
  BY DEF WalletInv, Typed, JobOK, RowOK, TypeOK, Job, Row, Rounds

---------------------------------------------------------------------------
(* The answers of sign/start *)

LEMMA PreparedIsTx ==
  ASSUME NEW want \in Intents, NEW net \in Nets, NEW tx \in Prepared(want, net), NEW wei \in Wei(want)
  PROVE  /\ tx \in Tx /\ wei \in Nat /\ want \in Intent /\ net \in Network
         /\ tx \in IF want.asset = "ETH" THEN PrepareAmount(Own, want.to, wei, net)
                   ELSE PrepareErc20(Own, want.to, want.token, wei, net)
  <1>1. want \in Intent /\ net \in Network /\ Own \in Addresses
    BY IntentsKnown, NetsKnown, OwnIsAddress
  <1>2. wei \in Nat /\ Wei(want) = {wei}
    BY <1>1, WeiIsNat
  <1>3. tx \in PreparedFor(want, wei, net)
    BY <1>2 DEF Prepared
  <1>4. want.to \in Addresses /\ want.token \in Addresses
    BY <1>1 DEF Intent
  <1> QED
    BY <1>1, <1>2, <1>3, <1>4, PreparedEth, PreparedToken DEF PreparedFor

LEMMA StoredIsFields ==
  ASSUME NEW tx \in Tx
  PROVE  Stored(tx) \in Fields
  BY DEF Stored, Fields, Tx, Decimal, Numeral, HexText

LEMMA AnswerForIsAnswer ==
  ASSUME NEW tx \in Tx, NEW digest \in Tx, NEW amount \in Nat
  PROVE  AnswerFor(tx, digest, amount) \in Answer
  BY StoredIsFields DEF AnswerFor, Answer, Decimal, Numeral

LEMMA HonestIsAnswer ==
  ASSUME NEW want \in Intents, NEW answer \in HonestAnswers(want)
  PROVE  answer \in Answer /\ answer.digest \in Tx
  <1>0. PICK net \in Nets : \E tx \in Prepared(want, net), wei \in Wei(want) : answer = AnswerFor(tx, tx, wei)
    BY DEF HonestAnswers
  <1>1. PICK tx \in Prepared(want, net), wei \in Wei(want) : answer = AnswerFor(tx, tx, wei)
    BY <1>0
  <1>2. tx \in Tx /\ wei \in Nat
    BY PreparedIsTx
  <1>3. answer \in Answer
    BY <1>1, <1>2, AnswerForIsAnswer
  <1> QED
    BY <1>3 DEF Answer

LEMMA OthersAreTx ==
  ASSUME NEW tx \in Tx
  PROVE  Others(tx) \subseteq Tx
  <1>1. \A a \in Addresses : TransferCall(a, 1) \in CallData
    BY DEF TransferCall, CallData
  <1> QED
    BY <1>1 DEF Others, Tx

LEMMA OtherIsAnswer ==
  ASSUME NEW tx \in Tx, NEW amount \in Nat
  PROVE  OtherAnswers(tx, amount) \subseteq Answer
  <1> DEFINE answer == AnswerFor(tx, tx, amount)
  <1>1. answer \in Answer /\ AnswerFor(tx, tx, amount + 1) \in Answer
    BY AnswerForIsAnswer
  <1>2. \A x \in Others(tx) : AnswerFor(x, x, amount) \in Answer /\ AnswerFor(tx, x, amount) \in Answer
    BY OthersAreTx, AnswerForIsAnswer
  <1>3. ASSUME NEW s \in {"upper", "bad"} PROVE [answer EXCEPT !.tx.data.text = s] \in Answer
    BY <1>1 DEF Answer, Fields, HexText
  <1>4. [answer EXCEPT !.tx.value.canonical = FALSE] \in Answer
    BY <1>1 DEF Answer, Fields, Numeral
  <1> QED
    BY <1>1, <1>2, <1>3, <1>4 DEF OtherAnswers

LEMMA AnswersAreAnswers ==
  ASSUME NEW want \in Intents, NEW answer \in Answers(want)
  PROVE  answer \in Answer /\ answer.digest \in Tx
  <1>1. CASE answer \in HonestAnswers(want)
    BY <1>1, HonestIsAnswer
  <1>2. ASSUME NEW honest \in HonestAnswers(want), NEW wei \in Wei(want),
               answer \in OtherAnswers(honest.digest, wei)
        PROVE  answer \in Answer
    <2>1. honest.digest \in Tx /\ wei \in Nat
      BY HonestIsAnswer, IntentsKnown, WeiIsNat
    <2> QED
      BY <1>2, <2>1, OtherIsAnswer
  <1>3. answer \in Answer
    BY <1>1, <1>2 DEF Answers
  <1> QED
    BY <1>3 DEF Answer

---------------------------------------------------------------------------
(* Jobs: how a step of one tab is put together *)

\* A step of tab t that leaves j as its job.
Leaves(t, j) == /\ j \in Job /\ job' = [job EXCEPT ![t] = j]
                /\ JobOK(j)'
                /\ wallet' \in Statuses /\ shareA' \in BOOLEAN /\ shareB' \in BOOLEAN
                /\ (shareB' => shareB)
                /\ view' \in [Tabs -> [status : Statuses \cup {"NONE"}, has : BOOLEAN]]

LEMMA JobStep ==
  ASSUME WalletInv, NEW t \in Tabs, NEW j, Leaves(t, j), row' \in Row, RowOK'
  PROVE  WalletInv'
  <1>1. job' \in [Tabs -> Job] /\ job'[t] = j /\ \A u \in Tabs : u # t => job'[u] = job[u]
    BY DEF WalletInv, Typed, Leaves
  <1>2. Typed'
    BY <1>1 DEF WalletInv, Typed, Leaves
  <1>3. ASSUME NEW u \in Tabs PROVE JobOK(job[u])'
    <2>1. CASE u = t
      BY <1>1, <2>1 DEF Leaves, JobOK
    <2>2. CASE u # t
      BY <1>1, <2>2 DEF WalletInv, Leaves, JobOK
    <2> QED
      BY <2>1, <2>2
  <1> QED
    BY <1>2, <1>3 DEF WalletInv

\* Without a session before and after it, a step of a tab that leaves the row.
LEMMA QuietStep ==
  ASSUME WalletInv, NEW t \in Tabs, NEW j, Leaves(t, j), row' = row, ~job[t].session, ~j.session
  PROVE  WalletInv'
  <1>1. job'[t] = j /\ \A u \in Tabs : u # t => job'[u] = job[u]
    BY DEF WalletInv, Typed, Leaves
  <1>2. RowOK'
    BY <1>1 DEF WalletInv, RowOK, HoldsSession
  <1> QED
    BY <1>2, JobStep DEF WalletInv, Typed

\* The same for a step that goes on with its session.
LEMMA SessionStep ==
  ASSUME WalletInv, NEW t \in Tabs, NEW j, Leaves(t, j), row' = row,
         j.session = job[t].session, j.want = job[t].want
  PROVE  WalletInv'
  <1>1. job'[t] = j /\ \A u \in Tabs : u # t => job'[u] = job[u]
    BY DEF WalletInv, Typed, Leaves
  <1>2. RowOK'
    BY <1>1 DEF WalletInv, RowOK, HoldsSession
  <1> QED
    BY <1>2, JobStep DEF WalletInv, Typed

\* The ways a job goes on.
Moved(t, pc) == [job[t] EXCEPT !.pc = pc]
Refreshing == [Idle EXCEPT !.pc = "refresh"]
Caught(t) == [job[t] EXCEPT !.pc = "abort", !.answer = <<>>, !.digest = <<>>]

LEMMA IdleIsJob ==
  /\ Idle \in Job /\ Idle.pc = "idle" /\ ~Idle.session
  /\ Refreshing \in Job /\ Refreshing.pc = "refresh" /\ ~Refreshing.session
  BY DEF Idle, Refreshing, Job, Pcs

LEMMA MovedIsJob ==
  ASSUME Typed, NEW t \in Tabs, NEW pc \in Pcs
  PROVE  /\ Moved(t, pc) \in Job /\ Moved(t, pc).pc = pc /\ Moved(t, pc).want = job[t].want
         /\ Moved(t, pc).session = job[t].session /\ Moved(t, pc).answer = job[t].answer
         /\ Moved(t, pc).digest = job[t].digest
         /\ Goto(t, pc) <=> job' = [job EXCEPT ![t] = Moved(t, pc)]
  BY DEF Typed, Moved, Job, Goto

LEMMA CaughtIsJob ==
  ASSUME Typed, NEW t \in Tabs
  PROVE  /\ Caught(t) \in Job /\ Caught(t).pc = "abort" /\ Caught(t).want = job[t].want
         /\ Caught(t).session = job[t].session
         /\ Catch(t) <=> job' = [job EXCEPT ![t] = Caught(t)]
  BY DEF Typed, Caught, Job, Catch, Pcs, SignPcs

LEMMA PcNames ==
  /\ SignPcs \subseteq Pcs /\ Rounds \subseteq SignPcs /\ DOMAIN NextCall \subseteq Rounds
  /\ \A pc \in DOMAIN NextCall : NextCall[pc] \in Rounds
  /\ {"idle", "refresh", "refreshShare", "wipe", "parsed", "decrypt", "put", "report",
      "emergency", "cancel", "cancelWrite", "last"} \subseteq Pcs \ SignPcs
  /\ SignPcs = {"load", "start", "answered", "round1", "round2", "round3", "complete", "abort"}
  BY DEF SignPcs, Rounds, NextCall, Pcs, Calls

\* A job that is neither signing nor about to delete Share A.
LEMMA CalmJob ==
  ASSUME NEW j \in Job, j.pc \in Pcs \ (SignPcs \cup {"wipe"}), ~j.session
  PROVE  JobOK(j)'
  BY PcNames DEF JobOK

LEMMA NoSession ==
  ASSUME WalletInv, NEW t \in Tabs, job[t].pc \notin Rounds \cup {"answered", "abort"}
  PROVE  ~job[t].session
  BY DEF WalletInv, JobOK

---------------------------------------------------------------------------
(* The steps that open, use and close no session *)

\* A step that refreshes or finishes, or goes on to a state that signs nothing.
LEMMA CalmStep ==
  ASSUME WalletInv, NEW t \in Tabs, job[t].pc \notin Rounds \cup {"answered", "abort"},
         \/ GotoRefresh(t) \/ Finish(t)
         \/ \E pc \in Pcs \ (SignPcs \cup {"wipe"}) : Goto(t, pc)
         \/ Goto(t, "wipe") /\ ~shareB',
         row' = row, wallet' \in Statuses, shareA' \in BOOLEAN, shareB' \in BOOLEAN,
         shareB' => shareB,
         view' \in [Tabs -> [status : Statuses \cup {"NONE"}, has : BOOLEAN]]
  PROVE  WalletInv'
  <1>0. Typed /\ ~job[t].session
    BY NoSession DEF WalletInv
  <1>1. CASE GotoRefresh(t)
    <2>1. JobOK(Refreshing)'
      BY IdleIsJob, PcNames, CalmJob
    <2>2. Leaves(t, Refreshing)
      BY <1>1, <2>1, IdleIsJob DEF Leaves, GotoRefresh, Refreshing
    <2> QED
      BY <1>0, <2>2, IdleIsJob, QuietStep
  <1>2. CASE Finish(t)
    <2>1. JobOK(Idle)'
      BY IdleIsJob, PcNames, CalmJob
    <2>2. Leaves(t, Idle)
      BY <1>2, <2>1, IdleIsJob DEF Leaves, Finish
    <2> QED
      BY <1>0, <2>2, IdleIsJob, QuietStep
  <1>3. ASSUME NEW pc \in Pcs \ (SignPcs \cup {"wipe"}), Goto(t, pc) PROVE WalletInv'
    <2> DEFINE j == Moved(t, pc)
    <2>1. /\ j \in Job /\ j.pc = pc /\ ~j.session /\ job' = [job EXCEPT ![t] = j]
      BY <1>0, <1>3, MovedIsJob
    <2> HIDE DEF j
    <2>2. PICK k \in Job : k.pc = pc /\ ~k.session /\ job' = [job EXCEPT ![t] = k]
      BY <2>1
    <2>3. Leaves(t, k)
      BY <2>2, CalmJob DEF Leaves
    <2> QED
      BY <1>0, <2>2, <2>3, QuietStep
  <1>4. CASE Goto(t, "wipe") /\ ~shareB'
    <2> DEFINE j == Moved(t, "wipe")
    <2>1. /\ j \in Job /\ j.pc = "wipe" /\ ~j.session /\ job' = [job EXCEPT ![t] = j]
      BY <1>0, <1>4, MovedIsJob, PcNames
    <2> HIDE DEF j
    <2>2. PICK k \in Job : k.pc = "wipe" /\ ~k.session /\ job' = [job EXCEPT ![t] = k]
      BY <2>1
    <2>3. JobOK(k)'
      BY <1>4, <2>2, PcNames DEF JobOK
    <2>4. Leaves(t, k)
      BY <2>2, <2>3 DEF Leaves
    <2> QED
      BY <1>0, <2>2, <2>4, QuietStep
  <1> QED
    BY <1>1, <1>2, <1>3, <1>4

LEMMA CalmSteps ==
  ASSUME WalletInv, NEW t \in Tabs,
         Restore(t) \/ Emergency(t) \/ Refresh(t) \/ RefreshShare(t) \/ ApiStartFails(t)
  PROVE  WalletInv'
  <1>0. Typed
    BY DEF WalletInv
  <1>1. CASE Restore(t) \/ ApiStartFails(t)
    <2>1. /\ job[t].pc \in {"idle", "parsed", "decrypt", "put", "report", "start"}
          /\ \/ GotoRefresh(t) \/ Finish(t) \/ Goto(t, "parsed") \/ Goto(t, "decrypt")
             \/ Goto(t, "put") \/ Goto(t, "report")
          /\ UNCHANGED api /\ shareA' \in BOOLEAN
      BY <1>0, <1>1 DEF Restore, ClickRestore, HasShare, Decrypt, SaveShare, Report, ApiStartFails,
                        At, Typed
    <2>2. view' \in [Tabs -> [status : Statuses \cup {"NONE"}, has : BOOLEAN]]
      BY <1>0, <1>1 DEF Restore, ClickRestore, HasShare, Decrypt, SaveShare, Report, ApiStartFails,
                        Typed
    <2>3. job[t].pc \notin Rounds \cup {"answered", "abort"}
      BY <2>1 DEF Rounds
    <2> QED
      BY <1>0, <2>1, <2>2, <2>3, PcNames, CalmStep DEF api, Typed
  <1>2. CASE Emergency(t) \/ Refresh(t) \/ RefreshShare(t)
    <2>1. job[t].pc \in {"idle", "emergency", "cancel", "cancelWrite", "last", "wipe",
                         "refresh", "refreshShare"}
      BY <1>2 DEF Emergency, Click, ClickEmergency, Shows, StartEmergency, CancelRead, CancelWrite,
                  LastWithdraw, WipeShare, Refresh, RefreshShare, At
    <2>2. \/ GotoRefresh(t) \/ Finish(t) \/ Goto(t, "emergency") \/ Goto(t, "cancel")
          \/ Goto(t, "last") \/ Goto(t, "cancelWrite") \/ Goto(t, "refreshShare")
          \/ Goto(t, "wipe") /\ ~shareB'
      BY <1>2 DEF Emergency, Click, ClickEmergency, StartEmergency, CancelRead, CancelWrite,
                  LastWithdraw, WipeShare, Refresh, RefreshShare
    <2>3. /\ row' = row /\ wallet' \in Statuses /\ shareA' \in BOOLEAN /\ shareB' \in BOOLEAN
          /\ (shareB' => shareB)
      <3>1. CASE UNCHANGED <<row, shareA, shareB>> /\ wallet' \in Statuses
        BY <1>0, <3>1 DEF Typed
      <3>2. CASE Click(t) \/ CancelRead(t) \/ Refresh(t) \/ RefreshShare(t)
        BY <1>0, <3>1, <3>2 DEF Click, CancelRead, Refresh, RefreshShare, api, Typed
      <3>3. CASE StartEmergency(t) \/ CancelWrite(t)
        BY <1>0, <3>1, <3>3 DEF StartEmergency, CancelWrite, Typed, Statuses
      <3>4. CASE LastWithdraw(t)
        <4>1. UNCHANGED <<row, shareA>>
          BY <3>4 DEF LastWithdraw
        <4>2. wallet' \in Statuses
          BY <1>0, <3>4 DEF LastWithdraw, Typed, Statuses
        <4>3. shareB' = FALSE \/ UNCHANGED shareB
          BY <3>4 DEF LastWithdraw
        <4>4. CASE shareB' = FALSE
          <5>1. row' = row /\ shareA' \in BOOLEAN
            BY <1>0, <4>1 DEF Typed
          <5> QED
            BY <4>2, <4>4, <5>1, Zenon
        <4>5. CASE UNCHANGED shareB
          BY <3>1, <4>1, <4>2, <4>5
        <4> QED
          BY <4>3, <4>4, <4>5
      <3>5. CASE WipeShare(t)
        BY <1>0, <3>5 DEF WipeShare, api, Typed
      <3> QED
        BY <1>2, <3>2, <3>3, <3>4, <3>5 DEF Emergency
    <2>4. view' \in [Tabs -> [status : Statuses \cup {"NONE"}, has : BOOLEAN]]
      <3>0. \A u \in Tabs : view[u] \in [status : Statuses \cup {"NONE"}, has : BOOLEAN]
        BY <1>0 DEF Typed
      <3>1. ASSUME NEW s \in Statuses, view' = [view EXCEPT ![t].status = s]
            PROVE  view' \in [Tabs -> [status : Statuses \cup {"NONE"}, has : BOOLEAN]]
        BY <1>0, <3>0, <3>1 DEF Typed
      <3>2. CASE StartEmergency(t)
        BY <1>0, <3>1, <3>2 DEF StartEmergency, Typed, Statuses
      <3>3. CASE CancelWrite(t)
        BY <1>0, <3>1, <3>3 DEF CancelWrite, Typed, Statuses
      <3>4. CASE WipeShare(t)
        BY <1>0, <3>4 DEF WipeShare, Typed
      <3>5. CASE Refresh(t)
        BY <1>0, <3>5 DEF Refresh, Typed
      <3>6. CASE RefreshShare(t)
        BY <1>0, <3>6 DEF RefreshShare, Typed
      <3>7. CASE UNCHANGED view
        BY <1>0, <3>7 DEF Typed
      <3> QED
        BY <1>2, <3>2, <3>3, <3>4, <3>5, <3>6, <3>7 DEF Emergency, Click, CancelRead, LastWithdraw
    <2>5. job[t].pc \notin Rounds \cup {"answered", "abort"}
      BY <2>1 DEF Rounds
    <2> QED
      BY <2>2, <2>3, <2>4, <2>5, PcNames, CalmStep
  <1> QED
    BY <1>1, <1>2

---------------------------------------------------------------------------
(* The withdraw *)

\* Steps that leave the row and the session as they are.
LEMMA GoOn ==
  ASSUME WalletInv, NEW t \in Tabs, NEW j \in Job, job' = [job EXCEPT ![t] = j],
         JobOK(j), j.session = job[t].session, j.want = job[t].want, UNCHANGED <<api, shareA, view>>
  PROVE  WalletInv'
  <1>1. JobOK(j)'
    BY DEF JobOK, api
  <1>2. Leaves(t, j)
    BY <1>1 DEF WalletInv, Typed, Leaves, api
  <1> QED
    BY <1>2, SessionStep DEF api

LEMMA CatchGoesOn ==
  ASSUME WalletInv, NEW t \in Tabs, job[t].pc \in SignPcs, Catch(t)
  PROVE  /\ Caught(t) \in Job /\ job' = [job EXCEPT ![t] = Caught(t)] /\ JobOK(Caught(t))
         /\ Caught(t).session = job[t].session /\ Caught(t).want = job[t].want
  <1>1. Typed /\ job[t].want \in Intents
    BY DEF WalletInv, JobOK
  <1> QED
    BY <1>1, CaughtIsJob, PcNames DEF JobOK, Rounds

LEMMA ClickStep ==
  ASSUME WalletInv, NEW t \in Tabs, NEW want \in Intents, ClickWithdraw(t, want)
  PROVE  WalletInv'
  <1> DEFINE j == [Idle EXCEPT !.pc = "load", !.want = want]
  <1>1. /\ j \in Job /\ j.pc = "load" /\ j.want = want /\ ~j.session
        /\ job' = [job EXCEPT ![t] = j] /\ UNCHANGED <<api, shareA, view>>
    BY PcNames DEF ClickWithdraw, Idle, Job
  <1>2. ~job[t].session
    BY NoSession DEF ClickWithdraw, At, Rounds
  <1> HIDE DEF j
  <1>3. PICK k \in Job : /\ k.pc = "load" /\ k.want = want /\ ~k.session
                         /\ job' = [job EXCEPT ![t] = k]
    BY <1>1
  <1>4. JobOK(k)'
    BY <1>3, PcNames DEF JobOK, Rounds
  <1>5. Leaves(t, k)
    BY <1>1, <1>3, <1>4 DEF WalletInv, Typed, Leaves, api
  <1> QED
    BY <1>1, <1>2, <1>3, <1>5, QuietStep DEF api

LEMMA LoadStep ==
  ASSUME WalletInv, NEW t \in Tabs, LoadShare(t)
  PROVE  WalletInv'
  <1>0. Typed /\ job[t].pc = "load" /\ JobOK(job[t])
    BY DEF WalletInv, LoadShare, At
  <1>1. CASE GotoRefresh(t)
    BY <1>0, <1>1, CalmStep DEF LoadShare, api, Typed, Rounds
  <1>2. CASE Goto(t, "start")
    <2>1. /\ Moved(t, "start") \in Job /\ job' = [job EXCEPT ![t] = Moved(t, "start")]
          /\ Moved(t, "start").pc = "start" /\ Moved(t, "start").want = job[t].want
          /\ Moved(t, "start").session = job[t].session
      BY <1>0, <1>2, MovedIsJob, PcNames
    <2>2. JobOK(Moved(t, "start"))
      BY <1>0, <2>1, PcNames DEF JobOK, Rounds
    <2> QED
      BY <2>1, <2>2, GoOn DEF LoadShare
  <1> QED
    BY <1>1, <1>2 DEF LoadShare

\* assertWysiwysDigest returns only what the user entered.
LEMMA CheckStep ==
  ASSUME WalletInv, NEW t \in Tabs, Check(t)
  PROVE  WalletInv'
  <1>0. /\ Typed /\ JobOK(job[t]) /\ job[t].pc = "answered" /\ job[t].want \in Intents
        /\ job[t].answer \in Answer /\ job[t] \in Job
    BY PcNames DEF WalletInv, Typed, Check, At, JobOK
  <1>1. ASSUME NEW d \in AssertWysiwys(job[t].want, job[t].answer),
               job' = [job EXCEPT ![t].pc = "round1", ![t].answer = <<>>, ![t].digest = d]
        PROVE  WalletInv'
    <2>1. job[t].want \in Intent
      BY <1>0, IntentsKnown
    <2>2. Does(d, job[t].want) /\ d = job[t].answer.digest
      BY <1>1, <2>1, SignedIsIntended
    <2>3. d \in Tx
      BY <1>0, <2>2 DEF Answer
    <2> DEFINE j == [job[t] EXCEPT !.pc = "round1", !.answer = <<>>, !.digest = d]
    <2>4. /\ j \in Job /\ j.pc = "round1" /\ j.digest = d /\ j.want = job[t].want
          /\ j.session = job[t].session
      BY <1>0, <2>3, PcNames DEF Job
    <2>5. job' = [job EXCEPT ![t] = j]
      BY <1>0, <1>1 DEF Typed, Job
    <2> HIDE DEF j
    <2>6. PICK k \in Job : /\ k.pc = "round1" /\ k.digest = d /\ k.want = job[t].want
                           /\ k.session = job[t].session /\ job' = [job EXCEPT ![t] = k]
      BY <2>4, <2>5
    <2>7. JobOK(k)
      BY <1>0, <2>2, <2>3, <2>6 DEF JobOK, Rounds
    <2> QED
      BY <2>6, <2>7, GoOn DEF Check
  <1>2. CASE Catch(t)
    <2>1. /\ Caught(t) \in Job /\ job' = [job EXCEPT ![t] = Caught(t)] /\ JobOK(Caught(t))
          /\ Caught(t).session = job[t].session /\ Caught(t).want = job[t].want
      BY <1>0, <1>2, CatchGoesOn, PcNames
    <2> QED
      BY <2>1, GoOn DEF Check
  <1> QED
    BY <1>1, <1>2 DEF Check

LEMMA RoundStep ==
  ASSUME WalletInv, NEW t \in Tabs, Round(t)
  PROVE  WalletInv'
  <1>0. /\ Typed /\ JobOK(job[t]) /\ job[t].pc \in DOMAIN NextCall
        /\ NextCall[job[t].pc] \in Rounds /\ job[t].pc \in Rounds
    BY PcNames DEF WalletInv, Round
  <1>1. CASE Goto(t, NextCall[job[t].pc])
    <2>0. PICK pc \in Rounds : pc = NextCall[job[t].pc]
      BY <1>0
    <2>1. /\ Moved(t, pc) \in Job /\ job' = [job EXCEPT ![t] = Moved(t, pc)]
          /\ Moved(t, pc).pc = pc /\ Moved(t, pc).want = job[t].want
          /\ Moved(t, pc).session = job[t].session /\ Moved(t, pc).digest = job[t].digest
      BY <1>0, <1>1, <2>0, MovedIsJob, PcNames
    <2>2. JobOK(Moved(t, pc))
      BY <1>0, <2>0, <2>1, PcNames DEF JobOK, Rounds
    <2> QED
      BY <2>1, <2>2, GoOn DEF Round
  <1>2. CASE Catch(t)
    <2>1. /\ Caught(t) \in Job /\ job' = [job EXCEPT ![t] = Caught(t)] /\ JobOK(Caught(t))
          /\ Caught(t).session = job[t].session /\ Caught(t).want = job[t].want
      BY <1>0, <1>2, CatchGoesOn, PcNames
    <2> QED
      BY <2>1, GoOn DEF Round
  <1> QED
    BY <1>1, <1>2 DEF Round

---------------------------------------------------------------------------
(* The steps that change the row *)

\* The API opens a row, and the tab its session, or the answer is lost.
LEMMA StartStep ==
  ASSUME WalletInv, NEW t \in Tabs, At(t, "start"),
         NEW answer \in Answers(job[t].want), ApiStart(t, answer)
  PROVE  WalletInv'
  <1>0. /\ Typed /\ job[t].pc = "start" /\ job[t] \in Job /\ job[t].want \in Intents
        /\ ~job[t].session
    BY PcNames, NoSession DEF WalletInv, Typed, At, JobOK, Rounds
  <1>1. answer \in Answer /\ answer.digest \in Tx
    BY <1>0, AnswersAreAnswers
  <1>2. UNCHANGED <<wallet, shareB, shareA, view>>
    BY DEF ApiStart
  <1>3. PICK lost \in BOOLEAN :
          /\ row' = [status |-> "PROCESSING", by |-> t, want |-> job[t].want,
                     tx |-> answer.digest, lost |-> lost]
          /\ \/ ~lost /\ job' = [job EXCEPT ![t].pc = "answered", ![t].session = TRUE, ![t].answer = answer]
             \/ lost /\ GotoRefresh(t)
    BY DEF ApiStart
  <1>4. row' \in Row
    BY <1>0, <1>1, <1>3 DEF Row
  <1>5. ASSUME ~lost PROVE WalletInv'
    <2> DEFINE j == [job[t] EXCEPT !.pc = "answered", !.session = TRUE, !.answer = answer]
    <2>1. /\ j \in Job /\ j.pc = "answered" /\ j.session /\ j.answer = answer
          /\ j.want = job[t].want /\ job' = [job EXCEPT ![t] = j]
      BY <1>0, <1>1, <1>3, <1>5, PcNames DEF Typed, Job
    <2> HIDE DEF j
    <2>2. PICK k \in Job : /\ k.pc = "answered" /\ k.session /\ k.answer = answer
                           /\ k.want = job[t].want /\ job' = [job EXCEPT ![t] = k]
      BY <2>1
    <2>3. JobOK(k)'
      BY <1>0, <1>1, <2>2, PcNames DEF JobOK, Rounds
    <2>4. Leaves(t, k)
      BY <1>0, <1>2, <2>2, <2>3 DEF Typed, Leaves
    <2>5. job'[t] = k
      BY <1>0, <2>2 DEF Typed
    <2>6. RowOK'
      BY <1>0, <1>1, <1>3, <2>2, <2>5 DEF RowOK, HoldsSession
    <2> QED
      BY <1>4, <2>4, <2>6, JobStep
  <1>6. ASSUME lost PROVE WalletInv'
    <2>1. job' = [job EXCEPT ![t] = Refreshing]
      BY <1>3, <1>6 DEF GotoRefresh, Refreshing
    <2>2. JobOK(Refreshing)'
      BY IdleIsJob, PcNames, CalmJob
    <2>3. Leaves(t, Refreshing)
      BY <1>0, <1>2, <2>1, <2>2, IdleIsJob DEF Typed, Leaves
    <2>4. job'[t] = Refreshing
      BY <1>0, <2>1 DEF Typed
    <2>5. RowOK'
      BY <1>0, <1>1, <1>3, <1>6, <2>4, IdleIsJob DEF RowOK, HoldsSession
    <2> QED
      BY <1>4, <2>3, <2>5, JobStep
  <1> QED
    BY <1>5, <1>6

\* A step of a tab that closes the row it holds, or loses a message of it, or
\* leaves a row that it does not hold.
LEMMA CloseStep ==
  ASSUME WalletInv, NEW t \in Tabs, NEW j, Leaves(t, j), row' \in Row,
         \/ row' = row /\ (~HoldsSession(t) \/ (j.session /\ job[t].session))
         \/ /\ row'.status # "PROCESSING" /\ row'.want = row.want /\ row'.tx = row.tx
            /\ row.status # "NONE"
            /\ row'.status \in {"BROADCASTED", "EXECUTED"} => Does(row.tx, row.want)
         \/ /\ row'.lost /\ row'.status = row.status /\ row'.by = row.by
            /\ row'.want = row.want /\ row'.tx = row.tx,
         j.session => job[t].session /\ j.want = job[t].want
  PROVE  WalletInv'
  <1>1. job'[t] = j /\ \A u \in Tabs : u # t => job'[u] = job[u]
    BY DEF WalletInv, Typed, Leaves
  <1>2. row'.status # "NONE" => row'.want \in Intents /\ row'.tx \in Tx
    BY DEF WalletInv, RowOK
  <1>3. row'.status \in {"BROADCASTED", "EXECUTED"} => Does(row'.tx, row'.want)
    BY DEF WalletInv, RowOK
  <1>4. ASSUME NEW u \in Tabs, HoldsSession(u)' PROVE row'.want = job'[u].want
    BY <1>1, <1>4 DEF WalletInv, RowOK, HoldsSession
  <1>5. row'.status = "PROCESSING" /\ ~row'.lost => row'.by \in Tabs /\ job'[row'.by].session
    BY <1>1 DEF WalletInv, RowOK, HoldsSession
  <1>6. RowOK'
    BY <1>2, <1>3, <1>4, <1>5 DEF RowOK
  <1> QED
    BY <1>6, JobStep

LEMMA RowFields ==
  ASSUME Typed, NEW s \in {"BROADCASTED", "EXECUTED", "FAILED"}
  PROVE  /\ [row EXCEPT !.status = s] \in Row /\ [row EXCEPT !.status = s].status = s
         /\ [row EXCEPT !.status = s].want = row.want /\ [row EXCEPT !.status = s].tx = row.tx
         /\ [Lost EXCEPT !.status = s] \in Row /\ [Lost EXCEPT !.status = s].status = s
         /\ [Lost EXCEPT !.status = s].want = row.want /\ [Lost EXCEPT !.status = s].tx = row.tx
         /\ Lost \in Row /\ Lost.lost /\ Lost.status = row.status /\ Lost.by = row.by
         /\ Lost.want = row.want /\ Lost.tx = row.tx
  BY DEF Typed, Row, Lost

LEMMA RefreshLeaves ==
  ASSUME WalletInv, NEW t \in Tabs, GotoRefresh(t), UNCHANGED <<wallet, shareB, shareA, view>>
  PROVE  Leaves(t, Refreshing) /\ ~Refreshing.session
  <1>1. JobOK(Refreshing)'
    BY IdleIsJob, PcNames, CalmJob
  <1> QED
    BY <1>1, IdleIsJob DEF WalletInv, Typed, Leaves, GotoRefresh, Refreshing

LEMMA CatchLeaves ==
  ASSUME WalletInv, NEW t \in Tabs, job[t].pc \in SignPcs, Catch(t),
         UNCHANGED <<wallet, shareB, shareA, view>>
  PROVE  \E k \in Job : Leaves(t, k) /\ k.session = job[t].session /\ k.want = job[t].want
  <1>1. PICK k \in Job : /\ job' = [job EXCEPT ![t] = k] /\ k.pc = "abort" /\ JobOK(k)
                         /\ k.session = job[t].session /\ k.want = job[t].want
    BY CatchGoesOn, CaughtIsJob DEF WalletInv
  <1>2. JobOK(k)'
    BY <1>1 DEF JobOK
  <1> QED
    BY <1>1, <1>2 DEF WalletInv, Typed, Leaves

\* signComplete answers, fails, or goes unheard.
LEMMA CompleteStep ==
  ASSUME WalletInv, NEW t \in Tabs, Complete(t)
  PROVE  WalletInv'
  <1>0. /\ Typed /\ job[t].pc \in SignPcs /\ RowOK
        /\ job[t].digest \in Tx /\ Does(job[t].digest, job[t].want)
    BY PcNames DEF WalletInv, Complete, At, JobOK, Rounds
  <1>1. UNCHANGED <<wallet, shareB, shareA, view>>
    BY DEF Complete
  <1>2. PICK j \in Job : /\ Leaves(t, j) /\ (j.session => job[t].session /\ j.want = job[t].want)
                         /\ Catch(t) => j.session = job[t].session /\ j.want = job[t].want
    <2>1. CASE GotoRefresh(t) /\ ~Catch(t)
      BY <1>1, <2>1, RefreshLeaves, IdleIsJob
    <2>2. CASE Catch(t)
      BY <1>0, <1>1, <2>2, CatchLeaves
    <2> QED
      BY <2>1, <2>2 DEF Complete
  <1>3. ASSUME HoldsSession(t), row.tx = job[t].digest,
               \/ row' = [row EXCEPT !.status = "BROADCASTED"]
               \/ row' = [Lost EXCEPT !.status = "BROADCASTED"]
        PROVE  WalletInv'
    <2>1. row.want = job[t].want /\ row.status # "NONE"
      BY <1>0, <1>3 DEF RowOK, HoldsSession
    <2>2. row' \in Row /\ row'.status = "BROADCASTED" /\ row'.want = row.want /\ row'.tx = row.tx
      BY <1>0, <1>3, RowFields
    <2> QED
      BY <1>0, <1>2, <1>3, <2>1, <2>2, CloseStep
  <1>4. ASSUME HoldsSession(t), row' = [row EXCEPT !.status = "FAILED"]
        PROVE  WalletInv'
    <2>1. row' \in Row /\ row'.status = "FAILED" /\ row'.want = row.want /\ row'.tx = row.tx
      BY <1>0, <1>4, RowFields
    <2> QED
      BY <1>2, <1>4, <2>1, CloseStep DEF HoldsSession
  <1>5. ASSUME Catch(t), row' = row
        PROVE  WalletInv'
    <2>1. row' \in Row
      BY <1>0, <1>5 DEF Typed
    <2> QED
      BY <1>2, <1>5, <2>1, CloseStep DEF HoldsSession
  <1> QED
    BY <1>3, <1>4, <1>5 DEF Complete

\* signAbort, the end of a tab: the tab's session is over.
LEMMA EndStep ==
  ASSUME WalletInv, NEW t \in Tabs, Abort(t) \/ CloseTab(t)
  PROVE  WalletInv'
  <1>0. Typed /\ UNCHANGED <<wallet, shareB, shareA, view>> /\ GotoRefresh(t)
    BY DEF WalletInv, Abort, CloseTab
  <1>1. Leaves(t, Refreshing) /\ ~Refreshing.session
    BY <1>0, RefreshLeaves
  <1>2. CASE row' = row /\ ~HoldsSession(t)
    <2>1. row' \in Row
      BY <1>0, <1>2 DEF Typed
    <2> QED
      BY <1>1, <1>2, <2>1, CloseStep
  <1>3. CASE row' = Lost
    <2>1. /\ row' \in Row /\ row'.lost /\ row'.status = row.status /\ row'.by = row.by
          /\ row'.want = row.want /\ row'.tx = row.tx
      BY <1>0, <1>3, RowFields
    <2> QED
      BY <1>1, <2>1, CloseStep
  <1>4. CASE row' = [row EXCEPT !.status = "FAILED"] /\ HoldsSession(t)
    <2>1. row' \in Row /\ row'.status = "FAILED" /\ row'.want = row.want /\ row'.tx = row.tx
      BY <1>0, <1>4, RowFields
    <2> QED
      BY <1>1, <1>4, <2>1, CloseStep DEF HoldsSession
  <1> QED
    BY <1>2, <1>3, <1>4 DEF Abort, CloseTab

\* A receipt, gc, a restart of the API.
LEMMA RowEventStep ==
  ASSUME WalletInv, RowEvent
  PROVE  WalletInv'
  <1>0. Typed /\ RowOK /\ \A u \in Tabs : JobOK(job[u])
    BY DEF WalletInv
  <1>1. UNCHANGED <<wallet, shareB, shareA, view, job>>
    BY DEF RowEvent
  <1>2. /\ row' \in Row /\ row'.want = row.want /\ row'.tx = row.tx /\ row.status # "NONE"
        /\ \/ row.status = "BROADCASTED" /\ row'.status \in {"EXECUTED", "FAILED"}
           \/ row'.status = "FAILED"
           \/ row'.lost /\ row'.by = NoTab /\ row'.status = "PROCESSING"
    <2>1. ASSUME NEW s \in {"EXECUTED", "FAILED"}, row' = [row EXCEPT !.status = s],
                 row.status = "BROADCASTED" \/ (row.status = "PROCESSING" /\ s = "FAILED")
          PROVE  /\ row' \in Row /\ row'.want = row.want /\ row'.tx = row.tx
                 /\ row.status # "NONE" /\ row'.status = s
                 /\ row.status = "BROADCASTED" \/ s = "FAILED"
      BY <1>0, <2>1, RowFields
    <2>2. CASE row' = [Lost EXCEPT !.by = NoTab] /\ row.status = "PROCESSING"
      BY <1>0, <2>2 DEF Typed, Row, Lost
    <2>3. CASE row.status = "BROADCASTED" /\ \E s \in {"EXECUTED", "FAILED"} : row' = [row EXCEPT !.status = s]
      <3>1. PICK s \in {"EXECUTED", "FAILED"} : row' = [row EXCEPT !.status = s]
        BY <2>3
      <3>2. /\ row' \in Row /\ row'.want = row.want /\ row'.tx = row.tx
            /\ row.status # "NONE" /\ row'.status = s
        BY <2>1, <2>3, <3>1
      <3> QED
        BY <2>3, <3>2
    <2>4. CASE row.status = "PROCESSING" /\ row' = [row EXCEPT !.status = "FAILED"]
      BY <2>1, <2>4
    <2> QED
      BY <2>2, <2>3, <2>4 DEF RowEvent
  <1>3. RowOK'
    BY <1>0, <1>1, <1>2, NoTabIsNoTab DEF RowOK, HoldsSession
  <1>4. Typed'
    BY <1>0, <1>1, <1>2 DEF Typed
  <1>5. \A u \in Tabs : JobOK(job[u])'
    BY <1>0, <1>1 DEF JobOK
  <1> QED
    BY <1>3, <1>4, <1>5 DEF WalletInv

---------------------------------------------------------------------------
(* The invariant *)

LEMMA InitHolds == Init => WalletInv
  <1>1. Idle \in Job /\ Idle.pc = "idle" /\ ~Idle.session /\ NoRow \in Row
        /\ NoRow.status = "NONE"
    BY IdleIsJob DEF NoRow, Row
  <1>2. \A j \in Job : j.pc = "idle" /\ ~j.session => JobOK(j)
    BY DEF JobOK, SignPcs, Rounds
  <1> SUFFICES ASSUME Init PROVE WalletInv
    OBVIOUS
  <1>3. Typed
    BY <1>1 DEF Init, Typed, Statuses
  <1>4. \A t \in Tabs : JobOK(job[t])
    BY <1>1, <1>2 DEF Init
  <1>5. RowOK
    BY <1>1 DEF Init, RowOK, HoldsSession
  <1> QED
    BY <1>3, <1>4, <1>5 DEF WalletInv

LEMMA StepHolds == WalletInv /\ [Next]_vars => WalletInv'
  <1> SUFFICES ASSUME WalletInv, [Next]_vars PROVE WalletInv'
    OBVIOUS
  <1>1. ASSUME NEW t \in Tabs, Withdraw(t) PROVE WalletInv'
    BY <1>1, ClickStep, LoadStep, StartStep, CalmSteps, CheckStep, RoundStep, CompleteStep, EndStep
       DEF Withdraw
  <1>2. ASSUME NEW t \in Tabs,
               Restore(t) \/ Emergency(t) \/ Refresh(t) \/ RefreshShare(t) \/ CloseTab(t)
        PROVE  WalletInv'
    BY <1>2, CalmSteps, EndStep
  <1>3. CASE RowEvent
    BY <1>3, RowEventStep
  <1>4. CASE UNCHANGED vars
    BY <1>4 DEF vars, api, WalletInv, Typed, JobOK, RowOK, HoldsSession
  <1> QED
    BY <1>1, <1>2, <1>3, <1>4 DEF Next

LEMMA InvHolds == Spec => []WalletInv
  BY InitHolds, StepHolds, PTL DEF Spec

---------------------------------------------------------------------------
(* The theorems *)

\* The dashboard's state and the row stay in their types.
THEOREM TypeCorrect == Spec => []TypeOK
  BY InvHolds, InvTypes, PTL

\* What both parties sign is what the user entered, whatever sign/start
\* answers: the digest of party A passed assertWysiwysDigest, and complete
\* needs party B's digest to be the same.
THEOREM OnlyIntendedIsSent == Spec => []BroadcastIsIntended
  <1>1. WalletInv => BroadcastIsIntended
    BY DEF WalletInv, RowOK, BroadcastIsIntended
  <1> QED
    BY <1>1, InvHolds, PTL

\* The browser accepts every answer that the API prepared for the entered
\* values, whatever it read of the node.
THEOREM HonestAnswersPass == Spec => []HonestAnswerIsSigned
  <1>1. WalletInv => HonestAnswerIsSigned
    <2> SUFFICES ASSUME WalletInv, NEW t \in Tabs, At(t, "answered"),
                        job[t].answer \in HonestAnswers(job[t].want)
                 PROVE  AssertWysiwys(job[t].want, job[t].answer) # {}
      BY DEF HonestAnswerIsSigned
    <2>1. PICK want \in Intents : want = job[t].want
      BY PcNames DEF WalletInv, JobOK, At
    <2>0. PICK net \in Nets : \E tx \in Prepared(want, net), wei \in Wei(want) :
                 job[t].answer = AnswerFor(tx, tx, wei)
      BY <2>1 DEF HonestAnswers
    <2>2. PICK tx \in Prepared(want, net), wei \in Wei(want) : job[t].answer = AnswerFor(tx, tx, wei)
      BY <2>0
    <2>3. /\ want \in Intent /\ net \in Network
          /\ tx \in IF want.asset = "ETH" THEN PrepareAmount(Own, want.to, wei, net)
                   ELSE PrepareErc20(Own, want.to, want.token, wei, net)
      BY PreparedIsTx
    <2>4. AssertWysiwys(want, HonestAnswer(tx, wei)) = {tx}
      BY <2>3, OwnIsAddress, HonestPasses
    <2>5. AnswerFor(tx, tx, wei) = HonestAnswer(tx, wei)
      BY DEF AnswerFor, HonestAnswer
    <2> QED
      BY <2>1, <2>2, <2>4, <2>5
  <1> QED
    BY <1>1, InvHolds, PTL

\* An open row whose messages all arrived belongs to a job that still holds
\* its session and so will complete or abort it.
THEOREM EndedJobsFreeTheWallet == Spec => []ClientFreesWallet
  <1>1. WalletInv => ClientFreesWallet
    BY DEF WalletInv, RowOK, ClientFreesWallet
  <1> QED
    BY <1>1, InvHolds, PTL

\* Only deleteBrowserShareA clears Share A, and it runs after the answer that
\* the wallet is RETIRED, behind which the API holds no Share B.
THEOREM ShareOutlivesTheWallet == Spec => ShareStaysUntilRetired
  <1>1. WalletInv /\ [Next]_vars => [shareA /\ ~shareA' => ~shareB]_vars
    <2> SUFFICES ASSUME WalletInv, [Next]_vars, shareA, ~shareA' PROVE ~shareB
      OBVIOUS
    <2>1. PICK t \in Tabs : WipeShare(t)
      BY DEF Next, Withdraw, Restore, Emergency, ClickWithdraw, LoadShare, ApiStart, ApiStartFails,
             Check, Round, Complete, Abort, ClickRestore, HasShare, Decrypt, SaveShare, Report,
             Click, StartEmergency, CancelRead, CancelWrite, LastWithdraw, Refresh, RefreshShare,
             CloseTab, RowEvent, vars, api
    <2> QED
      BY <2>1 DEF WipeShare, At, WalletInv, JobOK
  <1> QED
    BY <1>1, InvHolds, PTL DEF Spec, ShareStaysUntilRetired
=============================================================================
