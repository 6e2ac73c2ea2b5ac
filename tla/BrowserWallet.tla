--------------------------- MODULE BrowserWallet ---------------------------
(***************************************************************************)
(* The dashboard of one wallet in the tabs of a browser: A+B withdraws     *)
(* (withdraw-ab.ts), the restore of Share A from a Recovery File, the      *)
(* emergency calls and the refresh behind each of them. The tabs share     *)
(* IndexedDB, each has its own view of the wallet and one job at a time    *)
(* (the busy flags).                                                       *)
(*                                                                         *)
(* Of the API, one step per call: its own interleavings are the subject of *)
(* SignOrchestrator and EmergencyWithdraw. DkgSession creates Share A; the *)
(* wallet starts ACTIVE here, with Share A stored.                         *)
(***************************************************************************)
EXTENDS Transfer

CONSTANTS
    Tabs,
    NoTab,
    Own,        \* the address of the wallet
    Intents,    \* what the user may enter
    Nets,       \* what the API may read of the node
    Faults      \* which faults the environment may inject

ASSUME NoTabIsNoTab == NoTab \notin Tabs
ASSUME OwnIsAddress == Own \in Addresses
ASSUME IntentsKnown == Intents \subseteq Intent
ASSUME NetsKnown == Nets \subseteq Network
ASSUME FaultsKnown == Faults \subseteq {"net", "close", "slow", "crash", "idb", "version"}

VARIABLES
    wallet,     \* Wallet.status
    row,        \* the newest NORMAL_AB row of the wallet and its session
    shareB,     \* the API holds Share B of the wallet
    shareA,     \* IndexedDB holds Share A of the wallet
    view,       \* what each tab's dashboard shows
    job         \* what each tab is waiting for

api == <<wallet, row, shareB>>
vars == <<api, shareA, view, job>>

Statuses == {"ACTIVE", "RECOVERY_PENDING", "RETIRING", "RETIRED"}

NoIntent == <<>>
NoRow == [status |-> "NONE", by |-> NoTab, want |-> NoIntent, tx |-> <<>>, lost |-> FALSE]
Idle == [pc |-> "idle", want |-> NoIntent, session |-> FALSE, answer |-> <<>>, digest |-> <<>>]

SignPcs == {"load", "start", "answered", "round1", "round2", "round3", "complete", "abort"}
Calls == {"emergency", "cancel", "cancelWrite", "last"}
Pcs == SignPcs \cup Calls \cup {"parsed", "decrypt", "put", "report", "wipe",
                                "refresh", "refreshShare", "idle"}

TypeOK ==
    /\ wallet \in Statuses
    /\ row.status \in {"NONE", "PROCESSING", "BROADCASTED", "EXECUTED", "FAILED"}
    /\ row.by \in Tabs \cup {NoTab} /\ row.lost \in BOOLEAN
    /\ row.status # "NONE" => row.want \in Intents /\ row.tx \in Tx
    /\ shareA \in BOOLEAN /\ shareB \in BOOLEAN
    /\ view \in [Tabs -> [status : Statuses \cup {"NONE"}, has : BOOLEAN]]
    /\ \A t \in Tabs :
          /\ job[t].pc \in Pcs /\ job[t].session \in BOOLEAN
          /\ job[t].pc \in SignPcs => job[t].want \in Intents
          /\ job[t].pc = "answered" => job[t].answer \in Answer
          /\ job[t].pc \in {"round1", "round2", "round3", "complete"} => job[t].digest \in Tx

Init == /\ wallet = "ACTIVE"
        /\ row = NoRow
        /\ shareA = TRUE /\ shareB = TRUE
        /\ view = [t \in Tabs |-> [status |-> "ACTIVE", has |-> TRUE]]
        /\ job = [t \in Tabs |-> Idle]

---------------------------------------------------------------------------
(* Helpers *)

At(t, pc) == job[t].pc = pc
Goto(t, pc) == job' = [job EXCEPT ![t].pc = pc]
Finish(t) == job' = [job EXCEPT ![t] = Idle]

\* The end of every handler that refreshes the dashboard.
GotoRefresh(t) == job' = [job EXCEPT ![t] = [Idle EXCEPT !.pc = "refresh"]]

\* A call goes unheard, before the API or after it: the network loses it, or
\* the tab is closed while the API goes on serving it.
MayLose == {"net", "close"} \cap Faults # {}

\* The session that the tab opened last, as long as it is in the Map.
HoldsSession(t) == job[t].session /\ row.by = t /\ row.status = "PROCESSING"

\* Some message of the session was lost.
Lost == [row EXCEPT !.lost = TRUE]

---------------------------------------------------------------------------
(* The withdraw: DashboardPage.onWithdraw and withdrawViaAbSigning *)

\* Mutant: the modal forgets the entered values when it is submitted.
ClickEmpty(t, want) ==
    /\ At(t, "idle") /\ view[t].status = "ACTIVE" /\ view[t].has
    /\ job' = [job EXCEPT ![t] = [Idle EXCEPT !.pc = "load"]]
    /\ UNCHANGED <<api, shareA, view>>

\* The modal submits only when the view shows Share A and the amount parses.
ClickWithdraw(t, want) ==
    /\ At(t, "idle") /\ view[t].status = "ACTIVE" /\ view[t].has
    /\ Raw(want) # {}
    /\ job' = [job EXCEPT ![t] = [Idle EXCEPT !.pc = "load", !.want = want]]
    /\ UNCHANGED <<api, shareA, view>>

\* loadBrowserShareABytes throws before there is a session to abort.
LoadShare(t) ==
    /\ At(t, "load")
    /\ \/ shareA /\ Goto(t, "start")
       \/ (~shareA \/ "idb" \in Faults) /\ GotoRefresh(t)
    /\ UNCHANGED <<api, shareA, view>>

PreparedFor(want, wei, net) ==
    IF want.asset = "ETH" THEN PrepareAmount(Own, want.to, wei, net)
    ELSE PrepareErc20(Own, want.to, want.token, wei, net)

Prepared(want, net) == UNION {PreparedFor(want, wei, net) : wei \in Wei(want)}

AnswerFor(tx, digest, wei) == [tx |-> Stored(tx), digest |-> digest, amountWei |-> Decimal(wei)]

HonestAnswers(want) ==
    {AnswerFor(tx, tx, wei) : tx \in UNION {Prepared(want, net) : net \in Nets}, wei \in Wei(want)}

\* Transactions that differ from tx in one thing the user would care about.
Others(tx) ==
    {[tx EXCEPT !.to = a] : a \in Addresses \ {tx.to}}
        \cup {[tx EXCEPT !.value = @ + 1], [tx EXCEPT !.gas = @ + 1], [tx EXCEPT !.chainId = 0]}
        \cup {[tx EXCEPT !.data = TransferCall(a, 1)] : a \in Addresses}

\* What an API of another version could answer: another transaction with its
\* digest, the right one with another digest or amount, text of another form.
OtherAnswers(tx, amount) ==
    LET answer == AnswerFor(tx, tx, amount) IN
    {AnswerFor(x, x, amount) : x \in Others(tx)}
        \cup {AnswerFor(tx, x, amount) : x \in Others(tx)}
        \cup {AnswerFor(tx, tx, amount + 1)}
        \cup {[answer EXCEPT !.tx.data.text = s] : s \in {"upper", "bad"}}
        \cup {[answer EXCEPT !.tx.value.canonical = FALSE]}

Answers(want) ==
    HonestAnswers(want)
        \cup IF "version" \notin Faults THEN {}
             ELSE UNION {OtherAnswers(answer.digest, wei) : answer \in HonestAnswers(want), wei \in Wei(want)}

\* start of the API: an ACTIVE wallet without an open row (one PROCESSING for
\* longer than the session lifetime does not count); party B signs the digest
\* of its answer.
ApiStart(t, answer) ==
    /\ At(t, "start")
    /\ wallet = "ACTIVE" /\ shareB
    /\ \/ row.status \notin {"PROCESSING", "BROADCASTED"}
       \/ row.status = "PROCESSING" /\ "slow" \in Faults
    /\ LET opened == [status |-> "PROCESSING", by |-> t, want |-> job[t].want,
                      tx |-> answer.digest, lost |-> FALSE] IN
       \/ /\ row' = opened
          /\ job' = [job EXCEPT ![t].pc = "answered", ![t].session = TRUE, ![t].answer = answer]
       \/ /\ MayLose
          /\ row' = [opened EXCEPT !.lost = TRUE]
          /\ GotoRefresh(t)
    /\ UNCHANGED <<wallet, shareB, shareA, view>>

\* start refuses, or never arrives: no session id, nothing to abort.
ApiStartFails(t) ==
    /\ At(t, "start")
    /\ \/ wallet # "ACTIVE" \/ ~shareB \/ row.status \in {"PROCESSING", "BROADCASTED"}
       \/ \E net \in Nets : Prepared(job[t].want, net) = {}
       \/ MayLose
    /\ GotoRefresh(t)
    /\ UNCHANGED <<api, shareA, view>>

\* Mutant: an error is shown and the session is left alone.
CatchQuietly(t) == GotoRefresh(t)

\* The catch block.
Catch(t) == job' = [job EXCEPT ![t].pc = "abort", ![t].answer = <<>>, ![t].digest = <<>>]

\* assertWysiwysDigest, then party A's first messages.
Check(t) ==
    /\ At(t, "answered")
    /\ LET digests == AssertWysiwys(job[t].want, job[t].answer) IN
       \/ \E d \in digests :
             job' = [job EXCEPT ![t].pc = "round1", ![t].answer = <<>>, ![t].digest = d]
       \/ digests = {} /\ Catch(t)
    /\ UNCHANGED <<api, shareA, view>>

NextCall == [pc \in {"round1", "round2", "round3"} |->
                CASE pc = "round1" -> "round2" [] pc = "round2" -> "round3" [] OTHER -> "complete"]

\* signRound1, signRound2, signRound3
Round(t) ==
    /\ job[t].pc \in DOMAIN NextCall
    /\ \/ HoldsSession(t) /\ Goto(t, NextCall[job[t].pc])
       \/ (~HoldsSession(t) \/ MayLose) /\ Catch(t)
    /\ UNCHANGED <<api, shareA, view>>

\* signComplete: the shares of the signature fit when both parties signed the
\* same digest; otherwise, and when the wallet left ACTIVE, the row fails.
Complete(t) ==
    /\ At(t, "complete")
    /\ \/ /\ HoldsSession(t) /\ wallet = "ACTIVE" /\ row.tx = job[t].digest
          /\ \/ /\ row' = [row EXCEPT !.status = "BROADCASTED"]
                /\ GotoRefresh(t)
             \/ /\ MayLose
                /\ row' = [Lost EXCEPT !.status = "BROADCASTED"]
                /\ Catch(t)
       \/ /\ HoldsSession(t)
          /\ row' = [row EXCEPT !.status = "FAILED"]
          /\ Catch(t)
       \/ /\ ~HoldsSession(t) \/ MayLose
          /\ Catch(t)
          /\ UNCHANGED row
    /\ UNCHANGED <<wallet, shareB, shareA, view>>

\* signAbort; its own failure is swallowed.
Abort(t) ==
    /\ At(t, "abort")
    /\ \/ row' = IF HoldsSession(t) THEN [row EXCEPT !.status = "FAILED"] ELSE row
       \/ MayLose /\ row' = IF HoldsSession(t) THEN Lost ELSE row
    /\ GotoRefresh(t)
    /\ UNCHANGED <<wallet, shareB, shareA, view>>

\* A receipt closes a sent row, gc an old one. A restart of the API forgets
\* the session and leaves the row.
RowEvent ==
    /\ \/ /\ row.status = "BROADCASTED"
          /\ \E s \in {"EXECUTED", "FAILED"} : row' = [row EXCEPT !.status = s]
       \/ /\ "slow" \in Faults /\ row.status = "PROCESSING"
          /\ row' = [row EXCEPT !.status = "FAILED"]
       \/ /\ "crash" \in Faults /\ row.status = "PROCESSING"
          /\ row' = [Lost EXCEPT !.by = NoTab]
    /\ UNCHANGED <<wallet, shareB, shareA, view, job>>

---------------------------------------------------------------------------
(* Share A from the Recovery File: onRestoreShare, restoreBrowserShareA *)

\* The file is parsed and matched with the wallet in the same step.
ClickRestore(t) ==
    /\ At(t, "idle") /\ view[t].status = "ACTIVE"
    /\ Goto(t, "parsed")
    /\ UNCHANGED <<api, shareA, view>>

\* hasBrowserShareA; the modal asks for overwrite exactly when the view shows
\* a share, and so a share that the view does not show is overwritten, too.
HasShare(t) ==
    /\ At(t, "parsed")
    /\ \/ Goto(t, "decrypt")
       \/ "idb" \in Faults /\ Finish(t)
    /\ UNCHANGED <<api, shareA, view>>

\* Mutant: the old record is deleted before the file is decrypted.
ClearThenDecrypt(t) ==
    /\ At(t, "decrypt")
    /\ shareA' = FALSE
    /\ Goto(t, "put") \/ Finish(t)
    /\ UNCHANGED <<api, view>>

\* The PIN of the file, or another one.
Decrypt(t) ==
    /\ At(t, "decrypt")
    /\ Goto(t, "put") \/ Finish(t)
    /\ UNCHANGED <<api, shareA, view>>

\* One put of the whole record.
SaveShare(t) ==
    /\ At(t, "put")
    /\ \/ shareA' = TRUE /\ Goto(t, "report")
       \/ "idb" \in Faults /\ Finish(t) /\ UNCHANGED shareA
    /\ UNCHANGED <<api, view>>

\* The audit report, whose failure is swallowed; then the dashboard.
Report(t) ==
    /\ At(t, "report")
    /\ view' = [view EXCEPT ![t].has = TRUE]
    /\ GotoRefresh(t)
    /\ UNCHANGED <<api, shareA>>

---------------------------------------------------------------------------
(* The emergency calls *)

Shows(t, statuses) == At(t, "idle") /\ view[t].status \in statuses

ClickEmergency(t) == \/ Shows(t, {"ACTIVE", "RECOVERY_PENDING"}) /\ Goto(t, "emergency")
                     \/ Shows(t, {"RECOVERY_PENDING"}) /\ Goto(t, "cancel")
                     \/ Shows(t, {"RECOVERY_PENDING", "RETIRING"}) /\ Goto(t, "last")

Click(t) == ClickEmergency(t) /\ UNCHANGED <<api, shareA, view>>

\* The OTP is right and no A+B row is open. A failure is shown without a refresh.
StartEmergency(t) ==
    /\ At(t, "emergency")
    /\ \/ /\ wallet \in {"ACTIVE", "RECOVERY_PENDING"}
          /\ row.status \notin {"PROCESSING", "BROADCASTED"}
          /\ wallet' = "RECOVERY_PENDING"
          /\ \/ /\ view' = [view EXCEPT ![t].status = "RECOVERY_PENDING"]
                /\ GotoRefresh(t)
             \/ MayLose /\ Finish(t) /\ UNCHANGED view
       \/ Finish(t) /\ UNCHANGED <<wallet, view>>
    /\ UNCHANGED <<row, shareB, shareA>>

\* cancel reads the status, and writes it one await later.
CancelRead(t) ==
    /\ At(t, "cancel")
    /\ \/ wallet = "RECOVERY_PENDING" /\ Goto(t, "cancelWrite")
       \/ (wallet # "RECOVERY_PENDING" \/ MayLose) /\ GotoRefresh(t)
    /\ UNCHANGED <<api, shareA, view>>

CancelWrite(t) ==
    /\ At(t, "cancelWrite")
    /\ wallet' = "ACTIVE"
    /\ \/ view' = [view EXCEPT ![t].status = "ACTIVE"]
       \/ MayLose /\ UNCHANGED view
    /\ GotoRefresh(t)
    /\ UNCHANGED <<row, shareB, shareA>>

\* The last withdraw retires the wallet and its Share B, or stops on the way
\* to it.
LastWithdraw(t) ==
    /\ At(t, "last")
    /\ \/ /\ wallet \in {"RECOVERY_PENDING", "RETIRING"} /\ shareB
          /\ \/ wallet' = "RETIRED" /\ shareB' = FALSE /\ Goto(t, "wipe")
             \/ wallet' = "RETIRED" /\ shareB' = FALSE /\ MayLose /\ GotoRefresh(t)
             \/ wallet' = "RETIRING" /\ UNCHANGED shareB /\ GotoRefresh(t)
       \/ GotoRefresh(t) /\ UNCHANGED <<wallet, shareB>>
    /\ UNCHANGED <<row, shareA, view>>

\* deleteBrowserShareA, best effort.
WipeShare(t) ==
    /\ At(t, "wipe")
    /\ shareA' = FALSE \/ ("idb" \in Faults /\ UNCHANGED shareA)
    /\ view' = [view EXCEPT ![t] = [status |-> "NONE", has |-> FALSE]]
    /\ GotoRefresh(t)
    /\ UNCHANGED api

---------------------------------------------------------------------------
(* refreshWallet *)

\* getWallets lists live wallets only.
Refresh(t) ==
    /\ At(t, "refresh")
    /\ LET status == IF wallet = "RETIRED" THEN "NONE" ELSE wallet IN
       \/ /\ view' = [view EXCEPT ![t].status = status,
                                  ![t].has = status # "NONE" /\ view[t].has]
          /\ IF status = "NONE" THEN Finish(t) ELSE Goto(t, "refreshShare")
       \/ MayLose /\ Finish(t) /\ UNCHANGED view
    /\ UNCHANGED <<api, shareA>>

\* hasBrowserShareA; a failed read shows no share.
RefreshShare(t) ==
    /\ At(t, "refreshShare")
    /\ \E has \in {shareA} \cup IF "idb" \in Faults THEN {FALSE} ELSE {} :
          view' = [view EXCEPT ![t].has = has]
    /\ Finish(t)
    /\ UNCHANGED <<api, shareA>>

\* The user closes the tab, or reloads it. A call that is on its way then and
\* still served is one whose answer is lost, followed by this step (of start
\* also one that never arrives).
CloseTab(t) ==
    /\ "close" \in Faults /\ job[t].pc # "start"
    /\ row' = IF HoldsSession(t) THEN Lost ELSE row
    /\ GotoRefresh(t)
    /\ UNCHANGED <<wallet, shareB, shareA, view>>

---------------------------------------------------------------------------

Withdraw(t) == \/ \E want \in Intents : ClickWithdraw(t, want)
               \/ LoadShare(t)
               \/ At(t, "start") /\ \E answer \in Answers(job[t].want) : ApiStart(t, answer)
               \/ ApiStartFails(t)
               \/ Check(t) \/ Round(t) \/ Complete(t) \/ Abort(t)

Restore(t) == ClickRestore(t) \/ HasShare(t) \/ Decrypt(t) \/ SaveShare(t) \/ Report(t)

Emergency(t) == Click(t) \/ StartEmergency(t) \/ CancelRead(t) \/ CancelWrite(t)
                \/ LastWithdraw(t) \/ WipeShare(t)

Next == \/ \E t \in Tabs : \/ Withdraw(t) \/ Restore(t) \/ Emergency(t)
                           \/ Refresh(t) \/ RefreshShare(t) \/ CloseTab(t)
        \/ RowEvent

Spec == Init /\ [][Next]_vars

---------------------------------------------------------------------------
(* Properties *)

\* Whatever the API answers to sign/start, the transaction that party A and
\* party B sign together moves what the user entered, to whom he entered, and
\* nothing else ("the browser recomputes the digest from the unsigned tx of
\* sign/start and compares before it signs", README.md:79).
BroadcastIsIntended == row.status \in {"BROADCASTED", "EXECUTED"} => Does(row.tx, row.want)

\* The API's preparation, its JSON fields and the browser's reconstruction fit
\* together: the browser never refuses what the API honestly prepared.
HonestAnswerIsSigned ==
    \A t \in Tabs :
        At(t, "answered") /\ job[t].answer \in HonestAnswers(job[t].want)
            => AssertWysiwys(job[t].want, job[t].answer) # {}

\* A withdraw that ends in the browser, for whatever reason, does not keep the
\* wallet from the next one (one open row per wallet) unless a message was
\* lost or the tab closed: "on mismatch, abort" (README.md:79).
ClientFreesWallet ==
    row.status = "PROCESSING" /\ ~row.lost => job[row.by].session

\* A stored Share A, without which the user cannot withdraw, outlives failed
\* restores, wrong PINs, lost answers and other tabs until the API has wiped
\* Share B (also when a late cancel makes the RETIRED wallet ACTIVE again).
ShareStaysUntilRetired == [][shareA /\ ~shareA' => ~shareB]_vars
=============================================================================
