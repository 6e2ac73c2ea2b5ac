-------------------------- MODULE SignOrchestrator --------------------------
(***************************************************************************)
(* The normal A+B withdraw of the API: start, the three message rounds,    *)
(* complete, abort and session expiry for one wallet, with the API's       *)
(* in-memory session map beside the Postgres rows of WalletRows.           *)
(*                                                                         *)
(* Node runs one handler at a time between two awaits, so a step here is   *)
(* the code from one await to the next: a read or write of Postgres or a   *)
(* call to the node, with the synchronous code that follows it.            *)
(***************************************************************************)
EXTENDS WalletRows

CONSTANTS
    Requests,   \* slots for HTTP requests being served at the same time
    NoKey,      \* the key of an idle slot
    Faults      \* which faults the environment may inject

ASSUME NoKeyIsNoKey == NoKey \notin Keys
ASSUME FaultsKnown == Faults \subseteq {"crash", "db", "rpc"}

VARIABLES
    live,       \* keys whose session is in the sessions Map
    step,       \* SignSessionState.step of the session object of each key
    nonce,      \* nonce of the unsigned transaction kept in the session object
    aged,       \* keys created more than SESSION_TTL_MS ago
    req,        \* what each request in progress is waiting for
    expiring,   \* keys whose fire-and-forget EXPIRED update (gc) is on its way
    aborting,   \* keys whose FAILED update (abort) is on its way
    revived,    \* auxiliary: closed rows that were written BROADCASTED again
    untold      \* auxiliary: submissions whose success the API lost

sessionVars == <<live, step, nonce, aged>>
writeVars == <<expiring, aborting>>
auxVars == <<revived, untold>>
vars == <<chainVars, rowVars, sessionVars, req, writeVars, auxVars>>

Steps == {"WAIT_MSG1A", "WAIT_MSG2A", "WAIT_MSG3A", "WAIT_MSG4A", "COMPLETING"}

StartPcs == {"lock", "expire", "created"}
CompletePcs == {"findTerminal", "readRow", "readWallet", "leftActive", "sign",
                "broadcast", "record", "wait", "execute", "catch", "failWrite"}

\* stale: the rows that the transaction of start found to be stale.
Begun(pc, k, n) == [pc |-> pc, key |-> k, nonce |-> n, stale |-> {}]
Idle == Begun("idle", NoKey, 0)
Request == [pc : {"idle"} \cup StartPcs \cup CompletePcs,
            key : Keys \cup {NoKey},
            nonce : Nonces,
            stale : SUBSET Keys]

TypeOK == /\ ChainTypeOK
          /\ RowTypeOK
          /\ live \subseteq Keys
          /\ step \in [Keys -> Steps]
          /\ nonce \in [Keys -> Nonces]
          /\ aged \subseteq Keys
          /\ req \in [Requests -> Request]
          /\ \A r \in Requests : req[r].pc # "idle" => req[r].key \in Keys
          /\ expiring \subseteq Keys
          /\ aborting \subseteq Keys
          /\ revived \subseteq Keys
          /\ untold \subseteq Keys

Init == /\ ChainInit
        /\ RowInit
        /\ live = {}
        /\ step = [k \in Keys |-> "WAIT_MSG1A"]
        /\ nonce = [k \in Keys |-> 0]
        /\ aged = {}
        /\ req = [r \in Requests |-> Idle]
        /\ expiring = {}
        /\ aborting = {}
        /\ revived = {}
        /\ untold = {}

At(r, pc) == req[r].pc = pc
Goto(r, pc) == req' = [req EXCEPT ![r].pc = pc]
Return(r) == req' = [req EXCEPT ![r] = Idle]

\* The session of a row that is already BROADCASTED or EXECUTED is dropped.
DropIfTerminal(k) == IF IsTerminalAb(k) THEN {k} ELSE {}

-----------------------------------------------------------------------------
(* Session expiry, run at the head of start, every round and complete. *)

Kept == live \ aged
Gc == expiring' = expiring \cup (live \cap aged)

ExpireWrite(k) ==
    /\ k \in expiring
    /\ expiring' = expiring \ {k}
    /\ \/ row' = IF row[k].status = "PROCESSING" THEN SetStatus(row, k, "EXPIRED") ELSE row
       \/ "db" \in Faults /\ UNCHANGED row
    /\ UNCHANGED <<chainVars, wallet, sessionVars, req, aborting, auxVars>>

\* Ten minutes pass since start created the row and its session.
Age(k) ==
    /\ k \notin aged
    /\ k \in live \/ row[k].status = "PROCESSING"
    /\ \A r \in Requests : ~(At(r, "created") /\ req[r].key = k)
    /\ aged' = aged \cup {k}
    /\ UNCHANGED <<chainVars, rowVars, live, step, nonce, req, writeVars, auxVars>>

-----------------------------------------------------------------------------
(* start *)

\* Up to the transaction: the wallet must be ACTIVE; a known key is answered
\* from its row; otherwise the transfer is prepared at the pending nonce.
StartCall(r, k) ==
    /\ req[r] = Idle
    /\ Gc
    /\ \/ /\ wallet # "ACTIVE"
          /\ live' = Kept
          /\ UNCHANGED req
       \/ /\ wallet = "ACTIVE" /\ row[k].status # "NONE"
          /\ live' = Kept \ DropIfTerminal(k)
          /\ UNCHANGED req
       \/ /\ wallet = "ACTIVE" /\ row[k].status = "NONE"
          /\ live' = Kept
          /\ \E n \in Nonces : /\ IsPendingNonce(n)
                               /\ req' = [req EXCEPT ![r] = Begun("lock", k, n)]
    /\ UNCHANGED <<chainVars, rowVars, step, nonce, aged, aborting, auxVars>>

\* Mutant: only rows whose session is still in the Map go stale.
StaleInMap == {k \in aged \cap live : row[k].status = "PROCESSING"}

Stale == {k \in aged : row[k].status = "PROCESSING"}

\* The transaction that holds the wallet row FOR UPDATE.
LockFree == \A r \in Requests : ~At(r, "expire")

\* The lock, and the reads behind it up to the stale rows.
StartLock(r) ==
    LET k == req[r].key IN
    /\ At(r, "lock") /\ LockFree
    /\ \/ /\ wallet # "ACTIVE"
          /\ Return(r)
          /\ UNCHANGED live
       \/ /\ wallet = "ACTIVE" /\ row[k].status # "NONE"
          /\ Return(r)
          /\ live' = live \ DropIfTerminal(k)
       \/ /\ wallet = "ACTIVE" /\ row[k].status = "NONE"
          /\ req' = [req EXCEPT ![r].pc = "expire", ![r].stale = Stale]
          /\ UNCHANGED live
    /\ UNCHANGED <<chainVars, rowVars, step, nonce, aged, writeVars, auxVars>>

\* The updates name the rows by id and do not look at their status again.
ExpiredRows(K) == [k \in Keys |-> IF k \in K THEN [row[k] EXCEPT !.status = "EXPIRED"] ELSE row[k]]

\* The transaction rolls back: the rows are as before, the sessions deleted on
\* the way stay deleted.
Rollback(r) ==
    /\ At(r, "expire")
    /\ live' = live \ req[r].stale
    /\ Return(r)
    /\ UNCHANGED <<chainVars, rowVars, step, nonce, aged, writeVars, auxVars>>

\* The rest of the transaction: expire, settle, create (the key is unique). The
\* answer to the commit may be lost, and then the row has no session.
Commit(r) ==
    LET k == req[r].key IN
    /\ At(r, "expire")
    /\ row[k].status = "NONE"
    /\ live' = live \ req[r].stale
    /\ \E settled \in SettledRows(ExpiredRows(req[r].stale)) :
          row' = SetStatus(settled, k, "PROCESSING")
    /\ \/ req' = [req EXCEPT ![r].pc = "created", ![r].stale = {}]
       \/ "db" \in Faults /\ Return(r)
    /\ UNCHANGED <<chainVars, wallet, step, nonce, aged, writeVars, auxVars>>

StartCommit(r) ==
    \/ Commit(r)
    \/ (SettleThrows(ExpiredRows(req[r].stale)) \/ "db" \in Faults) /\ Rollback(r)

\* The row is committed; the session enters the Map one await later.
SessionSet(r) ==
    LET k == req[r].key IN
    /\ At(r, "created")
    /\ live' = live \cup {k}
    /\ step' = [step EXCEPT ![k] = "WAIT_MSG1A"]
    /\ nonce' = [nonce EXCEPT ![k] = req[r].nonce]
    /\ Return(r)
    /\ UNCHANGED <<chainVars, rowVars, aged, writeVars, auxVars>>

-----------------------------------------------------------------------------
(* round1, round2, round3: no await between the check and the update *)

\* Mutant: a step name that does not exist.
NextStepPastEnd == [s \in {"WAIT_MSG1A", "WAIT_MSG2A", "WAIT_MSG3A"} |->
                       IF s = "WAIT_MSG1A" THEN "WAIT_MSG2A" ELSE "WAIT_MSG5A"]

NextStep == [s \in {"WAIT_MSG1A", "WAIT_MSG2A", "WAIT_MSG3A"} |->
                CASE s = "WAIT_MSG1A" -> "WAIT_MSG2A"
                  [] s = "WAIT_MSG2A" -> "WAIT_MSG3A"
                  [] s = "WAIT_MSG3A" -> "WAIT_MSG4A"]

\* A message of the browser for the step the session waits in, or one that is
\* refused (another step, a bad message, no session).
Round(k) ==
    /\ row[k].status # "NONE"
    /\ Gc
    /\ live' = Kept
    /\ \/ /\ k \in Kept
          /\ step[k] \in DOMAIN NextStep
          /\ step' = [step EXCEPT ![k] = NextStep[@]]
       \/ UNCHANGED step
    /\ UNCHANGED <<chainVars, rowVars, nonce, aged, req, aborting, auxVars>>

-----------------------------------------------------------------------------
(* complete *)

CompleteCall(r, k) ==
    /\ req[r] = Idle
    /\ row[k].status # "NONE"
    /\ Gc
    /\ live' = Kept
    /\ req' = [req EXCEPT ![r] = Begun("findTerminal", k, 0)]
    /\ UNCHANGED <<chainVars, rowVars, step, nonce, aged, aborting, auxVars>>

\* findTerminalBySession, then the session lookup.
FindTerminal(r) ==
    LET k == req[r].key IN
    /\ At(r, "findTerminal")
    /\ IF IsTerminalAb(k) \/ k \notin live THEN Return(r) ELSE Goto(r, "readRow")
    /\ UNCHANGED <<chainVars, rowVars, sessionVars, writeVars, auxVars>>

\* The row is read again, then the step of the session object is checked.
ReadRow(r) ==
    LET k == req[r].key IN
    /\ At(r, "readRow")
    /\ live' = live \ DropIfTerminal(k)
    /\ IF IsTerminalAb(k) \/ step[k] # "WAIT_MSG4A" THEN Return(r) ELSE Goto(r, "readWallet")
    /\ UNCHANGED <<chainVars, rowVars, step, nonce, aged, writeVars, auxVars>>

ReadWallet(r) ==
    LET k == req[r].key IN
    /\ At(r, "readWallet")
    /\ \/ wallet = "ACTIVE" /\ Goto(r, "sign") /\ UNCHANGED live
       \/ wallet # "ACTIVE" /\ Goto(r, "leftActive") /\ live' = live \ {k}
    /\ UNCHANGED <<chainVars, rowVars, step, nonce, aged, writeVars, auxVars>>

LeftActiveWrite(r) ==
    LET k == req[r].key IN
    /\ At(r, "leftActive")
    /\ \/ row' = IF row[k].status = "PROCESSING" THEN SetStatus(row, k, "FAILED") ELSE row
       \/ "db" \in Faults /\ UNCHANGED row
    /\ Return(r)
    /\ UNCHANGED <<chainVars, wallet, sessionVars, writeVars, auxVars>>

\* Mutant: BROADCASTED is written before the transaction is sent.
SignAndRecord(r) ==
    LET k == req[r].key IN
    /\ At(r, "sign")
    /\ step' = [step EXCEPT ![k] = "COMPLETING"]
    /\ live' = live \cup {k} /\ Goto(r, "record")
    /\ UNCHANGED <<chainVars, rowVars, nonce, aged, writeVars, auxVars>>

\* COMPLETING is set and the session stored (again, if it was deleted during
\* the awaits above); share B signs the digest and the signatures combine, or
\* the browser's last message is bad and the catch block starts.
Sign(r) ==
    LET k == req[r].key IN
    /\ At(r, "sign")
    /\ step' = [step EXCEPT ![k] = "COMPLETING"]
    /\ \/ live' = live \cup {k} /\ Goto(r, "broadcast")
       \/ live' = live \ {k} /\ Goto(r, "catch")
    /\ UNCHANGED <<chainVars, rowVars, nonce, aged, writeVars, auxVars>>

\* broadcastTransaction: accepted, accepted with the reply lost, or refused.
Broadcast(r) ==
    LET k == req[r].key IN
    /\ At(r, "broadcast")
    /\ \/ /\ Submit(k, nonce[k])
          /\ Goto(r, "record")
          /\ UNCHANGED <<live, untold>>
       \/ /\ "rpc" \in Faults
          /\ Submit(k, nonce[k])
          /\ Goto(r, "catch")
          /\ live' = live \ {k}
          /\ untold' = untold \cup {k}
       \/ /\ Goto(r, "catch")
          /\ live' = live \ {k}
          /\ UNCHANGED <<chainVars, untold>>
    /\ UNCHANGED <<rowVars, step, nonce, aged, writeVars, revived>>

\* Mutant: the status is updated without the hash.
BroadcastedWithoutHash == [status |-> "BROADCASTED", txHash |-> FALSE]

Broadcasted == [status |-> "BROADCASTED", txHash |-> TRUE]

\* The unconditional update to BROADCASTED with the hash; it may commit and
\* its answer be lost, and then the catch block reads its own BROADCASTED.
Record(r) ==
    LET k == req[r].key IN
    /\ At(r, "record")
    /\ live' = live \ {k}
    /\ \/ /\ row' = [row EXCEPT ![k] = Broadcasted]
          /\ Goto(r, "wait") \/ ("db" \in Faults /\ Goto(r, "catch"))
          /\ revived' = IF k \in OpenAb(row) THEN revived ELSE revived \cup {k}
          /\ UNCHANGED untold
       \/ /\ "db" \in Faults
          /\ Goto(r, "catch")
          /\ untold' = untold \cup {k}
          /\ UNCHANGED <<row, revived>>
    /\ UNCHANGED <<chainVars, wallet, step, nonce, aged, writeVars>>

\* response.wait(1) resolves, or rejects and leaves the row BROADCASTED.
Wait(r) ==
    LET k == req[r].key IN
    /\ At(r, "wait")
    /\ \/ txState[k] = "success" /\ Goto(r, "execute")
       \/ (txState[k] \in {"reverted", "dropped"} \/ "rpc" \in Faults) /\ Return(r)
    /\ UNCHANGED <<chainVars, rowVars, sessionVars, writeVars, auxVars>>

Execute(r) ==
    /\ At(r, "execute")
    /\ Return(r)
    /\ \/ row' = SetStatus(row, req[r].key, "EXECUTED")
       \/ "db" \in Faults /\ UNCHANGED row
    /\ UNCHANGED <<chainVars, wallet, sessionVars, writeVars, auxVars>>

\* The catch block reads the row; a failed read counts as no row.
CatchRead(r) ==
    LET k == req[r].key IN
    /\ At(r, "catch")
    /\ \/ row[k].status = "PROCESSING" /\ Goto(r, "failWrite")
       \/ row[k].status # "PROCESSING" /\ Return(r)
       \/ "db" \in Faults /\ Goto(r, "failWrite")
    /\ UNCHANGED <<chainVars, rowVars, sessionVars, writeVars, auxVars>>

\* ... and one await later marks it FAILED, whatever it is by then.
FailWrite(r) ==
    /\ At(r, "failWrite")
    /\ Return(r)
    /\ \/ row' = SetStatus(row, req[r].key, "FAILED")
       \/ "db" \in Faults /\ UNCHANGED row
    /\ UNCHANGED <<chainVars, wallet, sessionVars, writeVars, auxVars>>

-----------------------------------------------------------------------------
(* abort *)

Abort(k) ==
    /\ k \in live
    /\ live' = live \ {k}
    /\ aborting' = aborting \cup {k}
    /\ UNCHANGED <<chainVars, rowVars, step, nonce, aged, req, expiring, auxVars>>

\* Mutant: abort updates the row by its id alone.
AbortAnyStatus(k) ==
    /\ k \in aborting
    /\ aborting' = aborting \ {k}
    /\ row' = SetStatus(row, k, "FAILED")
    /\ UNCHANGED <<chainVars, wallet, sessionVars, req, expiring, auxVars>>

AbortWrite(k) ==
    /\ k \in aborting
    /\ aborting' = aborting \ {k}
    /\ \/ row' = IF row[k].status = "PROCESSING" THEN SetStatus(row, k, "FAILED") ELSE row
       \/ "db" \in Faults /\ UNCHANGED row
    /\ UNCHANGED <<chainVars, wallet, sessionVars, req, expiring, auxVars>>

-----------------------------------------------------------------------------
(* The rest of the system *)

\* The locked transaction of startEmergencyRecovery.
StartEmergency ==
    /\ LockFree
    /\ wallet \in {"ACTIVE", "RECOVERY_PENDING"}
    /\ \E settled \in SettledRows(row) : row' = settled
    /\ wallet' = "RECOVERY_PENDING"
    /\ UNCHANGED <<chainVars, sessionVars, req, writeVars, auxVars>>

\* cancelEmergencyRecovery before any last withdraw.
CancelEmergency ==
    /\ wallet = "RECOVERY_PENDING"
    /\ wallet' = "ACTIVE"
    /\ UNCHANGED <<chainVars, row, sessionVars, req, writeVars, auxVars>>

\* The API process dies: the Map and every handler are gone.
Restart ==
    /\ live' = {}
    /\ step' = [k \in Keys |-> "WAIT_MSG1A"]
    /\ nonce' = [k \in Keys |-> 0]
    /\ req' = [r \in Requests |-> Idle]
    /\ expiring' = {}
    /\ aborting' = {}
    /\ untold' = untold \cup {req[r].key : r \in {q \in Requests : At(q, "record")}}
    /\ UNCHANGED <<chainVars, rowVars, aged, revived>>

Crash == "crash" \in Faults /\ Restart

Chain == /\ \E t \in Txs : Mine(t) \/ Drop(t)
         /\ UNCHANGED <<rowVars, sessionVars, req, writeVars, auxVars>>

StartNext(r) == (\E k \in Keys : StartCall(r, k)) \/ StartLock(r) \/ StartCommit(r) \/ SessionSet(r)

\* complete after its call: nothing but the handler itself is waited for.
CompleteStep(r) ==
    \/ FindTerminal(r) \/ ReadRow(r) \/ ReadWallet(r) \/ LeftActiveWrite(r)
    \/ Sign(r) \/ Broadcast(r) \/ Record(r) \/ Wait(r) \/ Execute(r)
    \/ CatchRead(r) \/ FailWrite(r)

KeyNext(k) == Round(k) \/ Age(k) \/ ExpireWrite(k) \/ Abort(k) \/ AbortWrite(k)

Next ==
    \/ \E r \in Requests : StartNext(r) \/ CompleteStep(r) \/ \E k \in Keys : CompleteCall(r, k)
    \/ \E k \in Keys : KeyNext(k)
    \/ StartEmergency
    \/ CancelEmergency
    \/ Crash
    \/ Chain

Spec == Init /\ [][Next]_vars

\* What liveness assumes: an await that was started is answered (Postgres and
\* the node reply), time passes, and the user keeps trying to withdraw with a
\* fresh key.
Fairness == /\ \A k \in Keys : WF_vars(Age(k))
            /\ \A r \in Requests : /\ WF_vars(CompleteStep(r))
                                   /\ WF_vars(StartLock(r) \/ StartCommit(r) \/ SessionSet(r))
                                   /\ \A k \in Keys : SF_vars(StartCall(r, k))

-----------------------------------------------------------------------------
(* Properties *)

\* A withdraw shown as EXECUTED was mined and succeeded, however many complete
\* calls, settles, crashes and lost replies there were (complete writes it
\* after wait(1), settle from a receipt).
ExecutedIsMined == \A k \in Keys : row[k].status = "EXECUTED" => txState[k] = "success"

\* A transaction hash is stored only for a transaction the network accepted:
\* no interleaving lets a refused or never-sent withdraw look BROADCASTED.
HashMeansSent == \A k \in Keys : row[k].txHash => txState[k] # "none"

\* A transaction the network accepted has its hash on its row, or the handler
\* that sent it is about to store it, or the API lost the answer (the reply,
\* the update or the process).  Aborts, expiry and duplicate completes alone
\* never lose track of a payment.
SentIsTracked ==
    \A k \in Keys : txState[k] # "none" =>
        \/ row[k].txHash
        \/ k \in untold
        \/ \E r \in Requests : At(r, "record") /\ req[r].key = k

\* As long as no closed row was written BROADCASTED again, the wallet row lock
\* does what it is for: at most one NORMAL_AB withdraw is open, and none while
\* the wallet is in emergency recovery.
OneOpenPerWallet ==
    revived = {} =>
        /\ \A j, k \in OpenAb(row) : j = k
        /\ wallet # "ACTIVE" => OpenAb(row) = {}

\* "A withdraw in progress (PROCESSING/BROADCASTED) and emergency B+C do not
\* proceed at the same time" (README.md:77, :364).
AbExcludesEmergency == OpenAb(row) # {} => wallet = "ACTIVE"

Sent(rec) == rec.status \in {"BROADCASTED", "EXECUTED"}

\* "BROADCASTED: the receipt decides (success = EXECUTED, failure = FAILED)"
\* (README.md:77). A row that shows a sent transaction is closed as FAILED or
\* EXPIRED when its transaction reverted, with two exceptions, both writes by
\* id: the catch block of a complete, when its own read failed or another
\* complete of the session wrote BROADCASTED after it, and a start that found
\* the row stale while its complete was still running.
ReceiptDecides ==
    [][\A k \in Keys : Sent(row[k]) /\ ~Sent(row'[k])
            => \/ txState[k] = "reverted"
               \/ \E r \in Requests : At(r, "failWrite") /\ req[r].key = k
               \/ \E r \in Requests : At(r, "expire") /\ k \in req[r].stale]_vars

\* A withdraw the API forgot in a crash does not block the wallet for good: a
\* later start with a fresh key expires it once it is older than the session
\* TTL (the stale rows of start).
ForgottenIsExpired ==
    \A j, k \in Keys : (j # k /\ row[j].status = "PROCESSING" /\ row[k].status = "NONE")
                           ~> row[j].status # "PROCESSING"
=============================================================================
