--------------------------- MODULE RecoverySigner ---------------------------
(***************************************************************************)
(* The 2-of-3 signing between the API (party B, signDigestBcRelay) and the *)
(* Recovery server (party C, SignService), beside the life of Share C.     *)
(*                                                                         *)
(* An attempt is one run of signDigestBcRelay. It has its own digest and   *)
(* at most one Recovery session, so its name stands for both. A call to    *)
(* the Recovery server is on its way until it is handled or lost; the API  *)
(* may give up on it before that. The Recovery server's handlers are       *)
(* synchronous, except start, which waits for its database.                *)
(***************************************************************************)
EXTENDS RecoveryShares

CONSTANTS
    Attempts,   \* runs of signDigestBcRelay
    NoWallet,   \* the wallet of an attempt that has not begun
    Faults      \* which faults the environment may inject

ASSUME NoWalletIsNoWallet == NoWallet \notin Wallets
ASSUME FaultsKnown == Faults \subseteq {"rpc", "crash", "db", "slow"}

VARIABLES
    walletRow,  \* Wallet.status; ACTIVE stands for every live status
    relay,      \* the call that party B waits for
    calls,      \* calls on their way to the Recovery server
    loading,    \* starts that loaded Share C and have no session yet
    session,    \* SignSessionState.step of the sessions in the Map
    old,        \* sessions older than SESSION_TTL_MS
    gave,       \* attempts whose last message party C computed
    retiring    \* wallets with a retireShareC on its way

vars == <<shareC, walletRow, relay, calls, loading, session, old, gave, retiring>>

Rounds == <<"round1", "round2", "round3", "last">>
Steps == <<"WAIT_MSG1B", "WAIT_MSG2B", "WAIT_MSG3B", "WAIT_LAST">>

Calls == {"start", "abort"} \cup {Rounds[k] : k \in 1 .. 4}

RelayPcs == Calls \cup {"new", "combine", "signed", "aborted", "failed"}

TypeOK == /\ ShareTypeOK
          /\ walletRow \in [Wallets -> {"NONE", "ACTIVE", "RETIRED"}]
          /\ relay \in [Attempts -> [pc : RelayPcs, w : Wallets \cup {NoWallet}]]
          /\ \A a \in Attempts : relay[a].pc # "new" => relay[a].w \in Wallets
          /\ calls \subseteq Attempts \X Calls
          /\ loading \subseteq Attempts
          /\ session \in [Attempts -> {"none"} \cup {Steps[k] : k \in 1 .. 4}]
          /\ old \subseteq Attempts
          /\ gave \subseteq Attempts
          /\ retiring \subseteq Wallets

Init == /\ ShareInit
        /\ walletRow = [w \in Wallets |-> "NONE"]
        /\ relay = [a \in Attempts |-> [pc |-> "new", w |-> NoWallet]]
        /\ calls = {} /\ loading = {} /\ old = {} /\ gave = {} /\ retiring = {}
        /\ session = [a \in Attempts |-> "none"]

---------------------------------------------------------------------------
(* Wallets: what DkgSession and EmergencyWithdraw do to the two rows *)

\* finalize of a key generation
FinalizeC(w) ==
    /\ InsertShareC(w)
    /\ UNCHANGED <<walletRow, relay, calls, loading, session, old, gave, retiring>>

\* complete creates the wallet when finalize has answered.
CreateWallet(w) ==
    /\ shareC[w] = "ACTIVE" /\ walletRow[w] = "NONE"
    /\ \A v \in Wallets : walletRow[v] # "ACTIVE"
    /\ walletRow' = [walletRow EXCEPT ![w] = "ACTIVE"]
    /\ UNCHANGED <<shareC, relay, calls, loading, session, old, gave, retiring>>

\* A last withdraw, also one that runs beside another, retires the wallet and
\* then calls retireShareC.
RetireWallet(w) ==
    /\ walletRow[w] # "NONE"
    /\ walletRow' = [walletRow EXCEPT ![w] = "RETIRED"]
    /\ retiring' = retiring \cup {w}
    /\ UNCHANGED <<shareC, relay, calls, loading, session, old, gave>>

\* retireShareC arrives, or is lost and its error only logged.
RetireC(w) ==
    /\ w \in retiring
    /\ retiring' = retiring \ {w}
    /\ RetireShare(w) \/ ("rpc" \in Faults /\ UNCHANGED shareC)
    /\ UNCHANGED <<walletRow, relay, calls, loading, session, old, gave>>

---------------------------------------------------------------------------
(* Party B: signDigestBcRelay *)

\* Mutant: the wallet id is not passed on.
BeginUnnamed(a, w) ==
    /\ relay[a].pc = "new" /\ walletRow[w] # "NONE"
    /\ relay' = [relay EXCEPT ![a].pc = "start"]
    /\ calls' = calls \cup {<<a, "start">>}
    /\ UNCHANGED <<shareC, walletRow, loading, session, old, gave, retiring>>

\* The caller has a row of the wallet, which another last withdraw may have
\* retired since it was read.
Begin(a, w) ==
    /\ relay[a].pc = "new" /\ walletRow[w] # "NONE"
    /\ relay' = [relay EXCEPT ![a] = [pc |-> "start", w |-> w]]
    /\ calls' = calls \cup {<<a, "start">>}
    /\ UNCHANGED <<shareC, walletRow, loading, session, old, gave, retiring>>

\* The call after the one that was answered.
After(call) == CASE call = "start" -> "round1"
                 [] call = "round1" -> "round2"
                 [] call = "round2" -> "round3"
                 [] call = "round3" -> "last"
                 [] call = "last" -> "combine"
                 [] call = "abort" -> "aborted"

\* Mutant: an abort that fails is sent again.
ThrowRetriesAbort(a, rest) ==
    IF relay[a].pc = "start"
    THEN /\ relay' = [relay EXCEPT ![a].pc = "failed"]
         /\ calls' = rest
    ELSE /\ relay' = [relay EXCEPT ![a].pc = "abort"]
         /\ calls' = rest \cup {<<a, "abort">>}

\* A call that throws: with a session id, the catch block sends an abort,
\* whose own failure is swallowed.
Throw(a, rest) ==
    IF relay[a].pc \in {"start", "abort"}
    THEN /\ relay' = [relay EXCEPT ![a].pc = "failed"]
         /\ calls' = rest
    ELSE /\ relay' = [relay EXCEPT ![a].pc = "abort"]
         /\ calls' = rest \cup {<<a, "abort">>}

\* The call was handled; party B hears of it, unless the answer is lost or
\* party B has given up before.
Answered(a, call) ==
    LET rest == calls \ {<<a, call>>} IN
    \/ /\ relay[a].pc = call
       /\ relay' = [relay EXCEPT ![a].pc = After(call)]
       /\ calls' = IF After(call) \in Calls THEN rest \cup {<<a, After(call)>>} ELSE rest
    \/ /\ relay[a].pc # call \/ "rpc" \in Faults
       /\ relay' = relay /\ calls' = rest

\* The call was refused with an error status.
Refused(a, call) ==
    LET rest == calls \ {<<a, call>>} IN
    \/ relay[a].pc = call /\ Throw(a, rest)
    \/ (relay[a].pc # call \/ "rpc" \in Faults) /\ relay' = relay /\ calls' = rest

\* request() throws: the connection broke, or the Recovery server died.
GiveUp(a) ==
    /\ Faults \cap {"rpc", "crash"} # {}
    /\ relay[a].pc \in Calls
    /\ Throw(a, calls)
    /\ UNCHANGED <<shareC, walletRow, loading, session, old, gave, retiring>>

\* sessionB.combine with party C's last message.
Combine(a) ==
    /\ relay[a].pc = "combine"
    /\ relay' = [relay EXCEPT ![a].pc = "signed"]
    /\ UNCHANGED <<shareC, walletRow, calls, loading, session, old, gave, retiring>>

---------------------------------------------------------------------------
(* Party C: SignService *)

\* A session that require() finds: in the Map after gc.
Usable(a) == session[a] # "none" /\ a \notin old

\* What gc leaves in the Map.
Kept == [a \in Attempts |-> IF a \in old THEN "none" ELSE session[a]]

\* Mutant: the status of the row is not looked at.
LoadsRetired(w) == shareC[w] # "NONE"

\* loadActiveShareCBytes
Loads(w) == shareC[w] = "ACTIVE"

\* start up to the await of the row.
StartLoad(a) ==
    /\ <<a, "start">> \in calls
    /\ session' = Kept /\ old' = {}
    /\ \/ /\ Loads(relay[a].w)
          /\ calls' = calls \ {<<a, "start">>}
          /\ loading' = loading \cup {a}
          /\ UNCHANGED relay
       \/ /\ ~Loads(relay[a].w) \/ "db" \in Faults
          /\ Refused(a, "start")
          /\ UNCHANGED loading
    /\ UNCHANGED <<shareC, walletRow, gave, retiring>>

\* The session enters the Map, whatever happened to the row meanwhile.
StartOpen(a) ==
    /\ a \in loading
    /\ loading' = loading \ {a}
    /\ session' = [session EXCEPT ![a] = Steps[1]]
    /\ Answered(a, "start")
    /\ UNCHANGED <<shareC, walletRow, old, gave, retiring>>

\* Mutant: the step is not written back.
StepUnsaved(k) == Steps[k]

\* The step after round k.
StepAfter(k) == Steps[k + 1]

\* round1, round2 and round3
Round(a, k) ==
    /\ <<a, Rounds[k]>> \in calls
    /\ Usable(a) /\ session[a] = Steps[k]
    /\ session' = [Kept EXCEPT ![a] = StepAfter(k)] /\ old' = {}
    /\ Answered(a, Rounds[k])
    /\ UNCHANGED <<shareC, walletRow, loading, gave, retiring>>

\* lastMessage computes party C's share of the signature and ends the session.
LastMessage(a) ==
    /\ <<a, "last">> \in calls
    /\ Usable(a) /\ session[a] = "WAIT_LAST"
    /\ session' = [Kept EXCEPT ![a] = "none"] /\ old' = {}
    /\ gave' = gave \cup {a}
    /\ Answered(a, "last")
    /\ UNCHANGED <<shareC, walletRow, loading, retiring>>

\* No such session any more, or another step.
RefuseCall(a, k) ==
    /\ <<a, Rounds[k]>> \in calls
    /\ ~(Usable(a) /\ session[a] = Steps[k])
    /\ session' = Kept /\ old' = {}
    /\ Refused(a, Rounds[k])
    /\ UNCHANGED <<shareC, walletRow, loading, gave, retiring>>

\* Mutant: abort marks the session done and leaves it in the Map.
AbortLeaves(a) ==
    /\ <<a, "abort">> \in calls
    /\ UNCHANGED <<session, old>>
    /\ Answered(a, "abort")
    /\ UNCHANGED <<shareC, walletRow, loading, gave, retiring>>

\* abort runs no gc.
Abort(a) ==
    /\ <<a, "abort">> \in calls
    /\ session' = [session EXCEPT ![a] = "none"] /\ old' = old \ {a}
    /\ Answered(a, "abort")
    /\ UNCHANGED <<shareC, walletRow, loading, gave, retiring>>

---------------------------------------------------------------------------
(* Time, the network and crashes *)

GrowOld(a) ==
    /\ "slow" \in Faults
    /\ Usable(a)
    /\ old' = old \cup {a}
    /\ UNCHANGED <<shareC, walletRow, relay, calls, loading, session, gave, retiring>>

Lose(a, call) ==
    /\ "rpc" \in Faults /\ <<a, call>> \in calls
    /\ calls' = calls \ {<<a, call>>}
    /\ UNCHANGED <<shareC, walletRow, relay, loading, session, old, gave, retiring>>

Ended == {"new", "signed", "aborted", "failed"}

\* The API process dies; its calls may still arrive.
CrashApi ==
    /\ "crash" \in Faults
    /\ relay' = [a \in Attempts |-> IF relay[a].pc \in Ended THEN relay[a]
                                    ELSE [relay[a] EXCEPT !.pc = "failed"]]
    /\ retiring' \in SUBSET retiring
    /\ UNCHANGED <<shareC, walletRow, calls, loading, session, old, gave>>

\* The Recovery server dies with its Map.
CrashRecovery ==
    /\ "crash" \in Faults
    /\ session' = [a \in Attempts |-> "none"]
    /\ loading' = {} /\ old' = {}
    /\ UNCHANGED <<shareC, walletRow, relay, calls, gave, retiring>>

Handler(a) == \/ StartLoad(a) \/ StartOpen(a)
              \/ \E k \in 1 .. 3 : Round(a, k)
              \/ LastMessage(a)
              \/ \E k \in 1 .. 4 : RefuseCall(a, k)
              \/ Abort(a)

Next == \/ \E w \in Wallets : FinalizeC(w) \/ CreateWallet(w) \/ RetireWallet(w) \/ RetireC(w)
        \/ \E a \in Attempts : \/ \E w \in Wallets : Begin(a, w)
                               \/ Handler(a) \/ GiveUp(a) \/ Combine(a) \/ GrowOld(a)
                               \/ \E call \in Calls : Lose(a, call)
        \/ CrashApi \/ CrashRecovery

Spec == Init /\ [][Next]_vars

\* A call that arrived is handled, one that nothing can answer any more throws
\* some time (fetch gives up on a silent server), and party B goes on.
Unanswered(a) == <<a, relay[a].pc>> \notin calls /\ a \notin loading

Fairness == \A a \in Attempts : /\ WF_vars(Handler(a))
                                /\ WF_vars(Unanswered(a) /\ GiveUp(a))
                                /\ WF_vars(Combine(a))

FairSpec == Spec /\ Fairness

---------------------------------------------------------------------------
(* Properties *)

\* What becomes of an attempt, for Custody.
Phase(a) == CASE a \in gave /\ relay[a].pc = "signed" -> "signed"
              [] a \in gave /\ relay[a].pc # "signed" -> "answered"
              [] a \notin gave /\ (a \in loading \/ Usable(a)) -> "admitted"
              [] a \notin gave /\ a \notin loading /\ ~Usable(a)
                 /\ (relay[a].pc = "new" \/ <<a, "start">> \in calls) -> "new"
              [] OTHER -> "dropped"

Promise == INSTANCE Custody WITH wallet <- walletRow, phase <- [a \in Attempts |-> Phase(a)]

\* Whatever is lost, late, repeated by a retry or cut off by a crash: party C
\* takes part only in signings that it admitted while it held Share C, it
\* gives at most one last message for each, also to a call that outlived its
\* caller, and a wiped share admits nothing more.
ImplementsCustody == Promise!Spec

\* Party C has handled every round that party B has gone past, and at most
\* the one party B waits for: the two key shares never mix two rounds.
StepsMatch ==
    \A a \in Attempts, k, m \in 1 .. 4 :
        relay[a].pc = Rounds[k] /\ session[a] = Steps[m] => m \in {k, k + 1}

\* Once an abort was answered, no call of the attempt that is still on its
\* way makes party C give its last message.
AbortedNeverGives ==
    [][\A a \in Attempts : relay[a].pc = "aborted" /\ a \in gave' => a \in gave]_vars

\* Every run of signDigestBcRelay returns or throws: a lost call, a refused
\* one and an expired session all reach its catch block (the wallet is
\* RETIRING until then).
RelayEnds == \A a \in Attempts : relay[a].pc = "start" ~> relay[a].pc \in Ended \ {"new"}
=============================================================================
