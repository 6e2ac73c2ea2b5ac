------------------------ MODULE RecoverySignerProofs ------------------------
(***************************************************************************)
(* Proofs about RecoverySigner for any number of wallets and of            *)
(* overlapping signings, and for any set of faults.                        *)
(***************************************************************************)
EXTENDS RecoverySigner, TLAPS

(* The disjuncts of Next, one group for each side. *)

WalletStep == \E w \in Wallets : FinalizeC(w) \/ CreateWallet(w) \/ RetireWallet(w) \/ RetireC(w)

RelayStep(a) == (\E w \in Wallets : Begin(a, w)) \/ GiveUp(a) \/ Combine(a)

TimeStep(a) == GrowOld(a) \/ \E call \in Calls : Lose(a, call)

LEMMA NextSplit ==
  Next <=> \/ WalletStep
           \/ \E a \in Attempts : RelayStep(a) \/ Handler(a) \/ TimeStep(a)
           \/ CrashApi \/ CrashRecovery
  BY DEF Next, WalletStep, RelayStep, TimeStep

LEMMA Names ==
  /\ \A k \in 1 .. 4 : Rounds[k] \in Calls /\ Steps[k] # "none"
  /\ \A k \in 1 .. 4 : Rounds[k] \notin {"start", "abort", "new", "combine", "signed", "aborted", "failed"}
  /\ \A k, m \in 1 .. 4 : Rounds[k] = Rounds[m] => k = m
  /\ \A k, m \in 1 .. 4 : Steps[k] = Steps[m] => k = m
  /\ Calls = {"start", "abort", "round1", "round2", "round3", "last"}
  /\ \A call \in Calls : After(call) \in RelayPcs /\ After(call) # "new"
  BY DEF Calls, Rounds, Steps, After, RelayPcs

---------------------------------------------------------------------------
(* What a step does to one attempt *)

\* The relay of b moves on, or stays.
LEMMA AnsweredRelay ==
  ASSUME TypeOK, NEW a \in Attempts, NEW call \in Calls, Answered(a, call)
  PROVE  /\ calls' \subseteq Attempts \X Calls
         /\ relay' \in [Attempts -> [pc : RelayPcs, w : Wallets \cup {NoWallet}]]
         /\ \A b \in Attempts : b # a => relay'[b] = relay[b]
         /\ relay'[a].w = relay[a].w
         /\ \/ relay'[a] = relay[a] /\ calls' = calls \ {<<a, call>>}
            \/ /\ relay[a].pc = call /\ relay'[a].pc = After(call)
               /\ calls' = (calls \ {<<a, call>>})
                              \cup IF After(call) \in Calls THEN {<<a, After(call)>>} ELSE {}
  BY Names DEF Answered, TypeOK

LEMMA ThrowRelay ==
  ASSUME TypeOK, NEW a \in Attempts, NEW rest \in SUBSET calls, Throw(a, rest), relay[a].pc \in Calls
  PROVE  /\ calls' \subseteq Attempts \X Calls
         /\ relay' \in [Attempts -> [pc : RelayPcs, w : Wallets \cup {NoWallet}]]
         /\ \A b \in Attempts : b # a => relay'[b] = relay[b]
         /\ relay'[a].w = relay[a].w
         /\ \/ relay[a].pc \in {"start", "abort"} /\ relay'[a].pc = "failed" /\ calls' = rest
            \/ /\ relay[a].pc \notin {"start", "abort"} /\ relay'[a].pc = "abort"
               /\ calls' = rest \cup {<<a, "abort">>}
  BY Names DEF Throw, TypeOK, RelayPcs

LEMMA RefusedRelay ==
  ASSUME TypeOK, NEW a \in Attempts, NEW call \in Calls, Refused(a, call)
  PROVE  /\ calls' \subseteq Attempts \X Calls
         /\ relay' \in [Attempts -> [pc : RelayPcs, w : Wallets \cup {NoWallet}]]
         /\ \A b \in Attempts : b # a => relay'[b] = relay[b]
         /\ relay'[a].w = relay[a].w
         /\ \/ relay'[a] = relay[a] /\ calls' = calls \ {<<a, call>>}
            \/ /\ relay[a].pc = call /\ call \in {"start", "abort"} /\ relay'[a].pc = "failed"
               /\ calls' = calls \ {<<a, call>>}
            \/ /\ relay[a].pc = call /\ call \notin {"start", "abort"} /\ relay'[a].pc = "abort"
               /\ calls' = (calls \ {<<a, call>>}) \cup {<<a, "abort">>}
  <1>1. CASE relay[a].pc = call /\ Throw(a, calls \ {<<a, call>>})
    BY <1>1, ThrowRelay
  <1>2. CASE relay' = relay /\ calls' = calls \ {<<a, call>>}
    BY <1>2 DEF TypeOK
  <1> QED
    BY <1>1, <1>2 DEF Refused

---------------------------------------------------------------------------
(* Type correctness *)

LEMMA HandlerType ==
  ASSUME TypeOK, NEW a \in Attempts, Handler(a)
  PROVE  TypeOK'
  <1>1. ASSUME StartLoad(a) PROVE TypeOK'
    <2>1. "start" \in Calls
      BY Names
    <2>2. CASE UNCHANGED relay /\ calls' = calls \ {<<a, "start">>} /\ loading' = loading \cup {a}
      BY <1>1, <2>2 DEF StartLoad, Kept, TypeOK, ShareTypeOK
    <2>3. CASE Refused(a, "start") /\ UNCHANGED loading
      <3>1. \A b \in Attempts : relay'[b].pc # "new" => relay'[b].w \in Wallets
        BY <2>1, <2>3, RefusedRelay, Names DEF TypeOK
      <3> QED
        BY <1>1, <2>1, <2>3, <3>1, RefusedRelay DEF StartLoad, Kept, TypeOK, ShareTypeOK
    <2> QED
      BY <1>1, <2>2, <2>3 DEF StartLoad
  <1>2. ASSUME NEW call \in Calls, Answered(a, call),
               UNCHANGED <<shareC, walletRow, retiring>>,
               loading' \subseteq Attempts, old' \subseteq Attempts, gave' \subseteq Attempts,
               session' \in [Attempts -> {"none"} \cup {Steps[k] : k \in 1 .. 4}]
        PROVE  TypeOK'
    <2>1. \A b \in Attempts : relay'[b].pc # "new" => relay'[b].w \in Wallets
      BY <1>2, AnsweredRelay, Names DEF TypeOK
    <2> QED
      BY <1>2, <2>1, AnsweredRelay DEF TypeOK, ShareTypeOK
  <1>3. ASSUME StartOpen(a) PROVE TypeOK'
    BY <1>2, <1>3, Names DEF StartOpen, TypeOK
  <1>4. ASSUME NEW k \in 1 .. 3, Round(a, k) PROVE TypeOK'
    <2>1. k \in 1 .. 4 /\ k + 1 \in 1 .. 4
      OBVIOUS
    <2> QED
      BY <1>2, <1>4, <2>1, Names DEF Round, StepAfter, Kept, TypeOK
  <1>5. ASSUME LastMessage(a) PROVE TypeOK'
    BY <1>2, <1>5, Names DEF LastMessage, Kept, TypeOK
  <1>6. ASSUME NEW k \in 1 .. 4, RefuseCall(a, k) PROVE TypeOK'
    <2>1. Refused(a, Rounds[k]) /\ Rounds[k] \in Calls
      BY <1>6, Names DEF RefuseCall
    <2>2. \A b \in Attempts : relay'[b].pc # "new" => relay'[b].w \in Wallets
      BY <2>1, RefusedRelay, Names DEF TypeOK
    <2> QED
      BY <1>6, <2>1, <2>2, RefusedRelay DEF RefuseCall, Kept, TypeOK, ShareTypeOK
  <1>7. ASSUME Abort(a) PROVE TypeOK'
    BY <1>2, <1>7, Names DEF Abort, TypeOK
  <1> QED
    BY <1>1, <1>3, <1>4, <1>5, <1>6, <1>7 DEF Handler

LEMMA WalletStepType ==
  ASSUME TypeOK, WalletStep
  PROVE  TypeOK'
  BY DEF WalletStep, FinalizeC, CreateWallet, RetireWallet, RetireC, InsertShareC, RetireShare,
         TypeOK, ShareTypeOK, ShareStatus

LEMMA GiveUpRelay ==
  ASSUME TypeOK, NEW a \in Attempts, GiveUp(a)
  PROVE  /\ calls' \subseteq Attempts \X Calls
         /\ relay' \in [Attempts -> [pc : RelayPcs, w : Wallets \cup {NoWallet}]]
         /\ \A b \in Attempts : b # a => relay'[b] = relay[b]
         /\ relay'[a].w = relay[a].w /\ relay[a].pc \in Calls
         /\ \/ relay[a].pc \in {"start", "abort"} /\ relay'[a].pc = "failed" /\ calls' = calls
            \/ /\ relay[a].pc \notin {"start", "abort"} /\ relay'[a].pc = "abort"
               /\ calls' = calls \cup {<<a, "abort">>}
  BY ThrowRelay DEF GiveUp

LEMMA RelayStepType ==
  ASSUME TypeOK, NEW a \in Attempts, RelayStep(a)
  PROVE  TypeOK'
  <1>1. ASSUME NEW w \in Wallets, Begin(a, w) PROVE TypeOK'
    BY <1>1, Names DEF Begin, TypeOK, ShareTypeOK, RelayPcs
  <1>2. ASSUME GiveUp(a) PROVE TypeOK'
    <2>1. \A b \in Attempts : relay'[b].pc # "new" => relay'[b].w \in Wallets
      BY <1>2, GiveUpRelay, Names DEF TypeOK
    <2> QED
      BY <1>2, <2>1, GiveUpRelay DEF GiveUp, TypeOK, ShareTypeOK
  <1>3. ASSUME Combine(a) PROVE TypeOK'
    BY <1>3 DEF Combine, TypeOK, ShareTypeOK, RelayPcs
  <1> QED
    BY <1>1, <1>2, <1>3 DEF RelayStep

LEMMA RestType ==
  ASSUME TypeOK, (\E a \in Attempts : TimeStep(a)) \/ CrashApi \/ CrashRecovery
  PROVE  TypeOK'
  <1>1. ASSUME NEW a \in Attempts, TimeStep(a) PROVE TypeOK'
    BY <1>1 DEF TimeStep, GrowOld, Lose, TypeOK, ShareTypeOK
  <1>2. CASE CrashApi
    BY <1>2 DEF CrashApi, Ended, TypeOK, ShareTypeOK, RelayPcs
  <1>3. CASE CrashRecovery
    BY <1>3 DEF CrashRecovery, TypeOK, ShareTypeOK
  <1> QED
    BY <1>1, <1>2, <1>3

LEMMA NextType == TypeOK /\ [Next]_vars => TypeOK'
  <1>1. TypeOK /\ UNCHANGED vars => TypeOK'
    BY DEF vars, TypeOK, ShareTypeOK
  <1> QED
    BY <1>1, NextSplit, HandlerType, WalletStepType, RelayStepType, RestType

\* Types hold for any number of signings, wallets and faults.
THEOREM TypeCorrect == Spec => []TypeOK
  <1>1. Init => TypeOK
    BY DEF Init, ShareInit, TypeOK, ShareTypeOK, ShareStatus, RelayPcs
  <1> QED
    BY <1>1, NextType, PTL DEF Spec

---------------------------------------------------------------------------
(* The invariant: where the two servers stand in one attempt *)

\* Party B is past the answer of start.
StartedPcs == {"round1", "round2", "round3", "last", "combine", "signed", "abort", "aborted"}

\* The session is opened once, by the one start call of the attempt.
OpenedOnce(a) ==
    /\ relay[a].pc = "new" => \A call \in Calls : <<a, call>> \notin calls
    /\ relay[a].pc = "new" \/ <<a, "start">> \in calls
          => a \notin loading /\ session[a] = "none" /\ a \notin gave
    /\ a \in loading => session[a] = "none" /\ a \notin gave
    /\ relay[a].pc \in StartedPcs => a \notin loading /\ <<a, "start">> \notin calls

\* The last message ends the session, and party B combines only with it.
EndsWithLast(a) ==
    /\ session[a] # "none" => a \notin gave
    /\ a \in old => session[a] # "none"
    /\ relay[a].pc \in {"combine", "signed"} => a \in gave
    /\ relay[a].pc = "aborted" => session[a] = "none"

\* One call of a round at a time, and party C at its step or one further.
InStep(a) ==
    /\ relay[a].pc = "start" => \A call \in Calls : <<a, call>> \in calls => call = "start"
    /\ \A k \in 1 .. 4 : relay[a].pc = Rounds[k] =>
          /\ \A call \in Calls : <<a, call>> \in calls => call = Rounds[k]
          /\ \/ session[a] \in {"none", Steps[k]}
             \/ k < 4 /\ session[a] = Steps[k + 1] /\ <<a, Rounds[k]>> \notin calls

AttemptInv(a) == OpenedOnce(a) /\ EndsWithLast(a) /\ InStep(a)

RetiringAreRetired == \A w \in retiring : walletRow[w] = "RETIRED"

SignerInv == TypeOK /\ RetiringAreRetired /\ \A a \in Attempts : AttemptInv(a)

\* An attempt that a step touches at most by gc.
LEMMA Untouched ==
  ASSUME TypeOK, NEW b \in Attempts, AttemptInv(b),
         relay'[b] = relay[b], b \in loading' <=> b \in loading, b \in gave' <=> b \in gave,
         \A call \in Calls : <<b, call>> \in calls' <=> <<b, call>> \in calls,
         session'[b] \in {"none", session[b]}, b \in old' => b \in old /\ session'[b] # "none"
  PROVE  AttemptInv(b)'
  <1>1. "start" \in Calls /\ \A k \in 1 .. 4 : Rounds[k] \in Calls
    BY Names
  <1>2. OpenedOnce(b)'
    BY <1>1 DEF AttemptInv, OpenedOnce
  <1>3. EndsWithLast(b)'
    BY DEF AttemptInv, EndsWithLast
  <1>4. InStep(b)'
    BY <1>1 DEF AttemptInv, InStep
  <1> QED
    BY <1>2, <1>3, <1>4 DEF AttemptInv

LEMMA KeptSession ==
  ASSUME TypeOK, NEW b \in Attempts
  PROVE  Kept[b] \in {"none", session[b]}
  BY DEF Kept, TypeOK

\* A handler of one attempt and the others.
LEMMA HandlerOthers ==
  ASSUME TypeOK, NEW a \in Attempts, Handler(a), NEW b \in Attempts, b # a, AttemptInv(b)
  PROVE  AttemptInv(b)'
  <1>0. /\ "start" \in Calls /\ "abort" \in Calls /\ "last" \in Calls
        /\ \A k \in 1 .. 4 : Rounds[k] \in Calls
    BY Names
  <1>1. /\ relay'[b] = relay[b]
        /\ \A call \in Calls : <<b, call>> \in calls' <=> <<b, call>> \in calls
    <2>1. ASSUME NEW call \in Calls, Answered(a, call) \/ Refused(a, call)
          PROVE  /\ relay'[b] = relay[b]
                 /\ \A c \in Calls : <<b, c>> \in calls' <=> <<b, c>> \in calls
      BY <2>1, AnsweredRelay, RefusedRelay
    <2>2. CASE StartLoad(a)
      BY <1>0, <2>1, <2>2 DEF StartLoad
    <2>3. CASE StartOpen(a) \/ LastMessage(a) \/ Abort(a)
      BY <1>0, <2>1, <2>3 DEF StartOpen, LastMessage, Abort
    <2>4. ASSUME NEW k \in 1 .. 3, Round(a, k)
          PROVE  Answered(a, Rounds[k]) /\ Rounds[k] \in Calls
      BY <1>0, <2>4 DEF Round
    <2>5. ASSUME NEW k \in 1 .. 4, RefuseCall(a, k)
          PROVE  Refused(a, Rounds[k]) /\ Rounds[k] \in Calls
      BY <1>0, <2>5 DEF RefuseCall
    <2> QED
      BY <2>1, <2>2, <2>3, <2>4, <2>5 DEF Handler
  <1>2. /\ b \in loading' <=> b \in loading
        /\ b \in gave' <=> b \in gave
        /\ session'[b] \in {"none", session[b]}
        /\ b \in old' => b \in old /\ session'[b] # "none"
    <2>1. b \in old => session[b] # "none"
      BY DEF AttemptInv, EndsWithLast
    <2> QED
      BY <2>1, KeptSession DEF Handler, StartLoad, StartOpen, Round, LastMessage, RefuseCall, Abort, TypeOK, Kept
  <1> QED
    BY <1>1, <1>2, Untouched

\* A handler and its own attempt.
LEMMA HandlerOwn ==
  ASSUME TypeOK, NEW a \in Attempts, Handler(a), AttemptInv(a)
  PROVE  AttemptInv(a)'
  <1>0. /\ Calls = {"start", "abort", "round1", "round2", "round3", "last"}
        /\ Rounds[1] = "round1" /\ Rounds[2] = "round2" /\ Rounds[3] = "round3" /\ Rounds[4] = "last"
        /\ Steps[1] = "WAIT_MSG1B" /\ Steps[2] = "WAIT_MSG2B" /\ Steps[3] = "WAIT_MSG3B" /\ Steps[4] = "WAIT_LAST"
        /\ 1 .. 4 = {1, 2, 3, 4} /\ 1 .. 3 = {1, 2, 3}
    BY DEF Calls, Rounds, Steps
  <1>1. CASE StartLoad(a)
    <2>1. <<a, "start">> \in calls /\ session'[a] \in {"none", session[a]} /\ old' = {} /\ gave' = gave
      BY <1>1, KeptSession DEF StartLoad
    <2>2. session'[a] = "none" /\ a \notin gave /\ a \notin loading /\ relay[a].pc # "new"
      BY <1>0, <2>1 DEF AttemptInv, OpenedOnce
    <2>3. CASE UNCHANGED relay /\ calls' = calls \ {<<a, "start">>} /\ loading' = loading \cup {a}
      BY <1>0, <2>1, <2>2, <2>3 DEF AttemptInv, OpenedOnce, EndsWithLast, InStep, StartedPcs
    <2>4. CASE Refused(a, "start") /\ UNCHANGED loading
      <3>1. /\ calls' = calls \ {<<a, "start">>}
            /\ relay'[a] = relay[a] \/ relay'[a].pc = "failed"
        BY <1>0, <2>4, RefusedRelay
      <3> QED
        BY <1>0, <2>1, <2>2, <2>4, <3>1 DEF AttemptInv, OpenedOnce, EndsWithLast, InStep, StartedPcs
    <2> QED
      BY <1>1, <2>3, <2>4 DEF StartLoad
  <1>2. CASE StartOpen(a)
    <2>1. /\ a \in loading /\ a \notin loading' /\ session'[a] = "WAIT_MSG1B"
          /\ old' = old /\ gave' = gave /\ Answered(a, "start")
      BY <1>0, <1>2 DEF StartOpen, TypeOK
    <2>2. /\ session[a] = "none" /\ a \notin gave /\ a \notin old
          /\ <<a, "start">> \notin calls /\ relay[a].pc # "new"
          /\ relay[a].pc \notin StartedPcs
      BY <1>0, <2>1 DEF AttemptInv, OpenedOnce, EndsWithLast
    <2>3. \/ relay'[a] = relay[a] /\ calls' = calls \ {<<a, "start">>}
          \/ /\ relay[a].pc = "start" /\ relay'[a].pc = "round1"
             /\ calls' = (calls \ {<<a, "start">>}) \cup {<<a, "round1">>}
      BY <1>0, <2>1, AnsweredRelay DEF After
    <2> QED
      BY <1>0, <2>1, <2>2, <2>3 DEF AttemptInv, OpenedOnce, EndsWithLast, InStep, StartedPcs
  <1>3. ASSUME NEW k \in 1 .. 3, Round(a, k) PROVE AttemptInv(a)'
    <2>1. /\ <<a, Rounds[k]>> \in calls /\ session[a] = Steps[k] /\ session'[a] = Steps[k + 1]
          /\ old' = {} /\ loading' = loading /\ gave' = gave /\ Answered(a, Rounds[k])
      BY <1>3 DEF Round, StepAfter, Kept, TypeOK
    <2>2. a \notin gave /\ a \notin loading /\ <<a, "start">> \notin calls /\ relay[a].pc # "new"
          /\ relay[a].pc # "aborted"
      BY <1>0, <2>1 DEF AttemptInv, OpenedOnce, EndsWithLast
    <2>3. \/ relay'[a] = relay[a] /\ calls' = calls \ {<<a, Rounds[k]>>}
          \/ /\ relay[a].pc = Rounds[k] /\ relay'[a].pc = Rounds[k + 1]
             /\ calls' = (calls \ {<<a, Rounds[k]>>}) \cup {<<a, Rounds[k + 1]>>}
      BY <1>0, <2>1, AnsweredRelay DEF After
    <2>4. OpenedOnce(a)'
      BY <1>0, <2>1, <2>2, <2>3 DEF AttemptInv, OpenedOnce, StartedPcs
    <2>5. EndsWithLast(a)'
      BY <1>0, <2>1, <2>2, <2>3 DEF AttemptInv, EndsWithLast
    <2>6. InStep(a)'
      <3>1. CASE relay'[a] = relay[a] /\ calls' = calls \ {<<a, Rounds[k]>>}
        BY <1>0, <2>1, <2>2, <3>1 DEF AttemptInv, InStep
      <3>2. CASE /\ relay[a].pc = Rounds[k] /\ relay'[a].pc = Rounds[k + 1]
                 /\ calls' = (calls \ {<<a, Rounds[k]>>}) \cup {<<a, Rounds[k + 1]>>}
        BY <1>0, <2>1, <2>2, <3>2 DEF AttemptInv, InStep
      <3> QED
        BY <2>3, <3>1, <3>2
    <2> QED
      BY <2>4, <2>5, <2>6 DEF AttemptInv
  <1>4. CASE LastMessage(a)
    <2>1. /\ <<a, "last">> \in calls /\ session[a] = "WAIT_LAST" /\ session'[a] = "none"
          /\ old' = {} /\ loading' = loading /\ a \in gave' /\ Answered(a, "last")
      BY <1>4 DEF LastMessage, Kept, TypeOK
    <2>2. a \notin loading /\ <<a, "start">> \notin calls /\ relay[a].pc # "new"
      BY <1>0, <2>1 DEF AttemptInv, OpenedOnce
    <2>3. \/ relay'[a] = relay[a] /\ calls' = calls \ {<<a, "last">>}
          \/ /\ relay[a].pc = "last" /\ relay'[a].pc = "combine"
             /\ calls' = calls \ {<<a, "last">>}
      BY <1>0, <2>1, AnsweredRelay DEF After
    <2> QED
      BY <1>0, <2>1, <2>2, <2>3 DEF AttemptInv, OpenedOnce, EndsWithLast, InStep, StartedPcs
  <1>5. ASSUME NEW k \in 1 .. 4, RefuseCall(a, k) PROVE AttemptInv(a)'
    <2>1. /\ <<a, Rounds[k]>> \in calls /\ session'[a] \in {"none", session[a]}
          /\ old' = {} /\ loading' = loading /\ gave' = gave /\ Refused(a, Rounds[k])
      BY <1>5, KeptSession DEF RefuseCall
    <2>2. relay[a].pc # "new"
      BY <1>0, <2>1 DEF AttemptInv, OpenedOnce
    <2>3. \/ relay'[a] = relay[a] /\ calls' = calls \ {<<a, Rounds[k]>>}
          \/ /\ relay[a].pc = Rounds[k] /\ relay'[a].pc = "abort"
             /\ calls' = (calls \ {<<a, Rounds[k]>>}) \cup {<<a, "abort">>}
      BY <1>0, <2>1, RefusedRelay
    <2>4. OpenedOnce(a)'
      BY <1>0, <2>1, <2>2, <2>3 DEF AttemptInv, OpenedOnce, StartedPcs
    <2>5. EndsWithLast(a)'
      BY <1>0, <2>1, <2>2, <2>3 DEF AttemptInv, EndsWithLast
    <2>6. InStep(a)'
      BY <1>0, <2>1, <2>2, <2>3 DEF AttemptInv, InStep
    <2> QED
      BY <2>4, <2>5, <2>6 DEF AttemptInv
  <1>6. CASE Abort(a)
    <2>1. /\ <<a, "abort">> \in calls /\ session'[a] = "none" /\ a \notin old'
          /\ loading' = loading /\ gave' = gave /\ Answered(a, "abort")
      BY <1>6 DEF Abort, TypeOK
    <2>2. relay[a].pc # "new"
      BY <1>0, <2>1 DEF AttemptInv, OpenedOnce
    <2>3. \/ relay'[a] = relay[a] /\ calls' = calls \ {<<a, "abort">>}
          \/ /\ relay[a].pc = "abort" /\ relay'[a].pc = "aborted"
             /\ calls' = calls \ {<<a, "abort">>}
      BY <1>0, <2>1, AnsweredRelay DEF After
    <2> QED
      BY <1>0, <2>1, <2>2, <2>3 DEF AttemptInv, OpenedOnce, EndsWithLast, InStep, StartedPcs
  <1> QED
    BY <1>1, <1>2, <1>3, <1>4, <1>5, <1>6 DEF Handler

\* What party B does in one attempt, and the others.
LEMMA RelayOthers ==
  ASSUME TypeOK, NEW a \in Attempts, RelayStep(a), NEW b \in Attempts, b # a, AttemptInv(b)
  PROVE  AttemptInv(b)'
  <1>1. /\ relay'[b] = relay[b]
        /\ \A call \in Calls : <<b, call>> \in calls' <=> <<b, call>> \in calls
    <2>1. ASSUME NEW w \in Wallets, Begin(a, w)
          PROVE  /\ relay'[b] = relay[b]
                 /\ \A call \in Calls : <<b, call>> \in calls' <=> <<b, call>> \in calls
      BY <2>1 DEF Begin, TypeOK
    <2>2. CASE GiveUp(a)
      BY <2>2, GiveUpRelay
    <2>3. CASE Combine(a)
      BY <2>3 DEF Combine, TypeOK
    <2> QED
      BY <2>1, <2>2, <2>3 DEF RelayStep
  <1>2. UNCHANGED <<loading, session, old, gave>>
    BY DEF RelayStep, Begin, GiveUp, Combine
  <1>3. b \in old => session[b] # "none"
    BY DEF AttemptInv, EndsWithLast
  <1> QED
    BY <1>1, <1>2, <1>3, Untouched

LEMMA RelayOwn ==
  ASSUME TypeOK, NEW a \in Attempts, RelayStep(a), AttemptInv(a)
  PROVE  AttemptInv(a)'
  <1>0. /\ Calls = {"start", "abort", "round1", "round2", "round3", "last"}
        /\ Rounds[1] = "round1" /\ Rounds[2] = "round2" /\ Rounds[3] = "round3" /\ Rounds[4] = "last"
        /\ 1 .. 4 = {1, 2, 3, 4}
    BY DEF Calls, Rounds, Steps
  <1>1. UNCHANGED <<loading, session, old, gave>>
    BY DEF RelayStep, Begin, GiveUp, Combine
  <1>2. ASSUME NEW w \in Wallets, Begin(a, w) PROVE AttemptInv(a)'
    <2>1. /\ relay[a].pc = "new" /\ relay'[a].pc = "start"
          /\ calls' = calls \cup {<<a, "start">>}
      BY <1>2 DEF Begin, TypeOK
    <2> QED
      BY <1>0, <1>1, <2>1 DEF AttemptInv, OpenedOnce, EndsWithLast, InStep, StartedPcs
  <1>3. CASE GiveUp(a)
    <2>1. \/ relay[a].pc \in {"start", "abort"} /\ relay'[a].pc = "failed" /\ calls' = calls
          \/ /\ relay[a].pc \in {"round1", "round2", "round3", "last"} /\ relay'[a].pc = "abort"
             /\ calls' = calls \cup {<<a, "abort">>}
      BY <1>0, <1>3, GiveUpRelay
    <2> QED
      BY <1>0, <1>1, <2>1 DEF AttemptInv, OpenedOnce, EndsWithLast, InStep, StartedPcs
  <1>4. CASE Combine(a)
    <2>1. relay[a].pc = "combine" /\ relay'[a].pc = "signed" /\ calls' = calls
      BY <1>4 DEF Combine, TypeOK
    <2> QED
      BY <1>0, <1>1, <2>1 DEF AttemptInv, OpenedOnce, EndsWithLast, InStep, StartedPcs
  <1> QED
    BY <1>2, <1>3, <1>4 DEF RelayStep

\* An expiry, a lost call or a crash only takes from an attempt.
LEMMA RestAttempt ==
  ASSUME TypeOK, (\E a \in Attempts : TimeStep(a)) \/ CrashApi \/ CrashRecovery,
         NEW b \in Attempts, AttemptInv(b)
  PROVE  AttemptInv(b)'
  <1>0. /\ Calls = {"start", "abort", "round1", "round2", "round3", "last"}
        /\ Rounds[1] = "round1" /\ Rounds[2] = "round2" /\ Rounds[3] = "round3" /\ Rounds[4] = "last"
        /\ 1 .. 4 = {1, 2, 3, 4}
    BY DEF Calls, Rounds
  <1>1. ASSUME NEW a \in Attempts, GrowOld(a) PROVE AttemptInv(b)'
    BY <1>1 DEF GrowOld, Usable, AttemptInv, OpenedOnce, EndsWithLast, InStep
  <1>2. ASSUME NEW a \in Attempts, NEW call \in Calls, Lose(a, call) PROVE AttemptInv(b)'
    BY <1>2 DEF Lose, AttemptInv, OpenedOnce, EndsWithLast, InStep
  <1>3. CASE CrashApi
    <2>1. relay'[b] = relay[b] \/ relay'[b].pc = "failed"
      BY <1>3 DEF CrashApi, TypeOK
    <2>2. UNCHANGED <<calls, loading, session, old, gave>>
      BY <1>3 DEF CrashApi
    <2> QED
      BY <1>0, <2>1, <2>2 DEF AttemptInv, OpenedOnce, EndsWithLast, InStep, StartedPcs
  <1>4. CASE CrashRecovery
    <2>1. session'[b] = "none" /\ loading' = {} /\ old' = {} /\ UNCHANGED <<relay, calls, gave>>
      BY <1>4 DEF CrashRecovery
    <2> QED
      BY <1>0, <2>1 DEF AttemptInv, OpenedOnce, EndsWithLast, InStep, StartedPcs
  <1> QED
    BY <1>1, <1>2, <1>3, <1>4 DEF TimeStep

LEMMA RetiringStep ==
  ASSUME TypeOK, RetiringAreRetired, [Next]_vars
  PROVE  RetiringAreRetired'
  <1>1. CASE WalletStep
    BY <1>1 DEF WalletStep, FinalizeC, CreateWallet, RetireWallet, RetireC, RetiringAreRetired, TypeOK
  <1>2. CASE walletRow' = walletRow /\ retiring' \subseteq retiring
    BY <1>2 DEF RetiringAreRetired
  <1>3. ASSUME NEW a \in Attempts, RelayStep(a) \/ Handler(a) \/ TimeStep(a)
        PROVE  walletRow' = walletRow /\ retiring' = retiring
    BY <1>3 DEF RelayStep, Begin, GiveUp, Combine, TimeStep, GrowOld, Lose, Handler, StartLoad,
                StartOpen, Round, LastMessage, RefuseCall, Abort
  <1>4. CASE CrashApi \/ CrashRecovery
    BY <1>2, <1>4 DEF CrashApi, CrashRecovery
  <1>5. CASE UNCHANGED vars
    BY <1>2, <1>5 DEF vars
  <1> QED
    BY <1>1, <1>2, <1>3, <1>4, <1>5, NextSplit

LEMMA AttemptStep ==
  ASSUME SignerInv, [Next]_vars, NEW b \in Attempts
  PROVE  AttemptInv(b)'
  <1>0. TypeOK /\ AttemptInv(b)
    BY DEF SignerInv
  <1>1. CASE WalletStep \/ UNCHANGED vars
    <2>1. UNCHANGED <<relay, calls, loading, session, old, gave>>
      BY <1>1 DEF WalletStep, FinalizeC, CreateWallet, RetireWallet, RetireC, vars
    <2>2. b \in old => session[b] # "none"
      BY <1>0 DEF AttemptInv, EndsWithLast
    <2> QED
      BY <1>0, <2>1, <2>2, Untouched
  <1>2. ASSUME NEW a \in Attempts, RelayStep(a) PROVE AttemptInv(b)'
    BY <1>0, <1>2, RelayOthers, RelayOwn
  <1>3. ASSUME NEW a \in Attempts, Handler(a) PROVE AttemptInv(b)'
    BY <1>0, <1>3, HandlerOthers, HandlerOwn
  <1>4. CASE (\E a \in Attempts : TimeStep(a)) \/ CrashApi \/ CrashRecovery
    BY <1>0, <1>4, RestAttempt
  <1> QED
    BY <1>1, <1>2, <1>3, <1>4, NextSplit

LEMMA SignerInvInductive == SignerInv /\ [Next]_vars => SignerInv'
  <1> SUFFICES ASSUME SignerInv, [Next]_vars
               PROVE  SignerInv'
    OBVIOUS
  <1>1. TypeOK' /\ RetiringAreRetired'
    BY NextType, RetiringStep DEF SignerInv
  <1>2. \A b \in Attempts : AttemptInv(b)'
    BY AttemptStep
  <1> QED
    BY <1>1, <1>2 DEF SignerInv

LEMMA AlwaysSignerInv == Spec => []SignerInv
  <1>1. Init => TypeOK
    BY DEF Init, ShareInit, TypeOK, ShareTypeOK, ShareStatus, RelayPcs
  <1>2. Init => SignerInv
    <2>1. "new" \notin StartedPcs /\ \A k \in 1 .. 4 : Rounds[k] # "new"
      BY Names DEF StartedPcs
    <2> QED
      BY <1>1, <2>1 DEF Init, SignerInv, RetiringAreRetired, AttemptInv, OpenedOnce, EndsWithLast, InStep
  <1> QED
    BY <1>2, SignerInvInductive, PTL DEF Spec

---------------------------------------------------------------------------
(* The two key shares of one attempt *)

\* However calls are lost, given up and overtaken: party C is at the round
\* that party B waits for or one further, never at another.
THEOREM SharesStayInStep == Spec => []StepsMatch
  <1>1. SignerInv => StepsMatch
    <2> SUFFICES ASSUME SignerInv, NEW a \in Attempts, NEW k \in 1 .. 4, NEW m \in 1 .. 4,
                        relay[a].pc = Rounds[k], session[a] = Steps[m]
                 PROVE  m \in {k, k + 1}
      BY DEF StepsMatch
    <2>1. \/ session[a] \in {"none", Steps[k]}
          \/ k < 4 /\ session[a] = Steps[k + 1]
      BY DEF SignerInv, AttemptInv, InStep
    <2>2. CASE session[a] = Steps[k]
      BY <2>2, Names
    <2>3. CASE k < 4 /\ session[a] = Steps[k + 1]
      <3>1. k + 1 \in 1 .. 4
        BY <2>3
      <3> QED
        BY <2>3, <3>1, Names
    <2> QED
      BY <2>1, <2>2, <2>3, Names
  <1> QED
    BY <1>1, AlwaysSignerInv, PTL

\* A last message that is still on its way when an abort is answered finds no
\* session, for every order in which the calls arrive.
THEOREM AbortIsFinal == Spec => AbortedNeverGives
  <1>1. SignerInv /\ [Next]_vars =>
            \A a \in Attempts : relay[a].pc = "aborted" /\ a \in gave' => a \in gave
    <2> SUFFICES ASSUME SignerInv, [Next]_vars, NEW a \in Attempts,
                        relay[a].pc = "aborted", a \in gave', a \notin gave
                 PROVE  FALSE
      OBVIOUS
    <2>1. session[a] = "none"
      BY DEF SignerInv, AttemptInv, EndsWithLast
    <2>2. LastMessage(a)
      <3>1. gave' # gave
        OBVIOUS
      <3>2. PICK b \in Attempts : LastMessage(b)
        BY <3>1 DEF Next, FinalizeC, CreateWallet, RetireWallet, RetireC, Begin, GiveUp, Combine,
                    GrowOld, Lose, CrashApi, CrashRecovery, Handler, StartLoad, StartOpen, Round,
                    RefuseCall, Abort, vars
      <3> QED
        BY <3>2 DEF LastMessage
    <2> QED
      BY <2>1, <2>2 DEF LastMessage
  <1> QED
    BY <1>1, AlwaysSignerInv, PTL DEF Spec, AbortedNeverGives

---------------------------------------------------------------------------
(* The refinement: what a step means for the phases of Custody *)

\* What Phase looks at.
SamePhase(b) == /\ relay'[b].pc = "new" <=> relay[b].pc = "new"
                /\ relay'[b].pc = "signed" <=> relay[b].pc = "signed"
                /\ b \in gave' <=> b \in gave
                /\ (b \in loading' \/ Usable(b)') <=> (b \in loading \/ Usable(b))
                /\ <<b, "start">> \in calls' <=> <<b, "start">> \in calls

LEMMA SamePhaseSame ==
  ASSUME NEW b \in Attempts, SamePhase(b)
  PROVE  Phase(b)' = Phase(b)
  BY DEF SamePhase, Phase

LEMMA Stutter ==
  ASSUME UNCHANGED <<shareC, walletRow>>, \A b \in Attempts : SamePhase(b)
  PROVE  UNCHANGED Promise!vars
  <1>1. \A b \in Attempts : Phase(b)' = Phase(b)
    BY SamePhaseSame
  <1> QED
    BY <1>1 DEF Promise!vars

LEMMA Moves ==
  ASSUME UNCHANGED <<shareC, walletRow>>, NEW a \in Attempts, NEW from, NEW to,
         Phase(a) = from, Phase(a)' = to,
         \A b \in Attempts : b # a => SamePhase(b)
  PROVE  Promise!Move(a, from, to)
  <1>1. \A b \in Attempts : b # a => Phase(b)' = Phase(b)
    BY SamePhaseSame
  <1> QED
    BY <1>1 DEF Promise!Move

LEMMA Drops ==
  ASSUME UNCHANGED <<shareC, walletRow>>, NEW A \in SUBSET Attempts,
         \A a \in A : Phase(a) \in {"new", "admitted"} /\ Phase(a)' = "dropped",
         \A b \in Attempts \ A : SamePhase(b)
  PROVE  Promise!Next
  <1>1. \A b \in Attempts \ A : Phase(b)' = Phase(b)
    BY SamePhaseSame
  <1>2. Promise!Drop(A)
    BY <1>1 DEF Promise!Drop
  <1> QED
    BY <1>2 DEF Promise!Next

\* gc changes no phase: what it takes was not usable any more.
LEMMA GcIsSilent ==
  ASSUME TypeOK, NEW b \in Attempts, session'[b] = Kept[b], old' = {}
  PROVE  Usable(b)' <=> Usable(b)
  BY DEF Kept, Usable, TypeOK

\* A handler says nothing about the other attempts.
LEMMA HandlerSilent ==
  ASSUME TypeOK, NEW a \in Attempts, Handler(a), NEW b \in Attempts, b # a
  PROVE  SamePhase(b)
  <1>0. /\ "start" \in Calls /\ "abort" \in Calls /\ "last" \in Calls
        /\ \A k \in 1 .. 4 : Rounds[k] \in Calls
    BY Names
  <1>1. ASSUME NEW call \in Calls, Answered(a, call) \/ Refused(a, call)
        PROVE  /\ relay'[b] = relay[b]
               /\ <<b, "start">> \in calls' <=> <<b, "start">> \in calls
    BY <1>1, AnsweredRelay, RefusedRelay
  <1>2. CASE StartLoad(a)
    <2>1. /\ relay'[b] = relay[b]
          /\ <<b, "start">> \in calls' <=> <<b, "start">> \in calls
      BY <1>0, <1>1, <1>2 DEF StartLoad
    <2>2. Usable(b)' <=> Usable(b)
      BY <1>2, GcIsSilent DEF StartLoad
    <2>3. gave' = gave /\ (b \in loading' <=> b \in loading)
      BY <1>2 DEF StartLoad
    <2> QED
      BY <2>1, <2>2, <2>3 DEF SamePhase
  <1>3. CASE StartOpen(a)
    <2>1. /\ relay'[b] = relay[b]
          /\ <<b, "start">> \in calls' <=> <<b, "start">> \in calls
      BY <1>0, <1>1, <1>3 DEF StartOpen
    <2>2. /\ Usable(b)' <=> Usable(b)
          /\ gave' = gave /\ (b \in loading' <=> b \in loading)
      BY <1>3 DEF StartOpen, Usable, TypeOK
    <2> QED
      BY <2>1, <2>2 DEF SamePhase
  <1>4. ASSUME NEW k \in 1 .. 3, Round(a, k) PROVE SamePhase(b)
    <2>1. /\ relay'[b] = relay[b]
          /\ <<b, "start">> \in calls' <=> <<b, "start">> \in calls
      <3>1. Answered(a, Rounds[k]) /\ Rounds[k] \in Calls
        BY <1>0, <1>4 DEF Round
      <3> QED
        BY <1>1, <3>1
    <2>2. session'[b] = Kept[b] /\ old' = {} /\ gave' = gave /\ loading' = loading
      BY <1>4 DEF Round, Kept
    <2>3. Usable(b)' <=> Usable(b)
      BY <2>2, GcIsSilent
    <2> QED
      BY <2>1, <2>2, <2>3 DEF SamePhase
  <1>5. CASE LastMessage(a)
    <2>1. /\ relay'[b] = relay[b]
          /\ <<b, "start">> \in calls' <=> <<b, "start">> \in calls
      BY <1>0, <1>1, <1>5 DEF LastMessage
    <2>2. session'[b] = Kept[b] /\ old' = {} /\ gave' = gave \cup {a} /\ loading' = loading
      BY <1>5 DEF LastMessage, Kept
    <2>3. Usable(b)' <=> Usable(b)
      BY <2>2, GcIsSilent
    <2> QED
      BY <2>1, <2>2, <2>3 DEF SamePhase
  <1>6. ASSUME NEW k \in 1 .. 4, RefuseCall(a, k) PROVE SamePhase(b)
    <2>1. /\ relay'[b] = relay[b]
          /\ <<b, "start">> \in calls' <=> <<b, "start">> \in calls
      <3>1. Refused(a, Rounds[k]) /\ Rounds[k] \in Calls
        BY <1>0, <1>6 DEF RefuseCall
      <3> QED
        BY <1>1, <3>1
    <2>2. session'[b] = Kept[b] /\ old' = {} /\ gave' = gave /\ loading' = loading
      BY <1>6 DEF RefuseCall
    <2>3. Usable(b)' <=> Usable(b)
      BY <2>2, GcIsSilent
    <2> QED
      BY <2>1, <2>2, <2>3 DEF SamePhase
  <1>7. CASE Abort(a)
    <2>1. /\ relay'[b] = relay[b]
          /\ <<b, "start">> \in calls' <=> <<b, "start">> \in calls
      BY <1>0, <1>1, <1>7 DEF Abort
    <2>2. /\ Usable(b)' <=> Usable(b)
          /\ gave' = gave /\ (b \in loading' <=> b \in loading)
      BY <1>7 DEF Abort, Usable, TypeOK
    <2> QED
      BY <2>1, <2>2 DEF SamePhase
  <1> QED
    BY <1>2, <1>3, <1>4, <1>5, <1>6, <1>7 DEF Handler

PromiseStep == Promise!Next \/ UNCHANGED Promise!vars

\* A handler of the Recovery server as a step of Custody.
LEMMA HandlerKeepsPromise ==
  ASSUME SignerInv, NEW a \in Attempts, Handler(a)
  PROVE  PromiseStep
  <1>0. TypeOK /\ AttemptInv(a)
    BY DEF SignerInv
  <1>1. /\ \A b \in Attempts : b # a => SamePhase(b)
        /\ UNCHANGED <<shareC, walletRow>>
    BY <1>0, HandlerSilent DEF Handler, StartLoad, StartOpen, Round, LastMessage, RefuseCall, Abort
  <1>2. /\ SamePhase(a) => PromiseStep
        /\ Phase(a) \in {"new", "admitted"} /\ Phase(a)' = "dropped" => PromiseStep
    <2>1. ASSUME SamePhase(a) PROVE PromiseStep
      BY <1>1, <2>1, Stutter DEF PromiseStep
    <2>2. ASSUME Phase(a) \in {"new", "admitted"}, Phase(a)' = "dropped" PROVE PromiseStep
      <3>1. /\ {a} \in SUBSET Attempts
            /\ \A b \in Attempts \ {a} : SamePhase(b)
            /\ \A b \in {a} : Phase(b) \in {"new", "admitted"} /\ Phase(b)' = "dropped"
        BY <1>1, <2>2
      <3>2. Promise!Next
        BY <1>1, <3>1, Drops
      <3> QED
        BY <3>2 DEF PromiseStep
    <2> QED
      BY <2>1, <2>2
  <1>3. CASE StartLoad(a)
    <2>1. /\ <<a, "start">> \in calls /\ a \notin loading /\ ~Usable(a) /\ a \notin gave
          /\ relay[a].pc # "new"
      BY <1>0, <1>3, Names DEF StartLoad, AttemptInv, OpenedOnce, Usable
    <2>2. Phase(a) = "new" /\ gave' = gave /\ ~Usable(a)'
      <3>1. Usable(a)' <=> Usable(a)
        BY <1>0, <1>3, GcIsSilent DEF StartLoad
      <3> QED
        BY <1>3, <2>1, <3>1 DEF StartLoad, Phase
    <2>3. CASE Loads(relay[a].w) /\ loading' = loading \cup {a}
      <3>1. relay[a].w \in Wallets
        BY <1>0, <2>1 DEF TypeOK
      <3>2. Phase(a)' = "admitted"
        BY <2>1, <2>2, <2>3 DEF Phase
      <3>3. Promise!Move(a, "new", "admitted")
        BY <1>1, <2>2, <3>2, Moves
      <3>4. Promise!Admit(a, relay[a].w)
        BY <2>3, <3>3 DEF Promise!Admit, Loads
      <3> QED
        BY <3>1, <3>4 DEF Promise!Next, PromiseStep
    <2>4. CASE Refused(a, "start") /\ UNCHANGED loading
      <3>1. <<a, "start">> \notin calls' /\ relay'[a].pc # "new"
        BY <1>0, <2>1, <2>4, RefusedRelay, Names
      <3>2. Phase(a)' = "dropped"
        BY <2>1, <2>2, <2>4, <3>1 DEF Phase
      <3> QED
        BY <1>2, <2>2, <3>2
    <2> QED
      BY <1>3, <2>3, <2>4 DEF StartLoad
  <1>4. CASE StartOpen(a)
    <2>1. a \in loading /\ a \notin old /\ a \notin gave /\ <<a, "start">> \notin calls
          /\ relay[a].pc # "new" /\ relay[a].pc # "signed"
      BY <1>0, <1>4, Names DEF StartOpen, AttemptInv, OpenedOnce, EndsWithLast
    <2>2. gave' = gave /\ Usable(a)'
      BY <1>0, <1>4, <2>1, Names DEF StartOpen, Usable, TypeOK
    <2>3. /\ relay'[a].pc # "new" /\ relay'[a].pc # "signed" /\ <<a, "start">> \notin calls'
      BY <1>0, <1>4, <2>1, AnsweredRelay, Names DEF StartOpen, After
    <2>4. SamePhase(a)
      BY <2>1, <2>2, <2>3 DEF SamePhase
    <2> QED
      BY <1>2, <2>4
  <1>5. ASSUME NEW k \in 1 .. 3, Round(a, k) PROVE SamePhase(a)
    <2>1. /\ Usable(a) /\ gave' = gave /\ loading' = loading /\ Answered(a, Rounds[k])
      BY <1>5 DEF Round
    <2>2. Usable(a)'
      BY <1>0, <1>5, Names DEF Round, StepAfter, Kept, Usable, TypeOK
    <2>3. /\ k \in 1 .. 4 /\ Rounds[k] \in {"round1", "round2", "round3"}
          /\ After(Rounds[k]) \in {"round2", "round3", "last"}
      BY DEF Rounds, After
    <2>4. \/ relay'[a] = relay[a] /\ calls' = calls \ {<<a, Rounds[k]>>}
          \/ /\ relay[a].pc = Rounds[k] /\ relay'[a].pc = After(Rounds[k])
             /\ calls' = (calls \ {<<a, Rounds[k]>>}) \cup {<<a, After(Rounds[k])>>}
      BY <1>0, <2>1, <2>3, AnsweredRelay, Names
    <2> QED
      BY <2>1, <2>2, <2>3, <2>4 DEF SamePhase
  <1>6. CASE LastMessage(a)
    <2>1. Usable(a) /\ a \notin gave /\ a \in gave' /\ Answered(a, "last") /\ relay[a].pc # "signed"
      BY <1>0, <1>6 DEF LastMessage, Usable, AttemptInv, EndsWithLast
    <2>2. Phase(a) = "admitted"
      BY <2>1 DEF Phase
    <2>3. relay'[a].pc # "signed"
      BY <1>0, <2>1, AnsweredRelay, Names DEF After
    <2>4. Phase(a)' = "answered"
      BY <2>1, <2>3 DEF Phase
    <2>5. Promise!Answer(a)
      BY <1>1, <2>2, <2>4, Moves DEF Promise!Answer
    <2> QED
      BY <2>5 DEF Promise!Next, PromiseStep
  <1>7. ASSUME NEW k \in 1 .. 4, RefuseCall(a, k) PROVE SamePhase(a)
    <2>1. gave' = gave /\ loading' = loading /\ Refused(a, Rounds[k]) /\ session' = Kept /\ old' = {}
      BY <1>7 DEF RefuseCall
    <2>2. Usable(a)' <=> Usable(a)
      BY <1>0, <2>1, GcIsSilent
    <2>3. \/ relay'[a] = relay[a] /\ calls' = calls \ {<<a, Rounds[k]>>}
          \/ /\ relay[a].pc = Rounds[k] /\ relay'[a].pc = "abort"
             /\ calls' = (calls \ {<<a, Rounds[k]>>}) \cup {<<a, "abort">>}
      BY <1>0, <2>1, RefusedRelay, Names
    <2>4. Rounds[k] \notin {"start", "new", "signed"}
      BY Names
    <2> QED
      BY <2>1, <2>2, <2>3, <2>4 DEF SamePhase
  <1>8. CASE Abort(a)
    <2>1. /\ session'[a] = "none" /\ gave' = gave /\ loading' = loading /\ Answered(a, "abort")
          /\ <<a, "abort">> \in calls /\ ~Usable(a)'
      BY <1>0, <1>8 DEF Abort, Usable, TypeOK
    <2>2. relay[a].pc # "new"
      BY <1>0, <2>1, Names DEF AttemptInv, OpenedOnce
    <2>3. /\ relay'[a].pc = relay[a].pc \/ (relay[a].pc = "abort" /\ relay'[a].pc = "aborted")
          /\ <<a, "start">> \in calls' <=> <<a, "start">> \in calls
      BY <1>0, <2>1, AnsweredRelay, Names DEF After
    <2>4. CASE Usable(a)
      <3>1. a \notin gave /\ a \notin loading /\ <<a, "start">> \notin calls
        BY <1>0, <2>4 DEF Usable, AttemptInv, OpenedOnce, EndsWithLast
      <3>2. Phase(a) = "admitted" /\ Phase(a)' = "dropped"
        BY <2>1, <2>2, <2>3, <2>4, <3>1 DEF Phase
      <3> QED
        BY <1>2, <3>2
    <2>5. CASE ~Usable(a)
      <3>1. SamePhase(a)
        BY <2>1, <2>2, <2>3, <2>5 DEF SamePhase
      <3> QED
        BY <1>2, <3>1
    <2> QED
      BY <2>4, <2>5
  <1> QED
    BY <1>2, <1>3, <1>4, <1>5, <1>6, <1>7, <1>8 DEF Handler

\* Party B, time and the crashes as steps of Custody.
LEMMA RestKeepsPromise ==
  ASSUME SignerInv,
         (\E a \in Attempts : RelayStep(a) \/ TimeStep(a)) \/ CrashApi \/ CrashRecovery
  PROVE  PromiseStep
  <1>0. TypeOK /\ \A b \in Attempts : AttemptInv(b)
    BY DEF SignerInv
  <1>1. UNCHANGED <<shareC, walletRow>>
    BY DEF RelayStep, Begin, GiveUp, Combine, TimeStep, GrowOld, Lose, CrashApi, CrashRecovery
  <1>2. ASSUME NEW a \in Attempts, \A b \in Attempts : b # a => SamePhase(b),
               \/ SamePhase(a)
               \/ Phase(a) \in {"new", "admitted"} /\ Phase(a)' = "dropped"
        PROVE  PromiseStep
    <2>1. CASE SamePhase(a)
      BY <1>1, <1>2, <2>1, Stutter DEF PromiseStep
    <2>2. CASE Phase(a) \in {"new", "admitted"} /\ Phase(a)' = "dropped"
      <3>1. /\ {a} \in SUBSET Attempts
            /\ \A b \in Attempts \ {a} : SamePhase(b)
            /\ \A b \in {a} : Phase(b) \in {"new", "admitted"} /\ Phase(b)' = "dropped"
        BY <1>2, <2>2
      <3>2. Promise!Next
        BY <1>1, <3>1, Drops
      <3> QED
        BY <3>2 DEF PromiseStep
    <2> QED
      BY <1>2, <2>1, <2>2
  <1>3. ASSUME NEW a \in Attempts, NEW w \in Wallets, Begin(a, w) PROVE PromiseStep
    <2>1. /\ Phase(a) = "new" /\ a \notin gave /\ a \notin loading /\ ~Usable(a)
      BY <1>0, <1>3 DEF Begin, AttemptInv, OpenedOnce, Usable, Phase
    <2>2. \A b \in Attempts : b # a => SamePhase(b)
      BY <1>0, <1>3 DEF Begin, SamePhase, Usable, TypeOK
    <2>3. Phase(a)' = "new"
      <3>1. relay'[a].pc = "start" /\ <<a, "start">> \in calls' /\ ~Usable(a)'
        BY <1>0, <1>3, <2>1 DEF Begin, Usable, TypeOK
      <3> QED
        BY <1>3, <2>1, <3>1 DEF Begin, Phase
    <2>4. \A b \in Attempts : Phase(b)' = Phase(b)
      BY <2>1, <2>2, <2>3, SamePhaseSame
    <2> QED
      BY <1>1, <2>4 DEF PromiseStep, Promise!vars
  <1>4. ASSUME NEW a \in Attempts, GiveUp(a) PROVE PromiseStep
    <2>1. \A b \in Attempts : b # a => SamePhase(b)
      BY <1>0, <1>4, GiveUpRelay, Names DEF GiveUp, SamePhase, Usable, TypeOK
    <2>2. SamePhase(a)
      BY <1>0, <1>4, GiveUpRelay, Names DEF GiveUp, SamePhase, Usable, TypeOK
    <2> QED
      BY <1>2, <2>1, <2>2
  <1>5. ASSUME NEW a \in Attempts, Combine(a) PROVE PromiseStep
    <2>1. \A b \in Attempts : b # a => SamePhase(b)
      BY <1>0, <1>5 DEF Combine, SamePhase, Usable, TypeOK
    <2>2. a \in gave /\ relay[a].pc = "combine" /\ relay'[a].pc = "signed" /\ gave' = gave
      BY <1>0, <1>5 DEF Combine, AttemptInv, EndsWithLast, TypeOK
    <2>3. Phase(a) = "answered" /\ Phase(a)' = "signed"
      BY <2>2 DEF Phase
    <2>4. Promise!Sign(a)
      BY <1>1, <2>1, <2>3, Moves DEF Promise!Sign
    <2> QED
      BY <2>4 DEF Promise!Next, PromiseStep
  <1>6. ASSUME NEW a \in Attempts, GrowOld(a) PROVE PromiseStep
    <2>1. \A b \in Attempts : b # a => SamePhase(b)
      BY <1>0, <1>6 DEF GrowOld, SamePhase, Usable, TypeOK
    <2>2. /\ Usable(a) /\ ~Usable(a)' /\ a \notin gave /\ a \notin loading
          /\ <<a, "start">> \notin calls /\ relay[a].pc # "new"
      BY <1>0, <1>6 DEF GrowOld, Usable, AttemptInv, OpenedOnce, EndsWithLast
    <2>3. Phase(a) = "admitted" /\ Phase(a)' = "dropped"
      BY <1>6, <2>2 DEF GrowOld, Phase
    <2> QED
      BY <1>2, <2>1, <2>3
  <1>7. ASSUME NEW a \in Attempts, NEW call \in Calls, Lose(a, call) PROVE PromiseStep
    <2>1. \A b \in Attempts : b # a => SamePhase(b)
      BY <1>0, <1>7 DEF Lose, SamePhase, Usable, TypeOK
    <2>2. CASE call = "start"
      <3>1. /\ a \notin gave /\ a \notin loading /\ ~Usable(a) /\ relay[a].pc # "new"
            /\ <<a, "start">> \in calls /\ <<a, "start">> \notin calls'
        BY <1>0, <1>7, <2>2 DEF Lose, Usable, AttemptInv, OpenedOnce
      <3>2. Phase(a) = "new" /\ Phase(a)' = "dropped"
        BY <1>7, <3>1 DEF Lose, Phase, Usable
      <3> QED
        BY <1>2, <2>1, <3>2
    <2>3. CASE call # "start"
      <3>1. SamePhase(a)
        BY <1>7, <2>3 DEF Lose, SamePhase, Usable
      <3> QED
        BY <1>2, <2>1, <3>1
    <2> QED
      BY <2>2, <2>3
  <1>8. CASE CrashApi
    <2>1. ASSUME NEW b \in Attempts PROVE SamePhase(b)
      BY <1>0, <1>8 DEF CrashApi, Ended, SamePhase, Usable, TypeOK
    <2> QED
      BY <1>1, <2>1, Stutter DEF PromiseStep
  <1>9. CASE CrashRecovery
    <2> DEFINE A == {a \in Attempts : a \notin gave /\ (a \in loading \/ Usable(a))}
    <2>1. ASSUME NEW a \in A PROVE Phase(a) \in {"new", "admitted"} /\ Phase(a)' = "dropped"
      <3>1. relay[a].pc # "new" /\ <<a, "start">> \notin calls
        BY <1>0, <2>1 DEF AttemptInv, OpenedOnce, Usable
      <3> QED
        BY <1>9, <2>1, <3>1 DEF CrashRecovery, Usable, Phase
    <2>2. ASSUME NEW b \in Attempts \ A PROVE SamePhase(b)
      <3>1. b \in gave => b \notin loading /\ ~Usable(b)
        BY <1>0 DEF AttemptInv, OpenedOnce, EndsWithLast, Usable
      <3> QED
        BY <1>9, <3>1 DEF CrashRecovery, SamePhase, Usable
    <2>3. A \in SUBSET Attempts
      OBVIOUS
    <2>4. Promise!Next
      <3> HIDE DEF A
      <3> QED
        BY <1>1, <2>1, <2>2, <2>3, Drops
    <2> QED
      BY <2>4 DEF PromiseStep
  <1> QED
    BY <1>3, <1>4, <1>5, <1>6, <1>7, <1>8, <1>9 DEF RelayStep, TimeStep

\* The rows of the two servers, as in DkgSession.
LEMMA WalletStepKeepsPromise ==
  ASSUME SignerInv, WalletStep
  PROVE  PromiseStep
  <1>0. TypeOK /\ RetiringAreRetired
    BY DEF SignerInv
  <1>1. \A b \in Attempts : Phase(b)' = Phase(b)
    <2>1. \A b \in Attempts : SamePhase(b)
      BY DEF WalletStep, FinalizeC, CreateWallet, RetireWallet, RetireC, SamePhase, Usable
    <2> QED
      BY <2>1, SamePhaseSame
  <1>2. ASSUME NEW w \in Wallets, FinalizeC(w) PROVE PromiseStep
    BY <1>1, <1>2 DEF FinalizeC, InsertShareC, PromiseStep, Promise!Next, Promise!Store
  <1>3. ASSUME NEW w \in Wallets, CreateWallet(w) PROVE PromiseStep
    BY <1>1, <1>3 DEF CreateWallet, PromiseStep, Promise!Next, Promise!Create
  <1>4. ASSUME NEW w \in Wallets, RetireWallet(w) PROVE PromiseStep
    <2>1. CASE walletRow[w] = "ACTIVE"
      BY <1>1, <1>4, <2>1 DEF RetireWallet, PromiseStep, Promise!Next, Promise!Retire
    <2>2. CASE walletRow[w] = "RETIRED"
      <3>1. walletRow' = walletRow
        BY <1>0, <1>4, <2>2 DEF RetireWallet, TypeOK
      <3> QED
        BY <1>1, <1>4, <3>1 DEF RetireWallet, PromiseStep, Promise!vars
    <2> QED
      BY <1>0, <1>4, <2>1, <2>2 DEF RetireWallet, TypeOK
  <1>5. ASSUME NEW w \in Wallets, RetireC(w) PROVE PromiseStep
    <2>1. walletRow[w] = "RETIRED" /\ UNCHANGED walletRow
      BY <1>0, <1>5 DEF RetireC, RetiringAreRetired
    <2>2. CASE shareC' = shareC
      BY <1>1, <2>1, <2>2 DEF PromiseStep, Promise!vars
    <2>3. CASE RetireShare(w) /\ shareC[w] = "ACTIVE"
      BY <1>1, <2>1, <2>3 DEF RetireShare, PromiseStep, Promise!Next, Promise!Wipe
    <2>4. CASE RetireShare(w) /\ shareC[w] # "ACTIVE"
      <3>1. shareC' = shareC
        BY <1>0, <2>4 DEF RetireShare, TypeOK, ShareTypeOK, ShareStatus
      <3> QED
        BY <2>2, <3>1
    <2> QED
      BY <1>5, <2>2, <2>3, <2>4 DEF RetireC
  <1> QED
    BY <1>2, <1>3, <1>4, <1>5 DEF WalletStep

\* Signing keeps the promise of Custody about party C for any number of
\* overlapping signings, whatever is lost, late, expired or cut off by a crash
\* of either server: a signing is admitted only on an ACTIVE share, gets one
\* last message, and is signed only with it.
THEOREM SigningKeepsCustody == Spec => ImplementsCustody
  <1>1. Init => Promise!Init
    <2>1. Init => \A a \in Attempts : Phase(a) = "new"
      BY DEF Init, Phase, Usable
    <2> QED
      BY <2>1 DEF Init, ShareInit, Promise!Init
  <1>2. SignerInv /\ [Next]_vars => [Promise!Next]_(Promise!vars)
    <2> SUFFICES ASSUME SignerInv, [Next]_vars
                 PROVE  PromiseStep
      BY DEF PromiseStep
    <2>1. CASE UNCHANGED vars
      <3>1. \A b \in Attempts : SamePhase(b)
        BY <2>1 DEF vars, SamePhase, Usable
      <3> QED
        BY <2>1, <3>1, Stutter DEF vars, PromiseStep
    <2> QED
      BY <2>1, WalletStepKeepsPromise, HandlerKeepsPromise, RestKeepsPromise, NextSplit
  <1> QED
    BY <1>1, <1>2, AlwaysSignerInv, PTL DEF Spec, ImplementsCustody, Promise!Spec
=============================================================================
