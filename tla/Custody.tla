------------------------------ MODULE Custody ------------------------------
(***************************************************************************)
(* What the two servers promise about Share C, without sessions, messages  *)
(* or failures: a wallet only lives on a stored share, a user has one live *)
(* wallet, the share goes after its wallet and for good, and party C signs *)
(* at most once for each signing that it admitted while the share was      *)
(* held.                                                                   *)
(*                                                                         *)
(* DkgSession implements it with its key generations and RecoverySigner    *)
(* with its signings.                                                      *)
(***************************************************************************)
EXTENDS Integers

CONSTANTS Wallets, Attempts

VARIABLES
    shareC,     \* the share of each wallet id
    wallet,     \* the wallet row of each id
    phase       \* what became of each signing

vars == <<shareC, wallet, phase>>

Status == {"NONE", "ACTIVE", "RETIRED"}
Phases == {"new", "admitted", "answered", "signed", "dropped"}

TypeOK == /\ shareC \in [Wallets -> Status]
          /\ wallet \in [Wallets -> Status]
          /\ phase \in [Attempts -> Phases]

Init == /\ shareC = [w \in Wallets |-> "NONE"]
        /\ wallet = [w \in Wallets |-> "NONE"]
        /\ phase = [a \in Attempts |-> "new"]

Store(w) == /\ shareC[w] = "NONE"
            /\ shareC' = [shareC EXCEPT ![w] = "ACTIVE"]
            /\ UNCHANGED <<wallet, phase>>

Create(w) == /\ shareC[w] = "ACTIVE" /\ wallet[w] = "NONE"
             /\ \A v \in Wallets : wallet[v] # "ACTIVE"
             /\ wallet' = [wallet EXCEPT ![w] = "ACTIVE"]
             /\ UNCHANGED <<shareC, phase>>

Retire(w) == /\ wallet[w] = "ACTIVE"
             /\ wallet' = [wallet EXCEPT ![w] = "RETIRED"]
             /\ UNCHANGED <<shareC, phase>>

Wipe(w) == /\ wallet[w] = "RETIRED" /\ shareC[w] = "ACTIVE"
           /\ shareC' = [shareC EXCEPT ![w] = "RETIRED"]
           /\ UNCHANGED <<wallet, phase>>

Move(a, from, to) == /\ phase[a] = from
                     /\ phase' = [phase EXCEPT ![a] = to]
                     /\ UNCHANGED <<shareC, wallet>>

\* Party C takes part in signing a for the wallet w.
Admit(a, w) == shareC[w] = "ACTIVE" /\ Move(a, "new", "admitted")

\* It hands out its last message, without which party B cannot sign.
Answer(a) == Move(a, "admitted", "answered")

Sign(a) == Move(a, "answered", "signed")

\* Signings that end without a signature, any number at a time.
Drop(A) == /\ \A a \in A : phase[a] \in {"new", "admitted"}
           /\ phase' = [a \in Attempts |-> IF a \in A THEN "dropped" ELSE phase[a]]
           /\ UNCHANGED <<shareC, wallet>>

Next == \/ \E w \in Wallets : Store(w) \/ Create(w) \/ Retire(w) \/ Wipe(w)
        \/ \E a \in Attempts : \/ \E w \in Wallets : Admit(a, w)
                               \/ Answer(a) \/ Sign(a)
        \/ \E A \in SUBSET Attempts : Drop(A)

Spec == Init /\ [][Next]_vars
=============================================================================
