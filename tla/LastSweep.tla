----------------------------- MODULE LastSweep -----------------------------
(***************************************************************************)
(* What the last withdraw promises for the assets of a wallet, without     *)
(* rows, requests, retries or failures: the transfer of an asset is stored *)
(* before it is sent, one at a time; what was stored is sent and never     *)
(* given up or signed again before the network decided; an asset that was  *)
(* swept stays swept; and only a transfer that reverted may be repeated.   *)
(***************************************************************************)
CONSTANT Assets

VARIABLE phase  \* what became of each asset

Phases == {"held", "stored", "moving", "swept"}

Init == phase = [a \in Assets |-> "held"]

InFlight(a) == phase[a] \in {"stored", "moving"}

\* Store, send, succeed and revert.
Steps == {<<"held", "stored">>, <<"stored", "moving">>, <<"moving", "swept">>, <<"moving", "held">>}

\* A transfer is stored when no other asset is on its way.
Advance(a) == /\ <<phase[a], phase'[a]>> \in Steps
              /\ phase'[a] = "stored" => \A b \in Assets : ~InFlight(b)
              /\ \A b \in Assets \ {a} : phase'[b] = phase[b]

Next == (\E a \in Assets : Advance(a)) /\ phase' \in [Assets -> Phases]

Spec == Init /\ [][Next]_phase
=============================================================================
