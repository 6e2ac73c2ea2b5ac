------------------------ MODULE MCEmergencyWithdraw ------------------------
(* Small instances of EmergencyWithdraw for TLC. *)
EXTENDS EmergencyWithdraw, TLC

Symmetry == Permutations(Requests)

\* A closed row whose transaction was never sent or has its receipt: no step
\* or property reads its amount and nonce again.
Row(s) == IF Status(s) \in {"EXECUTED", "FAILED"} /\ (~sweep[s].txHash \/ HasReceipt(s))
          THEN <<sweep[s].asset, sweep[s].status, sweep[s].txHash>>
          ELSE sweep[s]

\* The age of a row is read only while it is PROCESSING, which it never is
\* again.
View == <<chainVars, rowVars, [s \in DOMAIN sweep |-> Row(s)], shareVars, balanceVars, req, auxVars,
          {s \in aged \cap DOMAIN sweep : Status(s) = "PROCESSING"}>>
=============================================================================
