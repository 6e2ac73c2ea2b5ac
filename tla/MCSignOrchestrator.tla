------------------------- MODULE MCSignOrchestrator -------------------------
(* Small instances of SignOrchestrator for TLC. *)
EXTENDS SignOrchestrator, TLC

Symmetry == Permutations(Keys) \cup Permutations(Requests)

\* The session object of k can still be read: it is in the Map or a complete
\* handler holds it.
Reachable(k) == k \in live \/ \E r \in Requests :
    req[r].key = k /\ req[r].pc \in {"findTerminal", "readRow", "readWallet", "sign", "broadcast"}

\* States that differ only in what no later step reads are the same state: the
\* session object nothing refers to, its age, and the conditional updates on
\* their way to a row that has left PROCESSING (they match no row).
View ==
    <<chainVars, rowVars, live, req, auxVars,
      [k \in Keys |-> IF Reachable(k) THEN <<step[k], nonce[k]>> ELSE <<>>],
      {k \in aged : Reachable(k) \/ row[k].status = "PROCESSING"},
      {k \in expiring : row[k].status = "PROCESSING"},
      {k \in aborting : row[k].status = "PROCESSING"}>>
=============================================================================
