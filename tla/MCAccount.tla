----------------------------- MODULE MCAccount -----------------------------
(***************************************************************************)
(* Instance of Account for TLC. No step but those of the sockets reads     *)
(* which sockets are open, so the view only tells whether there are any    *)
(* while the API serves no request.                                        *)
(***************************************************************************)
EXTENDS Account, TLC

Symmetry == Permutations(Requests) \cup Permutations(Passwords) \cup Permutations(Secrets)

View == <<rowVars, issued, told, failures, req,
          sockets # {} /\ \A r \in Requests : req[r].pc = "idle">>
=============================================================================
