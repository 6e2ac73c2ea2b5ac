---------------------------- MODULE MCDkgSession ----------------------------
(* Small instances of DkgSession for TLC. *)
EXTENDS DkgSession, TLC

Symmetry == Permutations(Wallets) \cup Permutations(Requests)
=============================================================================
