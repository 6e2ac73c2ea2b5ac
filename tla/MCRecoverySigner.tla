-------------------------- MODULE MCRecoverySigner --------------------------
(***************************************************************************)
(* Instance of RecoverySigner for TLC.                                     *)
(***************************************************************************)
EXTENDS RecoverySigner, TLC
=============================================================================
