-------------------------- MODULE MCEmergencyRetry --------------------------
(* EmergencyWithdraw with a bounded number of crashes, for liveness. *)
EXTENDS EmergencyWithdraw

CONSTANT MaxCrashes     \* bound: restarts of the API process

VARIABLE crashes        \* restarts so far

RetryInit == Init /\ crashes = 0

RetryNext == \/ Next /\ UNCHANGED crashes
             \/ crashes < MaxCrashes /\ Restart /\ crashes' = crashes + 1

RetrySpec == RetryInit /\ [][RetryNext]_<<vars, crashes>> /\ Fairness
=============================================================================
