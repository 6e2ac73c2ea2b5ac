----------------------------- MODULE MCDkgRetry -----------------------------
(* DkgSession with a bounded number of crashes, for liveness. *)
EXTENDS DkgSession

CONSTANT MaxCrashes     \* bound: restarts of either server

VARIABLE crashes        \* restarts so far

RetryInit == Init /\ crashes = 0

RetryNext == \/ Next /\ UNCHANGED crashes
             \/ /\ crashes < MaxCrashes
                /\ RestartApi \/ RestartRecovery
                /\ crashes' = crashes + 1

RetrySpec == RetryInit /\ [][RetryNext]_<<vars, crashes>> /\ Fairness
=============================================================================
