---------------------------- MODULE MCSignRetry ----------------------------
(* SignOrchestrator with a bounded number of failures, for liveness: a     *)
(* restart of the API process, or a transaction of start that rolls back.  *)
EXTENDS SignOrchestrator

CONSTANT MaxFailures    \* bound: restarts and failed transactions together

VARIABLE failures       \* restarts and failed transactions so far

RetryInit == Init /\ failures = 0

RetryNext == \/ Next /\ UNCHANGED failures
             \/ /\ failures < MaxFailures
                /\ Restart \/ \E r \in Requests : Rollback(r)
                /\ failures' = failures + 1

RetrySpec == RetryInit /\ [][RetryNext]_<<vars, failures>> /\ Fairness
=============================================================================
