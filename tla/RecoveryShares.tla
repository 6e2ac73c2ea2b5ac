--------------------------- MODULE RecoveryShares ---------------------------
(***************************************************************************)
(* The SQLite of the Recovery server: one Share C row per wallet id. A row *)
(* is inserted once and retired once; retiring wipes the ciphertext.       *)
(***************************************************************************)
EXTENDS Integers, FiniteSets

CONSTANT Wallets    \* wallet ids the API may draw; each has one DKG session

VARIABLE shareC     \* MpcRecoveryShare of each wallet id

ShareStatus == {"NONE", "ACTIVE", "RETIRED"}

ShareTypeOK == shareC \in [Wallets -> ShareStatus]

ShareInit == shareC = [w \in Wallets |-> "NONE"]

\* assertShareCInsertAllowed: any existing row blocks an insert.
InsertAllowed(w) == shareC[w] = "NONE"

\* Mutant: the row is upserted, as if walletId were not unique.
UpsertShareC(w) == shareC' = [shareC EXCEPT ![w] = "ACTIVE"]

\* prisma.mpcRecoveryShare.create; it throws when the unique walletId exists.
InsertShareC(w) == shareC[w] = "NONE" /\ shareC' = [shareC EXCEPT ![w] = "ACTIVE"]

\* Mutant: the row is deleted.
DeleteShare(w) == shareC[w] # "NONE" /\ shareC' = [shareC EXCEPT ![w] = "NONE"]

\* retireShare; it throws when there is no row and is idempotent.
RetireShare(w) == shareC[w] # "NONE" /\ shareC' = [shareC EXCEPT ![w] = "RETIRED"]
=============================================================================
