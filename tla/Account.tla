------------------------------ MODULE Account ------------------------------
(***************************************************************************)
(* The account behind one e-mail address: registration and its cleanup,    *)
(* login, the access tokens and their revocation, the TOTP secret and the  *)
(* OTP lock, the preferences row, and the sockets of the withdraw gateway. *)
(*                                                                         *)
(* The database draws a fresh id for every User row, so the rows of the    *)
(* address are told apart by id. A request slot serves one HTTP call; a    *)
(* step is the code from one await to the next. bcrypt is equality of      *)
(* passwords, and a row's hash is the password it was made from. A JWT     *)
(* cannot be forged; `knows' is what its owner proved when it was signed.  *)
(***************************************************************************)
EXTENDS Integers, FiniteSets

CONSTANTS
    Users,        \* ids the database draws for User rows of the address
    Passwords,
    Secrets,      \* TOTP secrets that can be drawn
    Choices,      \* preference records a user saves
    Requests,     \* slots for API calls being served at the same time
    None,         \* no user, no password, no secret, no lock holder
    MaxFailures,  \* OtpFailureTracker.maxFailures
    MaxVersion,   \* bound: password changes of a row
    Faults        \* which faults the environment may inject

ASSUME NoneIsNothing == None \notin Users \cup Passwords \cup Secrets \cup Requests
ASSUME RequestsFinite == IsFiniteSet(Requests)
ASSUME BoundsAreNat == MaxFailures \in Nat \ {0} /\ MaxVersion \in Nat
ASSUME FaultsKnown == Faults \subseteq {"crash", "db", "net"}
ASSUME DefaultIsNoChoice == {"none", "default"} \cap Choices = {}

VARIABLES
    user,       \* the User row of each id
    old,        \* ids whose createdAt is more than ten minutes ago
    issued,     \* the JWTs the API signed
    sockets,    \* tokens of the sockets in the room of their user
    rowLock,    \* the request whose transaction holds the row FOR UPDATE
    prefs,      \* the UserPreference row
    told,       \* TOTP secrets a browser was shown
    failures,   \* OtpFailureTracker.failures
    req         \* what each request in progress is waiting for

rowVars == <<user, old, rowLock, prefs>>
vars == <<user, old, issued, sockets, rowLock, prefs, told, failures, req>>

NoRow == [status |-> "NONE", hash |-> None, version |-> 0, secret |-> None, revealed |-> FALSE]
NoFailures == [count |-> 0, lock |-> "open"]
Idle == [pc |-> "idle", u |-> None, pw |-> None, new |-> None,
         hash |-> None, version |-> 0, secret |-> None]

Operations == {"change", "reveal", "otp", "getPrefs", "savePrefs"}
Pcs == {"create", "compare", "hashing", "update", "write", "verify", "insert"} \cup Operations

Token == [type : {"access", "verify-email"}, u : Users, version : Nat, knows : Passwords \cup {None}]

TypeOK ==
    /\ user \in [Users -> [status : {"NONE", "PENDING", "ACTIVE", "DELETED"},
                           hash : Passwords \cup {None}, version : Nat,
                           secret : Secrets \cup {None}, revealed : BOOLEAN]]
    /\ old \subseteq Users
    /\ issued \subseteq Token
    /\ sockets \subseteq issued
    /\ rowLock \in [Users -> Requests \cup {None}]
    /\ prefs \in [Users -> Choices \cup {"none", "default"}]
    /\ told \in [Users -> SUBSET Secrets]
    /\ failures \in [Users -> [count : Nat, lock : {"open", "locked", "expired"}]]
    /\ req \in [Requests -> [pc : Pcs \cup {"idle"}, u : Users \cup {None},
                             pw : Passwords \cup {None}, new : Passwords \cup {None},
                             hash : Passwords \cup {None}, version : Nat,
                             secret : Secrets \cup {None}]]
    /\ \A r \in Requests : req[r].pc \in Pcs \ {"create"} => req[r].u \in Users

Init == /\ user = [u \in Users |-> NoRow]
        /\ old = {} /\ issued = {} /\ sockets = {}
        /\ rowLock = [u \in Users |-> None]
        /\ prefs = [u \in Users |-> "none"]
        /\ told = [u \in Users |-> {}]
        /\ failures = [u \in Users |-> NoFailures]
        /\ req = [r \in Requests |-> Idle]

---------------------------------------------------------------------------
(* Helpers *)

At(r, pc) == req[r].pc = pc
Begin(r, rec) == At(r, "idle") /\ req' = [req EXCEPT ![r] = rec]
Goto(r, pc) == req' = [req EXCEPT ![r].pc = pc]

\* Mutant: a finished request is not taken off the table.
ReturnForgets(r) == req' = [req EXCEPT ![r].u = None]

Return(r) == req' = [req EXCEPT ![r] = Idle]

HasRow(u) == user[u].status \in {"PENDING", "ACTIVE"}
EmailInUse == \E u \in Users : HasRow(u)

\* An UPDATE or DELETE of a row waits for the transaction that locked it.
Writable(u) == rowLock[u] = None

\* JwtStrategy.validate and WithdrawGateway.handleConnection. A link holds no
\* tokenVersion, which both read as 0.
Accepts(t) == /\ t.type = "access"
              /\ user[t.u].status = "ACTIVE"
              /\ t.version = user[t.u].version

---------------------------------------------------------------------------
(* Registration: AuthService.register, verifyEmail, the cleanup cron *)

Register(r, p) ==
    /\ ~EmailInUse
    /\ Begin(r, [Idle EXCEPT !.pc = "create", !.new = p])
    /\ UNCHANGED <<rowVars, issued, sockets, told, failures>>

CreateUser(r, u) ==
    /\ At(r, "create") /\ ~EmailInUse /\ user[u].status = "NONE"
    /\ user' = [user EXCEPT ![u] = [NoRow EXCEPT !.status = "PENDING", !.hash = req[r].new]]
    /\ issued' = issued \cup {[type |-> "verify-email", u |-> u, version |-> 0, knows |-> None]}
    /\ Return(r)
    /\ UNCHANGED <<old, rowLock, prefs, sockets, told, failures>>

\* The unique index on the address refuses the second of two rows. (The
\* bound on ids is an end of the run, not a refusal of the database.)
CreateRefused(r) ==
    /\ At(r, "create")
    /\ EmailInUse \/ \A u \in Users : user[u].status # "NONE"
    /\ Return(r)
    /\ UNCHANGED <<rowVars, issued, sockets, told, failures>>

VerifyEmail(t) ==
    /\ t.type = "verify-email" /\ HasRow(t.u) /\ Writable(t.u)
    /\ user' = [user EXCEPT ![t.u].status = "ACTIVE"]
    /\ UNCHANGED <<old, rowLock, prefs, issued, sockets, told, failures, req>>

Age(u) ==
    /\ HasRow(u) /\ u \notin old
    /\ old' = old \cup {u}
    /\ UNCHANGED <<user, rowLock, prefs, issued, sockets, told, failures, req>>

\* Mutant: the cleanup forgets the status.
ExpiredOfAnyStatus == {u \in old : HasRow(u)}

ExpiredPending == {u \in old : user[u].status = "PENDING"}

\* deleteMany; the preferences go with their user (onDelete: Cascade).
CleanupExpiredPendingUsers ==
    /\ ExpiredPending # {} /\ \A u \in ExpiredPending : Writable(u)
    /\ user' = [u \in Users |-> IF u \in ExpiredPending
                                THEN [NoRow EXCEPT !.status = "DELETED"] ELSE user[u]]
    /\ prefs' = [u \in Users |-> IF u \in ExpiredPending THEN "none" ELSE prefs[u]]
    /\ UNCHANGED <<old, rowLock, issued, sockets, told, failures, req>>

---------------------------------------------------------------------------
(* Passwords and tokens: AuthService.login and changePassword *)

Login(r, u, p) ==
    /\ user[u].status = "ACTIVE"
    /\ Begin(r, [Idle EXCEPT !.pc = "compare", !.u = u, !.pw = p,
                             !.hash = user[u].hash, !.version = user[u].version])
    /\ UNCHANGED <<rowVars, issued, sockets, told, failures>>

Compare(r) ==
    /\ At(r, "compare")
    /\ issued' = IF req[r].pw = req[r].hash
                 THEN issued \cup {[type |-> "access", u |-> req[r].u,
                                    version |-> req[r].version, knows |-> req[r].pw]}
                 ELSE issued
    /\ Return(r)
    /\ UNCHANGED <<rowVars, sockets, told, failures>>

ChangesInFlight(u) ==
    {r \in Requests : req[r].u = u /\ req[r].pc \in {"change", "hashing", "update"}}

\* A request with a token: JwtAuthGuard, then the handler of the operation.
\* MaxVersion bounds the password changes that are begun.
Authenticate(r, t, op, p, new) ==
    /\ Accepts(t)
    /\ op = "change" =>
          user[t.u].version + Cardinality(ChangesInFlight(t.u)) < MaxVersion
    /\ Begin(r, [Idle EXCEPT !.pc = op, !.u = t.u, !.pw = p, !.new = new])
    /\ UNCHANGED <<rowVars, issued, sockets, told, failures>>

ChangeFind(r) ==
    /\ At(r, "change")
    /\ req' = [req EXCEPT ![r].pc = "hashing", ![r].hash = user[req[r].u].hash,
                          ![r].version = user[req[r].u].version]
    /\ UNCHANGED <<rowVars, issued, sockets, told, failures>>

\* Both compares and the hash of the new password.
ChangeCompare(r) ==
    /\ At(r, "hashing")
    /\ IF req[r].pw = req[r].hash /\ req[r].new # req[r].hash
       THEN Goto(r, "update") ELSE Return(r)
    /\ UNCHANGED <<rowVars, issued, sockets, told, failures>>

\* Mutant: tokenVersion is computed from the row read before the compares.
VersionFromRead(r) == req[r].version + 1

\* tokenVersion: { increment: 1 } adds to what the row holds now.
NextVersion(r) == user[req[r].u].version + 1

ChangeUpdate(r) ==
    /\ At(r, "update") /\ Writable(req[r].u)
    /\ user' = [user EXCEPT ![req[r].u].hash = req[r].new,
                            ![req[r].u].version = NextVersion(r)]
    /\ issued' = issued \cup {[type |-> "access", u |-> req[r].u,
                               version |-> NextVersion(r), knows |-> req[r].new]}
    /\ Return(r)
    /\ UNCHANGED <<old, rowLock, prefs, sockets, told, failures>>

---------------------------------------------------------------------------
(* The TOTP secret: TotpService.revealSetupOnce *)

\* Mutant: the reveal reads without FOR UPDATE.
RevealReads(r) ==
    /\ At(r, "reveal")
    /\ IF user[req[r].u].revealed THEN Return(r)
       ELSE req' = [req EXCEPT ![r].pc = "write", ![r].secret = user[req[r].u].secret]
    /\ UNCHANGED <<rowVars, issued, sockets, told, failures>>

\* SELECT ... FOR UPDATE and the read behind it; 410 when revealed.
RevealLock(r) ==
    /\ At(r, "reveal") /\ Writable(req[r].u)
    /\ IF user[req[r].u].revealed
       THEN Return(r) /\ UNCHANGED rowLock
       ELSE /\ rowLock' = [rowLock EXCEPT ![req[r].u] = r]
            /\ req' = [req EXCEPT ![r].pc = "write", ![r].secret = user[req[r].u].secret]
    /\ UNCHANGED <<user, old, prefs, issued, sockets, told, failures>>

\* A missing secret is drawn; random secrets do not repeat.
Drawn(r, s) == IF req[r].secret = None
               THEN s \notin UNION {told[u] : u \in Users} \cup {user[u].secret : u \in Users}
               ELSE s = req[r].secret

\* The update commits; the answer may be lost on its way ("net").
RevealWrite(r, s) ==
    /\ At(r, "write") /\ Drawn(r, s)
    /\ user' = [user EXCEPT ![req[r].u].secret = s, ![req[r].u].revealed = TRUE]
    /\ \/ told' = [told EXCEPT ![req[r].u] = @ \cup {s}]
       \/ "net" \in Faults /\ UNCHANGED told
    /\ rowLock' = [rowLock EXCEPT ![req[r].u] = None]
    /\ Return(r)
    /\ UNCHANGED <<old, prefs, issued, sockets, failures>>

RevealRollback(r) ==
    /\ "db" \in Faults /\ At(r, "write")
    /\ rowLock' = [rowLock EXCEPT ![req[r].u] = None]
    /\ Return(r)
    /\ UNCHANGED <<user, old, prefs, issued, sockets, told, failures>>

---------------------------------------------------------------------------
(* The emergency OTP: verifyEmergencyOtp and OtpFailureTracker *)

\* Mutant: the lock is only looked at after the answer.
StartUnchecked(r) ==
    /\ At(r, "otp")
    /\ Goto(r, "verify")
    /\ UNCHANGED <<rowVars, issued, sockets, told, failures>>

\* assertNotLocked, up to the await of the TOTP check.
OtpStart(r) ==
    /\ At(r, "otp")
    /\ LET u == req[r].u IN
       /\ IF failures[u].lock = "locked" THEN Return(r) ELSE Goto(r, "verify")
       /\ failures' = IF failures[u].lock = "expired"
                      THEN [failures EXCEPT ![u] = NoFailures] ELSE failures
    /\ UNCHANGED <<rowVars, issued, sockets, told>>

\* recordFailure
Failed(f) == IF f.count + 1 >= MaxFailures THEN [count |-> f.count + 1, lock |-> "locked"]
                                           ELSE [count |-> f.count + 1, lock |-> "open"]

\* A wrong code, or no secret to check it with.
OtpWrong(r) ==
    /\ At(r, "verify")
    /\ failures' = [failures EXCEPT ![req[r].u] = Failed(@)]
    /\ Return(r)
    /\ UNCHANGED <<rowVars, issued, sockets, told>>

\* The code of the stored secret; clear also removes a lock.
OtpRight(r) ==
    /\ At(r, "verify") /\ user[req[r].u].secret # None
    /\ failures' = [failures EXCEPT ![req[r].u] = NoFailures]
    /\ Return(r)
    /\ UNCHANGED <<rowVars, issued, sockets, told>>

LockExpires(u) ==
    /\ failures[u].lock = "locked"
    /\ failures' = [failures EXCEPT ![u].lock = "expired"]
    /\ UNCHANGED <<rowVars, issued, sockets, told, req>>

---------------------------------------------------------------------------
(* Preferences: SettingsService *)

GetPrefsFind(r) ==
    /\ At(r, "getPrefs")
    /\ IF prefs[req[r].u] = "none" THEN Goto(r, "insert") ELSE Return(r)
    /\ UNCHANGED <<rowVars, issued, sockets, told, failures>>

\* Mutant: the row of the defaults is upserted.
InsertOrReset(r) == prefs' = [prefs EXCEPT ![req[r].u] = "default"]

\* create: a row that came in the meantime makes it throw.
InsertDefaults(r) == prefs' = [prefs EXCEPT ![req[r].u] = IF @ = "none" THEN "default" ELSE @]

GetPrefsCreate(r) ==
    /\ At(r, "insert")
    /\ InsertDefaults(r)
    /\ Return(r)
    /\ UNCHANGED <<user, old, rowLock, issued, sockets, told, failures>>

UpdatePreferences(r, c) ==
    /\ At(r, "savePrefs")
    /\ prefs' = [prefs EXCEPT ![req[r].u] = c]
    /\ Return(r)
    /\ UNCHANGED <<user, old, rowLock, issued, sockets, told, failures>>

---------------------------------------------------------------------------
(* The gateway's sockets and the API process *)

HandleConnection(t) ==
    /\ Accepts(t)
    /\ sockets' = sockets \cup {t}
    /\ UNCHANGED <<rowVars, issued, told, failures, req>>

Disconnect(t) ==
    /\ sockets' = sockets \ {t}
    /\ UNCHANGED <<rowVars, issued, told, failures, req>>

Crash ==
    /\ "crash" \in Faults
    /\ req' = [r \in Requests |-> Idle]
    /\ failures' = [u \in Users |-> NoFailures]
    /\ rowLock' = [u \in Users |-> None]
    /\ sockets' = {}
    /\ UNCHANGED <<user, old, prefs, issued, told>>

Handler(r) == \/ \E u \in Users : CreateUser(r, u)
              \/ CreateRefused(r)
              \/ Compare(r)
              \/ ChangeFind(r) \/ ChangeCompare(r) \/ ChangeUpdate(r)
              \/ RevealLock(r) \/ RevealRollback(r)
              \/ \E s \in Secrets : RevealWrite(r, s)
              \/ OtpStart(r) \/ OtpWrong(r) \/ OtpRight(r)
              \/ GetPrefsFind(r) \/ GetPrefsCreate(r)
              \/ \E c \in Choices : UpdatePreferences(r, c)

Call(r) == \/ \E p \in Passwords : Register(r, p)
           \/ \E u \in Users, p \in Passwords : Login(r, u, p)
           \/ \E t \in issued :
                 \/ \E p, new \in Passwords : Authenticate(r, t, "change", p, new)
                 \/ \E op \in Operations \ {"change"} : Authenticate(r, t, op, None, None)

Next == \/ \E r \in Requests : Call(r) \/ Handler(r)
        \/ \E t \in issued : VerifyEmail(t) \/ HandleConnection(t)
        \/ \E t \in sockets : Disconnect(t)
        \/ \E u \in Users : Age(u) \/ LockExpires(u)
        \/ CleanupExpiredPendingUsers
        \/ Crash

Spec == Init /\ [][Next]_vars

---------------------------------------------------------------------------
(* Properties *)

\* Any JWT that JwtStrategy accepts was signed for someone who had given the
\* password in force now: a login or a change that overlaps a password
\* change ends with a token of an older version, and a link opens nothing
\* (schema.prisma:89: "Incremented on password change so existing access
\* JWTs fail validate()").
ValidTokensKnowThePassword == \A t \in issued : Accepts(t) => t.knows = user[t.u].hash

\* However many reveals overlap, fail or lose their answer, at most one
\* secret is ever shown, and codes are checked against that one
\* (totp.service.ts:48: "Concurrent reveals are serialized").
SecretToldOnce == \A u \in Users : \A s \in told[u] : user[u].revealed /\ user[u].secret = s

Guessing(u) == {r \in Requests : req[r].pc = "verify" /\ req[r].u = u}

\* The tracker is asked before the await and told after it, so guesses that
\* overlap all pass; but once it locks, no more than the requests already
\* past the check are counted (five failures lock for 15 minutes).
GuessesBounded ==
    \A u \in Users : failures[u].count + Cardinality(Guessing(u))
                        <= MaxFailures - 1 + Cardinality(Requests)

\* The cron deletes nobody who has verified the address, however late.
ActiveAccountsStay ==
    [][\A u \in Users : user[u].status = "ACTIVE" => user'[u].status = "ACTIVE"]_vars

\* Reading the preferences never resets a choice the user saved, although
\* getPreferences creates the row of the defaults it did not find.
SavedChoiceSurvives ==
    [][\A u \in Users : prefs[u] \in Choices => prefs'[u] \in Choices]_vars
=============================================================================
