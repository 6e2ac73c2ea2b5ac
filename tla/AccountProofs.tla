---------------------------- MODULE AccountProofs ----------------------------
(***************************************************************************)
(* Proofs about Account for any number of users, passwords, secrets and    *)
(* overlapping requests, and any limit of the OTP tracker.                 *)
(***************************************************************************)
EXTENDS Account, FiniteSetTheorems, TLAPS

Slot == [pc : Pcs \cup {"idle"}, u : Users \cup {None},
         pw : Passwords \cup {None}, new : Passwords \cup {None},
         hash : Passwords \cup {None}, version : Nat, secret : Secrets \cup {None}]

Row == [status : {"NONE", "PENDING", "ACTIVE", "DELETED"}, hash : Passwords \cup {None},
        version : Nat, secret : Secrets \cup {None}, revealed : BOOLEAN]

SlotOK(s) == s \in Slot /\ (s.pc \in Pcs \ {"create"} => s.u \in Users)

\* A step of request r leaves the other slots alone.
Others(r) == \A q \in Requests : q # r => req'[q] = req[q]

LEMMA SlotTypes ==
  ASSUME TypeOK, NEW r \in Requests
  PROVE  SlotOK(req[r])
  BY DEF TypeOK, SlotOK, Slot

LEMMA RowTypes ==
  ASSUME TypeOK, NEW u \in Users
  PROVE  user[u] \in Row
  BY DEF TypeOK, Row

LEMMA IdleIsSlot == SlotOK(Idle) /\ Idle.pc = "idle"
  BY DEF Idle, SlotOK, Slot, Pcs, Operations

\* A slot is written with a record: begun, moved on, or returned.
LEMMA WroteSlot ==
  ASSUME TypeOK, NEW r \in Requests, NEW rec, SlotOK(rec), req' = [req EXCEPT ![r] = rec]
  PROVE  /\ req' \in [Requests -> Slot] /\ Others(r)
         /\ req'[r] = rec /\ \A q \in Requests : SlotOK(req[q])'
  <1>1. req \in [Requests -> Slot]
    BY DEF TypeOK, Slot
  <1>2. req' \in [Requests -> Slot] /\ req'[r] = rec /\ Others(r)
    BY <1>1 DEF Others, SlotOK
  <1>3. \A q \in Requests : SlotOK(req[q])
    BY SlotTypes
  <1>4. \A q \in Requests : SlotOK(req'[q])
    BY <1>2, <1>3 DEF Others
  <1> QED
    BY <1>2, <1>4

LEMMA BeginSlot ==
  ASSUME TypeOK, NEW r \in Requests, NEW rec, SlotOK(rec), Begin(r, rec)
  PROVE  /\ req' \in [Requests -> Slot] /\ Others(r)
         /\ req[r].pc = "idle" /\ req'[r] = rec /\ \A q \in Requests : SlotOK(req[q])'
  BY WroteSlot DEF Begin, At

LEMMA GotoSlot ==
  ASSUME TypeOK, NEW r \in Requests, NEW pc \in Pcs \ {"create"}, Goto(r, pc), req[r].u \in Users
  PROVE  /\ req' \in [Requests -> Slot] /\ Others(r)
         /\ req'[r].pc = pc /\ req'[r].u = req[r].u /\ req'[r].secret = req[r].secret
         /\ \A q \in Requests : SlotOK(req[q])'
  <1> DEFINE rec == [req[r] EXCEPT !.pc = pc]
  <1>1. SlotOK(rec) /\ rec.pc = pc /\ rec.u = req[r].u /\ rec.secret = req[r].secret
    BY SlotTypes DEF SlotOK, Slot
  <1>2. req' = [req EXCEPT ![r] = rec]
    BY DEF Goto
  <1> HIDE DEF rec
  <1> QED
    BY <1>1, <1>2, WroteSlot

LEMMA ReturnSlot ==
  ASSUME TypeOK, NEW r \in Requests, Return(r)
  PROVE  /\ req' \in [Requests -> Slot] /\ Others(r)
         /\ req'[r] = Idle /\ \A q \in Requests : SlotOK(req[q])'
  BY IdleIsSlot, WroteSlot DEF Return

---------------------------------------------------------------------------
(* What each step does to the slots *)

\* A step of r that waits for the row of an account afterwards.
LEMMA CallSlot ==
  ASSUME TypeOK, NEW r \in Requests, Call(r)
  PROVE  /\ req' \in [Requests -> Slot] /\ Others(r)
         /\ req[r].pc = "idle" /\ \A q \in Requests : SlotOK(req[q])'
         /\ UNCHANGED <<user, old, rowLock, prefs, issued, sockets, told, failures>>
         /\ \/ req'[r].pc = "create"
            \/ /\ req'[r].pc = "compare" /\ user[req'[r].u].status = "ACTIVE"
               /\ req'[r].hash = user[req'[r].u].hash
               /\ req'[r].version = user[req'[r].u].version
            \/ /\ req'[r].pc \in Operations
               /\ \E t \in issued : Accepts(t) /\ req'[r].u = t.u
  <1> DEFINE Begun(rec) == /\ SlotOK(rec) /\ Begin(r, rec)
                           /\ UNCHANGED <<user, old, rowLock, prefs, issued, sockets, told, failures>>
             Fits(rec) == \/ rec.pc = "create"
                          \/ /\ rec.pc = "compare" /\ user[rec.u].status = "ACTIVE"
                             /\ rec.hash = user[rec.u].hash
                             /\ rec.version = user[rec.u].version
                          \/ /\ rec.pc \in Operations
                             /\ \E t \in issued : Accepts(t) /\ rec.u = t.u
  <1>1. ASSUME NEW p \in Passwords, Register(r, p)
        PROVE  \E rec : Begun(rec) /\ Fits(rec)
    <2> DEFINE rec == [Idle EXCEPT !.pc = "create", !.new = p]
    <2>1. SlotOK(rec) /\ rec.pc = "create"
      BY IdleIsSlot DEF SlotOK, Slot, Idle, Pcs
    <2>2. Begun(rec)
      BY <1>1, <2>1 DEF Register, rowVars
    <2> QED
      BY <2>1, <2>2
  <1>2. ASSUME NEW u \in Users, NEW p \in Passwords, Login(r, u, p)
        PROVE  \E rec : Begun(rec) /\ Fits(rec)
    <2> DEFINE rec == [Idle EXCEPT !.pc = "compare", !.u = u, !.pw = p,
                                   !.hash = user[u].hash, !.version = user[u].version]
    <2>1. SlotOK(rec)
      BY RowTypes DEF SlotOK, Slot, Idle, Pcs, Row
    <2>2. rec.pc = "compare" /\ rec.u = u /\ rec.hash = user[u].hash /\ rec.version = user[u].version
      BY DEF Idle
    <2>3. Begun(rec)
      BY <1>2, <2>1 DEF Login, rowVars
    <2>4. user[u].status = "ACTIVE"
      BY <1>2 DEF Login
    <2>5. Fits(rec)
      BY <2>2, <2>4
    <2> QED
      BY <2>3, <2>5
  <1>3. ASSUME NEW t \in issued, NEW op \in Operations, NEW p \in Passwords \cup {None},
               NEW new \in Passwords \cup {None}, Authenticate(r, t, op, p, new)
        PROVE  \E rec : Begun(rec) /\ Fits(rec)
    <2> DEFINE rec == [Idle EXCEPT !.pc = op, !.u = t.u, !.pw = p, !.new = new]
    <2>1. SlotOK(rec)
      BY DEF SlotOK, Slot, Idle, Pcs, TypeOK, Token
    <2>2. rec.pc = op /\ rec.u = t.u
      BY DEF Idle
    <2>3. Begun(rec)
      BY <1>3, <2>1 DEF Authenticate, rowVars
    <2>4. Accepts(t)
      BY <1>3 DEF Authenticate
    <2>5. Fits(rec)
      BY <2>2, <2>4
    <2> QED
      BY <2>3, <2>5
  <1>4. \E rec : Begun(rec) /\ Fits(rec)
    <2>1. "change" \in Operations
      BY DEF Operations
    <2>2. \/ \E p \in Passwords : Register(r, p)
          \/ \E u \in Users, p \in Passwords : Login(r, u, p)
          \/ \E t \in issued, op \in Operations, p, new \in Passwords \cup {None} :
                Authenticate(r, t, op, p, new)
      BY <2>1 DEF Call
    <2> HIDE DEF Begun, Fits
    <2> QED
      BY <1>1, <1>2, <1>3, <2>2
  <1>5. PICK rec : Begun(rec) /\ Fits(rec)
    BY <1>4
  <1>6. /\ req' \in [Requests -> Slot] /\ Others(r)
        /\ req[r].pc = "idle" /\ req'[r] = rec /\ \A q \in Requests : SlotOK(req[q])'
    BY <1>5, BeginSlot
  <1>7. Fits(req'[r])
    BY <1>5, <1>6
  <1> QED
    BY <1>5, <1>6, <1>7

\* The states a handler may leave its slot in.
Waits == {"hashing", "update", "write", "verify", "insert"}

LEMMA HandlerSlot ==
  ASSUME TypeOK, NEW r \in Requests, Handler(r)
  PROVE  /\ req' \in [Requests -> Slot] /\ Others(r)
         /\ req[r].pc \in Pcs /\ \A q \in Requests : SlotOK(req[q])'
         /\ \/ req'[r] = Idle
            \/ /\ req[r].pc \in Pcs \ {"create", "compare"} /\ req[r].u \in Users
               /\ req'[r].pc \in Waits /\ req'[r].u = req[r].u
  <1>0. /\ {"create", "compare"} \cap Waits = {} /\ Waits \subseteq Pcs
        /\ {"reveal", "change", "otp", "getPrefs", "savePrefs", "create", "compare"} \subseteq Pcs
    BY DEF Waits, Pcs, Operations
  <1>1. ASSUME Return(r), req[r].pc \in Pcs
        PROVE  /\ req' \in [Requests -> Slot] /\ Others(r)
               /\ \A q \in Requests : SlotOK(req[q])'
               /\ req'[r] = Idle
    BY <1>1, ReturnSlot
  <1>2. ASSUME NEW pc \in Waits, Goto(r, pc), req[r].pc \in Pcs \ {"create", "compare"}
        PROVE  /\ req' \in [Requests -> Slot] /\ Others(r)
               /\ \A q \in Requests : SlotOK(req[q])'
               /\ req[r].u \in Users /\ req'[r].pc \in Waits /\ req'[r].u = req[r].u
    <2>1. req[r].u \in Users
      BY <1>2, SlotTypes DEF SlotOK
    <2>2. pc \in Pcs \ {"create"}
      BY <1>0
    <2> QED
      BY <1>2, <2>1, <2>2, GotoSlot
  <1>3. CASE ChangeFind(r)
    <2> DEFINE rec == [req[r] EXCEPT !.pc = "hashing", !.hash = user[req[r].u].hash,
                                     !.version = user[req[r].u].version]
    <2>1. req[r].pc = "change" /\ req[r].u \in Users
      BY <1>0, <1>3, SlotTypes DEF ChangeFind, At, SlotOK
    <2>2. SlotOK(rec) /\ rec.pc = "hashing" /\ rec.u = req[r].u
      BY <1>0, <2>1, SlotTypes, RowTypes DEF SlotOK, Slot, Row, Waits
    <2>3. req' = [req EXCEPT ![r] = rec]
      BY <1>3 DEF ChangeFind
    <2> HIDE DEF rec
    <2> QED
      BY <1>0, <2>1, <2>2, <2>3, WroteSlot DEF Waits
  <1>4. CASE RevealLock(r)
    <2> DEFINE rec == [req[r] EXCEPT !.pc = "write", !.secret = user[req[r].u].secret]
    <2>1. req[r].pc = "reveal" /\ req[r].u \in Users
      BY <1>0, <1>4, SlotTypes DEF RevealLock, At, SlotOK
    <2>2. SlotOK(rec) /\ rec.pc = "write" /\ rec.u = req[r].u
      BY <1>0, <2>1, SlotTypes, RowTypes DEF SlotOK, Slot, Row, Waits
    <2>3. Return(r) \/ req' = [req EXCEPT ![r] = rec]
      BY <1>4 DEF RevealLock
    <2> HIDE DEF rec
    <2> QED
      BY <1>0, <1>1, <2>1, <2>2, <2>3, WroteSlot DEF Waits
  <1>5. CASE ChangeCompare(r)
    BY <1>0, <1>1, <1>2, <1>5 DEF ChangeCompare, At, Waits
  <1>6. CASE OtpStart(r)
    BY <1>0, <1>1, <1>2, <1>6 DEF OtpStart, At, Waits
  <1>7. CASE GetPrefsFind(r)
    BY <1>0, <1>1, <1>2, <1>7 DEF GetPrefsFind, At, Waits
  <1>8. CASE \/ \E u \in Users : CreateUser(r, u)
             \/ CreateRefused(r) \/ Compare(r) \/ ChangeUpdate(r) \/ RevealRollback(r)
             \/ \E s \in Secrets : RevealWrite(r, s)
             \/ OtpWrong(r) \/ OtpRight(r) \/ GetPrefsCreate(r)
             \/ \E c \in Choices : UpdatePreferences(r, c)
    <2>1. Return(r) /\ req[r].pc \in Pcs
      BY <1>0, <1>8 DEF CreateUser, CreateRefused, Compare, ChangeUpdate, RevealRollback,
                        RevealWrite, OtpWrong, OtpRight, GetPrefsCreate, UpdatePreferences, At, Waits
    <2> QED
      BY <1>1, <2>1
  <1> QED
    BY <1>3, <1>4, <1>5, <1>6, <1>7, <1>8 DEF Handler

---------------------------------------------------------------------------
(* Type correctness *)

\* TypeOK but for the slots.
RestTyped ==
    /\ user \in [Users -> Row]
    /\ old \subseteq Users
    /\ issued \subseteq Token
    /\ sockets \subseteq issued
    /\ rowLock \in [Users -> Requests \cup {None}]
    /\ prefs \in [Users -> Choices \cup {"none", "default"}]
    /\ told \in [Users -> SUBSET Secrets]
    /\ failures \in [Users -> [count : Nat, lock : {"open", "locked", "expired"}]]

LEMMA TypeParts ==
  TypeOK <=> RestTyped /\ req \in [Requests -> Slot] /\ \A r \in Requests : SlotOK(req[r])
  BY DEF TypeOK, RestTyped, Row, Slot, SlotOK

\* The same of the next state.
LEMMA TypePartsNext ==
  RestTyped' /\ req' \in [Requests -> Slot] /\ (\A r \in Requests : SlotOK(req[r])') => TypeOK'
  BY DEF TypeOK, RestTyped, Row, Slot, SlotOK

\* What the four writes of a User row leave there.
OtherRows(u) == \A v \in Users : v # u => user'[v] = user[v]

LEMMA WroteRow ==
  ASSUME TypeOK, NEW u \in Users, NEW rec \in Row, user' = [user EXCEPT ![u] = rec]
  PROVE  user' \in [Users -> Row] /\ user'[u] = rec /\ OtherRows(u)
  BY TypeParts DEF RestTyped, OtherRows

LEMMA CreateRow ==
  ASSUME TypeOK, NEW r \in Requests, NEW u \in Users, CreateUser(r, u)
  PROVE  /\ user' \in [Users -> Row] /\ OtherRows(u)
         /\ user[u].status = "NONE" /\ user'[u].status = "PENDING"
  <1> DEFINE rec == [NoRow EXCEPT !.status = "PENDING", !.hash = req[r].new]
  <1>1. rec \in Row /\ rec.status = "PENDING"
    BY SlotTypes DEF SlotOK, Slot, NoRow, Row
  <1>2. user' = [user EXCEPT ![u] = rec] /\ user[u].status = "NONE"
    BY DEF CreateUser
  <1> HIDE DEF rec
  <1> QED
    BY <1>1, <1>2, WroteRow

LEMMA ChangeRow ==
  ASSUME TypeOK, NEW r \in Requests, ChangeUpdate(r)
  PROVE  LET u == req[r].u IN
         /\ u \in Users /\ user' \in [Users -> Row] /\ OtherRows(u)
         /\ user'[u].hash = req[r].new /\ user'[u].version = user[u].version + 1
         /\ user'[u].status = user[u].status
         /\ user'[u].secret = user[u].secret /\ user'[u].revealed = user[u].revealed
  <1> DEFINE u == req[r].u
             rec == [user[u] EXCEPT !.hash = req[r].new, !.version = user[u].version + 1]
  <1>1. u \in Users /\ req[r].new \in Passwords \cup {None}
    BY SlotTypes DEF ChangeUpdate, At, SlotOK, Slot, Pcs
  <1>2. /\ rec \in Row /\ rec.hash = req[r].new /\ rec.version = user[u].version + 1
        /\ rec.status = user[u].status /\ rec.secret = user[u].secret
        /\ rec.revealed = user[u].revealed
    <2>1. user[u] \in Row /\ user[u].version + 1 \in Nat
      BY <1>1, RowTypes DEF Row
    <2> HIDE DEF u
    <2> QED
      BY <1>1, <2>1 DEF Row
  <1>3. user' = [user EXCEPT ![u] = rec]
    BY <1>1, RowTypes DEF ChangeUpdate, NextVersion, TypeOK, Row
  <1> HIDE DEF rec
  <1> QED
    BY <1>1, <1>2, <1>3, WroteRow

LEMMA RevealRow ==
  ASSUME TypeOK, NEW r \in Requests, NEW s \in Secrets, RevealWrite(r, s)
  PROVE  LET u == req[r].u IN
         /\ u \in Users /\ user' \in [Users -> Row] /\ OtherRows(u)
         /\ user'[u].secret = s /\ user'[u].revealed = TRUE
         /\ user'[u].status = user[u].status
         /\ user'[u].hash = user[u].hash /\ user'[u].version = user[u].version
  <1> DEFINE u == req[r].u
             rec == [user[u] EXCEPT !.secret = s, !.revealed = TRUE]
  <1>1. u \in Users
    BY SlotTypes DEF RevealWrite, At, SlotOK, Pcs
  <1>2. /\ rec \in Row /\ rec.secret = s /\ rec.revealed = TRUE
        /\ rec.status = user[u].status /\ rec.hash = user[u].hash
        /\ rec.version = user[u].version
    BY <1>1, RowTypes DEF Row
  <1>3. user' = [user EXCEPT ![u] = rec]
    BY <1>1, RowTypes DEF RevealWrite, TypeOK, Row
  <1> HIDE DEF rec
  <1> QED
    BY <1>1, <1>2, <1>3, WroteRow

LEMMA VerifyRow ==
  ASSUME TypeOK, NEW t \in issued, VerifyEmail(t)
  PROVE  /\ t.u \in Users /\ user' \in [Users -> Row] /\ OtherRows(t.u)
         /\ user[t.u].status \in {"PENDING", "ACTIVE"} /\ user'[t.u].status = "ACTIVE"
         /\ user'[t.u].hash = user[t.u].hash /\ user'[t.u].version = user[t.u].version
         /\ user'[t.u].secret = user[t.u].secret /\ user'[t.u].revealed = user[t.u].revealed
  <1> DEFINE rec == [user[t.u] EXCEPT !.status = "ACTIVE"]
  <1>1. t.u \in Users
    BY DEF TypeOK, Token
  <1>2. /\ rec \in Row /\ rec.status = "ACTIVE" /\ rec.hash = user[t.u].hash
        /\ rec.version = user[t.u].version /\ rec.secret = user[t.u].secret
        /\ rec.revealed = user[t.u].revealed
    BY <1>1, RowTypes DEF Row
  <1>3. user' = [user EXCEPT ![t.u] = rec] /\ user[t.u].status \in {"PENDING", "ACTIVE"}
    BY DEF VerifyEmail, HasRow
  <1> HIDE DEF rec
  <1> QED
    BY <1>1, <1>2, <1>3, WroteRow

LEMMA HandlerRest ==
  ASSUME TypeOK, NEW r \in Requests, Handler(r)
  PROVE  RestTyped'
  <1>0. RestTyped /\ SlotOK(req[r])
    BY TypeParts
  <1>1. ASSUME NEW u \in Users, CreateUser(r, u) PROVE RestTyped'
    <2>1. issued' \subseteq Token /\ issued \subseteq issued'
      BY <1>0, <1>1 DEF CreateUser, RestTyped, Token
    <2> QED
      BY <1>0, <1>1, <2>1, CreateRow DEF CreateUser, RestTyped
  <1>2. CASE CreateRefused(r) \/ ChangeFind(r) \/ ChangeCompare(r)
    BY <1>0, <1>2 DEF CreateRefused, ChangeFind, ChangeCompare, RestTyped, rowVars
  <1>3. CASE Compare(r)
    <2>1. /\ req[r].u \in Users /\ req[r].version \in Nat /\ req[r].pw \in Passwords \cup {None}
      BY <1>0, <1>3 DEF Compare, At, SlotOK, Slot, Pcs
    <2> QED
      BY <1>0, <1>3, <2>1 DEF Compare, RestTyped, rowVars, Token
  <1>4. CASE ChangeUpdate(r)
    <2>1. /\ req[r].u \in Users /\ req[r].new \in Passwords \cup {None}
      BY <1>0, <1>4 DEF ChangeUpdate, At, SlotOK, Slot, Pcs
    <2>2. NextVersion(r) \in Nat
      BY <1>0, <2>1 DEF NextVersion, RestTyped, Row
    <2>3. issued' \subseteq Token /\ issued \subseteq issued'
      BY <1>0, <1>4, <2>1, <2>2 DEF ChangeUpdate, RestTyped, Token
    <2> QED
      BY <1>0, <1>4, <2>1, <2>3, ChangeRow DEF ChangeUpdate, RestTyped
  <1>5. CASE RevealLock(r) \/ RevealRollback(r)
    BY <1>0, <1>5 DEF RevealLock, RevealRollback, RestTyped
  <1>6. ASSUME NEW s \in Secrets, RevealWrite(r, s) PROVE RestTyped'
    <2>1. req[r].u \in Users
      BY <1>0, <1>6 DEF RevealWrite, At, SlotOK, Pcs
    <2> QED
      <3>1. user' \in [Users -> Row]
        BY <1>6, RevealRow
      <3>2. told' \in [Users -> SUBSET Secrets]
        BY <1>0, <1>6, <2>1 DEF RevealWrite, RestTyped
      <3>3. /\ rowLock' \in [Users -> Requests \cup {None}]
            /\ UNCHANGED <<old, prefs, issued, sockets, failures>>
        BY <1>0, <1>6, <2>1 DEF RevealWrite, RestTyped
      <3> QED
        BY <1>0, <3>1, <3>2, <3>3 DEF RestTyped
  <1>7. CASE OtpStart(r) \/ OtpWrong(r) \/ OtpRight(r)
    <2>1. req[r].u \in Users
      BY <1>0, <1>7 DEF OtpStart, OtpWrong, OtpRight, At, SlotOK, Pcs, Operations
    <2>2. failures' \in [Users -> [count : Nat, lock : {"open", "locked", "expired"}]]
      BY <1>0, <1>7, <2>1 DEF OtpStart, OtpWrong, OtpRight, Failed, NoFailures, RestTyped
    <2> QED
      BY <1>0, <1>7, <2>2 DEF OtpStart, OtpWrong, OtpRight, RestTyped, rowVars
  <1>8. CASE GetPrefsFind(r) \/ GetPrefsCreate(r)
    BY <1>0, <1>8 DEF GetPrefsFind, GetPrefsCreate, InsertDefaults, RestTyped, rowVars
  <1>9. ASSUME NEW c \in Choices, UpdatePreferences(r, c) PROVE RestTyped'
    BY <1>0, <1>9 DEF UpdatePreferences, RestTyped
  <1> QED
    BY <1>1, <1>2, <1>3, <1>4, <1>5, <1>6, <1>7, <1>8, <1>9 DEF Handler

\* The steps that no request takes.
Ambient == \/ \E t \in issued : VerifyEmail(t) \/ HandleConnection(t)
           \/ \E t \in sockets : Disconnect(t)
           \/ \E u \in Users : Age(u) \/ LockExpires(u)
           \/ CleanupExpiredPendingUsers

LEMMA NextSplit ==
  Next <=> (\E r \in Requests : Call(r) \/ Handler(r)) \/ Ambient \/ Crash
  BY DEF Next, Ambient

LEMMA AmbientType ==
  ASSUME TypeOK, Ambient
  PROVE  RestTyped' /\ req' = req
  <1>0. RestTyped
    BY TypeParts
  <1>1. ASSUME NEW t \in issued, VerifyEmail(t) PROVE RestTyped' /\ req' = req
    BY <1>0, <1>1, VerifyRow DEF VerifyEmail, RestTyped
  <1>5. ASSUME NEW t \in issued, HandleConnection(t) PROVE RestTyped' /\ req' = req
    BY <1>0, <1>5 DEF HandleConnection, RestTyped, rowVars
  <1>2. ASSUME NEW t \in sockets, Disconnect(t) PROVE RestTyped' /\ req' = req
    BY <1>0, <1>2 DEF Disconnect, RestTyped, rowVars
  <1>3. ASSUME NEW u \in Users, Age(u) \/ LockExpires(u) PROVE RestTyped' /\ req' = req
    BY <1>0, <1>3 DEF Age, LockExpires, RestTyped, rowVars
  <1>4. CASE CleanupExpiredPendingUsers
    BY <1>0, <1>4 DEF CleanupExpiredPendingUsers, RestTyped, Row, NoRow
  <1> QED
    BY <1>1, <1>2, <1>3, <1>4, <1>5 DEF Ambient

LEMMA CrashType ==
  ASSUME TypeOK, Crash
  PROVE  TypeOK'
  <1>1. RestTyped'
    BY TypeParts DEF Crash, RestTyped, NoFailures
  <1>2. req' \in [Requests -> Slot] /\ \A r \in Requests : SlotOK(req[r])'
    BY IdleIsSlot DEF Crash, SlotOK
  <1> QED
    BY <1>1, <1>2, TypePartsNext

LEMMA NextType == TypeOK /\ [Next]_vars => TypeOK'
  <1> SUFFICES ASSUME TypeOK, [Next]_vars
               PROVE  TypeOK'
    OBVIOUS
  <1>0. RestTyped /\ req \in [Requests -> Slot] /\ \A r \in Requests : SlotOK(req[r])
    BY TypeParts
  <1>1. ASSUME NEW r \in Requests, Call(r) PROVE TypeOK'
    <2>1. RestTyped'
      BY <1>0, <1>1, CallSlot DEF RestTyped
    <2> QED
      BY <1>1, <2>1, CallSlot, TypePartsNext
  <1>2. ASSUME NEW r \in Requests, Handler(r) PROVE TypeOK'
    BY <1>2, HandlerSlot, HandlerRest, TypePartsNext
  <1>3. CASE Ambient
    <2>1. RestTyped' /\ req' = req
      BY <1>3, AmbientType
    <2>2. \A r \in Requests : SlotOK(req[r])'
      BY <1>0, <2>1 DEF SlotOK
    <2> QED
      BY <1>0, <2>1, <2>2, TypePartsNext
  <1>4. CASE UNCHANGED vars
    BY <1>4 DEF vars, TypeOK
  <1> QED
    BY <1>1, <1>2, <1>3, <1>4, CrashType, NextSplit

LEMMA InitType == Init => TypeOK
  <1> SUFFICES ASSUME Init
               PROVE  TypeOK
    OBVIOUS
  <1>1. RestTyped
    BY DEF Init, RestTyped, Row, NoRow, NoFailures
  <1>2. req \in [Requests -> Slot] /\ \A r \in Requests : SlotOK(req[r])
    BY IdleIsSlot DEF Init, SlotOK
  <1> QED
    BY <1>1, <1>2, TypeParts

\* Types hold for any number of users, requests and faults.
THEOREM TypeCorrect == Spec => []TypeOK
  BY InitType, NextType, PTL DEF Spec

---------------------------------------------------------------------------
(* Rows: what a step can do to an account in use *)

LEMMA RowEffect ==
  ASSUME TypeOK, [Next]_vars, NEW u \in Users, user[u].status = "ACTIVE"
  PROVE  /\ user'[u].status = "ACTIVE"
         /\ \/ user'[u].version = user[u].version /\ user'[u].hash = user[u].hash
            \/ user'[u].version = user[u].version + 1
  <1>1. CASE user' = user
    BY <1>1
  <1>2. ASSUME NEW r \in Requests, NEW v \in Users, CreateUser(r, v)
        PROVE  user'[u] = user[u]
    <2>1. user[v].status = "NONE" /\ OtherRows(v)
      BY <1>2, CreateRow
    <2> QED
      BY <2>1 DEF OtherRows
  <1>3. ASSUME NEW r \in Requests, ChangeUpdate(r)
        PROVE  \/ user'[u] = user[u]
               \/ user'[u].status = user[u].status /\ user'[u].version = user[u].version + 1
    BY <1>3, ChangeRow DEF OtherRows
  <1>4. ASSUME NEW r \in Requests, NEW s \in Secrets, RevealWrite(r, s)
        PROVE  \/ user'[u] = user[u]
               \/ /\ user'[u].status = user[u].status /\ user'[u].version = user[u].version
                  /\ user'[u].hash = user[u].hash
    BY <1>4, RevealRow DEF OtherRows
  <1>5. ASSUME NEW t \in issued, VerifyEmail(t)
        PROVE  \/ user'[u] = user[u]
               \/ /\ user'[u].status = "ACTIVE" /\ user'[u].version = user[u].version
                  /\ user'[u].hash = user[u].hash
    BY <1>5, VerifyRow DEF OtherRows
  <1>6. CASE CleanupExpiredPendingUsers
    <2>1. u \notin ExpiredPending
      BY DEF ExpiredPending
    <2> QED
      BY <1>6, <2>1 DEF CleanupExpiredPendingUsers
  <1>7. ASSUME NEW r \in Requests, Handler(r)
        PROVE  \/ user' = user
               \/ \E v \in Users : CreateUser(r, v)
               \/ ChangeUpdate(r)
               \/ \E s \in Secrets : RevealWrite(r, s)
    BY <1>7 DEF Handler, CreateRefused, Compare, ChangeFind, ChangeCompare, RevealLock,
                RevealRollback, OtpStart, OtpWrong, OtpRight, GetPrefsFind, GetPrefsCreate,
                UpdatePreferences, rowVars
  <1>8. Ambient => \/ user' = user
                   \/ \E t \in issued : VerifyEmail(t)
                   \/ CleanupExpiredPendingUsers
    BY DEF Ambient, HandleConnection, Disconnect, Age, LockExpires, rowVars
  <1>9. Crash \/ UNCHANGED vars => user' = user
    BY DEF Crash, vars
  <1>10. ASSUME NEW r \in Requests, Call(r) PROVE user' = user
    BY <1>10, CallSlot
  <1> QED
    BY <1>1, <1>2, <1>3, <1>4, <1>5, <1>6, <1>7, <1>8, <1>9, <1>10, NextSplit

\* Who has verified the address stays, however long ago the account was made
\* and whatever overlaps the cleanup.
THEOREM VerifiedAccountsStay == Spec => ActiveAccountsStay
  <1>1. TypeOK /\ [Next]_vars =>
            \A u \in Users : user[u].status = "ACTIVE" => user'[u].status = "ACTIVE"
    BY RowEffect
  <1> QED
    BY <1>1, TypeCorrect, PTL DEF Spec, ActiveAccountsStay

---------------------------------------------------------------------------
(* Tokens: what their owner knew *)

\* A password k that was the one of version v.
Sound(u, v, k) == /\ v <= user[u].version
                  /\ v = user[u].version => k = user[u].hash

LiveSlots == \A r \in Requests : req[r].pc \in Pcs \ {"create"} => user[req[r].u].status = "ACTIVE"

ComparesSound ==
    \A r \in Requests : req[r].pc = "compare" => Sound(req[r].u, req[r].version, req[r].hash)

TokensSound ==
    \A t \in issued : t.type = "access" => /\ user[t.u].status = "ACTIVE"
                                           /\ Sound(t.u, t.version, t.knows)

TokenInv == TypeOK /\ LiveSlots /\ ComparesSound /\ TokensSound

LEMMA SoundStays ==
  ASSUME TypeOK, [Next]_vars, NEW u \in Users, user[u].status = "ACTIVE", NEW v \in Nat, NEW k,
         Sound(u, v, k)
  PROVE  Sound(u, v, k)'
  <1>1. user[u].version \in Nat
    BY RowTypes DEF Row
  <1>2. \/ user'[u].version = user[u].version /\ user'[u].hash = user[u].hash
        \/ user'[u].version = user[u].version + 1
    BY RowEffect
  <1> QED
    BY <1>1, <1>2 DEF Sound

\* A slot after a step: as it was, free, a later state of the same call, or
\* the first state of a new one.
LEMMA SlotStep ==
  ASSUME TypeOK, [Next]_vars, NEW q \in Requests
  PROVE  \/ req'[q] = req[q]
         \/ req'[q] = Idle
         \/ req'[q].pc = "create"
         \/ /\ req[q].pc \in Pcs \ {"create"} /\ req[q].u \in Users
            /\ req'[q].pc \in Waits /\ req'[q].u = req[q].u
         \/ /\ user' = user /\ req'[q].pc = "compare" /\ user[req'[q].u].status = "ACTIVE"
            /\ req'[q].hash = user[req'[q].u].hash
            /\ req'[q].version = user[req'[q].u].version
         \/ /\ user' = user /\ req'[q].pc \in Operations
            /\ \E t \in issued : Accepts(t) /\ req'[q].u = t.u
  <1>1. ASSUME NEW r \in Requests, Call(r), q # r PROVE req'[q] = req[q]
    BY <1>1, CallSlot DEF Others
  <1>2. ASSUME NEW r \in Requests, Handler(r), q # r PROVE req'[q] = req[q]
    BY <1>2, HandlerSlot DEF Others
  <1>3. CASE Call(q)
    BY <1>3, CallSlot
  <1>4. CASE Handler(q)
    BY <1>4, HandlerSlot
  <1>5. CASE Ambient
    BY <1>5, AmbientType
  <1>6. CASE Crash \/ UNCHANGED vars
    BY <1>6 DEF Crash, vars
  <1> QED
    BY <1>1, <1>2, <1>3, <1>4, <1>5, <1>6, NextSplit

LEMMA SlotNames ==
  /\ "create" \notin Waits /\ "create" \notin Operations /\ "compare" \notin Waits
  /\ "compare" \notin Operations /\ "idle" \notin Pcs /\ "compare" \in Pcs
  /\ Operations \subseteq Pcs /\ Waits \subseteq Pcs
  BY DEF Waits, Operations, Pcs

LEMMA LiveStep ==
  ASSUME TypeOK, LiveSlots, [Next]_vars
  PROVE  LiveSlots'
  <1> SUFFICES ASSUME NEW q \in Requests, req'[q].pc \in Pcs \ {"create"}
               PROVE  user'[req'[q].u].status = "ACTIVE"
    BY DEF LiveSlots
  <1>1. req'[q] # Idle
    BY IdleIsSlot, SlotNames
  <1>2. CASE req'[q] = req[q]
    <2>1. user[req[q].u].status = "ACTIVE" /\ req[q].u \in Users
      BY <1>2, SlotTypes DEF LiveSlots, SlotOK
    <2> QED
      BY <1>2, <2>1, RowEffect
  <1>3. CASE /\ req[q].pc \in Pcs \ {"create"} /\ req[q].u \in Users
             /\ req'[q].pc \in Waits /\ req'[q].u = req[q].u
    <2>1. user[req[q].u].status = "ACTIVE"
      BY <1>3 DEF LiveSlots
    <2> QED
      BY <1>3, <2>1, RowEffect
  <1>4. CASE /\ user' = user
             /\ \/ user[req'[q].u].status = "ACTIVE"
                \/ \E t \in issued : Accepts(t) /\ req'[q].u = t.u
    BY <1>4 DEF Accepts
  <1> QED
    BY <1>1, <1>2, <1>3, <1>4, SlotStep

LEMMA ComparesStep ==
  ASSUME TypeOK, LiveSlots, ComparesSound, [Next]_vars
  PROVE  ComparesSound'
  <1> SUFFICES ASSUME NEW q \in Requests, req'[q].pc = "compare"
               PROVE  Sound(req[q].u, req[q].version, req[q].hash)'
    BY DEF ComparesSound
  <1>1. req'[q] # Idle
    BY IdleIsSlot
  <1>2. CASE req'[q] = req[q]
    <2>1. /\ Sound(req[q].u, req[q].version, req[q].hash)
          /\ user[req[q].u].status = "ACTIVE" /\ req[q].u \in Users /\ req[q].version \in Nat
      BY <1>2, SlotTypes, SlotNames DEF ComparesSound, LiveSlots, SlotOK, Slot
    <2> DEFINE u == req[q].u  v == req[q].version  k == req[q].hash
    <2>2. v <= user'[u].version /\ (v = user'[u].version => k = user'[u].hash)
      <3> HIDE DEF u, v, k
      <3>1. \A x \in Users, y \in Nat : \A z : user[x].status = "ACTIVE" /\ Sound(x, y, z) =>
                y <= user'[x].version /\ (y = user'[x].version => z = user'[x].hash)
        BY SoundStays DEF Sound
      <3> QED
        BY <2>1, <3>1 DEF u, v, k
    <2> QED
      BY <1>2, <2>2 DEF Sound
  <1>3. CASE /\ user' = user /\ user[req'[q].u].status = "ACTIVE"
             /\ req'[q].hash = user[req'[q].u].hash
             /\ req'[q].version = user[req'[q].u].version
    <2>1. req'[q].u \in Users
      BY NextType, SlotNames DEF TypeOK
    <2>2. user[req'[q].u].version \in Nat
      BY <2>1, RowTypes DEF Row
    <2> QED
      BY <1>3, <2>2 DEF Sound
  <1> QED
    BY <1>1, <1>2, <1>3, SlotStep, SlotNames

\* The three steps that sign a token.
LEMMA IssuedStep ==
  ASSUME TypeOK, [Next]_vars, issued' # issued
  PROVE  \E r \in Requests : Compare(r) \/ ChangeUpdate(r) \/ \E u \in Users : CreateUser(r, u)
  <1>1. ASSUME NEW r \in Requests, Handler(r)
        PROVE  Compare(r) \/ ChangeUpdate(r) \/ \E u \in Users : CreateUser(r, u)
    BY <1>1 DEF Handler, CreateRefused, ChangeFind, ChangeCompare, RevealLock, RevealWrite,
                RevealRollback, OtpStart, OtpWrong, OtpRight, GetPrefsFind, GetPrefsCreate,
                UpdatePreferences
  <1>2. ASSUME NEW r \in Requests, Call(r) PROVE FALSE
    BY <1>2, CallSlot
  <1>3. ~Ambient /\ ~Crash /\ vars' # vars
    BY DEF Ambient, VerifyEmail, HandleConnection, Disconnect, Age, LockExpires,
           CleanupExpiredPendingUsers, Crash, vars
  <1> QED
    BY <1>1, <1>2, <1>3, NextSplit

LEMMA TokensStep ==
  ASSUME TokenInv, [Next]_vars
  PROVE  TokensSound'
  <1>0. TypeOK /\ LiveSlots /\ ComparesSound /\ TokensSound
    BY DEF TokenInv
  <1> SUFFICES ASSUME NEW t \in issued', t.type = "access"
               PROVE  /\ user'[t.u].status = "ACTIVE"
                      /\ t.version <= user'[t.u].version
                      /\ t.version = user'[t.u].version => t.knows = user'[t.u].hash
    BY DEF TokensSound, Sound
  <1>1. \A x \in Users, y \in Nat : \A z : user[x].status = "ACTIVE" /\ Sound(x, y, z) =>
            /\ user'[x].status = "ACTIVE"
            /\ y <= user'[x].version /\ (y = user'[x].version => z = user'[x].hash)
    BY <1>0, SoundStays, RowEffect DEF Sound
  <1>2. CASE t \in issued
    <2>1. /\ t.u \in Users /\ t.version \in Nat
          /\ user[t.u].status = "ACTIVE" /\ Sound(t.u, t.version, t.knows)
      BY <1>0, <1>2 DEF TypeOK, Token, TokensSound
    <2> QED
      BY <1>1, <2>1
  <1>3. ASSUME NEW r \in Requests, Compare(r), t \notin issued
        PROVE  /\ user[t.u].status = "ACTIVE" /\ Sound(t.u, t.version, t.knows)
               /\ t.u \in Users /\ t.version \in Nat
    <2>1. /\ req[r].pc = "compare" /\ req[r].pw = req[r].hash
          /\ t = [type |-> "access", u |-> req[r].u, version |-> req[r].version, knows |-> req[r].pw]
      BY <1>3 DEF Compare, At
    <2>2. t.u = req[r].u /\ t.version = req[r].version /\ t.knows = req[r].hash
      BY <2>1
    <2>3. req[r].u \in Users /\ req[r].version \in Nat /\ user[req[r].u].status = "ACTIVE"
      BY <1>0, <2>1, SlotTypes, SlotNames DEF SlotOK, Slot, LiveSlots
    <2> QED
      BY <1>0, <2>1, <2>2, <2>3 DEF ComparesSound
  <1>4. ASSUME NEW r \in Requests, ChangeUpdate(r), t \notin issued
        PROVE  /\ user'[t.u].status = "ACTIVE" /\ t.version = user'[t.u].version
               /\ t.knows = user'[t.u].hash /\ user'[t.u].version \in Nat
    <2>1. /\ t = [type |-> "access", u |-> req[r].u, version |-> NextVersion(r), knows |-> req[r].new]
          /\ req[r].pc = "update"
      BY <1>4 DEF ChangeUpdate, At
    <2>2. t.u = req[r].u /\ t.version = user[req[r].u].version + 1 /\ t.knows = req[r].new
      BY <2>1 DEF NextVersion
    <2>3. user[req[r].u].status = "ACTIVE" /\ req[r].u \in Users
      BY <1>0, <2>1, SlotTypes DEF SlotOK, LiveSlots, Pcs
    <2> QED
      BY <1>0, <1>4, <2>2, <2>3, ChangeRow, RowTypes DEF Row
  <1>5. ASSUME NEW r \in Requests, NEW u \in Users, CreateUser(r, u) PROVE t \in issued
    BY <1>5 DEF CreateUser
  <1> QED
    BY <1>0, <1>1, <1>2, <1>3, <1>4, <1>5, IssuedStep

LEMMA AlwaysTokenInv == Spec => []TokenInv
  <1>1. Init => TokenInv
    <2>1. Init => TypeOK
      BY InitType
    <2>2. Init => LiveSlots /\ ComparesSound /\ TokensSound
      BY SlotNames, IdleIsSlot DEF Init, LiveSlots, ComparesSound, TokensSound
    <2> QED
      BY <2>1, <2>2 DEF TokenInv
  <1>2. TokenInv /\ [Next]_vars => TokenInv'
    <2>1. ASSUME TokenInv, [Next]_vars
          PROVE  TypeOK' /\ LiveSlots' /\ ComparesSound' /\ TokensSound'
      BY <2>1, NextType, LiveStep, ComparesStep, TokensStep DEF TokenInv
    <2> QED
      BY <2>1 DEF TokenInv
  <1> QED
    BY <1>1, <1>2, PTL DEF Spec

\* A stale access token is dead: whatever login or change overlaps a password
\* change, a token that the API accepts proves the password in force.
THEOREM AcceptedTokensAreSound == Spec => []ValidTokensKnowThePassword
  <1>1. TokenInv => ValidTokensKnowThePassword
    BY DEF TokenInv, TokensSound, Sound, ValidTokensKnowThePassword, Accepts
  <1> QED
    BY <1>1, AlwaysTokenInv, PTL

---------------------------------------------------------------------------
(* Preferences *)

\* Only an account in use has a row of preferences.
PrefsOfActive == \A u \in Users : prefs[u] # "none" => user[u].status = "ACTIVE"

\* What a step can do to a row of preferences.
LEMMA PrefsEffect ==
  ASSUME TypeOK, LiveSlots, [Next]_vars, NEW u \in Users
  PROVE  \/ prefs'[u] = prefs[u]
         \/ prefs'[u] = "none" /\ user[u].status = "PENDING"
         \/ user[u].status = "ACTIVE" /\ (prefs'[u] \in Choices \/ prefs[u] = "none")
  <1>1. CASE prefs' = prefs
    BY <1>1
  <1>2. CASE CleanupExpiredPendingUsers
    BY <1>2 DEF CleanupExpiredPendingUsers, ExpiredPending
  <1>3. ASSUME NEW r \in Requests, GetPrefsCreate(r)
        PROVE  prefs'[u] = prefs[u] \/ (user[u].status = "ACTIVE" /\ prefs[u] = "none")
    <2>1. req[r].u \in Users /\ user[req[r].u].status = "ACTIVE"
      BY <1>3, SlotTypes DEF GetPrefsCreate, At, SlotOK, LiveSlots, Pcs
    <2> QED
      BY <1>3, <2>1 DEF GetPrefsCreate, InsertDefaults, TypeOK
  <1>4. ASSUME NEW r \in Requests, NEW c \in Choices, UpdatePreferences(r, c)
        PROVE  prefs'[u] = prefs[u] \/ (user[u].status = "ACTIVE" /\ prefs'[u] \in Choices)
    <2>1. req[r].u \in Users /\ user[req[r].u].status = "ACTIVE"
      BY <1>4, SlotTypes DEF UpdatePreferences, At, SlotOK, LiveSlots, Pcs, Operations
    <2> QED
      BY <1>4, <2>1 DEF UpdatePreferences, TypeOK
  <1>5. ASSUME NEW r \in Requests, Handler(r)
        PROVE  \/ prefs' = prefs \/ GetPrefsCreate(r)
               \/ \E c \in Choices : UpdatePreferences(r, c)
    BY <1>5 DEF Handler, CreateUser, CreateRefused, Compare, ChangeFind, ChangeCompare,
                ChangeUpdate, RevealLock, RevealWrite, RevealRollback, OtpStart, OtpWrong,
                OtpRight, GetPrefsFind, rowVars
  <1>6. Ambient => prefs' = prefs \/ CleanupExpiredPendingUsers
    BY DEF Ambient, VerifyEmail, HandleConnection, Disconnect, Age, LockExpires, rowVars
  <1>7. Crash \/ UNCHANGED vars => prefs' = prefs
    BY DEF Crash, vars
  <1>8. ASSUME NEW r \in Requests, Call(r) PROVE prefs' = prefs
    BY <1>8, CallSlot
  <1> QED
    BY <1>1, <1>2, <1>3, <1>4, <1>5, <1>6, <1>7, <1>8, NextSplit

\* Reading the preferences while they are saved loses no choice.
THEOREM ChoicesStay == Spec => SavedChoiceSurvives
  <1>1. Init => PrefsOfActive
    BY DEF Init, PrefsOfActive
  <1>2. TokenInv /\ PrefsOfActive /\ [Next]_vars => PrefsOfActive'
    <2>1. ASSUME TokenInv, PrefsOfActive, [Next]_vars, NEW u \in Users, prefs'[u] # "none"
          PROVE  user'[u].status = "ACTIVE"
      <3>1. user[u].status = "ACTIVE"
        BY <2>1, PrefsEffect DEF TokenInv, PrefsOfActive
      <3> QED
        BY <2>1, <3>1, RowEffect DEF TokenInv
    <2> QED
      BY <2>1 DEF PrefsOfActive
  <1>3. TokenInv /\ PrefsOfActive /\ [Next]_vars =>
            \A u \in Users : prefs[u] \in Choices => prefs'[u] \in Choices
    BY PrefsEffect, DefaultIsNoChoice DEF TokenInv, PrefsOfActive
  <1> QED
    BY <1>1, <1>2, <1>3, AlwaysTokenInv, PTL DEF Spec, SavedChoiceSurvives

---------------------------------------------------------------------------
(* The TOTP secret *)

\* A transaction past its FOR UPDATE holds the row, and read it unrevealed.
WritersHold ==
    \A r \in Requests : req[r].pc = "write" =>
        /\ rowLock[req[r].u] = r
        /\ ~user[req[r].u].revealed /\ user[req[r].u].secret = req[r].secret

ToldToActive == \A u \in Users : told[u] # {} => user[u].status = "ACTIVE"

SecretInv == TokenInv /\ WritersHold /\ ToldToActive /\ SecretToldOnce

\* Steps that change neither the lock nor the secret of a row in use.
LEMMA QuietStep ==
  ASSUME SecretInv, [Next]_vars,
         ~ \E r \in Requests : \/ RevealLock(r) \/ RevealRollback(r)
                               \/ \E s \in Secrets : RevealWrite(r, s),
         ~ Crash
  PROVE  /\ rowLock' = rowLock /\ told' = told
         /\ \A u \in Users : user[u].status = "ACTIVE" =>
               user'[u].secret = user[u].secret /\ user'[u].revealed = user[u].revealed
         /\ \A q \in Requests : req'[q].pc = "write" => req'[q] = req[q]
  <1>0. TypeOK /\ LiveSlots
    BY DEF SecretInv, TokenInv
  <1>1. rowLock' = rowLock /\ told' = told
    <2>1. ASSUME NEW r \in Requests, Call(r) PROVE rowLock' = rowLock /\ told' = told
      BY <1>0, <2>1, CallSlot
    <2>2. ASSUME NEW r \in Requests, Handler(r) PROVE rowLock' = rowLock /\ told' = told
      BY <2>2 DEF Handler, CreateUser, CreateRefused, Compare, ChangeFind, ChangeCompare,
                  ChangeUpdate, OtpStart, OtpWrong, OtpRight, GetPrefsFind, GetPrefsCreate,
                  UpdatePreferences, rowVars
    <2>3. Ambient \/ UNCHANGED vars => rowLock' = rowLock /\ told' = told
      BY DEF Ambient, VerifyEmail, HandleConnection, Disconnect, Age, LockExpires,
             CleanupExpiredPendingUsers, rowVars, vars
    <2> QED
      BY <2>1, <2>2, <2>3, NextSplit
  <1>2. ASSUME NEW u \in Users, user[u].status = "ACTIVE"
        PROVE  user'[u].secret = user[u].secret /\ user'[u].revealed = user[u].revealed
    <2>1. ASSUME NEW r \in Requests, NEW v \in Users, CreateUser(r, v) PROVE user'[u] = user[u]
      BY <1>0, <1>2, <2>1, CreateRow DEF OtherRows
    <2>2. ASSUME NEW r \in Requests, ChangeUpdate(r)
          PROVE  user'[u].secret = user[u].secret /\ user'[u].revealed = user[u].revealed
      BY <1>0, <2>2, ChangeRow DEF OtherRows
    <2>3. ASSUME NEW t \in issued, VerifyEmail(t)
          PROVE  user'[u].secret = user[u].secret /\ user'[u].revealed = user[u].revealed
      BY <1>0, <2>3, VerifyRow DEF OtherRows
    <2>4. CASE CleanupExpiredPendingUsers
      <3>1. u \notin ExpiredPending
        BY <1>2 DEF ExpiredPending
      <3> QED
        BY <2>4, <3>1 DEF CleanupExpiredPendingUsers
    <2>5. ASSUME NEW r \in Requests, Handler(r)
          PROVE  user' = user \/ (\E v \in Users : CreateUser(r, v)) \/ ChangeUpdate(r)
      BY <2>5 DEF Handler, CreateRefused, Compare, ChangeFind, ChangeCompare, OtpStart, OtpWrong,
                  OtpRight, GetPrefsFind, GetPrefsCreate, UpdatePreferences, rowVars
    <2>6. Ambient => \/ user' = user \/ (\E t \in issued : VerifyEmail(t))
                     \/ CleanupExpiredPendingUsers
      BY DEF Ambient, HandleConnection, Disconnect, Age, LockExpires, rowVars
    <2>7. ASSUME NEW r \in Requests, Call(r) PROVE user' = user
      BY <1>0, <2>7, CallSlot
    <2>8. UNCHANGED vars => user' = user
      BY DEF vars
    <2> QED
      BY <2>1, <2>2, <2>3, <2>4, <2>5, <2>6, <2>7, <2>8, NextSplit
  <1>3. ASSUME NEW q \in Requests, req'[q].pc = "write" PROVE req'[q] = req[q]
    <2>0. "write" \notin Operations \cup {"create", "compare", "idle"}
      BY DEF Operations
    <2>1. ASSUME NEW r \in Requests, Call(r) PROVE req'[q] = req[q]
      BY <1>0, <1>3, <2>0, <2>1, CallSlot DEF Others
    <2>2. ASSUME NEW r \in Requests, Handler(r), r # q PROVE req'[q] = req[q]
      BY <1>0, <2>2, HandlerSlot DEF Others
    <2>3. ASSUME Handler(q) PROVE FALSE
      <3>1. CASE Return(q)
        BY <1>0, <1>3, <3>1, IdleIsSlot, ReturnSlot
      <3>2. ASSUME NEW pc \in {"update", "verify", "insert", "hashing"}, req'[q].pc = pc
            PROVE  FALSE
        BY <1>3, <3>2
      <3>3. req \in [Requests -> Slot]
        BY <1>0, TypeParts
      <3>4. ChangeFind(q) => req'[q].pc = "hashing"
        BY <3>3 DEF ChangeFind, Slot
      <3>5. ASSUME NEW pc \in {"update", "verify", "insert"}, Goto(q, pc) PROVE req'[q].pc = pc
        BY <3>3, <3>5 DEF Goto, Slot
      <3> QED
        BY <2>3, <3>1, <3>2, <3>4, <3>5
           DEF Handler, CreateUser, CreateRefused, Compare, ChangeCompare, ChangeUpdate, OtpStart,
               OtpWrong, OtpRight, GetPrefsFind, GetPrefsCreate, UpdatePreferences
    <2>4. CASE Ambient \/ UNCHANGED vars
      BY <1>0, <2>4, AmbientType DEF vars
    <2> QED
      BY <2>1, <2>2, <2>3, <2>4, NextSplit
  <1> QED
    BY <1>1, <1>2, <1>3

\* A transaction that ends leaves the lock to nobody else.
LEMMA WritersAlone ==
  ASSUME SecretInv, NEW r \in Requests, NEW q \in Requests, q # r,
         req[r].pc = "write", req[q].pc = "write"
  PROVE  req[q].u # req[r].u
  BY DEF SecretInv, WritersHold

LEMMA SecretStep ==
  ASSUME SecretInv, [Next]_vars
  PROVE  WritersHold' /\ ToldToActive' /\ SecretToldOnce'
  <1>0. /\ TypeOK /\ LiveSlots /\ WritersHold /\ ToldToActive /\ SecretToldOnce
        /\ RestTyped /\ req \in [Requests -> Slot]
    BY TypeParts DEF SecretInv, TokenInv
  <1>1. CASE Crash
    <2>1. \A q \in Requests : req'[q] = Idle
      BY <1>1 DEF Crash
    <2>2. user' = user /\ told' = told
      BY <1>1 DEF Crash
    <2> QED
      BY <1>0, <2>1, <2>2, IdleIsSlot DEF WritersHold, ToldToActive, SecretToldOnce
  <1>2. ASSUME NEW r \in Requests, RevealLock(r)
        PROVE  WritersHold' /\ ToldToActive' /\ SecretToldOnce'
    <2>1. user' = user /\ told' = told
      BY <1>2 DEF RevealLock
    <2>2. req[r].u \in Users /\ rowLock[req[r].u] = None
      BY <1>0, <1>2, SlotTypes DEF RevealLock, At, Writable, SlotOK, Pcs, Operations
    <2>3. \A q \in Requests : req[q].pc = "write" => req[q].u # req[r].u
      BY <1>0, <2>2, NoneIsNothing DEF WritersHold
    <2>4. CASE Return(r) /\ UNCHANGED rowLock
      <3>1. Others(r) /\ req'[r].pc # "write"
        BY <1>0, <2>4, ReturnSlot, IdleIsSlot
      <3>2. WritersHold'
        BY <1>0, <2>1, <2>4, <3>1 DEF WritersHold, Others
      <3> QED
        BY <1>0, <2>1, <3>2 DEF ToldToActive, SecretToldOnce
    <2>5. CASE /\ ~user[req[r].u].revealed
               /\ rowLock' = [rowLock EXCEPT ![req[r].u] = r]
               /\ req' = [req EXCEPT ![r].pc = "write", ![r].secret = user[req[r].u].secret]
      <3>1. /\ Others(r) /\ req'[r].u = req[r].u /\ req'[r].secret = user[req[r].u].secret
        BY <1>0, <2>5 DEF Others, Slot
      <3>2. rowLock'[req[r].u] = r /\ \A u \in Users : u # req[r].u => rowLock'[u] = rowLock[u]
        BY <1>0, <2>2, <2>5 DEF RestTyped
      <3>3. ASSUME NEW q \in Requests, req'[q].pc = "write"
            PROVE  /\ rowLock'[req'[q].u] = q
                   /\ ~user[req'[q].u].revealed /\ user[req'[q].u].secret = req'[q].secret
        <4>1. CASE q = r
          BY <2>5, <3>1, <3>2, <4>1
        <4>2. CASE q # r
          <5>1. req'[q] = req[q] /\ req[q].u \in Users /\ req[q].u # req[r].u
            BY <1>0, <2>3, <3>1, <3>3, <4>2, SlotTypes DEF Others, SlotOK, Pcs
          <5> QED
            BY <1>0, <3>2, <3>3, <5>1 DEF WritersHold
        <4> QED
          BY <4>1, <4>2
      <3>4. WritersHold'
        BY <2>1, <3>3 DEF WritersHold
      <3> QED
        BY <1>0, <2>1, <3>4 DEF ToldToActive, SecretToldOnce
    <2> QED
      BY <1>2, <2>4, <2>5 DEF RevealLock
  <1>3. ASSUME NEW r \in Requests, req[r].pc = "write", Return(r),
               rowLock' = [rowLock EXCEPT ![req[r].u] = None], OtherRows(req[r].u)
        PROVE  WritersHold'
    <2>1. Others(r) /\ req'[r].pc # "write"
      BY <1>0, <1>3, ReturnSlot, IdleIsSlot
    <2>2. req[r].u \in Users
      BY <1>0, <1>3, SlotTypes DEF SlotOK, Pcs
    <2>3. ASSUME NEW q \in Requests, req'[q].pc = "write"
          PROVE  /\ rowLock'[req'[q].u] = q
                 /\ ~user'[req'[q].u].revealed /\ user'[req'[q].u].secret = req'[q].secret
      <3>1. q # r /\ req'[q] = req[q]
        BY <2>1, <2>3 DEF Others
      <3>2. req[q].u \in Users /\ req[q].u # req[r].u
        BY <1>0, <1>3, <2>3, <3>1, SlotTypes, WritersAlone DEF SlotOK, Pcs
      <3>3. rowLock'[req[q].u] = rowLock[req[q].u] /\ user'[req[q].u] = user[req[q].u]
        BY <1>0, <1>3, <2>2, <3>2 DEF RestTyped, OtherRows
      <3> QED
        BY <1>0, <2>3, <3>1, <3>3 DEF WritersHold
    <2> QED
      BY <2>3 DEF WritersHold
  <1>4. ASSUME NEW r \in Requests, RevealRollback(r)
        PROVE  WritersHold' /\ ToldToActive' /\ SecretToldOnce'
    <2>1. user' = user /\ told' = told /\ OtherRows(req[r].u)
      BY <1>4 DEF RevealRollback, OtherRows
    <2>2. WritersHold'
      BY <1>3, <1>4, <2>1 DEF RevealRollback, At
    <2> QED
      BY <1>0, <2>1, <2>2 DEF ToldToActive, SecretToldOnce
  <1>5. ASSUME NEW r \in Requests, NEW s \in Secrets, RevealWrite(r, s)
        PROVE  WritersHold' /\ ToldToActive' /\ SecretToldOnce'
    <2> DEFINE u == req[r].u
    <2>1. /\ u \in Users /\ OtherRows(u) /\ user'[u].secret = s /\ user'[u].revealed = TRUE
          /\ user'[u].status = user[u].status
      BY <1>0, <1>5, RevealRow
    <2>2. WritersHold'
      BY <1>3, <1>5, <2>1 DEF RevealWrite, At
    <2>3. user[u].status = "ACTIVE" /\ told[u] = {}
      BY <1>0, <1>5, <2>1 DEF RevealWrite, At, LiveSlots, Pcs, WritersHold, SecretToldOnce
    <2>4. told'[u] \subseteq {s} /\ \A v \in Users : v # u => told'[v] = told[v]
      BY <1>0, <1>5, <2>1, <2>3 DEF RevealWrite, RestTyped
    <2>5. ToldToActive'
      BY <1>0, <2>1, <2>3, <2>4 DEF ToldToActive, OtherRows
    <2>6. SecretToldOnce'
      BY <1>0, <2>1, <2>4 DEF SecretToldOnce, OtherRows
    <2> QED
      BY <2>2, <2>5, <2>6
  <1>6. CASE ~Crash /\ ~ \E r \in Requests : \/ RevealLock(r) \/ RevealRollback(r)
                                             \/ \E s \in Secrets : RevealWrite(r, s)
    <2>1. /\ rowLock' = rowLock /\ told' = told
          /\ \A u \in Users : user[u].status = "ACTIVE" =>
                user'[u].secret = user[u].secret /\ user'[u].revealed = user[u].revealed
          /\ \A q \in Requests : req'[q].pc = "write" => req'[q] = req[q]
      BY <1>6, QuietStep
    <2>2. WritersHold'
      <3>1. ASSUME NEW q \in Requests, req'[q].pc = "write"
            PROVE  /\ req'[q] = req[q] /\ req[q].u \in Users /\ user[req[q].u].status = "ACTIVE"
        BY <1>0, <2>1, <3>1, SlotTypes DEF SlotOK, LiveSlots, Pcs
      <3> QED
        BY <1>0, <2>1, <3>1 DEF WritersHold
    <2>3. ToldToActive'
      BY <1>0, <2>1, RowEffect DEF ToldToActive
    <2>4. SecretToldOnce'
      <3>1. ASSUME NEW u \in Users, NEW s \in told'[u] PROVE user'[u].revealed /\ user'[u].secret = s
        <4>1. told[u] # {} /\ s \in told[u]
          BY <2>1, <3>1
        <4>2. user[u].status = "ACTIVE" /\ user[u].revealed /\ user[u].secret = s
          BY <1>0, <4>1 DEF ToldToActive, SecretToldOnce
        <4> QED
          BY <2>1, <4>2
      <3> QED
        BY <3>1 DEF SecretToldOnce
    <2> QED
      BY <2>2, <2>3, <2>4
  <1> QED
    BY <1>1, <1>2, <1>4, <1>5, <1>6

LEMMA AlwaysSecretInv == Spec => []SecretInv
  <1>1. Init => WritersHold /\ ToldToActive /\ SecretToldOnce
    BY IdleIsSlot DEF Init, WritersHold, ToldToActive, SecretToldOnce
  <1>2. TokenInv /\ WritersHold /\ ToldToActive /\ SecretToldOnce /\ [Next]_vars =>
            WritersHold' /\ ToldToActive' /\ SecretToldOnce'
    BY SecretStep DEF SecretInv
  <1> QED
    BY <1>1, <1>2, AlwaysTokenInv, PTL DEF Spec, SecretInv

\* The row lock makes the one reveal one reveal: a second secret is never
\* shown, and a shown one is never replaced.
THEOREM OneSecretIsTold == Spec => []SecretToldOnce
  BY AlwaysSecretInv, PTL DEF SecretInv

---------------------------------------------------------------------------
(* The OTP lock *)

\* An open tracker has counted less than the limit.
OpenIsBelow == \A u \in Users : failures[u].lock = "open" => failures[u].count <= MaxFailures - 1

GuessInv == OpenIsBelow /\ GuessesBounded

LEMMA GuessingFinite ==
  ASSUME NEW u
  PROVE  /\ IsFiniteSet(Guessing(u)) /\ Cardinality(Guessing(u)) \in Nat
         /\ Cardinality(Guessing(u)) <= Cardinality(Requests) /\ Cardinality(Requests) \in Nat
  <1>1. Guessing(u) \subseteq Requests
    BY DEF Guessing
  <1> QED
    BY <1>1, RequestsFinite, FS_Subset, FS_CardinalityType

\* Fewer guesses and the same tracker.
LEMMA FewerGuesses ==
  ASSUME TypeOK, GuessInv, failures' = failures,
         \A u \in Users : Guessing(u)' \subseteq Guessing(u)
  PROVE  GuessInv'
  <1>1. OpenIsBelow'
    BY DEF GuessInv, OpenIsBelow
  <1>2. ASSUME NEW u \in Users
        PROVE  failures'[u].count + Cardinality(Guessing(u)') <= MaxFailures - 1 + Cardinality(Requests)
    <2>1. Cardinality(Guessing(u)') \in Nat /\ Cardinality(Guessing(u)') <= Cardinality(Guessing(u))
      BY <1>2, GuessingFinite, FS_Subset, FS_CardinalityType
    <2>2. failures[u].count \in Nat
      BY DEF TypeOK
    <2>3. failures[u].count + Cardinality(Guessing(u)) <= MaxFailures - 1 + Cardinality(Requests)
      BY DEF GuessInv, GuessesBounded
    <2> QED
      BY <2>1, <2>2, <2>3, GuessingFinite, BoundsAreNat
  <1> QED
    BY <1>1, <1>2 DEF GuessInv, GuessesBounded

\* Steps of the other operations.
LEMMA NoGuess ==
  ASSUME TypeOK, [Next]_vars, ~Crash,
         ~ \E r \in Requests : OtpStart(r) \/ OtpWrong(r) \/ OtpRight(r),
         ~ \E u \in Users : LockExpires(u)
  PROVE  /\ failures' = failures
         /\ \A q \in Requests : req'[q].pc = "verify" => req'[q] = req[q]
  <1>1. failures' = failures
    <2>1. ASSUME NEW r \in Requests, Call(r) PROVE failures' = failures
      BY <2>1, CallSlot
    <2>2. ASSUME NEW r \in Requests, Handler(r) PROVE failures' = failures
      BY <2>2 DEF Handler, CreateUser, CreateRefused, Compare, ChangeFind, ChangeCompare,
                  ChangeUpdate, RevealLock, RevealWrite, RevealRollback, GetPrefsFind,
                  GetPrefsCreate, UpdatePreferences
    <2>3. Ambient \/ UNCHANGED vars => failures' = failures
      BY DEF Ambient, VerifyEmail, HandleConnection, Disconnect, Age, CleanupExpiredPendingUsers, vars
    <2> QED
      BY <2>1, <2>2, <2>3, NextSplit
  <1>2. ASSUME NEW q \in Requests, req'[q].pc = "verify" PROVE req'[q] = req[q]
    <2>0. "verify" \notin Operations \cup {"create", "compare", "idle"}
      BY DEF Operations
    <2>1. ASSUME NEW r \in Requests, Call(r) PROVE req'[q] = req[q]
      BY <1>2, <2>0, <2>1, CallSlot DEF Others
    <2>2. ASSUME NEW r \in Requests, Handler(r), r # q PROVE req'[q] = req[q]
      BY <2>2, HandlerSlot DEF Others
    <2>3. ASSUME Handler(q) PROVE FALSE
      <3>1. CASE Return(q)
        BY <1>2, <3>1, IdleIsSlot, ReturnSlot
      <3>2. req \in [Requests -> Slot]
        BY TypeParts
      <3>3. ASSUME NEW pc \in {"update", "insert"}, Goto(q, pc) PROVE FALSE
        BY <1>2, <3>2, <3>3 DEF Goto, Slot
      <3>4. CASE ChangeFind(q)
        BY <1>2, <3>2, <3>4 DEF ChangeFind, Slot
      <3>5. CASE RevealLock(q)
        <4>1. req' = [req EXCEPT ![q].pc = "write", ![q].secret = user[req[q].u].secret] => FALSE
          BY <1>2, <3>2 DEF Slot
        <4> QED
          BY <3>1, <3>5, <4>1 DEF RevealLock
      <3> QED
        BY <2>3, <3>1, <3>3, <3>4, <3>5
           DEF Handler, CreateUser, CreateRefused, Compare, ChangeCompare, ChangeUpdate,
               RevealWrite, RevealRollback, GetPrefsFind, GetPrefsCreate, UpdatePreferences
    <2>4. CASE Ambient \/ UNCHANGED vars
      BY <2>4, AmbientType DEF vars
    <2> QED
      BY <2>1, <2>2, <2>3, <2>4, NextSplit
  <1> QED
    BY <1>1, <1>2

\* A step of one guess, from what it does to the tracker of its user.
LEMMA OneGuess ==
  ASSUME TypeOK, GuessInv, NEW r \in Requests, NEW u \in Users, req[r].u = u, Others(r),
         req'[r].pc = "verify" => req'[r].u = u,
         \A v \in Users : v # u => failures'[v] = failures[v],
         failures'[u].lock = "open" => failures'[u].count <= MaxFailures - 1,
         failures'[u].count + Cardinality(Guessing(u)') <= MaxFailures - 1 + Cardinality(Requests)
  PROVE  GuessInv'
  <1>1. OpenIsBelow'
    BY DEF GuessInv, OpenIsBelow
  <1>2. ASSUME NEW v \in Users, v # u
        PROVE  failures'[v].count + Cardinality(Guessing(v)') <= MaxFailures - 1 + Cardinality(Requests)
    <2>1. Guessing(v)' \subseteq Guessing(v)
      BY <1>2 DEF Guessing, Others
    <2>2. Cardinality(Guessing(v)') \in Nat /\ Cardinality(Guessing(v)') <= Cardinality(Guessing(v))
      BY <2>1, GuessingFinite, FS_Subset, FS_CardinalityType
    <2>3. failures[v].count \in Nat /\ failures'[v] = failures[v]
      BY <1>2 DEF TypeOK
    <2>4. failures[v].count + Cardinality(Guessing(v)) <= MaxFailures - 1 + Cardinality(Requests)
      BY DEF GuessInv, GuessesBounded
    <2> QED
      BY <2>2, <2>3, <2>4, GuessingFinite, BoundsAreNat
  <1> QED
    BY <1>1, <1>2 DEF GuessInv, GuessesBounded

LEMMA GuessCount ==
  ASSUME NEW u
  PROVE  /\ Cardinality(Guessing(u)') \in Nat
         /\ Cardinality(Guessing(u)') <= Cardinality(Requests) /\ Cardinality(Requests) \in Nat
  <1>1. Guessing(u)' \subseteq Requests
    BY DEF Guessing
  <1> QED
    BY <1>1, RequestsFinite, FS_Subset, FS_CardinalityType

LEMMA GuessStep ==
  ASSUME TypeOK, GuessInv, [Next]_vars
  PROVE  GuessInv'
  <1>0. /\ failures \in [Users -> [count : Nat, lock : {"open", "locked", "expired"}]]
        /\ MaxFailures \in Nat /\ MaxFailures >= 1
    BY BoundsAreNat DEF TypeOK
  <1>1. ASSUME NEW r \in Requests, OtpStart(r) PROVE GuessInv'
    <2>0. req[r].u \in Users
      BY <1>1, SlotTypes DEF OtpStart, At, SlotOK, Pcs, Operations
    <2>1. PICK u \in Users : u = req[r].u
      BY <2>0
    <2>2. CASE failures[u].lock = "locked"
      <3>1. Return(r) /\ failures' = failures
        BY <1>1, <2>1, <2>2 DEF OtpStart
      <3>2. \A v \in Users : Guessing(v)' \subseteq Guessing(v)
        BY <3>1, ReturnSlot, IdleIsSlot DEF Guessing, Others
      <3> QED
        BY <3>1, <3>2, FewerGuesses
    <2>3. CASE failures[u].lock # "locked"
      <3>1. Goto(r, "verify")
        BY <1>1, <2>1, <2>3 DEF OtpStart
      <3>2. Others(r) /\ req'[r].u = u
        BY <2>0, <2>1, <3>1, GotoSlot DEF Pcs
      <3>3. /\ \A v \in Users : v # u => failures'[v] = failures[v]
            /\ failures'[u] = IF failures[u].lock = "expired" THEN NoFailures ELSE failures[u]
        BY <1>0, <1>1, <2>0, <2>1 DEF OtpStart
      <3>4. failures'[u].count <= MaxFailures - 1 /\ failures'[u].count \in Nat
        BY <1>0, <2>0, <2>1, <2>3, <3>3 DEF NoFailures, GuessInv, OpenIsBelow
      <3>5. failures'[u].count + Cardinality(Guessing(u)') <= MaxFailures - 1 + Cardinality(Requests)
        BY <1>0, <3>4, GuessCount
      <3> QED
        BY <2>0, <2>1, <3>2, <3>3, <3>4, <3>5, OneGuess
    <2> QED
      BY <2>2, <2>3
  <1>2. ASSUME NEW r \in Requests, OtpWrong(r) PROVE GuessInv'
    <2>0. req[r].u \in Users /\ req[r].pc = "verify" /\ Return(r)
      BY <1>2, SlotTypes DEF OtpWrong, At, SlotOK, Pcs
    <2>1. PICK u \in Users : u = req[r].u
      BY <2>0
    <2>2. Others(r) /\ req'[r].pc # "verify"
      BY <2>0, <2>1, ReturnSlot, IdleIsSlot
    <2>3. /\ \A v \in Users : v # u => failures'[v] = failures[v]
          /\ failures'[u].count = failures[u].count + 1
          /\ failures'[u].lock = "open" => failures[u].count + 1 < MaxFailures
      BY <1>0, <1>2, <2>0, <2>1 DEF OtpWrong, Failed
    <2>4. Guessing(u)' = Guessing(u) \ {r} /\ r \in Guessing(u)
      BY <2>0, <2>1, <2>2 DEF Guessing, Others
    <2>5. Cardinality(Guessing(u)') = Cardinality(Guessing(u)) - 1
      BY <2>4, GuessingFinite, FS_RemoveElement
    <2>6. failures[u].count \in Nat
      BY <1>0, <2>0, <2>1
    <2>7. failures[u].count + Cardinality(Guessing(u)) <= MaxFailures - 1 + Cardinality(Requests)
      BY <2>0, <2>1 DEF GuessInv, GuessesBounded
    <2>8. failures'[u].count + Cardinality(Guessing(u)') <= MaxFailures - 1 + Cardinality(Requests)
      BY <1>0, <2>3, <2>5, <2>6, <2>7, GuessingFinite
    <2>9. failures'[u].lock = "open" => failures'[u].count <= MaxFailures - 1
      BY <1>0, <2>3, <2>6
    <2> QED
      BY <2>0, <2>1, <2>2, <2>3, <2>8, <2>9, OneGuess
  <1>3. ASSUME NEW r \in Requests, OtpRight(r) PROVE GuessInv'
    <2>0. req[r].u \in Users /\ Return(r)
      BY <1>3, SlotTypes DEF OtpRight, At, SlotOK, Pcs
    <2>1. PICK u \in Users : u = req[r].u
      BY <2>0
    <2>2. Others(r) /\ req'[r].pc # "verify"
      BY <2>0, <2>1, ReturnSlot, IdleIsSlot
    <2>3. /\ \A v \in Users : v # u => failures'[v] = failures[v]
          /\ failures'[u].count = 0
      BY <1>0, <1>3, <2>0, <2>1 DEF OtpRight, NoFailures
    <2>4. failures'[u].count + Cardinality(Guessing(u)') <= MaxFailures - 1 + Cardinality(Requests)
      BY <1>0, <2>3, GuessCount
    <2> QED
      BY <1>0, <2>0, <2>1, <2>2, <2>3, <2>4, OneGuess
  <1>4. ASSUME NEW u \in Users, LockExpires(u) PROVE GuessInv'
    <2>1. /\ \A v \in Users : failures'[v].count = failures[v].count
          /\ \A v \in Users : v # u => failures'[v] = failures[v]
          /\ failures'[u].lock = "expired"
      BY <1>0, <1>4 DEF LockExpires
    <2>2. \A v \in Users : Guessing(v)' = Guessing(v)
      BY <1>4 DEF LockExpires, Guessing
    <2> QED
      BY <2>1, <2>2 DEF GuessInv, OpenIsBelow, GuessesBounded
  <1>5. CASE Crash
    <2>1. \A u \in Users : failures'[u].count = 0
      BY <1>5 DEF Crash, NoFailures
    <2> QED
      BY <1>0, <2>1, GuessCount DEF GuessInv, OpenIsBelow, GuessesBounded
  <1>6. CASE /\ ~Crash
             /\ ~ \E r \in Requests : OtpStart(r) \/ OtpWrong(r) \/ OtpRight(r)
             /\ ~ \E u \in Users : LockExpires(u)
    <2>1. failures' = failures /\ \A q \in Requests : req'[q].pc = "verify" => req'[q] = req[q]
      BY <1>6, NoGuess
    <2>2. \A u \in Users : Guessing(u)' \subseteq Guessing(u)
      BY <2>1 DEF Guessing
    <2> QED
      BY <2>1, <2>2, FewerGuesses
  <1> QED
    BY <1>1, <1>2, <1>3, <1>4, <1>5, <1>6

\* Guesses that overlap pass the check together, but the tracker never counts
\* more of them than the requests served at a time, whatever expires between.
THEOREM GuessesAreBounded == Spec => []GuessesBounded
  <1>1. Init => GuessInv
    <2> SUFFICES ASSUME Init PROVE GuessInv
      OBVIOUS
    <2>1. \A u \in Users : failures[u] = NoFailures
      BY DEF Init
    <2>2. NoFailures.count = 0 /\ MaxFailures \in Nat /\ MaxFailures >= 1
      BY BoundsAreNat DEF NoFailures
    <2> QED
      BY <2>1, <2>2, GuessingFinite DEF GuessInv, OpenIsBelow, GuessesBounded
  <1>2. TypeOK /\ GuessInv /\ [Next]_vars => GuessInv'
    BY GuessStep
  <1> QED
    BY <1>1, <1>2, TypeCorrect, PTL DEF Spec, GuessInv
=============================================================================
