------------------------------ MODULE Accounts ------------------------------
(***************************************************************************)
(* The requests that sign a user in and out, rotate refresh tokens, verify *)
(* an email address and change the status of an account                    *)
(* (internal/auth/service.go, internal/admin/service.go,                   *)
(* internal/store), for one account.                                       *)
(*                                                                         *)
(* A request is one transaction under READ COMMITTED, run one statement at *)
(* a time: a statement sees what is committed and what its own transaction *)
(* wrote, and waits for a row another transaction has written or locked.   *)
(* A request that refuses, whose statement fails, that loses its           *)
(* connection or that PostgreSQL picks to break a deadlock rolls back:     *)
(* Fail, which any request may meet at any statement.                      *)
(*                                                                         *)
(* A token is named by its hash.  A sign-in starts a family of tokens,     *)
(* named by its first one; the client holds a session of that family as    *)
(* long as one of its tokens is neither revoked nor replaced.  That a      *)
(* token or a code expires is one more refusal, at any time.               *)
(***************************************************************************)
EXTENDS Integers, FiniteSets

CONSTANTS
    Conn,       \* database connections, each serving one request at a time
    User,       \* the row of the account
    Device,     \* its devices
    Tok,        \* refresh tokens
    Code,       \* verification codes, numbered as they are created
    Start,      \* what is in the database, and the requests to come
    MaxGuess,   \* wrong guesses a code takes (5 in the code)
    NoRow,      \* there is no such row
    Nil         \* nothing

Row == {User} \cup Device \cup Tok \cup Code

Status == {"pending", "active", "suspended", "pending_deletion", "deleted"}

UserRow   == [status : Status, gone : BOOLEAN, ver : BOOLEAN]
DeviceRow == [off : BOOLEAN]
TokRow    == [dev : Device, fam : Tok, rev : BOOLEAN, next : Tok \cup {Nil}]
CodeRow   == [used : BOOLEAN, tries : Nat]

Stored(x, v) ==
    \/ x = User   /\ v \in UserRow
    \/ x \in Device /\ v \in DeviceRow
    \/ x \in Tok  /\ v \in TokRow
    \/ x \in Code /\ v \in CodeRow

\* The rows of the tables are different things, and none is NoRow or Nil.
ASSUME RowsAssumption ==
    /\ User \notin Device \cup Tok \cup Code
    /\ Device \cap Tok = {} /\ Device \cap Code = {} /\ Tok \cap Code = {}
    /\ Nil \notin Row /\ NoRow # Nil
    /\ \A v \in {NoRow, Nil} : v \notin UserRow \cup DeviceRow \cup TokRow \cup CodeRow
    /\ Code \subseteq Nat
    /\ MaxGuess \in Nat \ {0}
    /\ IsFiniteSet(Conn)

VARIABLES
    db,         \* committed rows
    w,          \* per connection, the rows its transaction has locked: its own
                \*   version of each, Nil for a row it has not locked
    req,        \* per connection, the request it serves
    menu,       \* requests still to come, by kind
    codes,      \* codes drawn so far
    wrong       \* wrong guesses at each code, but for those whose count was lost

vars == <<db, w, req, menu, codes, wrong>>

-----------------------------------------------------------------------------
(* The statements of each kind of request: what follows what.               *)

\* The user is read before the transaction, the password checked.
LoginFlow   == [find |-> "user", user |-> "device", device |-> "issue",
                issue |-> "commit"]
AppleFlow   == [find |-> "device", device |-> "issue", issue |-> "commit"]

\* Mutant: the touches of the device and of the user are left out.
RefreshFlow_NoTouch ==
    [lock |-> "find", find |-> "rotate", rotate |-> "commit", revoke |-> "commit"]

\* lock goes on to revoke when the token was used before.
RefreshFlow == [lock |-> "find", find |-> "rotate", rotate |-> "seen",
                seen |-> "user", user |-> "commit", revoke |-> "commit"]
LogoutFlow  == [one |-> "commit"]
LogoutDeviceFlow == [one |-> "revoke", revoke |-> "retire", retire |-> "commit"]
LogoutAllFlow   == [revoke |-> "commit"]
ForceLogoutFlow == [revoke |-> "commit"]
ResetFlow       == [revoke |-> "commit"]
PasswordFlow    == [revoke |-> "commit"]
EmailChangeFlow == [find |-> "user", user |-> "revoke", revoke |-> "device",
                    device |-> "issue", issue |-> "commit"]
RevokeDeviceFlow == [retire |-> "revoke", revoke |-> "commit"]
SuspendFlow    == [user |-> "revoke", revoke |-> "commit"]
ReactivateFlow == [find |-> "user", user |-> "commit"]
ScheduleFlow   == [find |-> "user", user |-> "revoke", revoke |-> "commit"]
CancelFlow     == [find |-> "user", user |-> "commit"]
DeleteFlow     == [revoke |-> "user", user |-> "commit"]
ResendFlow     == [find |-> "supersede", supersede |-> "create", create |-> "commit",
                   commit |-> "mail"]
\* judge goes on to bump when the guess is wrong.
VerifyFlow     == [find |-> "judge", judge |-> "consume", consume |-> "user",
                   user |-> "device", device |-> "issue", issue |-> "commit"]

Flow == [login |-> LoginFlow, apple |-> AppleFlow, refresh |-> RefreshFlow,
         logout |-> LogoutFlow, logout_device |-> LogoutDeviceFlow,
         logout_all |-> LogoutAllFlow, force_logout |-> ForceLogoutFlow,
         reset |-> ResetFlow, password |-> PasswordFlow,
         email_change |-> EmailChangeFlow, revoke_device |-> RevokeDeviceFlow,
         suspend |-> SuspendFlow, reactivate |-> ReactivateFlow,
         schedule |-> ScheduleFlow, cancel |-> CancelFlow, delete |-> DeleteFlow,
         resend |-> ResendFlow, verify |-> VerifyFlow]

Kind == DOMAIN Flow

First(k) ==
    CASE k = "refresh"                       -> "lock"
      [] k \in {"logout", "logout_device"}   -> "one"
      [] k = "revoke_device"                 -> "retire"
      [] k = "suspend"                       -> "user"
      [] k \in {"logout_all", "force_logout", "reset", "password", "delete"} -> "revoke"
      [] OTHER                               -> "find"

\* What a request demands of the user it reads.
Admits(k, u) ==
    CASE k \in {"login", "apple", "email_change"} -> u.status = "active" /\ ~u.gone
      [] k = "refresh"    -> /\ ~u.gone
                             /\ \/ u.status = "active"
                                \/ u.status = "pending" /\ u.ver
      [] k = "verify"     -> u.status = "pending" /\ ~u.gone
      [] k = "resend"     -> u.status = "pending"
      [] k = "reactivate" -> u.status = "suspended"
      [] k = "schedule"   -> ~u.gone
      [] k = "cancel"     -> u.status = "pending_deletion" /\ ~u.gone
      [] OTHER            -> FALSE

\* What a request writes to the user it has locked, whatever it was: a
\* sign-in, a refresh and a new address leave the status alone.
UserAfter(k, u) ==
    CASE k = "suspend"                 -> [u EXCEPT !.status = "suspended"]
      [] k \in {"reactivate", "cancel"} -> [u EXCEPT !.status = "active"]
      [] k = "schedule"                -> [u EXCEPT !.status = "pending_deletion"]
      [] k = "delete"                  -> [u EXCEPT !.status = "deleted", !.gone = TRUE]
      [] k = "verify"                  -> [u EXCEPT !.status = "active", !.ver = TRUE]
      [] OTHER                         -> u

CanSignIn(u) == u.status = "active" /\ ~u.gone

-----------------------------------------------------------------------------
(* Transactions.                                                            *)

Idle == [kind |-> "none", at |-> "none", dev |-> Nil, key |-> Nil, fit |-> FALSE,
         left |-> {}, found |-> {}]

Blank == [x \in Row |-> Nil]

\* What connection r sees in row x, and the whole database if it committed.
See(r, x) == IF w[r][x] # Nil THEN w[r][x] ELSE db[x]
View(r)   == [x \in Row |-> See(r, x)]

Free(r, x) == \A q \in Conn \ {r} : w[q][x] = Nil

At(r, s) == req[r].at = s

\* The request of r goes on to its next statement.
Onward(r) == [req[r] EXCEPT !.at = Flow[req[r].kind][req[r].at]]
Go(r) == req' = [req EXCEPT ![r] = Onward(r)]

Put(r, x, v) == w' = [w EXCEPT ![r][x] = v]

\* Tokens that can still be rotated, and the sessions they belong to.
Holders(rows) ==
    {t \in Tok : rows[t] # NoRow /\ ~rows[t].rev /\ rows[t].next = Nil}
Live(rows) == {rows[t].fam : t \in Holders(rows)}

\* The rows s starts with; every token of them is of a family that exists and has
\* one token that can be rotated, if any.
Loaded(s) == [x \in Row |-> IF x \in DOMAIN s.db THEN s.db[x] ELSE NoRow]

ASSUME StartAssumption ==
    \A s \in Start : LET rows == Loaded(s) IN
        /\ \A t \in Tok : rows[t] # NoRow => rows[t] \in TokRow /\ rows[rows[t].fam] # NoRow
        /\ \A t, u \in Holders(rows) : rows[t].fam = rows[u].fam => t = u

\* The codes drawn so far are numbered up to s.codes.
ASSUME CodesAssumption ==
    \A s \in Start : LET rows == Loaded(s) IN
        /\ s.codes \in Nat
        /\ \A c \in Code : rows[c] # NoRow => rows[c] \in CodeRow /\ c <= s.codes

\* The account exists, its devices are rows of their table, and a token is for the
\* device its family was opened on.
ASSUME AccountAssumption ==
    \A s \in Start : LET rows == Loaded(s) IN
        /\ rows[User] \in UserRow
        /\ \A d \in Device : rows[d] \in DeviceRow \cup {NoRow}
        /\ \A t \in Tok : rows[t] # NoRow => rows[t].dev = rows[rows[t].fam].dev

\* A hash no row has.  Nobody knows the token of a row that was rolled back.
Unused == {t \in Tok : db[t] = NoRow /\ \A q \in Conn : w[q][t] = Nil}
Fresh  == CHOOSE t \in Unused : TRUE

-----------------------------------------------------------------------------
(* Requests.                                                                *)

\* What the client presents: a token it was given, the code it was mailed or
\* another, or nothing.  A new code takes the next number.
Keys(k) ==
    CASE k \in {"refresh", "logout", "logout_device"} -> {t \in Tok : db[t] # NoRow}
      [] k = "verify" -> {c \in Code : db[c] # NoRow} \cup {Nil}
      [] k = "resend" -> {codes + 1} \cap Code
      [] OTHER        -> {Nil}

\* The device the client is on, or the one to revoke.
Devices(k, key) ==
    CASE k \in {"refresh", "logout", "logout_device"} -> {db[key].dev}
      [] k \in {"login", "apple", "verify", "password", "email_change",
                "revoke_device"} -> Device
      [] OTHER -> {Nil}

\* History: the sessions that are live when a request to end sessions comes in.
Doomed(k, d) ==
    CASE k \in {"suspend", "schedule", "reset"} -> Live(db)
      [] k = "revoke_device" -> {db[t].fam : t \in {h \in Holders(db) : db[h].dev = d}}
      [] OTHER -> {}

Begin(r, k) ==
    /\ req[r] = Idle
    /\ menu[k] > 0
    /\ \E key \in Keys(k) : \E d \in Devices(k, key) :
          req' = [req EXCEPT ![r] = [Idle EXCEPT !.kind = k, !.at = First(k), !.dev = d,
                                                 !.key = key, !.found = Doomed(k, d)]]
    /\ menu' = [menu EXCEPT ![k] = @ - 1]
    /\ codes' = IF k = "resend" THEN codes + 1 ELSE codes
    /\ UNCHANGED <<db, w, wrong>>

\* SELECT of the user, before or inside the transaction, without a lock.
Find(r) ==
    /\ At(r, "find")
    /\ Admits(req[r].kind, See(r, User))
    /\ req' = [req EXCEPT ![r] = [Onward(r) EXCEPT !.fit = CanSignIn(See(r, User))]]
    /\ UNCHANGED <<db, w, menu, codes, wrong>>

\* UPDATE of the user.  A verification and a change of address read the user
\* again afterwards.
WriteUser(r) ==
    LET u == UserAfter(req[r].kind, See(r, User)) IN
    /\ At(r, "user")
    /\ Free(r, User)
    /\ Put(r, User, u)
    /\ req' = [req EXCEPT ![r] =
                  [Onward(r) EXCEPT !.fit = IF req[r].kind \in {"verify", "email_change"}
                                               THEN CanSignIn(u) ELSE @]]
    /\ UNCHANGED <<db, menu, codes, wrong>>

\* The device is created or signed in again.  Whether the user may sign in is
\* judged by what the request read of it.
SignInDevice(r) ==
    /\ At(r, "device")
    /\ req[r].fit
    /\ Free(r, req[r].dev)
    /\ Put(r, req[r].dev, [off |-> FALSE])
    /\ Go(r)
    /\ UNCHANGED <<db, menu, codes, wrong>>

\* Mutant: the token is not tied to its device.
IssueToken_NoDevice(r) ==
    /\ At(r, "issue")
    /\ Unused # {}
    /\ Put(r, Fresh, [dev |-> Nil, fam |-> Fresh, rev |-> FALSE, next |-> Nil])
    /\ Go(r)
    /\ UNCHANGED <<db, menu, codes, wrong>>

IssueToken(r) ==
    /\ At(r, "issue")
    /\ Unused # {}
    /\ Put(r, Fresh, [dev |-> req[r].dev, fam |-> Fresh, rev |-> FALSE, next |-> Nil])
    /\ Go(r)
    /\ UNCHANGED <<db, menu, codes, wrong>>

-----------------------------------------------------------------------------
(* Refresh, logout and revocation.                                          *)

\* Mutant: the token is read without FOR UPDATE.
LockToken_Plain(r) ==
    /\ At(r, "lock")
    /\ req' = [req EXCEPT ![r].at =
                  IF db[req[r].key].rev \/ db[req[r].key].next # Nil THEN "revoke" ELSE "find"]
    /\ UNCHANGED <<db, w, menu, codes, wrong>>

\* Mutant: only a replaced token counts as used.
LockToken_Replaced(r) ==
    /\ At(r, "lock")
    /\ Free(r, req[r].key)
    /\ Put(r, req[r].key, db[req[r].key])
    /\ req' = [req EXCEPT ![r].at =
                  IF db[req[r].key].next # Nil THEN "revoke" ELSE "find"]
    /\ UNCHANGED <<db, menu, codes, wrong>>

\* SELECT ... FOR UPDATE.  A token that was revoked or replaced is presented
\* again: all tokens of the device are revoked.
LockToken(r) ==
    /\ At(r, "lock")
    /\ Free(r, req[r].key)
    /\ Put(r, req[r].key, db[req[r].key])
    /\ req' = [req EXCEPT ![r].at =
                  IF db[req[r].key].rev \/ db[req[r].key].next # Nil THEN "revoke" ELSE "find"]
    /\ UNCHANGED <<db, menu, codes, wrong>>

\* The successor is inserted and the token marked replaced.
Rotate(r) ==
    LET old == See(r, req[r].key) IN
    /\ At(r, "rotate")
    /\ Unused # {}
    /\ Free(r, req[r].key)
    /\ w' = [w EXCEPT ![r][Fresh] = [old EXCEPT !.rev = FALSE, !.next = Nil],
                      ![r][req[r].key] = [old EXCEPT !.next = Fresh]]
    /\ Go(r)
    /\ UNCHANGED <<db, menu, codes, wrong>>

\* UPDATE of last_seen_at.
TouchDevice(r) ==
    /\ At(r, "seen")
    /\ Free(r, req[r].dev)
    /\ Put(r, req[r].dev, See(r, req[r].dev))
    /\ Go(r)
    /\ UNCHANGED <<db, menu, codes, wrong>>

\* UPDATE of devices.revoked_at.  The row of a device that is revoked already
\* is not found, unless the request came with a token of it.
RetireDevice(r) ==
    /\ At(r, "retire")
    /\ Free(r, req[r].dev)
    /\ See(r, req[r].dev) # NoRow
    /\ ~See(r, req[r].dev).off \/ req[r].kind = "logout_device"
    /\ Put(r, req[r].dev, [off |-> TRUE])
    /\ Go(r)
    /\ UNCHANGED <<db, menu, codes, wrong>>

\* UPDATE of the one token presented, found only while it is not revoked.
RevokeOne(r) ==
    LET t == req[r].key IN
    /\ At(r, "one")
    /\ Free(r, t)
    /\ ~See(r, t).rev
    /\ Put(r, t, [See(r, t) EXCEPT !.rev = TRUE])
    /\ Go(r)
    /\ UNCHANGED <<db, menu, codes, wrong>>

\* Rows of an UPDATE of many tokens: those of the account, of one device, or of
\* the other devices, which its snapshot shows and which are not revoked.
Scope(r) ==
    {t \in Tok : /\ See(r, t) # NoRow
                 /\ ~See(r, t).rev
                 /\ req[r].kind \in {"refresh", "logout_device", "revoke_device"}
                       => See(r, t).dev = req[r].dev
                 /\ req[r].kind \in {"password", "email_change"}
                       => See(r, t).dev # req[r].dev}

\* The statement takes its snapshot and then works through the rows.
Revoke(r) ==
    /\ At(r, "revoke")
    /\ req' = [req EXCEPT ![r] =
                  IF Scope(r) = {} THEN Onward(r)
                                   ELSE [req[r] EXCEPT !.at = "rows", !.left = Scope(r)]]
    /\ UNCHANGED <<db, w, menu, codes, wrong>>

\* The next row: once it is free it is looked at again, and skipped if it has
\* been revoked since.
RevokeRow(r, t) ==
    /\ At(r, "rows")
    /\ t \in req[r].left
    /\ Free(r, t)
    /\ w' = IF See(r, t).rev THEN w
            ELSE [w EXCEPT ![r][t] = [See(r, t) EXCEPT !.rev = TRUE]]
    /\ req' = [req EXCEPT ![r] =
                  [req[r] EXCEPT !.left = req[r].left \ {t},
                                 !.at = IF req[r].left = {t}
                                           THEN Flow[req[r].kind]["revoke"] ELSE "rows"]]
    /\ UNCHANGED <<db, menu, codes, wrong>>

-----------------------------------------------------------------------------
(* Verification codes.                                                      *)

Unspent(r) == {c \in Code : See(r, c) # NoRow /\ ~See(r, c).used}

\* UPDATE that spends the codes of the account, one row after the other.
Supersede(r) ==
    /\ At(r, "supersede")
    /\ req' = [req EXCEPT ![r] =
                  IF Unspent(r) = {} THEN Onward(r)
                                     ELSE [req[r] EXCEPT !.at = "codes", !.left = Unspent(r)]]
    /\ UNCHANGED <<db, w, menu, codes, wrong>>

SupersedeCode(r, c) ==
    /\ At(r, "codes")
    /\ c \in req[r].left
    /\ Free(r, c)
    /\ Put(r, c, [See(r, c) EXCEPT !.used = TRUE])
    /\ req' = [req EXCEPT ![r] =
                  [req[r] EXCEPT !.left = req[r].left \ {c},
                                 !.at = IF req[r].left = {c}
                                           THEN Flow[req[r].kind]["supersede"] ELSE "codes"]]
    /\ UNCHANGED <<db, menu, codes, wrong>>

CreateCode(r) ==
    /\ At(r, "create")
    /\ Put(r, req[r].key, [used |-> FALSE, tries |-> 0])
    /\ Go(r)
    /\ UNCHANGED <<db, menu, codes, wrong>>

\* The transport takes the mail, or refuses it and the code is spent, by a
\* statement whose own failure goes unnoticed.
SendCode(r) ==
    /\ At(r, "mail")
    /\ \/ UNCHANGED db
       \/ /\ Free(r, req[r].key)
          /\ db' = [db EXCEPT ![req[r].key].used = TRUE]
    /\ req' = [req EXCEPT ![r] = Idle]
    /\ UNCHANGED <<w, menu, codes, wrong>>

\* The newest code that is not spent.
Latest(c) ==
    /\ c \in Code /\ db[c] # NoRow /\ ~db[c].used
    /\ \A d \in Code : db[d] # NoRow /\ ~db[d].used => d <= c

\* A guess is judged by what the SELECT shows, which locks nothing.
Judge(r) ==
    /\ At(r, "judge")
    /\ \E c \in Code :
          /\ Latest(c)
          /\ db[c].tries < MaxGuess
          /\ req' = [req EXCEPT ![r] =
                        IF req[r].key = c THEN Onward(r)
                                          ELSE [req[r] EXCEPT !.key = c, !.at = "bump"]]
          /\ wrong' = IF req[r].key = c THEN wrong ELSE [wrong EXCEPT ![c] = @ + 1]
    /\ UNCHANGED <<db, w, menu, codes>>

\* Mutant: the attempt is counted inside the transaction, which rolls back.
BumpAttempt_InTx(r) ==
    /\ At(r, "bump")
    /\ Free(r, req[r].key)
    /\ req' = [req EXCEPT ![r] = Idle]
    /\ UNCHANGED <<db, w, menu, codes, wrong>>

\* The attempt is counted by a statement on another connection, committed by
\* itself; the transaction, which has written nothing, rolls back.
BumpAttempt(r) ==
    /\ At(r, "bump")
    /\ Free(r, req[r].key)
    /\ db' = [db EXCEPT ![req[r].key].tries = @ + 1]
    /\ req' = [req EXCEPT ![r] = Idle]
    /\ UNCHANGED <<w, menu, codes, wrong>>

\* Mutant: the code is spent whether or not it was spent before.
ConsumeCode_Again(r) ==
    LET c == req[r].key IN
    /\ At(r, "consume")
    /\ Free(r, c)
    /\ Put(r, c, [See(r, c) EXCEPT !.used = TRUE])
    /\ Go(r)
    /\ UNCHANGED <<db, menu, codes, wrong>>

\* UPDATE of the code, which must still be unspent.
ConsumeCode(r) ==
    LET c == req[r].key IN
    /\ At(r, "consume")
    /\ Free(r, c)
    /\ ~See(r, c).used
    /\ Put(r, c, [See(r, c) EXCEPT !.used = TRUE])
    /\ Go(r)
    /\ UNCHANGED <<db, menu, codes, wrong>>

-----------------------------------------------------------------------------
\* COMMIT.  A request that has a code to mail goes on.
Commit(r) ==
    /\ At(r, "commit")
    /\ db' = View(r)
    /\ w' = [w EXCEPT ![r] = Blank]
    /\ req' = [req EXCEPT ![r] = IF @.kind = "resend" THEN Onward(r) ELSE Idle]
    /\ UNCHANGED <<menu, codes, wrong>>

\* The request refuses, a statement fails, the connection is lost or a deadlock
\* is broken: nothing is written.  An attempt that was to be counted is lost.
Fail(r) ==
    /\ req[r] # Idle
    /\ w' = [w EXCEPT ![r] = Blank]
    /\ req' = [req EXCEPT ![r] = Idle]
    /\ wrong' = IF At(r, "bump") THEN [wrong EXCEPT ![req[r].key] = @ - 1] ELSE wrong
    /\ UNCHANGED <<db, menu, codes>>

Init ==
    /\ \E s \in Start : /\ db = Loaded(s)
                        /\ menu = [k \in Kind |-> IF k \in DOMAIN s.menu THEN s.menu[k] ELSE 0]
                        /\ codes = s.codes
    /\ w = [r \in Conn |-> Blank]
    /\ req = [r \in Conn |-> Idle]
    /\ wrong = [c \in Code |-> 0]

Next ==
    \E r \in Conn :
        \/ \E k \in Kind : Begin(r, k)
        \/ Find(r) \/ WriteUser(r) \/ SignInDevice(r) \/ IssueToken(r)
        \/ LockToken(r) \/ Rotate(r) \/ TouchDevice(r) \/ RetireDevice(r)
        \/ RevokeOne(r) \/ Revoke(r)
        \/ \E t \in Tok : RevokeRow(r, t)
        \/ Supersede(r) \/ CreateCode(r) \/ SendCode(r)
        \/ \E c \in Code : SupersedeCode(r, c)
        \/ Judge(r) \/ BumpAttempt(r) \/ ConsumeCode(r)
        \/ Commit(r) \/ Fail(r)

Spec == Init /\ [][Next]_vars

-----------------------------------------------------------------------------
(* Properties.                                                              *)

Statement ==
    {"none", "find", "user", "device", "issue", "lock", "rotate", "seen", "retire",
     "one", "revoke", "rows", "supersede", "codes", "create", "mail", "judge", "bump",
     "consume", "commit"}

\* Every row, committed or not, belongs to its table: a token to a device and to
\* a family that exist, whichever request wrote it.
TypeOK ==
    /\ \A x \in Row : db[x] = NoRow \/ Stored(x, db[x])
    /\ \A r \in Conn, x \in Row : w[r][x] \in {Nil, NoRow} \/ Stored(x, w[r][x])
    /\ \A r \in Conn : req[r].kind \in Kind \cup {"none"} /\ req[r].at \in Statement
    /\ wrong \in [Code -> Nat]
    /\ codes \in Nat

\* Rotation is single-use: however often a token is presented, at once or
\* again, a session never has two tokens that can be rotated (FOR UPDATE in
\* LockRefreshToken).
OneHolder == \A t, u \in Holders(db) : db[t].fam = db[u].fam => t = u

\* The transaction of r takes effect in this step.
Commits(r) == At(r, "commit") /\ req'[r] # req[r] /\ db' # db

\* Requests that end sessions do end those that were live when they came in,
\* against the refreshes that rotate them meanwhile: the status of a user or of
\* a device is written before the tokens are revoked, and a refresh touches both
\* before it commits.
RevocationEnds ==
    [][\A r \in Conn :
          Commits(r) /\ req[r].kind \in {"suspend", "schedule", "revoke_device"}
             => req[r].found \cap Live(db') = {}]_vars

\* "ResetPassword ... revokes ALL refresh tokens of the account": the same, for
\* the request that takes no lock before it revokes.
ResetEnds ==
    [][\A r \in Conn :
          Commits(r) /\ req[r].kind = "reset" => req[r].found \cap Live(db') = {}]_vars

\* A code signs one user in once: whoever commits a verification finds the code
\* unspent, by another verification, by a newer code or by a mail that failed.
CodeSpentOnce ==
    \A r \in Conn : req[r].kind = "verify" /\ At(r, "commit") => ~db[req[r].key].used

\* Wrong guesses are counted although their transactions roll back, and bounded
\* although they are judged without a lock: beyond MaxGuess there is at most
\* one for every other connection.
CapHolds == \A c \in Code : wrong[c] <= MaxGuess + Cardinality(Conn) - 1

\* "A pending (unverified) user must verify their email": nobody is active
\* without.
ActiveIsVerified == db[User].status = "active" => db[User].ver

\* Tokens implement sessions that open once and never come back.
S == INSTANCE Sessions WITH
        Session <- Tok,
        live    <- Live(db),
        over    <- {db[t].fam : t \in {u \in Tok : db[u] # NoRow}} \ Live(db)

SessionsSpec == S!SessionsSpec
=============================================================================
