----------------------------- MODULE CodeProofs -----------------------------
(***************************************************************************)
(* A verification code signs one user in once and takes a bounded number   *)
(* of wrong guesses, for any number of connections and codes, whatever the *)
(* requests.                                                               *)
(*                                                                         *)
(* The argument: a code is written by one transaction at a time, because   *)
(* a new one has a number nobody has drawn and every other one is locked   *)
(* first; so whoever finds a code unspent and spends it keeps it to itself *)
(* until it commits.  Guesses are judged without a lock: the wrong ones    *)
(* at a code are those its row counts and one for every connection that    *)
(* has judged its guess and is about to count it.                          *)
(***************************************************************************)
EXTENDS AccountProofs, FiniteSetTheorems

\* The codes drawn are rows of their table, numbered up to codes.
Drawn ==
    /\ codes \in Nat
    /\ \A c \in Code : db[c] # NoRow => db[c] \in CodeRow /\ c <= codes
    /\ \A r \in Conn, c \in Code : w[r][c] # Nil => w[r][c] \in CodeRow

\* A code has one writer.
OneCodeWriter ==
    \A q, r \in Conn, c \in Code : w[q][c] # Nil /\ w[r][c] # Nil => q = r

Resends(r) == req[r].kind = "resend"

\* A code is created by the request that drew its number, and nobody else.
CreatesOwn ==
    \A r \in Conn, c \in Code :
        w[r][c] # Nil /\ db[c] = NoRow =>
            Resends(r) /\ req[r].at = "commit" /\ req[r].key = c

OwnNumber == \A q, r \in Conn : Resends(q) /\ Resends(r) /\ req[q].key = req[r].key => q = r

Resending(r) ==
    Resends(r) =>
        /\ req[r].key \in Code /\ req[r].key <= codes
        /\ req[r].at \in {"find", "supersede", "codes", "create"} => db[req[r].key] = NoRow
        /\ req[r].at = "codes" => \A c \in req[r].left : c \in Code /\ db[c] # NoRow
        /\ req[r].at = "commit" => w[r][req[r].key] # Nil
        /\ req[r].at = "mail" => db[req[r].key] # NoRow

\* A verification that has spent its code: nobody else has, or will before it
\* commits.
Verifying(r) ==
    req[r].kind = "verify" =>
        /\ req[r].at \in {"find", "judge", "bump", "consume"} =>
              \A c \in Code : w[r][c] = Nil
        /\ req[r].at \in {"bump", "consume", "user", "device", "issue", "commit"} =>
              req[r].key \in Code /\ db[req[r].key] # NoRow
        /\ req[r].at \in {"user", "device", "issue", "commit"} =>
              ~db[req[r].key].used /\ w[r][req[r].key] # Nil

\* Between requests, and while a code is mailed, there is no transaction.
Clean(r) == req[r].at \in {"none", "mail"} => \A c \in Code : w[r][c] = Nil

CodeInv ==
    /\ Drawn /\ OneCodeWriter /\ CreatesOwn /\ OwnNumber
    /\ \A r \in Conn : Resending(r) /\ Verifying(r) /\ Clean(r)

-----------------------------------------------------------------------------
LEMMA CodeInRow ==
  /\ Code \subseteq Row /\ User \notin Code /\ Device \cap Code = {} /\ Tok \cap Code = {}
  /\ Nil \notin Row /\ Code \subseteq Nat
  /\ NoRow \notin CodeRow /\ Nil \notin CodeRow /\ Nil # NoRow
  BY RowsAssumption DEF Row

LEMMA SpentCode ==
  ASSUME NEW v \in CodeRow PROVE [v EXCEPT !.used = TRUE] \in CodeRow
  BY DEF CodeRow

LEMMA CodeInit == Init => CodeInv
<1> SUFFICES ASSUME Init PROVE CodeInv
  OBVIOUS
<1>1. PICK s \in Start : db = Loaded(s) /\ codes = s.codes
  BY DEF Init
<1>2. \A r \in Conn, c \in Code : w[r][c] = Nil
  BY CodeInRow DEF Init, Blank
<1>3. Drawn
  BY <1>1, <1>2, CodesAssumption DEF Drawn
<1>4. \A r \in Conn : req[r].kind = "none"
  BY DEF Init, Idle
<1> QED
  BY <1>2, <1>3, <1>4 DEF CodeInv, OneCodeWriter, CreatesOwn, OwnNumber, Resends, Resending,
                          Verifying, Clean

-----------------------------------------------------------------------------
(* What a step of r does to the codes.                                      *)

\* The others stay where they are; r writes only codes that are free, and creates
\* only the one it drew.
Alone(r) ==
    /\ \A q \in Conn \ {r} : req'[q] = req[q] /\ \A c \in Code : w'[q][c] = w[q][c]
    /\ \A c \in Code : w'[r][c] = w[r][c] \/ w'[r][c] = Nil \/ Free(r, c)
    /\ \A c \in Code : db'[c] = db[c] \/ (Free(r, c) /\ db'[c] # NoRow)
    /\ \A c \in Code : db'[c] # NoRow /\ db[c] = NoRow => Resends(r) /\ req[r].key = c
    /\ codes' >= codes
    /\ Resends(r)' => (Resends(r) /\ req'[r].key = req[r].key) \/ req'[r].key > codes

LEMMA AloneKeeps ==
  ASSUME CodeInv, NEW r \in Conn, Alone(r), Drawn',
         Resending(r)', Verifying(r)', Clean(r)',
         \A c \in Code : (w[r][c] # Nil /\ db[c] = NoRow =>
                              Resends(r) /\ req[r].at = "commit" /\ req[r].key = c)'
  PROVE  CodeInv'
<1> USE DEF CodeInv
<1>1. OneCodeWriter'
  BY DEF OneCodeWriter, Alone, Free
<1>2. CreatesOwn'
  <2> SUFFICES ASSUME NEW q \in Conn \ {r}, NEW c \in Code, w'[q][c] # Nil, db'[c] = NoRow
               PROVE  Resends(q)' /\ req'[q].at = "commit" /\ req'[q].key = c
    BY DEF CreatesOwn
  <2>1. w[q][c] # Nil /\ db[c] = NoRow /\ req'[q] = req[q]
    BY DEF Alone
  <2> QED
    BY <2>1 DEF CreatesOwn, Resends
<1>3. OwnNumber'
  <2>1. \A q \in Conn \ {r} : Resends(q)' <=> Resends(q)
    BY DEF Alone, Resends
  <2>2. \A q \in Conn \ {r} : Resends(q) => req[q].key \in Nat /\ req[q].key <= codes
    BY CodeInRow DEF Resending
  <2>3. codes \in Nat
    BY DEF Drawn
  <2>4. ASSUME NEW q \in Conn \ {r}, Resends(q)', Resends(r)', req'[q].key = req'[r].key
        PROVE  FALSE
    BY <2>1, <2>2, <2>3, <2>4 DEF Alone, OwnNumber
  <2> QED
    BY <2>1, <2>4 DEF OwnNumber, Alone
<1>4. ASSUME NEW q \in Conn \ {r}
      PROVE  Resending(q)'
  <2> SUFFICES ASSUME Resends(q)
               PROVE  /\ req[q].key \in Code /\ req[q].key <= codes'
                      /\ req[q].at \in {"find", "supersede", "codes", "create"} =>
                            db'[req[q].key] = NoRow
                      /\ req[q].at = "codes" => \A c \in req[q].left : c \in Code /\ db'[c] # NoRow
                      /\ req[q].at = "commit" => w'[q][req[q].key] # Nil
                      /\ req[q].at = "mail" => db'[req[q].key] # NoRow
    BY DEF Resending, Resends, Alone
  <2>1. Resending(q) /\ req[q].key \in Code
    BY DEF Resending
  <2>2. req[q].key <= codes'
    <3>1. req[q].key \in Nat /\ req[q].key <= codes
      BY <2>1, CodeInRow DEF Resending
    <3>2. codes \in Nat /\ codes' \in Nat /\ codes' >= codes
      BY DEF Alone, Drawn
    <3> HIDE DEF CodeInv
    <3> QED
      BY <3>1, <3>2
  <2>3. db[req[q].key] = NoRow => db'[req[q].key] = NoRow
    BY <2>1 DEF Alone, OwnNumber
  <2>4. \A c \in Code : /\ w'[q][c] = w[q][c]
                        /\ db[c] # NoRow => db'[c] # NoRow
    BY DEF Alone
  <2>5. req[q].at = "codes" => \A c \in req[q].left : c \in Code /\ db'[c] # NoRow
    <3> SUFFICES ASSUME req[q].at = "codes", NEW c \in req[q].left PROVE c \in Code /\ db'[c] # NoRow
      OBVIOUS
    <3> QED
      BY <2>1, <2>4 DEF Resending
  <2>6. /\ req[q].at \in {"find", "supersede", "codes", "create"} => db[req[q].key] = NoRow
        /\ req[q].at = "commit" => w[q][req[q].key] # Nil
        /\ req[q].at = "mail" => db[req[q].key] # NoRow
    BY <2>1 DEF Resending
  <2> QED
    BY <2>1, <2>2, <2>3, <2>4, <2>5, <2>6
<1>5. ASSUME NEW q \in Conn \ {r}
      PROVE  Verifying(q)'
  <2>1. req'[q] = req[q] /\ \A c \in Code : w'[q][c] = w[q][c]
    BY DEF Alone
  <2>2. \A c \in Code : w[q][c] # Nil => db'[c] = db[c]
    BY DEF Alone, Free
  <2>3. \A c \in Code : db[c] # NoRow => db'[c] # NoRow
    BY DEF Alone
  <2> QED
    BY <2>1, <2>2, <2>3 DEF Verifying
<1>6. ASSUME NEW q \in Conn \ {r}
      PROVE  Clean(q)'
  BY DEF Clean, Alone
<1> QED
  BY <1>1, <1>2, <1>3, <1>4, <1>5, <1>6

\* The step leaves every code and every write of one alone.
CodesStay ==
    /\ \A q \in Conn, c \in Code : w'[q][c] = w[q][c]
    /\ \A c \in Code : db'[c] = db[c]

LEMMA RequestIs ==
  ASSUME IInv, NEW r \in Conn, NEW n, SetReq(r, n)
  PROVE  \A q \in Conn : req'[q] = IF q = r THEN n ELSE req[q]
  BY DEF IInv, RequestInv, SetReq

LEMMA QuietCodes ==
  ASSUME IInv, CodeInv, NEW r \in Conn, NEW n, SetReq(r, n), CodesStay,
         Drawn', codes' >= codes,
         Resends(r) => n.kind = "resend" /\ n.key = req[r].key /\ req[r].at # "commit",
         n.kind = "resend" => Resends(r) \/ n.key > codes,
         Resending(r)', Verifying(r)', Clean(r)'
  PROVE  CodeInv'
<1>1. \A q \in Conn : req'[q] = IF q = r THEN n ELSE req[q]
  BY RequestIs
<1>2. Alone(r)
  BY <1>1 DEF Alone, CodesStay, Resends
<1>3. \A c \in Code : ~(w[r][c] # Nil /\ db[c] = NoRow)'
  BY DEF CodesStay, CodeInv, CreatesOwn
<1> QED
  BY <1>2, <1>3, AloneKeeps

LEMMA DrawnStays == ASSUME CodeInv, CodesStay, UNCHANGED codes PROVE Drawn'
  BY DEF CodeInv, Drawn, CodesStay

-----------------------------------------------------------------------------
(* Statements that write no code.                                           *)

\* Where the requests that use codes can be, and what comes next.
LEMMA CodeFlow ==
  /\ Stage["verify"] = {"find", "judge", "bump", "consume", "user", "device", "issue", "commit"}
  /\ Stage["resend"] = {"find", "supersede", "codes", "create", "commit", "mail"}
  /\ Flow["verify"]["find"] = "judge" /\ Flow["verify"]["judge"] = "consume"
  /\ Flow["verify"]["consume"] = "user" /\ Flow["verify"]["user"] = "device"
  /\ Flow["verify"]["device"] = "issue" /\ Flow["verify"]["issue"] = "commit"
  /\ Flow["resend"]["find"] = "supersede" /\ Flow["resend"]["supersede"] = "create"
  /\ Flow["resend"]["create"] = "commit" /\ Flow["resend"]["commit"] = "mail"
  BY DEF Stage, Flow, VerifyFlow, ResendFlow

LEMMA WhereFrom ==
  ASSUME NEW k \in Kinds, NEW a \in Stage[k]
  PROVE  /\ a # "none"
         /\ a = "mail" => k = "resend"
         /\ a \in {"judge", "bump", "consume"} => k = "verify"
         /\ a \in {"supersede", "codes", "create"} => k = "resend"
  BY DEF Kinds, Stage

\* A request that uses no code.
LEMMA StrangerStep ==
  ASSUME IInv, CodeInv, NEW r \in Conn, NEW n, SetReq(r, n), CodesStay, UNCHANGED codes,
         req[r].kind \notin {"verify", "resend"}, n.kind = req[r].kind,
         n.at \notin {"none", "mail"}
  PROVE  CodeInv'
<1>1. req'[r] = n
  BY RequestIs
<1>2. Resending(r)' /\ Verifying(r)' /\ Clean(r)'
  BY <1>1 DEF Resending, Resends, Verifying, Clean
<1>3. codes' >= codes
  BY DEF CodeInv, Drawn
<1> QED
  BY <1>2, <1>3, DrawnStays, QuietCodes DEF Resends

\* A request that goes on to its next statement.
LEMMA OnwardStep ==
  ASSUME IInv, CodeInv, NEW r \in Conn, NEW a \in Statement, At(r, a), CodesStay,
         UNCHANGED codes,
         a \notin {"none", "lock", "rows", "codes", "bump", "mail", "commit", "judge",
                   "consume", "create"},
         NEW n, SetReq(r, n), n.kind = req[r].kind, n.key = req[r].key,
         n.at = Flow[req[r].kind][a]
  PROVE  CodeInv'
<1>1. req[r].at = a /\ req[r].kind \in Kinds /\ a \in Stage[req[r].kind]
  BY Standing
<1>2. n.at \in Stage[req[r].kind]
  BY <1>1, FlowCovers, FlowStays
<1>3. CASE req[r].kind \notin {"verify", "resend"}
  BY <1>1, <1>2, <1>3, WhereFrom, StrangerStep
<1>4. CASE req[r].kind \in {"verify", "resend"}
  <2>1. req'[r] = n /\ codes' >= codes
    BY RequestIs DEF CodeInv, Drawn
  <2>2. Resending(r) /\ Verifying(r)
    BY DEF CodeInv
  <2>3. Resending(r)'
    <3>1. CASE req[r].kind = "resend"
      <4>1. a \in {"find", "supersede"} /\ n.at \in {"supersede", "create"}
        BY <1>1, <3>1, CodeFlow
      <4>2. req[r].key \in Code /\ req[r].key <= codes /\ db[req[r].key] = NoRow
        BY <1>1, <2>2, <3>1, <4>1 DEF Resending, Resends
      <4> QED
        BY <2>1, <4>1, <4>2 DEF Resending, CodesStay
    <3>2. CASE req[r].kind = "verify"
      BY <2>1, <3>2 DEF Resending, Resends
    <3> QED
      BY <1>4, <3>1, <3>2
  <2>4. Verifying(r)'
    <3>1. CASE req[r].kind = "resend"
      BY <2>1, <3>1 DEF Verifying
    <3>2. CASE req[r].kind = "verify"
      <4>1. CASE a = "find"
        BY <1>1, <2>1, <2>2, <3>2, <4>1, CodeFlow DEF Verifying, CodesStay
      <4>2. CASE a # "find"
        <5>1. a \in {"user", "device", "issue"} /\ n.at \in {"device", "issue", "commit"}
          BY <1>1, <3>2, <4>2, CodeFlow
        <5>2. /\ req[r].key \in Code /\ db[req[r].key] # NoRow
              /\ ~db[req[r].key].used /\ w[r][req[r].key] # Nil
          BY <1>1, <2>2, <3>2, <5>1 DEF Verifying
        <5> QED
          BY <2>1, <5>1, <5>2 DEF Verifying, CodesStay
      <4> QED
        BY <4>1, <4>2
    <3> QED
      BY <1>4, <3>1, <3>2
  <2>5. n.at # "none" /\ n.at # "mail"
    BY <1>1, <1>2, <1>4, WhereFrom, CodeFlow
  <2>6. Clean(r)'
    BY <2>1, <2>5 DEF Clean
  <2> QED
    BY <1>1, <2>1, <2>3, <2>4, <2>6, DrawnStays, QuietCodes DEF Resends
<1> QED
  BY <1>3, <1>4

LEMMA PutPast ==
  ASSUME IInv, NEW r \in Conn, NEW x, x \notin Code, NEW v, Put(r, x, v), UNCHANGED db
  PROVE  CodesStay
<1>1. \A q \in Conn, y \in Row : w'[q][y] = IF q = r /\ y = x THEN v ELSE w[q][y]
  BY PutIs DEF IInv, TokenInv
<1>2. Code \subseteq Row
  BY CodeInRow
<1> QED
  BY <1>1, <1>2 DEF CodesStay

LEMMA DeviceIsNoCode ==
  ASSUME IInv, NEW r \in Conn PROVE req[r].dev \notin Code
  BY CodeInRow DEF IInv, RequestInv, Requests, Row

\* These write no code.
LEMMA NoCodeWritten ==
  ASSUME IInv, NEW r \in Conn,
         \/ \E k \in Kind : Begin(r, k)
         \/ Find(r) \/ WriteUser(r) \/ SignInDevice(r) \/ TouchDevice(r) \/ RetireDevice(r)
         \/ IssueToken(r) \/ RevokeOne(r) \/ Rotate(r) \/ LockToken(r) \/ Revoke(r)
         \/ \E t \in Tok : RevokeRow(r, t)
         \/ Supersede(r) \/ Judge(r)
  PROVE  CodesStay
<1>1. CASE \/ \E k \in Kind : Begin(r, k)
           \/ Find(r) \/ Revoke(r) \/ Supersede(r) \/ Judge(r)
  BY <1>1 DEF Begin, Find, Revoke, Supersede, Judge, CodesStay
<1>2. CASE WriteUser(r)
  BY <1>2, PutPast, CodeInRow DEF WriteUser
<1>3. CASE SignInDevice(r) \/ TouchDevice(r) \/ RetireDevice(r)
  BY <1>3, PutPast, DeviceIsNoCode DEF SignInDevice, TouchDevice, RetireDevice
<1>4. CASE IssueToken(r)
  <2>1. Fresh \notin Code
    BY <1>4, FreshIs, CodeInRow DEF IssueToken
  <2> QED
    BY <1>4, <2>1, PutPast DEF IssueToken
<1>5. CASE RevokeOne(r)
  <2>1. req[r].key \notin Code
    BY <1>5, Standing, CodeInRow DEF RevokeOne, Placed, Statement
  <2> QED
    BY <1>5, <2>1, PutPast DEF RevokeOne
<1>6. CASE Rotate(r)
  <2>1. At(r, "rotate") /\ Unused # {} /\ UNCHANGED db
    BY <1>6 DEF Rotate
  <2>2. req[r].kind = "refresh" /\ req[r].at = "rotate"
    BY <2>1, Standing, StageKinds DEF Statement
  <2>3. req[r].key \notin Code /\ Fresh \notin Code
    BY <2>1, <2>2, FreshIs, CodeInRow DEF IInv, RequestInv, HoldsKey
  <2>4. PICK v, z : w' = [w EXCEPT ![r][Fresh] = v, ![r][req[r].key] = z]
    BY <1>6 DEF Rotate
  <2> QED
    BY <2>1, <2>3, <2>4, CodeInRow DEF IInv, TokenInv, Shape, CodesStay
<1>7. CASE LockToken(r)
  <2>1. At(r, "lock")
    BY <1>7 DEF LockToken
  <2>2. req[r].key \notin Code
    BY <2>1, Standing, CodeInRow DEF Placed, Statement
  <2> QED
    BY <1>7, <2>2, PutPast DEF LockToken
<1>8. ASSUME NEW t \in Tok, RevokeRow(r, t) PROVE CodesStay
  <2>1. UNCHANGED db /\ (UNCHANGED w \/ \E v : Put(r, t, v))
    BY <1>8 DEF RevokeRow, Put
  <2>2. t \notin Code
    BY CodeInRow
  <2> QED
    BY <2>1, <2>2, PutPast DEF CodesStay
<1> QED
  BY <1>1, <1>2, <1>3, <1>4, <1>5, <1>6, <1>7, <1>8

LEMMA GoCodes ==
  ASSUME IInv, CodeInv, NEW r \in Conn, NEW a \in Statement, At(r, a), CodesStay,
         UNCHANGED codes, Go(r),
         a \notin {"none", "lock", "rows", "codes", "bump", "mail", "commit", "judge",
                   "consume", "create"}
  PROVE  CodeInv'
<1>1. SetReq(r, Onward(r)) /\ req[r].at = a
  BY DEF Go, SetReq, At
<1>2. Onward(r).kind = req[r].kind /\ Onward(r).key = req[r].key
      /\ Onward(r).at = Flow[req[r].kind][a]
  BY <1>1, OnwardIs DEF IInv
<1> QED
  BY <1>1, <1>2, OnwardStep

LEMMA PlainCodes ==
  ASSUME IInv, CodeInv, NEW r \in Conn, Find(r) \/ WriteUser(r)
  PROVE  CodeInv'
<1>1. PICK fit : SetReq(r, [Onward(r) EXCEPT !.fit = fit])
  BY DEF Find, WriteUser, SetReq
<1>2. PICK a \in {"find", "user"} : At(r, a)
  BY DEF Find, WriteUser
<1>3. CodesStay /\ UNCHANGED codes
  BY NoCodeWritten DEF Find, WriteUser
<1>4. /\ Onward(r) \in Requests /\ Onward(r).kind = req[r].kind
      /\ Onward(r).key = req[r].key /\ Onward(r).at = Flow[req[r].kind][a]
  BY <1>2, OnwardIs DEF IInv, At
<1> DEFINE n == [Onward(r) EXCEPT !.fit = fit]
<1>5. n.kind = req[r].kind /\ n.key = req[r].key /\ n.at = Flow[req[r].kind][a]
  BY <1>4 DEF Requests
<1> HIDE DEF n
<1>6. SetReq(r, n)
  BY <1>1 DEF n
<1> QED
  BY <1>2, <1>3, <1>5, <1>6, OnwardStep DEF Statement

LEMMA DeviceCodes ==
  ASSUME IInv, CodeInv, NEW r \in Conn,
         SignInDevice(r) \/ TouchDevice(r) \/ RetireDevice(r)
  PROVE  CodeInv'
<1>1. PICK a \in {"device", "seen", "retire"} : At(r, a)
  BY DEF SignInDevice, TouchDevice, RetireDevice
<1>2. CodesStay /\ UNCHANGED codes /\ Go(r)
  BY NoCodeWritten DEF SignInDevice, TouchDevice, RetireDevice
<1> QED
  BY <1>1, <1>2, GoCodes DEF Statement

LEMMA TokenCodes ==
  ASSUME IInv, CodeInv, NEW r \in Conn, IssueToken(r) \/ RevokeOne(r) \/ Rotate(r)
  PROVE  CodeInv'
<1>1. PICK a \in {"issue", "one", "rotate"} : At(r, a)
  BY DEF IssueToken, RevokeOne, Rotate
<1>2. CodesStay /\ UNCHANGED codes /\ Go(r)
  BY NoCodeWritten DEF IssueToken, RevokeOne, Rotate
<1> QED
  BY <1>1, <1>2, GoCodes DEF Statement

LEMMA LockCodes == ASSUME IInv, CodeInv, NEW r \in Conn, LockToken(r) PROVE CodeInv'
<1> DEFINE b == IF db[req[r].key].rev \/ db[req[r].key].next # Nil THEN "revoke" ELSE "find"
           n == [req[r] EXCEPT !.at = b]
<1>1. At(r, "lock") /\ SetReq(r, n) /\ UNCHANGED codes
  <2>1. At(r, "lock") /\ UNCHANGED codes
    BY DEF LockToken
  <2>2. req' = [req EXCEPT ![r].at = b]
    BY DEF LockToken
  <2> QED
    BY <2>1, <2>2 DEF SetReq
<1>2. /\ req[r] \in Requests /\ Placed(req[r]) /\ req[r].at = "lock"
      /\ req[r].kind = "refresh"
  BY <1>1, Standing, StageKinds DEF Statement
<1>4. CodesStay
  BY NoCodeWritten
<1>5. n.kind = req[r].kind /\ n.at \in {"revoke", "find"}
  BY <1>2 DEF Requests
<1> HIDE DEF n, b
<1> QED
  BY <1>1, <1>2, <1>4, <1>5, StrangerStep

LEMMA RevokeCodes ==
  ASSUME IInv, CodeInv, NEW r \in Conn, Revoke(r) PROVE CodeInv'
<1>1. At(r, "revoke") /\ CodesStay /\ UNCHANGED codes
  BY DEF Revoke, CodesStay
<1>2. CASE Scope(r) = {}
  <2>1. Go(r)
    BY <1>2 DEF Revoke, Go
  <2> QED
    BY <1>1, <2>1, GoCodes DEF Statement
<1>3. CASE Scope(r) # {}
  <2> DEFINE n == [req[r] EXCEPT !.at = "rows", !.left = Scope(r)]
  <2>1. SetReq(r, n)
    BY <1>3 DEF Revoke, SetReq
  <2>2. req[r] \in Requests /\ req[r].kind \in Kinds /\ "revoke" \in Stage[req[r].kind]
    BY <1>1, Standing DEF Statement
  <2>3. req[r].kind \notin {"verify", "resend"}
    BY <2>2, CodeFlow
  <2>4. n.kind = req[r].kind /\ n.at = "rows"
    BY <2>2 DEF Requests
  <2> HIDE DEF n
  <2> QED
    BY <1>1, <2>1, <2>3, <2>4, StrangerStep
<1> QED
  BY <1>2, <1>3

LEMMA RevokeRowCodes ==
  ASSUME IInv, CodeInv, NEW r \in Conn, NEW t \in Tok, RevokeRow(r, t)
  PROVE  CodeInv'
<1> DEFINE b == IF req[r].left = {t} THEN Flow[req[r].kind]["revoke"] ELSE "rows"
           n == [req[r] EXCEPT !.left = req[r].left \ {t}, !.at = b]
<1>1. At(r, "rows") /\ SetReq(r, n) /\ UNCHANGED codes
  BY DEF RevokeRow, SetReq
<1>2. CodesStay
  BY NoCodeWritten
<1>3. req[r] \in Requests /\ req[r].kind \in Kinds /\ "rows" \in Stage[req[r].kind]
  BY <1>1, Standing DEF Statement
<1>4. req[r].kind \notin {"verify", "resend"}
  BY <1>3, CodeFlow
<1>5. b \in Stage[req[r].kind]
  <2>1. "revoke" \in Stage[req[r].kind]
    BY <1>3 DEF Kinds, Stage
  <2> QED
    BY <1>3, <2>1, FlowCovers, FlowStays
<1>6. b \notin {"none", "mail"}
  BY <1>3, <1>4, <1>5, WhereFrom
<1> HIDE DEF b
<1>7. n.kind = req[r].kind /\ n.at = b
  BY <1>3 DEF Requests
<1> HIDE DEF n
<1> QED
  BY <1>1, <1>2, <1>4, <1>6, <1>7, StrangerStep

-----------------------------------------------------------------------------
(* Statements that write codes.                                             *)

\* A code that exists is seen as a row of its table.
LEMMA SeenCode ==
  ASSUME CodeInv, NEW r \in Conn, NEW c \in Code, db[c] # NoRow
  PROVE  See(r, c) \in CodeRow
  BY DEF CodeInv, Drawn, See

\* r writes one code nobody else has.
LEMMA CodePut ==
  ASSUME IInv, CodeInv, NEW r \in Conn, NEW c \in Code, NEW v \in CodeRow,
         Free(r, c), Put(r, c, v), UNCHANGED <<db, codes>>,
         NEW n, SetReq(r, n), n.kind = req[r].kind, n.key = req[r].key,
         req[r].at # "commit",
         db[c] = NoRow => n.kind = "resend" /\ n.key = c /\ n.at = "commit",
         Resending(r)', Verifying(r)', n.at \notin {"none", "mail"}
  PROVE  CodeInv'
<1>1. \A q \in Conn : req'[q] = IF q = r THEN n ELSE req[q]
  BY RequestIs
<1>2. \A q \in Conn, d \in Code : w'[q][d] = IF q = r /\ d = c THEN v ELSE w[q][d]
  <2>1. \A q \in Conn, y \in Row : w'[q][y] = IF q = r /\ y = c THEN v ELSE w[q][y]
    BY PutIs DEF IInv, TokenInv
  <2> QED
    BY <2>1, CodeInRow
<1>3. Drawn'
  BY <1>2 DEF CodeInv, Drawn
<1>4. Alone(r)
  <2>1. codes' >= codes
    BY DEF CodeInv, Drawn
  <2>2. Resends(r)' => Resends(r) /\ req'[r].key = req[r].key
    BY <1>1 DEF Resends
  <2> QED
    BY <1>1, <1>2, <2>1, <2>2 DEF Alone
<1>5. Clean(r)'
  BY <1>1 DEF Clean
<1>6. ASSUME NEW d \in Code, w'[r][d] # Nil, db'[d] = NoRow
      PROVE  Resends(r)' /\ req'[r].at = "commit" /\ req'[r].key = d
  <2>1. d = c
    BY <1>2, <1>6 DEF CodeInv, CreatesOwn
  <2> QED
    BY <1>1, <1>6, <2>1 DEF Resends
<1> QED
  BY <1>3, <1>4, <1>5, <1>6, AloneKeeps

LEMMA SupersedeCodes ==
  ASSUME IInv, CodeInv, NEW r \in Conn, Supersede(r) PROVE CodeInv'
<1>1. At(r, "supersede") /\ CodesStay /\ UNCHANGED codes
  BY DEF Supersede, CodesStay
<1>2. CASE Unspent(r) = {}
  <2>1. Go(r)
    BY <1>2 DEF Supersede, Go
  <2> QED
    BY <1>1, <2>1, GoCodes DEF Statement
<1>3. CASE Unspent(r) # {}
  <2> DEFINE n == [req[r] EXCEPT !.at = "codes", !.left = Unspent(r)]
  <2>1. SetReq(r, n)
    BY <1>3 DEF Supersede, SetReq
  <2>2. /\ req[r] \in Requests /\ req[r].at = "supersede" /\ req[r].kind \in Kinds
        /\ "supersede" \in Stage[req[r].kind]
    BY <1>1, Standing DEF Statement
  <2>3. n.kind = req[r].kind /\ n.key = req[r].key /\ n.at = "codes" /\ n.left = Unspent(r)
    BY <2>2 DEF Requests
  <2> HIDE DEF n
  <2>4. req[r].kind = "resend"
    BY <2>2, WhereFrom
  <2>5. \A c \in Unspent(r) : c \in Code /\ db[c] # NoRow
    BY <2>2 DEF Unspent, See, CodeInv, CreatesOwn
  <2>6. req'[r] = n /\ codes' >= codes
    BY <1>1, <2>1, RequestIs DEF CodeInv, Drawn
  <2>7. req[r].key \in Code /\ req[r].key <= codes /\ db[req[r].key] = NoRow
    BY <2>2, <2>4 DEF CodeInv, Resending, Resends
  <2>8. \A c \in n.left : c \in Code /\ db'[c] # NoRow
    BY <1>1, <2>3, <2>5 DEF CodesStay
  <2>9. Resending(r)' /\ Verifying(r)' /\ Clean(r)'
    BY <1>1, <2>3, <2>4, <2>6, <2>7, <2>8 DEF Resending, Verifying, Clean, CodesStay
  <2> QED
    BY <1>1, <2>1, <2>2, <2>3, <2>4, <2>6, <2>9, DrawnStays, QuietCodes DEF Resends
<1> QED
  BY <1>2, <1>3

LEMMA SupersedeCodeCodes ==
  ASSUME IInv, CodeInv, NEW r \in Conn, NEW c \in Code, SupersedeCode(r, c)
  PROVE  CodeInv'
<1> DEFINE b == IF req[r].left = {c} THEN Flow[req[r].kind]["supersede"] ELSE "codes"
           n == [req[r] EXCEPT !.left = req[r].left \ {c}, !.at = b]
           v == [See(r, c) EXCEPT !.used = TRUE]
<1>1. /\ At(r, "codes") /\ c \in req[r].left /\ Free(r, c) /\ Put(r, c, v)
      /\ UNCHANGED <<db, codes>> /\ SetReq(r, n)
  BY DEF SupersedeCode, SetReq
<1>2. /\ req[r] \in Requests /\ req[r].at = "codes" /\ req[r].kind \in Kinds
      /\ "codes" \in Stage[req[r].kind]
  BY <1>1, Standing DEF Statement
<1>3. req[r].kind = "resend"
  BY <1>2, WhereFrom
<1>4. /\ req[r].key \in Code /\ req[r].key <= codes /\ db[req[r].key] = NoRow
      /\ \A d \in req[r].left : d \in Code /\ db[d] # NoRow
  BY <1>2, <1>3 DEF CodeInv, Resending, Resends
<1>5. b \in {"create", "codes"}
  BY <1>3, CodeFlow
<1> HIDE DEF b
<1>6. /\ n.kind = "resend" /\ n.key = req[r].key /\ n.at \in {"create", "codes"}
      /\ n.left = req[r].left \ {c}
  BY <1>2, <1>3, <1>5 DEF Requests
<1> HIDE DEF n
<1>7. v \in CodeRow
  BY <1>1, <1>4, SeenCode, SpentCode
<1> HIDE DEF v
<1>8. req'[r] = n
  BY <1>1, RequestIs
<1>9. Resending(r)' /\ Verifying(r)'
  BY <1>1, <1>4, <1>6, <1>8 DEF Resending, Verifying
<1> QED
  BY <1>1, <1>2, <1>3, <1>4, <1>6, <1>7, <1>9, CodePut

\* A code of one's own number is free.
LEMMA CreateCodes == ASSUME IInv, CodeInv, NEW r \in Conn, CreateCode(r) PROVE CodeInv'
<1> DEFINE c == req[r].key
           v == [used |-> FALSE, tries |-> 0]
<1>1. At(r, "create") /\ Put(r, c, v) /\ UNCHANGED <<db, codes>> /\ SetReq(r, Onward(r))
  BY DEF CreateCode, Go, SetReq
<1>2. req[r].at = "create" /\ req[r].kind \in Kinds /\ "create" \in Stage[req[r].kind]
  BY <1>1, Standing DEF Statement
<1>3. req[r].kind = "resend"
  BY <1>2, WhereFrom
<1>4. c \in Code /\ c <= codes /\ db[c] = NoRow
  BY <1>2, <1>3 DEF CodeInv, Resending, Resends
<1>5. Free(r, c)
  <2> SUFFICES ASSUME NEW q \in Conn \ {r}, w[q][c] # Nil PROVE FALSE
    BY DEF Free
  <2>1. Resends(q) /\ req[q].key = c
    BY <1>4 DEF CodeInv, CreatesOwn
  <2> QED
    BY <1>3, <2>1 DEF CodeInv, OwnNumber, Resends
<1>6. Onward(r).kind = "resend" /\ Onward(r).key = c /\ Onward(r).at = "commit"
  BY <1>2, <1>3, OnwardIs, CodeFlow DEF IInv
<1>7. v \in CodeRow
  BY DEF CodeRow
<1>8. req'[r] = Onward(r) /\ w'[r][c] = v
  <2>1. c \in Row
    BY <1>4, CodeInRow
  <2>2. w'[r][c] = v
    BY <1>1, <2>1, PutIs DEF IInv, TokenInv
  <2> QED
    BY <1>1, <2>2, RequestIs
<1>9. Resending(r)' /\ Verifying(r)'
  BY <1>1, <1>4, <1>6, <1>7, <1>8, CodeInRow DEF Resending, Verifying
<1> QED
  BY <1>1, <1>2, <1>3, <1>4, <1>5, <1>6, <1>7, <1>9, CodePut

\* Whoever finds the code unspent spends it: nobody else has it.
LEMMA ConsumeCodes == ASSUME IInv, CodeInv, NEW r \in Conn, ConsumeCode(r) PROVE CodeInv'
<1> DEFINE c == req[r].key
           v == [See(r, c) EXCEPT !.used = TRUE]
<1>1. /\ At(r, "consume") /\ Free(r, c) /\ ~See(r, c).used /\ Put(r, c, v)
      /\ UNCHANGED <<db, codes>> /\ SetReq(r, Onward(r))
  BY DEF ConsumeCode, Go, SetReq
<1>2. req[r].at = "consume" /\ req[r].kind \in Kinds /\ "consume" \in Stage[req[r].kind]
  BY <1>1, Standing DEF Statement
<1>3. req[r].kind = "verify"
  BY <1>2, WhereFrom
<1>4. c \in Code /\ db[c] # NoRow /\ w[r][c] = Nil
  BY <1>2, <1>3 DEF CodeInv, Verifying
<1>5. ~db[c].used
  BY <1>1, <1>4 DEF See
<1>6. Onward(r).kind = "verify" /\ Onward(r).key = c /\ Onward(r).at = "user"
  BY <1>2, <1>3, OnwardIs, CodeFlow DEF IInv
<1>7. v \in CodeRow
  BY <1>4, SeenCode, SpentCode
<1> HIDE DEF v
<1>8. req'[r] = Onward(r) /\ w'[r][c] = v
  <2>1. c \in Row
    BY <1>4, CodeInRow
  <2>2. w'[r][c] = v
    BY <1>1, <2>1, PutIs DEF IInv, TokenInv
  <2> QED
    BY <1>1, <2>2, RequestIs
<1>9. Verifying(r)'
  BY <1>1, <1>4, <1>5, <1>6, <1>7, <1>8, CodeInRow DEF Verifying
<1>10. Resending(r)'
  BY <1>6, <1>8 DEF Resending, Resends
<1> QED
  BY <1>1, <1>2, <1>3, <1>4, <1>6, <1>7, <1>9, <1>10, CodePut

\* A guess is judged, and the code stays.
LEMMA JudgeCodes == ASSUME IInv, CodeInv, NEW r \in Conn, Judge(r) PROVE CodeInv'
<1>1. At(r, "judge") /\ CodesStay /\ UNCHANGED codes
  BY DEF Judge, CodesStay
<1>2. /\ req[r] \in Requests /\ req[r].at = "judge" /\ req[r].kind \in Kinds
      /\ "judge" \in Stage[req[r].kind]
  BY <1>1, Standing DEF Statement
<1>3. req[r].kind = "verify"
  BY <1>2, WhereFrom
<1>4. \A c \in Code : w[r][c] = Nil
  BY <1>2, <1>3 DEF CodeInv, Verifying
<1>5. PICK c \in Code :
         /\ db[c] # NoRow
         /\ req' = [req EXCEPT ![r] = IF req[r].key = c THEN Onward(r)
                                      ELSE [req[r] EXCEPT !.key = c, !.at = "bump"]]
  BY DEF Judge, Latest
<1>6. PICK n : /\ SetReq(r, n) /\ n.kind = "verify" /\ n.key = c
               /\ n.at \in {"bump", "consume"}
  <2>1. CASE req[r].key = c
    <3>1. SetReq(r, Onward(r))
      BY <1>5, <2>1 DEF SetReq
    <3>2. Onward(r).kind = "verify" /\ Onward(r).key = c /\ Onward(r).at = "consume"
      BY <1>2, <1>3, <2>1, OnwardIs, CodeFlow DEF IInv
    <3> QED
      BY <3>1, <3>2
  <2>2. CASE req[r].key # c
    <3> DEFINE m == [req[r] EXCEPT !.key = c, !.at = "bump"]
    <3>1. SetReq(r, m)
      BY <1>5, <2>2 DEF SetReq
    <3>2. m.kind = "verify" /\ m.key = c /\ m.at = "bump"
      BY <1>2, <1>3 DEF Requests
    <3> HIDE DEF m
    <3> QED
      BY <3>1, <3>2
  <2> QED
    BY <2>1, <2>2
<1>7. req'[r] = n /\ codes' >= codes
  BY <1>1, <1>6, RequestIs DEF CodeInv, Drawn
<1>8. Verifying(r)' /\ Resending(r)' /\ Clean(r)'
  BY <1>1, <1>4, <1>5, <1>6, <1>7 DEF Verifying, Resending, Resends, Clean, CodesStay
<1> QED
  BY <1>1, <1>3, <1>6, <1>7, <1>8, DrawnStays, QuietCodes DEF Resends

\* A statement of its own on a code nobody has, which ends the request.
LEMMA EndCodes ==
  ASSUME IInv, CodeInv, NEW r \in Conn, SendCode(r) \/ BumpAttempt(r)
  PROVE  CodeInv'
<1> DEFINE k == req[r].key
<1>1. /\ At(r, "mail") \/ At(r, "bump")
      /\ UNCHANGED <<w, codes>> /\ SetReq(r, Idle)
  BY DEF SendCode, BumpAttempt, SetReq
<1>2. req[r].at \in {"mail", "bump"} /\ req[r].kind \in Kinds /\ req[r].at \in Stage[req[r].kind]
  BY <1>1, Standing DEF Statement
<1>3. /\ k \in Code /\ db[k] # NoRow /\ \A c \in Code : w[r][c] = Nil
  <2>1. CASE req[r].at = "mail"
    BY <1>2, <2>1, WhereFrom DEF CodeInv, Resending, Resends, Clean
  <2>2. CASE req[r].at = "bump"
    BY <1>2, <2>2, WhereFrom DEF CodeInv, Verifying
  <2> QED
    BY <1>2, <2>1, <2>2
<1>4. db[k] \in CodeRow
  BY <1>3 DEF CodeInv, Drawn
<1>5. PICK v \in CodeRow : \/ UNCHANGED db
                           \/ Free(r, k) /\ db' = [db EXCEPT ![k] = v]
  <2>1. CASE SendCode(r)
    <3>1. [db[k] EXCEPT !.used = TRUE] \in CodeRow
      BY <1>4, SpentCode
    <3>2. \/ UNCHANGED db
          \/ Free(r, k) /\ db' = [db EXCEPT ![k] = [db[k] EXCEPT !.used = TRUE]]
      BY <2>1 DEF SendCode
    <3> QED
      BY <3>1, <3>2
  <2>2. CASE BumpAttempt(r)
    <3>1. [db[k] EXCEPT !.tries = @ + 1] \in CodeRow
      BY <1>4 DEF CodeRow
    <3>2. Free(r, k) /\ db' = [db EXCEPT ![k] = [db[k] EXCEPT !.tries = @ + 1]]
      BY <2>2 DEF BumpAttempt
    <3> QED
      BY <3>1, <3>2
  <2> QED
    BY <2>1, <2>2
<1> HIDE DEF k
<1>6. \A c \in Code : db'[c] = db[c] \/ (c = k /\ Free(r, k) /\ db'[c] = v)
  BY <1>3, <1>5, CodeInRow DEF IInv, TokenInv, Shape
<1>7. \A q \in Conn : req'[q] = IF q = r THEN Idle ELSE req[q]
  BY <1>1, RequestIs
<1>8. Idle.kind = "none" /\ Idle.at = "none"
  BY DEF Idle
<1>9. Drawn'
  BY <1>1, <1>3, <1>6 DEF CodeInv, Drawn
<1>10. Alone(r)
  <2>1. codes' >= codes
    BY <1>1 DEF CodeInv, Drawn
  <2>2. ~Resends(r)'
    BY <1>7, <1>8 DEF Resends
  <2>3. v # NoRow
    BY CodeInRow
  <2> QED
    BY <1>1, <1>3, <1>6, <1>7, <2>1, <2>2, <2>3 DEF Alone
<1>11. Resending(r)' /\ Verifying(r)' /\ Clean(r)'
  BY <1>1, <1>3, <1>7, <1>8 DEF Resending, Resends, Verifying, Clean
<1> QED
  BY <1>1, <1>3, <1>9, <1>10, <1>11, AloneKeeps

-----------------------------------------------------------------------------
(* The beginning and the end of a request.                                  *)

\* A code that is about to be created takes the next number.
LEMMA BeginCodes ==
  ASSUME IInv, CodeInv, NEW r \in Conn, NEW k \in Kind, Begin(r, k) PROVE CodeInv'
<1>1. req[r] = Idle /\ CodesStay
  BY DEF Begin, CodesStay
<1>2. codes' = IF k = "resend" THEN codes + 1 ELSE codes
  BY DEF Begin
<1>3. PICK key, d :
         /\ key \in Keys(k)
         /\ req' = [req EXCEPT ![r] = [Idle EXCEPT !.kind = k, !.at = First(k), !.dev = d,
                                                   !.key = key, !.found = Doomed(k, d)]]
  BY DEF Begin
<1> DEFINE n == [Idle EXCEPT !.kind = k, !.at = First(k), !.dev = d, !.key = key,
                             !.found = Doomed(k, d)]
<1>4. SetReq(r, n)
  BY <1>3 DEF SetReq
<1>5. n.kind = k /\ n.key = key /\ n.at = First(k)
  BY DEF Idle
<1> HIDE DEF n
<1>6. k \in {"verify", "resend"} => First(k) = "find"
  BY DEF First
<1>7. First(k) \notin {"none", "mail"}
  BY KindsAre DEF Kinds, First
<1>8. codes \in Nat /\ req[r].kind = "none" /\ req[r].at = "none"
  BY <1>1 DEF CodeInv, Drawn, Idle
<1>9. \A c \in Code : w[r][c] = Nil
  BY <1>8 DEF CodeInv, Clean
<1>10. req'[r] = n
  BY <1>4, RequestIs
<1>11. k = "resend" => key \in Code /\ key = codes + 1 /\ db[key] = NoRow
  <2> SUFFICES ASSUME k = "resend" PROVE key \in Code /\ key = codes + 1 /\ db[key] = NoRow
    OBVIOUS
  <2>1. key \in Code /\ key = codes + 1
    BY <1>3 DEF Keys
  <2>2. ~(key <= codes)
    BY <1>8, <2>1
  <2> QED
    BY <2>1, <2>2 DEF CodeInv, Drawn
<1>12. Resending(r)'
  BY <1>1, <1>2, <1>5, <1>6, <1>8, <1>10, <1>11 DEF Resending, Resends, CodesStay
<1>13. Verifying(r)'
  BY <1>1, <1>5, <1>6, <1>9, <1>10 DEF Verifying, CodesStay
<1>14. Clean(r)'
  BY <1>5, <1>7, <1>10 DEF Clean
<1>15. Drawn' /\ codes' >= codes
  BY <1>1, <1>2, <1>8, CodeInRow DEF CodeInv, Drawn, CodesStay
<1>16. n.kind = "resend" => n.key > codes
  BY <1>5, <1>8, <1>11
<1> QED
  BY <1>1, <1>4, <1>8, <1>12, <1>13, <1>14, <1>15, <1>16, QuietCodes DEF Resends

\* The transaction of r is over, rolled back or committed.
LEMMA OverCodes ==
  ASSUME IInv, CodeInv, NEW r \in Conn, Drop(r), UNCHANGED codes, Drawn',
         \A c \in Code : db'[c] = db[c] \/ (w[r][c] # Nil /\ db'[c] = w[r][c]),
         NEW n, SetReq(r, n),
         \/ n.kind = "none"
         \/ /\ n.kind = "resend" /\ Resends(r) /\ n.key = req[r].key /\ n.at = "mail"
            /\ n.key \in Code /\ n.key <= codes /\ db'[n.key] # NoRow
  PROVE  CodeInv'
<1>1. \A q \in Conn : req'[q] = IF q = r THEN n ELSE req[q]
  BY RequestIs
<1>2. \A q \in Conn, c \in Code : w'[q][c] = IF q = r THEN Nil ELSE w[q][c]
  BY CodeInRow DEF Drop, Blank, IInv, TokenInv, Shape
<1>3. \A c \in Code : w[r][c] # Nil => Free(r, c) /\ w[r][c] # NoRow
  <2>1. \A c \in Code : w[r][c] # Nil => Free(r, c)
    BY DEF CodeInv, OneCodeWriter, Free
  <2>2. \A c \in Code : w[r][c] # Nil => w[r][c] # NoRow
    BY CodeInRow DEF CodeInv, Drawn
  <2> QED
    BY <2>1, <2>2
<1>4. Alone(r)
  <2>1. codes' >= codes
    BY DEF CodeInv, Drawn
  <2>2. Resends(r)' => Resends(r) /\ req'[r].key = req[r].key
    BY <1>1 DEF Resends
  <2>3. \A c \in Code : db'[c] # NoRow /\ db[c] = NoRow => Resends(r) /\ req[r].key = c
    BY DEF CodeInv, CreatesOwn
  <2> QED
    BY <1>1, <1>2, <1>3, <2>1, <2>2, <2>3 DEF Alone
<1>5. Resending(r)' /\ Verifying(r)' /\ Clean(r)'
  BY <1>1, <1>2 DEF Resending, Resends, Verifying, Clean
<1> QED
  BY <1>2, <1>4, <1>5, AloneKeeps

LEMMA FailCodes == ASSUME IInv, CodeInv, NEW r \in Conn, Fail(r) PROVE CodeInv'
<1>1. Drop(r) /\ SetReq(r, Idle) /\ UNCHANGED <<db, codes>>
  BY DEF Fail, Drop, SetReq
<1>2. Drawn'
  BY <1>1, CodeInRow DEF CodeInv, Drawn, Drop, Blank, IInv, TokenInv, Shape
<1>3. Idle.kind = "none"
  BY DEF Idle
<1> QED
  BY <1>1, <1>2, <1>3, OverCodes

LEMMA CommitCodes == ASSUME IInv, CodeInv, NEW r \in Conn, Commit(r) PROVE CodeInv'
<1>1. /\ At(r, "commit") /\ Drop(r) /\ UNCHANGED codes /\ db' = View(r)
      /\ SetReq(r, IF req[r].kind = "resend" THEN Onward(r) ELSE Idle)
  BY DEF Commit, Drop, SetReq, IInv, RequestInv
<1>2. \A c \in Code : db'[c] = IF w[r][c] # Nil THEN w[r][c] ELSE db[c]
  BY <1>1, CodeInRow DEF View, See
<1>3. \A q \in Conn, c \in Code : w'[q][c] = IF q = r THEN Nil ELSE w[q][c]
  BY <1>1, CodeInRow DEF Drop, Blank, IInv, TokenInv, Shape
<1>4. req[r].at = "commit"
  BY <1>1 DEF At
<1>5. \A c \in Code : w[r][c] # Nil => w[r][c] \in CodeRow /\ c <= codes
  <2> SUFFICES ASSUME NEW c \in Code, w[r][c] # Nil PROVE w[r][c] \in CodeRow /\ c <= codes
    OBVIOUS
  <2>1. CASE db[c] = NoRow
    BY <2>1 DEF CodeInv, Drawn, CreatesOwn, Resending
  <2>2. CASE db[c] # NoRow
    BY <2>2 DEF CodeInv, Drawn
  <2> QED
    BY <2>1, <2>2
<1>6. Drawn'
  BY <1>1, <1>2, <1>3, <1>5 DEF CodeInv, Drawn
<1>7. CASE req[r].kind = "resend"
  <2>1. /\ Onward(r).kind = "resend" /\ Onward(r).key = req[r].key
        /\ Onward(r).at = "mail"
    BY <1>4, <1>7, OnwardIs, CodeFlow DEF IInv
  <2>2. req[r].key \in Code /\ req[r].key <= codes /\ w[r][req[r].key] # Nil
    BY <1>4, <1>7 DEF CodeInv, Resending, Resends
  <2>3. db'[req[r].key] # NoRow
    BY <1>2, <1>5, <2>2, CodeInRow
  <2>4. SetReq(r, Onward(r))
    BY <1>1, <1>7
  <2> QED
    BY <1>1, <1>2, <1>6, <1>7, <2>1, <2>2, <2>3, <2>4, OverCodes DEF Resends
<1>8. CASE req[r].kind # "resend"
  <2>1. SetReq(r, Idle) /\ Idle.kind = "none"
    BY <1>1, <1>8 DEF Idle
  <2> QED
    BY <1>1, <1>2, <1>6, <2>1, OverCodes
<1> QED
  BY <1>7, <1>8

-----------------------------------------------------------------------------
LEMMA NextCodes == ASSUME IInv, CodeInv, [Next]_vars PROVE CodeInv'
<1>1. CASE UNCHANGED vars
  <2>1. UNCHANGED <<db, w, req, codes>>
    BY <1>1 DEF vars
  <2> QED
    BY <2>1 DEF CodeInv, Drawn, OneCodeWriter, CreatesOwn, OwnNumber, Resends, Resending,
                Verifying, Clean
<1>2. ASSUME NEW r \in Conn, NEW k \in Kind, Begin(r, k) PROVE CodeInv'
  BY <1>2, BeginCodes
<1>3. ASSUME NEW r \in Conn, NEW t \in Tok, RevokeRow(r, t) PROVE CodeInv'
  BY <1>3, RevokeRowCodes
<1>4. ASSUME NEW r \in Conn, NEW c \in Code, SupersedeCode(r, c) PROVE CodeInv'
  BY <1>4, SupersedeCodeCodes
<1>5. ASSUME NEW r \in Conn,
             \/ Find(r) \/ WriteUser(r) \/ SignInDevice(r) \/ TouchDevice(r) \/ RetireDevice(r)
             \/ IssueToken(r) \/ RevokeOne(r) \/ Rotate(r) \/ LockToken(r) \/ Revoke(r)
      PROVE  CodeInv'
  BY <1>5, PlainCodes, DeviceCodes, TokenCodes, LockCodes, RevokeCodes
<1>6. ASSUME NEW r \in Conn,
             \/ Supersede(r) \/ CreateCode(r) \/ ConsumeCode(r) \/ SendCode(r)
             \/ BumpAttempt(r) \/ Judge(r) \/ Commit(r) \/ Fail(r)
      PROVE  CodeInv'
  BY <1>6, SupersedeCodes, CreateCodes, ConsumeCodes, EndCodes, JudgeCodes, CommitCodes,
     FailCodes
<1> QED
  BY <1>1, <1>2, <1>3, <1>4, <1>5, <1>6 DEF Next

\* A code signs one user in once (VerifyEmail, ConsumeVerificationCode): whatever
\* number of requests guess it right at once, ask for a newer one or fail to mail it,
\* a verification that is about to commit finds its code unspent by anyone else.
THEOREM CodesSpentOnce == Spec => []CodeSpentOnce
<1>1. IInv /\ CodeInv /\ [Next]_vars => CodeInv'
  BY NextCodes
<1>2. CodeInv => CodeSpentOnce
  BY DEF CodeInv, Verifying, CodeSpentOnce, At
<1>3. Spec => []CodeInv
  BY CodeInit, Inductive, <1>1, PTL DEF Spec
<1> QED
  BY <1>2, <1>3, PTL

-----------------------------------------------------------------------------
(* Wrong guesses.                                                           *)

\* Those whose wrong guess at c is still to be counted.
Bumping(c) == {r \in Conn : At(r, "bump") /\ req[r].key = c}

\* A guess that was judged wrong is in the count of its code, or about to be.
Guesses ==
    \A c \in Code :
        /\ wrong[c] >= Cardinality(Bumping(c))
        /\ IF db[c] = NoRow THEN wrong[c] = 0
                            ELSE wrong[c] - Cardinality(Bumping(c)) <= db[c].tries

\* A transaction that has written a code commits the count it found.
TriesKept ==
    \A r \in Conn, c \in Code : w[r][c] # Nil /\ db[c] # NoRow => w[r][c].tries = db[c].tries

GuessInv == wrong \in [Code -> Nat] /\ Guesses /\ TriesKept /\ CapHolds

LEMMA BumpingAre ==
  ASSUME NEW c \in Code
  PROVE  /\ Bumping(c) \subseteq Conn
         /\ IsFiniteSet(Bumping(c)) /\ Cardinality(Bumping(c)) \in Nat
<1>1. Bumping(c) \subseteq Conn
  BY DEF Bumping
<1>2. IsFiniteSet(Bumping(c))
  BY <1>1, RowsAssumption, FS_Subset
<1> QED
  BY <1>1, <1>2, FS_CardinalityType

LEMMA GuessInit == Init => GuessInv
<1> SUFFICES ASSUME Init PROVE GuessInv
  OBVIOUS
<1>1. wrong = [c \in Code |-> 0] /\ req = [r \in Conn |-> Idle] /\ w = [r \in Conn |-> Blank]
  BY DEF Init
<1>2. \A c \in Code : Cardinality(Bumping(c)) = 0
  <2>1. \A c \in Code : Bumping(c) = {}
    BY <1>1 DEF Bumping, At, Idle
  <2> QED
    BY <2>1, FS_EmptySet
<1>3. \A c \in Code : db[c] # NoRow => db[c].tries \in Nat
  BY CodeInit DEF CodeInv, Drawn, CodeRow
<1>4. Cardinality(Conn) \in Nat /\ MaxGuess \in Nat \ {0}
  BY RowsAssumption, FS_CardinalityType
<1>5. TriesKept
  BY <1>1, CodeInRow DEF TriesKept, Blank
<1> QED
  BY <1>1, <1>2, <1>3, <1>4, <1>5 DEF GuessInv, Guesses, CapHolds

\* Only a guess that is judged wrong goes on to be counted.
LEMMA BumpStays ==
  ASSUME IInv, NEW r \in Conn, Acts(r), ~Judge(r) PROVE req'[r].at # "bump" \/ At(r, "bump")
<1>1. DOMAIN req = Conn /\ req[r] \in Requests
  BY DEF IInv, RequestInv
<1>2. ASSUME NEW k \in Kind, Begin(r, k) PROVE req'[r].at # "bump"
  <2>1. \E key, d : req' = [req EXCEPT ![r] =
                       [Idle EXCEPT !.kind = k, !.at = First(k), !.dev = d, !.key = key,
                                    !.found = Doomed(k, d)]]
    BY <1>2 DEF Begin
  <2>2. req'[r].at = First(k)
    BY <1>1, <2>1 DEF Idle
  <2> QED
    BY <2>2 DEF First
<1>3. CASE \/ Find(r) \/ WriteUser(r)
  <2>1. PICK f : req' = [req EXCEPT ![r] = [Onward(r) EXCEPT !.fit = f]]
    BY <1>3 DEF Find, WriteUser
  <2>2. Onward(r).at # "bump" /\ Onward(r) \in Requests
    BY <1>3, OnwardIs DEF Find, WriteUser, At, IInv
  <2> QED
    BY <1>1, <2>1, <2>2 DEF Requests
<1>4. CASE \/ SignInDevice(r) \/ IssueToken(r) \/ Rotate(r) \/ TouchDevice(r)
           \/ RetireDevice(r) \/ RevokeOne(r) \/ CreateCode(r) \/ ConsumeCode(r)
  <2>1. Go(r) /\ req[r].at \notin {"none", "lock", "rows", "codes", "bump", "mail", "commit"}
    BY <1>4 DEF SignInDevice, IssueToken, Rotate, TouchDevice, RetireDevice, RevokeOne,
                CreateCode, ConsumeCode, At
  <2> QED
    BY <1>1, <2>1, OnwardIs DEF Go, IInv
<1>5. CASE Revoke(r) \/ Supersede(r)
  <2>1. \/ req' = [req EXCEPT ![r] = Onward(r)]
        \/ \E l, a : a # "bump" /\ req' = [req EXCEPT ![r] = [req[r] EXCEPT !.at = a, !.left = l]]
    BY <1>5 DEF Revoke, Supersede
  <2>2. Onward(r).at # "bump"
    BY <1>5, OnwardIs DEF Revoke, Supersede, At, IInv
  <2> QED
    BY <1>1, <2>1, <2>2 DEF Requests
<1>6. CASE LockToken(r)
  <2> DEFINE a == IF db[req[r].key].rev \/ db[req[r].key].next # Nil THEN "revoke" ELSE "find"
  <2>1. a # "bump"
    OBVIOUS
  <2>2. req' = [req EXCEPT ![r].at = a]
    BY <1>6 DEF LockToken
  <2> HIDE DEF a
  <2> QED
    BY <1>1, <2>1, <2>2 DEF Requests
<1>7. ASSUME NEW t \in Tok, RevokeRow(r, t) PROVE req'[r].at # "bump"
  <2>1. "rows" \in Stage[req[r].kind] /\ req[r].kind \in Kinds
    BY <1>7, Standing DEF RevokeRow, Statement
  <2>2. "revoke" \in Stage[req[r].kind]
    BY <2>1 DEF Kinds, Stage
  <2>3. Flow[req[r].kind]["revoke"] # "bump"
    BY <2>1, <2>2, FlowCovers, FlowStays
  <2> DEFINE a == IF req[r].left = {t} THEN Flow[req[r].kind]["revoke"] ELSE "rows"
  <2>4. a # "bump"
    BY <2>3
  <2>5. req' = [req EXCEPT ![r] = [req[r] EXCEPT !.left = req[r].left \ {t}, !.at = a]]
    BY <1>7 DEF RevokeRow
  <2> HIDE DEF a
  <2> QED
    BY <1>1, <2>4, <2>5 DEF Requests
<1>8. ASSUME NEW c \in Code, SupersedeCode(r, c) PROVE req'[r].at # "bump"
  <2>1. req[r].kind = "resend"
    BY <1>8, Standing, WhereFrom DEF SupersedeCode, Statement
  <2>2. Flow[req[r].kind]["supersede"] # "bump"
    BY <2>1, CodeFlow
  <2> DEFINE a == IF req[r].left = {c} THEN Flow[req[r].kind]["supersede"] ELSE "codes"
  <2>3. a # "bump"
    BY <2>2
  <2>4. req' = [req EXCEPT ![r] = [req[r] EXCEPT !.left = req[r].left \ {c}, !.at = a]]
    BY <1>8 DEF SupersedeCode
  <2> HIDE DEF a
  <2> QED
    BY <1>1, <2>3, <2>4 DEF Requests
<1>9. CASE SendCode(r) \/ BumpAttempt(r) \/ Commit(r) \/ Fail(r)
  <2>1. CASE req'[r] = Idle
    BY <2>1, EndIs
  <2>2. CASE Commit(r) /\ req[r].kind = "resend"
    <3>1. req' = [req EXCEPT ![r] = Onward(r)] /\ req[r].at = "commit"
      BY <1>1, <2>2 DEF Commit, At
    <3> QED
      BY <1>1, <2>2, <3>1, OnwardIs DEF IInv
  <2> QED
    BY <1>1, <1>9, <2>1, <2>2 DEF SendCode, BumpAttempt, Commit, Fail
<1> QED
  BY <1>2, <1>3, <1>4, <1>5, <1>6, <1>7, <1>8, <1>9 DEF Acts

\* What a step of r does to the count in the row of code c.
TriesStep(r, c) ==
    /\ db[c] # NoRow => db'[c] # NoRow /\ db'[c].tries = db[c].tries
    /\ db[c] = NoRow /\ db'[c] # NoRow => w[r][c] # Nil /\ w'[r][c] = Nil
    /\ \/ w'[r][c] = w[r][c] \/ w'[r][c] = Nil
       \/ db'[c] = db[c] /\ (db[c] # NoRow => w'[r][c].tries = db[c].tries)

\* The row of the code a request was given, or works through.
LEMMA CodeKey ==
  ASSUME IInv, CodeInv, NEW r \in Conn
  PROVE  /\ req[r].at \in {"consume", "bump", "mail"} =>
               req[r].key \in Code /\ db[req[r].key] \in CodeRow
         /\ req[r].at = "create" => req[r].key \in Code /\ db[req[r].key] = NoRow
         /\ req[r].at = "codes" => \A c \in req[r].left : c \in Code /\ db[c] \in CodeRow
<1> SUFFICES ASSUME req[r].at \in {"consume", "bump", "mail", "create", "codes"}
             PROVE  /\ req[r].at \in {"consume", "bump", "mail"} =>
                          req[r].key \in Code /\ db[req[r].key] \in CodeRow
                    /\ req[r].at = "create" => req[r].key \in Code /\ db[req[r].key] = NoRow
                    /\ req[r].at = "codes" =>
                          \A c \in req[r].left : c \in Code /\ db[c] \in CodeRow
  OBVIOUS
<1>1. req[r].kind \in Kinds /\ req[r].at \in Stage[req[r].kind]
  BY Standing DEF At, Statement
<1>2. CASE req[r].at \in {"consume", "bump"}
  <2>1. req[r].kind = "verify"
    BY <1>1, <1>2, WhereFrom
  <2> QED
    BY <1>2, <2>1 DEF CodeInv, Drawn, Verifying
<1>3. CASE req[r].at \in {"mail", "create", "codes"}
  <2>1. req[r].kind = "resend"
    BY <1>1, <1>3, WhereFrom
  <2> QED
    BY <1>3, <2>1 DEF CodeInv, Drawn, Resending, Resends
<1> QED
  BY <1>2, <1>3

LEMMA SpendKeeps ==
  ASSUME NEW v \in CodeRow
  PROVE  [v EXCEPT !.used = TRUE].tries = v.tries /\ [v EXCEPT !.used = TRUE] \in CodeRow
  BY DEF CodeRow

LEMMA TriesStays ==
  ASSUME IInv, CodeInv, TriesKept, NEW r \in Conn, Acts(r), ~BumpAttempt(r), NEW c \in Code
  PROVE  TriesStep(r, c)
<1>0. c \in Row /\ DOMAIN db = Row
  BY CodeInRow DEF IInv, TokenInv, Shape
<1>1. CASE CodesStay
  BY <1>1 DEF CodesStay, TriesStep
<1>2. CASE Commit(r)
  <2>1. db'[c] = IF w[r][c] # Nil THEN w[r][c] ELSE db[c]
    BY <1>0, <1>2 DEF Commit, View, See
  <2>2. w'[r][c] = Nil
    BY <1>0, <1>2 DEF Commit, Blank, IInv, TokenInv, Shape
  <2>3. w[r][c] # Nil => w[r][c] # NoRow
    BY CodeInRow DEF CodeInv, Drawn
  <2> QED
    BY <2>1, <2>2, <2>3 DEF TriesStep, TriesKept
<1>3. CASE Fail(r)
  BY <1>0, <1>3 DEF Fail, Blank, IInv, TokenInv, Shape, TriesStep
<1>4. CASE SendCode(r)
  <2> DEFINE k == req[r].key
             v == [db[k] EXCEPT !.used = TRUE]
  <2>1. k \in Code /\ db[k] \in CodeRow
    BY <1>4, CodeKey DEF SendCode, At
  <2>2. v.tries = db[k].tries /\ v \in CodeRow
    BY <2>1, SpendKeeps
  <2>3. UNCHANGED w /\ (UNCHANGED db \/ db' = [db EXCEPT ![k] = v])
    BY <1>4 DEF SendCode
  <2> HIDE DEF k, v
  <2>4. db'[c] = db[c] \/ (c = k /\ db'[c] = v)
    BY <1>0, <2>3
  <2>5. v # NoRow /\ db[k] # NoRow
    BY <2>1, <2>2, CodeInRow
  <2> QED
    BY <2>2, <2>3, <2>4, <2>5 DEF TriesStep
<1>5. CASE (\E d \in Code : SupersedeCode(r, d)) \/ ConsumeCode(r)
  <2>1. PICK d \in Code : /\ db[d] \in CodeRow /\ UNCHANGED db
                          /\ Put(r, d, [See(r, d) EXCEPT !.used = TRUE])
    <3>1. CASE ConsumeCode(r)
      BY <3>1, CodeKey DEF ConsumeCode, At
    <3>2. ASSUME NEW d \in Code, SupersedeCode(r, d)
          PROVE  db[d] \in CodeRow /\ UNCHANGED db /\ Put(r, d, [See(r, d) EXCEPT !.used = TRUE])
      BY <3>2, CodeKey DEF SupersedeCode, At
    <3> QED
      BY <1>5, <3>1, <3>2
  <2> DEFINE v == [See(r, d) EXCEPT !.used = TRUE]
  <2>2. See(r, d) \in CodeRow /\ See(r, d).tries = db[d].tries
    BY <2>1, SeenCode, CodeInRow DEF See, TriesKept
  <2>3. v.tries = db[d].tries
    BY <2>2, SpendKeeps
  <2>4. Put(r, d, v)
    BY <2>1
  <2> HIDE DEF v
  <2>5. w'[r][c] = w[r][c] \/ (c = d /\ w'[r][c] = v)
    BY <1>0, <2>4, PutIs DEF IInv, TokenInv
  <2> QED
    BY <2>1, <2>3, <2>5 DEF TriesStep
<1>6. CASE CreateCode(r)
  <2>1. db[req[r].key] = NoRow /\ UNCHANGED db
    BY <1>6, CodeKey DEF CreateCode, At
  <2>2. \E v : Put(r, req[r].key, v)
    BY <1>6 DEF CreateCode
  <2>3. w'[r][c] = w[r][c] \/ c = req[r].key
    BY <1>0, <2>2, PutIs DEF IInv, TokenInv
  <2> QED
    BY <2>1, <2>3 DEF TriesStep
<1> QED
  BY <1>1, <1>2, <1>3, <1>4, <1>5, <1>6, NoCodeWritten DEF Acts

\* The counts of the others are kept, and what r wrote agrees with its own.
LEMMA TriesKeptStep ==
  ASSUME IInv, CodeInv, TriesKept, NEW r \in Conn, Acts(r) PROVE TriesKept'
<1> SUFFICES ASSUME NEW q \in Conn, NEW c \in Code, w'[q][c] # Nil, db'[c] # NoRow
             PROVE  w'[q][c].tries = db'[c].tries
  BY DEF TriesKept
<1>1. q # r => w'[q] = w[q]
  BY OthersStay DEF Others
<1>2. CASE BumpAttempt(r)
  <2> DEFINE k == req[r].key
  <2>1. k \in Code /\ At(r, "bump") /\ Free(r, k) /\ UNCHANGED w
        /\ \E v : db' = [db EXCEPT ![k] = v]
    BY <1>2, CodeKey DEF BumpAttempt, At
  <2>2. req[r].kind = "verify"
    BY <2>1, Standing, WhereFrom DEF Statement
  <2>3. \A p \in Conn : w[p][k] = Nil
    BY <2>1, <2>2 DEF Free, CodeInv, Verifying, At
  <2> HIDE DEF k
  <2>4. c # k /\ db'[c] = db[c]
    BY <2>1, <2>3, CodeInRow DEF IInv, TokenInv, Shape
  <2> QED
    BY <2>1, <2>4 DEF TriesKept
<1>3. CASE ~BumpAttempt(r)
  <2>1. TriesStep(r, c)
    BY <1>3, TriesStays
  <2>2. CASE db[c] = NoRow
    BY <1>1, <2>1, <2>2 DEF TriesStep, CodeInv, OneCodeWriter
  <2>3. CASE db[c] # NoRow
    BY <1>1, <2>1, <2>3 DEF TriesStep, TriesKept
  <2> QED
    BY <2>2, <2>3
<1> QED
  BY <1>2, <1>3

\* No wrong guess is judged, counted or lost.
LEMMA GuessQuiet ==
  ASSUME IInv, CodeInv, CodeInv', GuessInv, NEW r \in Conn, Acts(r), ~At(r, "bump"),
         req'[r].at # "bump", UNCHANGED wrong
  PROVE  Guesses' /\ CapHolds'
<1>1. \A c \in Code : Bumping(c)' = Bumping(c)
  BY OthersStay DEF Others, Bumping, At
<1>2. ~BumpAttempt(r)
  BY DEF BumpAttempt
<1>3. ASSUME NEW c \in Code
      PROVE  /\ wrong'[c] >= Cardinality(Bumping(c)')
             /\ IF db'[c] = NoRow THEN wrong'[c] = 0
                ELSE wrong'[c] - Cardinality(Bumping(c)') <= db'[c].tries
  <2>1. TriesStep(r, c)
    BY <1>2, TriesStays DEF GuessInv
  <2>2. db'[c] # NoRow => db'[c].tries \in Nat
    BY DEF CodeInv, Drawn, CodeRow
  <2>3. wrong[c] \in Nat /\ Cardinality(Bumping(c)) \in Nat
    BY BumpingAre DEF GuessInv
  <2> QED
    BY <1>1, <2>1, <2>2, <2>3 DEF TriesStep, GuessInv, Guesses
<1> QED
  BY <1>3 DEF GuessInv, Guesses, CapHolds

\* A guess at c is judged wrong: c had tries left, but for those that are about to
\* be counted, which are none of r's.
LEMMA GuessWrong ==
  ASSUME IInv, CodeInv, GuessInv, NEW r \in Conn, Judge(r), req'[r].at = "bump"
  PROVE  wrong' \in [Code -> Nat] /\ Guesses' /\ CapHolds'
<1>1. At(r, "judge") /\ UNCHANGED db
  BY DEF Judge
<1>2. PICK c \in Code :
         /\ Latest(c) /\ db[c].tries < MaxGuess
         /\ req' = [req EXCEPT ![r] = IF req[r].key = c THEN Onward(r)
                                      ELSE [req[r] EXCEPT !.key = c, !.at = "bump"]]
         /\ wrong' = IF req[r].key = c THEN wrong ELSE [wrong EXCEPT ![c] = @ + 1]
  BY DEF Judge
<1>3. req[r] \in Requests /\ req \in [Conn -> Requests] /\ req[r].at = "judge"
  BY <1>1 DEF IInv, RequestInv, At
<1>4. req[r].key # c
  BY <1>2, <1>3, OnwardIs DEF IInv
<1>5. /\ \A q \in Conn \ {r} : req'[q] = req[q]
      /\ req'[r].key = c /\ req'[r].at = "bump" /\ req[r].at # "bump"
  BY <1>2, <1>3, <1>4 DEF Requests
<1>6. wrong \in [Code -> Nat] /\ wrong' = [wrong EXCEPT ![c] = wrong[c] + 1]
  BY <1>2, <1>4 DEF GuessInv
<1>7. /\ Bumping(c)' = Bumping(c) \cup {r} /\ r \notin Bumping(c)
      /\ \A d \in Code \ {c} : Bumping(d)' = Bumping(d)
  BY <1>5 DEF Bumping, At
<1>8. Cardinality(Bumping(c)') = Cardinality(Bumping(c)) + 1
  BY <1>7, BumpingAre, FS_AddElement
<1>9. Cardinality(Bumping(c)) <= Cardinality(Conn) - 1 /\ Cardinality(Conn) \in Nat
  <2>1. IsFiniteSet(Conn \ {r}) /\ Cardinality(Conn \ {r}) = Cardinality(Conn) - 1
    BY RowsAssumption, FS_RemoveElement
  <2>2. Bumping(c) \subseteq Conn \ {r}
    BY <1>7, BumpingAre
  <2> QED
    BY <2>1, <2>2, FS_Subset, FS_CardinalityType, RowsAssumption
<1>10. /\ db[c] # NoRow /\ db[c].tries \in Nat /\ MaxGuess \in Nat
       /\ \A d \in Code : Cardinality(Bumping(d)) \in Nat
  BY <1>2, BumpingAre, RowsAssumption DEF Latest, CodeInv, Drawn, CodeRow
<1>11. wrong' \in [Code -> Nat]
  BY <1>6
<1>12. Guesses'
  <2> SUFFICES ASSUME NEW d \in Code
               PROVE  /\ wrong'[d] >= Cardinality(Bumping(d)')
                      /\ IF db'[d] = NoRow THEN wrong'[d] = 0
                         ELSE wrong'[d] - Cardinality(Bumping(d)') <= db'[d].tries
    BY DEF Guesses
  <2>1. CASE d = c
    <3>1. /\ wrong[c] >= Cardinality(Bumping(c))
          /\ wrong[c] - Cardinality(Bumping(c)) <= db[c].tries
      BY <1>10 DEF GuessInv, Guesses
    <3>2. wrong[c] \in Nat /\ Cardinality(Bumping(c)) \in Nat /\ wrong'[c] = wrong[c] + 1
      BY <1>6, <1>10
    <3> QED
      BY <1>1, <1>8, <1>10, <2>1, <3>1, <3>2
  <2>2. CASE d # c
    BY <1>1, <1>6, <1>7, <2>2 DEF GuessInv, Guesses
  <2> QED
    BY <2>1, <2>2
<1>13. CapHolds'
  <2>1. wrong[c] - Cardinality(Bumping(c)) <= db[c].tries
    BY <1>10 DEF GuessInv, Guesses
  <2>2. wrong[c] + 1 <= MaxGuess + Cardinality(Conn) - 1
    BY <1>2, <1>6, <1>9, <1>10, <2>1
  <2> QED
    BY <1>6, <2>2 DEF GuessInv, CapHolds
<1> QED
  BY <1>11, <1>12, <1>13

\* A wrong guess is counted, or its count is lost.
LEMMA GuessEnds ==
  ASSUME IInv, CodeInv, GuessInv, NEW r \in Conn, At(r, "bump"), BumpAttempt(r) \/ Fail(r)
  PROVE  wrong' \in [Code -> Nat] /\ Guesses' /\ CapHolds'
<1>0. PICK k : k = req[r].key
  OBVIOUS
<1>1. k \in Code /\ db[k] \in CodeRow
  BY <1>0, CodeKey DEF At
<1>2. \A q \in Conn : req'[q] = IF q = r THEN Idle ELSE req[q]
  BY DEF BumpAttempt, Fail, IInv, RequestInv
<1>3. /\ Bumping(k)' = Bumping(k) \ {r} /\ r \in Bumping(k)
      /\ \A d \in Code \ {k} : Bumping(d)' = Bumping(d)
  <2>1. /\ req'[r].at # "bump" /\ req[r].at = "bump" /\ req[r].key = k
        /\ \A q \in Conn \ {r} : req'[q] = req[q]
    BY <1>0, <1>2, EndIs DEF At
  <2> QED
    BY <2>1 DEF Bumping, At
<1>4. /\ Cardinality(Bumping(k)') = Cardinality(Bumping(k)) - 1
      /\ Cardinality(Bumping(k)) \in Nat /\ Cardinality(Bumping(k)') \in Nat
  <2>1. IsFiniteSet(Bumping(k))
    BY <1>1, BumpingAre
  <2>2. IsFiniteSet(Bumping(k)') /\ Cardinality(Bumping(k)') = Cardinality(Bumping(k)) - 1
    BY <1>3, <2>1, FS_RemoveElement
  <2> QED
    BY <2>1, <2>2, FS_CardinalityType
<1>5. /\ wrong \in [Code -> Nat] /\ wrong[k] >= Cardinality(Bumping(k))
      /\ wrong[k] - Cardinality(Bumping(k)) <= db[k].tries
  BY <1>1, CodeInRow DEF GuessInv, Guesses
<1>6. db[k].tries \in Nat /\ db[k] # NoRow /\ k \in DOMAIN db
  BY <1>1, CodeInRow DEF CodeRow, IInv, TokenInv, Shape
<1> DEFINE n == db[k].tries + 1
           v == [db[k] EXCEPT !.tries = n]
<1>7. v.tries = n /\ v # NoRow
  <2>1. v \in CodeRow /\ v.tries = n
    BY <1>1, <1>6 DEF CodeRow
  <2> QED
    BY <2>1, CodeInRow
<1>8. CASE BumpAttempt(r)
  <2>1. UNCHANGED wrong /\ db' = [db EXCEPT ![k] = v]
    BY <1>0, <1>8 DEF BumpAttempt
  <2> HIDE DEF v
  <2>2. db'[k] = v /\ \A d \in Code \ {k} : db'[d] = db[d]
    BY <1>6, <2>1
  <2>3. Guesses'
    <3> SUFFICES ASSUME NEW c \in Code
                 PROVE  /\ wrong'[c] >= Cardinality(Bumping(c)')
                        /\ IF db'[c] = NoRow THEN wrong'[c] = 0
                           ELSE wrong'[c] - Cardinality(Bumping(c)') <= db'[c].tries
      BY DEF Guesses
    <3>1. CASE c = k
      <4>1. wrong[k] \in Nat /\ wrong'[k] = wrong[k]
        BY <1>1, <1>5, <2>1
      <4>2. db'[k] # NoRow /\ db'[k].tries = db[k].tries + 1
        BY <1>7, <2>2
      <4> QED
        BY <1>4, <1>5, <1>6, <3>1, <4>1, <4>2
    <3>2. CASE c # k
      BY <1>3, <2>1, <2>2, <3>2 DEF GuessInv, Guesses
    <3> QED
      BY <3>1, <3>2
  <2> QED
    BY <2>1, <2>3 DEF GuessInv, CapHolds
<1>9. CASE Fail(r)
  <2>1. wrong' = [wrong EXCEPT ![k] = wrong[k] - 1] /\ UNCHANGED db
    BY <1>0, <1>9 DEF Fail
  <2>2. Cardinality(Bumping(k)) >= 1
    BY <1>4
  <2>3. wrong[k] - 1 \in Nat
    BY <1>1, <1>4, <1>5, <2>2
  <2>4. wrong' \in [Code -> Nat]
    BY <1>1, <1>5, <2>1, <2>3
  <2>5. Guesses'
    <3> SUFFICES ASSUME NEW c \in Code
                 PROVE  /\ wrong'[c] >= Cardinality(Bumping(c)')
                        /\ IF db'[c] = NoRow THEN wrong'[c] = 0
                           ELSE wrong'[c] - Cardinality(Bumping(c)') <= db'[c].tries
      BY DEF Guesses
    <3>1. CASE c = k
      <4>1. wrong[k] \in Nat /\ wrong'[k] = wrong[k] - 1
        BY <1>1, <1>5, <2>1
      <4> QED
        BY <1>4, <1>5, <1>6, <2>1, <3>1, <4>1
    <3>2. CASE c # k
      BY <1>3, <2>1, <3>2, <1>5 DEF GuessInv, Guesses
    <3> QED
      BY <3>1, <3>2
  <2>6. CapHolds'
    <3>1. MaxGuess + Cardinality(Conn) - 1 \in Int
      BY RowsAssumption, FS_CardinalityType
    <3> QED
      BY <1>1, <1>5, <2>1, <3>1 DEF GuessInv, CapHolds
  <2> QED
    BY <2>4, <2>5, <2>6
<1> QED
  BY <1>8, <1>9

LEMMA GuessStep ==
  ASSUME IInv, CodeInv, CodeInv', GuessInv, NEW r \in Conn, Acts(r) PROVE GuessInv'
<1>1. TriesKept'
  BY TriesKeptStep DEF GuessInv
<1>2. CASE At(r, "bump")
  <2>1. BumpAttempt(r) \/ Fail(r)
    <3>1. \A k \in Kind : ~Begin(r, k)
      BY <1>2, EndIs DEF Begin, At
    <3> QED
      BY <1>2, <3>1
         DEF Acts, Find, WriteUser, SignInDevice, IssueToken, LockToken, Rotate, TouchDevice,
             RetireDevice, RevokeOne, Revoke, RevokeRow, Supersede, CreateCode, SendCode,
             SupersedeCode, Judge, ConsumeCode, Commit, At
  <2> QED
    BY <1>1, <1>2, <2>1, GuessEnds DEF GuessInv
<1>3. CASE ~At(r, "bump") /\ Judge(r) /\ req'[r].at = "bump"
  BY <1>1, <1>3, GuessWrong DEF GuessInv
<1>4. CASE ~At(r, "bump") /\ req'[r].at # "bump"
  <2>1. UNCHANGED wrong
    <3>1. CASE Judge(r)
      <4>1. PICK c \in Code :
               /\ req' = [req EXCEPT ![r] = IF req[r].key = c THEN Onward(r)
                                            ELSE [req[r] EXCEPT !.key = c, !.at = "bump"]]
               /\ wrong' = IF req[r].key = c THEN wrong ELSE [wrong EXCEPT ![c] = @ + 1]
        BY <3>1 DEF Judge
      <4>2. req[r].key = c
        BY <1>4, <4>1 DEF IInv, RequestInv, Requests
      <4> QED
        BY <4>1, <4>2
    <3>2. CASE ~Judge(r)
      BY <1>4, <3>2
         DEF Acts, Begin, Find, WriteUser, SignInDevice, IssueToken, LockToken, Rotate,
             TouchDevice, RetireDevice, RevokeOne, Revoke, RevokeRow, Supersede, CreateCode,
             SendCode, SupersedeCode, BumpAttempt, ConsumeCode, Commit, Fail
    <3> QED
      BY <3>1, <3>2
  <2> QED
    BY <1>1, <1>4, <2>1, GuessQuiet DEF GuessInv
<1> QED
  BY <1>2, <1>3, <1>4, BumpStays

LEMMA CodeInvariant == Spec => []CodeInv
<1>1. IInv /\ CodeInv /\ [Next]_vars => CodeInv'
  BY NextCodes
<1> QED
  BY CodeInit, Inductive, <1>1, PTL DEF Spec

LEMMA GuessInvariant == Spec => []GuessInv
<1>1. IInv /\ CodeInv /\ CodeInv' /\ GuessInv /\ [Next]_vars => GuessInv'
  <2>1. ASSUME GuessInv, UNCHANGED vars PROVE GuessInv'
    BY <2>1 DEF vars, GuessInv, Guesses, TriesKept, CapHolds, Bumping, At
  <2>2. Next => \E r \in Conn : Acts(r)
    BY DEF Next, Acts
  <2> QED
    BY <2>1, <2>2, GuessStep
<1> QED
  BY GuessInit, Inductive, CodeInvariant, <1>1, PTL DEF Spec

\* CapHolds (IncrementVerificationAttempts on the pool, the check of attempts in
\* VerifyEmail without a lock): whatever number of guesses at a code are judged at
\* once, it takes MaxGuess wrong ones and one more for every other connection.
THEOREM GuessesBounded == Spec => []CapHolds
<1>1. GuessInv => CapHolds
  BY DEF GuessInv
<1> QED
  BY <1>1, GuessInvariant, PTL

\* TypeOK: every row, committed or not, is a row of its table, whichever request
\* wrote it and whatever it had seen.
THEOREM AccountTypes == Spec => []TypeOK
<1>1. IInv /\ EndInv /\ CodeInv /\ GuessInv => TypeOK
  <2> SUFFICES ASSUME IInv, EndInv, CodeInv, GuessInv PROVE TypeOK
    OBVIOUS
  <2>1. \A x \in Row : db[x] = NoRow \/ Stored(x, db[x])
    BY DEF Row, Stored, IInv, TokenInv, Families, EndInv, HeldTypes, CodeInv, Drawn
  <2>2. \A r \in Conn, x \in Row : w[r][x] \in {Nil, NoRow} \/ Stored(x, w[r][x])
    BY DEF Row, Stored, IInv, TokenInv, WrittenTokens, Written, EndInv, HeldTypes, CodeInv,
           Drawn
  <2>3. \A r \in Conn : req[r].kind \in Kind \cup {"none"} /\ req[r].at \in Statement
    BY KindsAre DEF IInv, RequestInv, Requests
  <2> QED
    BY <2>1, <2>2, <2>3 DEF TypeOK, CodeInv, Drawn, GuessInv
<1> QED
  BY <1>1, Inductive, EndInvariant, CodeInvariant, GuessInvariant, PTL
=============================================================================
