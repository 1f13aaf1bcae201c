---------------------------- MODULE AccountProofs ----------------------------
(***************************************************************************)
(* Rotation is single-use, sessions never come back and revocations end    *)
(* them, for any number of connections, devices, tokens and codes,         *)
(* whatever the requests.                                                  *)
(*                                                                         *)
(* The argument: a row is written by one transaction at a time; a          *)
(* transaction only ever takes the right to be rotated from a token that   *)
(* exists; and it creates at most one token, which either starts a family  *)
(* or takes the place of a token the transaction holds and marks replaced. *)
(* A request that ends sessions holds the user or the device while it      *)
(* revokes, and a refresh needs both to commit: what its snapshot does not *)
(* show cannot come later.                                                 *)
(***************************************************************************)
EXTENDS Accounts, TLAPS

\* A token that can be rotated.
Usable(v) == ~v.rev /\ v.next = Nil

Written(r, t) == w[r][t] # Nil
Created(r, t) == Written(r, t) /\ db[t] = NoRow

Shape ==
    /\ DOMAIN db = Row
    /\ DOMAIN w = Conn /\ \A r \in Conn : DOMAIN w[r] = Row

\* A token has one writer.
OneWriter == \A q, r \in Conn, t \in Tok : Written(q, t) /\ Written(r, t) => q = r

\* Tokens are tokens, of a family whose first one exists.
Families ==
    \A t \in Tok : db[t] # NoRow => db[t] \in TokRow /\ db[db[t].fam] # NoRow

WrittenTokens == \A r \in Conn, t \in Tok : Written(r, t) => w[r][t] \in TokRow

\* A write to a token that exists leaves its family alone and never makes it usable.
OnlySpends ==
    \A r \in Conn, t \in Tok :
        Written(r, t) /\ db[t] # NoRow =>
            w[r][t].fam = db[t].fam /\ (Usable(w[r][t]) => Usable(db[t]))

\* r holds the usable token k of family f and marks it replaced.
Replaces(r, k, f) ==
    /\ db[k] # NoRow /\ Usable(db[k]) /\ db[k].fam = f
    /\ Written(r, k) /\ ~Usable(w[r][k])

\* A token that is created starts a family or replaces another.
Successors ==
    \A r \in Conn, t \in Tok :
        Created(r, t) =>
            /\ Usable(w[r][t])
            /\ w[r][t].fam = t \/ \E k \in Tok : Replaces(r, k, w[r][t].fam)

OneCreated == \A r \in Conn, t, u \in Tok : Created(r, t) /\ Created(r, u) => t = u

TokenInv ==
    /\ Shape /\ OneWriter /\ Families /\ WrittenTokens /\ OnlySpends
    /\ Successors /\ OneCreated /\ OneHolder

-----------------------------------------------------------------------------
(* Where a request can be.                                                  *)

SignIn == {"login", "apple", "email_change", "verify"}

Stage ==
    [login |-> {"find", "user", "device", "issue", "commit"},
     apple |-> {"find", "device", "issue", "commit"},
     refresh |-> {"lock", "find", "rotate", "seen", "user", "commit", "revoke", "rows"},
     logout |-> {"one", "commit"},
     logout_device |-> {"one", "revoke", "rows", "retire", "commit"},
     logout_all |-> {"revoke", "rows", "commit"},
     force_logout |-> {"revoke", "rows", "commit"},
     reset |-> {"revoke", "rows", "commit"},
     password |-> {"revoke", "rows", "commit"},
     email_change |-> {"find", "user", "revoke", "rows", "device", "issue", "commit"},
     revoke_device |-> {"retire", "revoke", "rows", "commit"},
     suspend |-> {"user", "revoke", "rows", "commit"},
     reactivate |-> {"find", "user", "commit"},
     schedule |-> {"find", "user", "revoke", "rows", "commit"},
     cancel |-> {"find", "user", "commit"},
     delete |-> {"revoke", "rows", "user", "commit"},
     resend |-> {"find", "supersede", "codes", "create", "commit", "mail"},
     verify |-> {"find", "judge", "bump", "consume", "user", "device", "issue", "commit"}]

Kinds == {"login", "apple", "refresh", "logout", "logout_device", "logout_all",
          "force_logout", "reset", "password", "email_change", "revoke_device",
          "suspend", "reactivate", "schedule", "cancel", "delete", "resend", "verify"}

Requests ==
    [kind : Kinds \cup {"none"}, at : Statement, dev : Device \cup {Nil},
     key : Tok \cup Code \cup {Nil}, fit : BOOLEAN, left : SUBSET Row,
     found : SUBSET Tok]

Placed(q) ==
    /\ q.kind = "none" => q.at = "none"
    /\ q.kind \in Kinds => q.at \in Stage[q.kind]
    /\ q.kind \in {"verify", "resend"} => q.key \notin Tok
    /\ q.kind \in SignIn => q.dev \in Device
    /\ q.at \in {"lock", "one"} => q.key \in Tok /\ db[q.key] # NoRow
    /\ q.at = "rows" => \A t \in q.left \cap Tok : db[t] # NoRow
    /\ q.at = "codes" => q.left \subseteq Code

\* A refresh that is about to rotate holds the token, usable.
HoldsKey(r) ==
    req[r].kind = "refresh" /\ req[r].at \in {"find", "rotate"} =>
        /\ req[r].key \in Tok
        /\ db[req[r].key] # NoRow /\ Usable(db[req[r].key])
        /\ w[r][req[r].key] = db[req[r].key]

\* Nothing but the end of a request follows the creation of a token.
CreatedLast(r) ==
    \A t \in Tok : Created(r, t) =>
        \/ req[r].at = "commit"
        \/ req[r].kind = "refresh" /\ req[r].at \in {"seen", "user"}

RequestInv ==
    /\ req \in [Conn -> Requests]
    /\ \A r \in Conn : Placed(req[r]) /\ HoldsKey(r) /\ CreatedLast(r)

IInv == TokenInv /\ RequestInv

-----------------------------------------------------------------------------
(* Tables.                                                                  *)

LEMMA KindsAre == Kind = Kinds
  BY DEF Kind, Kinds, Flow

LEMMA FlowStays ==
  ASSUME NEW k \in Kinds, NEW a \in DOMAIN Flow[k]
  PROVE  Flow[k][a] \in Stage[k] \ {"lock", "one", "rows", "codes", "bump"}
  BY DEF Kinds, Flow, Stage, LoginFlow, AppleFlow, RefreshFlow, LogoutFlow,
         LogoutDeviceFlow, LogoutAllFlow, ForceLogoutFlow, ResetFlow, PasswordFlow,
         EmailChangeFlow, RevokeDeviceFlow, SuspendFlow, ReactivateFlow, ScheduleFlow,
         CancelFlow, DeleteFlow, ResendFlow, VerifyFlow

LEMMA FlowCovers ==
  ASSUME NEW k \in Kinds, NEW a \in Stage[k] \ {"commit", "rows", "codes", "bump", "mail"}
  PROVE  a \in DOMAIN Flow[k]
  BY DEF Kinds, Flow, Stage, LoginFlow, AppleFlow, RefreshFlow, LogoutFlow,
         LogoutDeviceFlow, LogoutAllFlow, ForceLogoutFlow, ResetFlow, PasswordFlow,
         EmailChangeFlow, RevokeDeviceFlow, SuspendFlow, ReactivateFlow, ScheduleFlow,
         CancelFlow, DeleteFlow, ResendFlow, VerifyFlow

LEMMA StageIsStatement == ASSUME NEW k \in Kinds PROVE Stage[k] \subseteq Statement
  BY DEF Kinds, Stage, Statement

\* The few places where what follows matters.
LEMMA FlowEnds ==
  /\ Flow["refresh"]["find"] = "rotate" /\ Flow["refresh"]["rotate"] = "seen"
  /\ Flow["refresh"]["seen"] = "user" /\ Flow["refresh"]["user"] = "commit"
  /\ Flow["refresh"]["revoke"] = "commit"
  /\ \A k \in SignIn : Flow[k]["issue"] = "commit"
  BY DEF SignIn, Flow, LoginFlow, AppleFlow, RefreshFlow, EmailChangeFlow, VerifyFlow

\* Which requests a statement belongs to.
LEMMA StageKinds ==
  ASSUME NEW k \in Kinds, NEW a \in Stage[k]
  PROVE  /\ a \in {"lock", "rotate", "seen"} => k = "refresh"
         /\ a = "issue" => k \in SignIn
         /\ a \in {"bump", "consume", "create", "mail", "codes", "judge", "supersede"}
               => k \in {"verify", "resend"}
         /\ a = "rotate" => k = "refresh"
         /\ a # "none"
         /\ k = "refresh" =>
               a \in {"lock", "find", "rotate", "seen", "user", "commit", "revoke", "rows"}
  BY DEF Kinds, Stage, SignIn

LEMMA FirstIn == ASSUME NEW k \in Kinds PROVE First(k) \in Stage[k] \ {"rows", "codes"}
  BY DEF Kinds, Stage, First

LEMMA FirstKinds ==
  ASSUME NEW k \in Kinds
  PROVE  /\ First(k) \in {"lock", "one"} => k \in {"refresh", "logout", "logout_device"}
         /\ k = "refresh" => First(k) = "lock"
         /\ First(k) # "commit"
  BY DEF Kinds, First

-----------------------------------------------------------------------------
(* Rows.                                                                    *)

LEMMA Sentinels == NoRow \notin TokRow /\ Nil \notin TokRow /\ Nil # NoRow /\ Nil \notin Tok
  BY RowsAssumption DEF Row

LEMMA Revoked ==
  ASSUME NEW v \in TokRow
  PROVE  LET z == [v EXCEPT !.rev = TRUE]
         IN  z \in TokRow /\ z.fam = v.fam /\ ~Usable(z)
  BY DEF TokRow, Usable

LEMMA Spent ==
  ASSUME NEW v \in TokRow, NEW t \in Tok
  PROVE  LET z == [v EXCEPT !.next = t]
         IN  z \in TokRow /\ z.fam = v.fam /\ ~Usable(z)
  BY Sentinels DEF TokRow, Usable

LEMMA Succeeding ==
  ASSUME NEW v \in TokRow
  PROVE  LET z == [v EXCEPT !.rev = FALSE, !.next = Nil]
         IN  z \in TokRow /\ z.fam = v.fam /\ Usable(z)
  BY DEF TokRow, Usable

LEMMA Starting ==
  ASSUME NEW d \in Device, NEW t \in Tok
  PROVE  LET z == [dev |-> d, fam |-> t, rev |-> FALSE, next |-> Nil]
         IN  z \in TokRow /\ z.fam = t /\ Usable(z)
  BY DEF TokRow, Usable

LEMMA HoldersAre ==
  ASSUME NEW rows, NEW t
  PROVE  t \in Holders(rows) <=> t \in Tok /\ rows[t] # NoRow /\ Usable(rows[t])
  BY DEF Holders, Usable

LEMMA FreshIs ==
  ASSUME Unused # {}
  PROVE  Fresh \in Tok /\ db[Fresh] = NoRow /\ \A q \in Conn : w[q][Fresh] = Nil
  BY DEF Unused, Fresh

LEMMA InRow == Tok \subseteq Row /\ User \notin Tok /\ Device \cap Tok = {} /\ Code \cap Tok = {}
  BY RowsAssumption DEF Row

-----------------------------------------------------------------------------
LEMMA InitHolds == Init => IInv
<1> SUFFICES ASSUME Init PROVE IInv
  OBVIOUS
<1>1. PICK s \in Start : db = Loaded(s)
  BY DEF Init
<1>2. Families /\ OneHolder
  BY <1>1, StartAssumption DEF Families, OneHolder
<1>3. \A r \in Conn, t \in Tok : ~Written(r, t)
  BY InRow DEF Init, Blank, Written
<1>4. Shape
  BY <1>1 DEF Shape, Loaded, Init, Blank
<1>5. TokenInv
  BY <1>2, <1>3, <1>4 DEF TokenInv, OneWriter, WrittenTokens, OnlySpends, Successors,
                          OneCreated, Created
<1>6. Idle \in Requests /\ Placed(Idle)
  BY DEF Idle, Requests, Placed, Kinds, Statement, SignIn
<1>7. RequestInv
  BY <1>3, <1>6 DEF RequestInv, HoldsKey, CreatedLast, Created, Init, Idle
<1> QED
  BY <1>5, <1>7 DEF IInv

-----------------------------------------------------------------------------
(* What a step does to the tokens.                                          *)

LEMMA PutIs ==
  ASSUME Shape, NEW r \in Conn, NEW x, NEW v, Put(r, x, v)
  PROVE  /\ DOMAIN w' = Conn /\ \A q \in Conn : DOMAIN w'[q] = Row
         /\ \A q \in Conn, y \in Row :
               w'[q][y] = IF q = r /\ y = x THEN v ELSE w[q][y]
  BY DEF Shape, Put

\* The step leaves every token and every write of one alone.
Untouched ==
    /\ Shape'
    /\ \A r \in Conn, t \in Tok : w'[r][t] = w[r][t]
    /\ \A t \in Tok : db'[t] = db[t]

LEMMA UntouchedKeeps ==
  ASSUME TokenInv, Untouched
  PROVE  /\ TokenInv'
         /\ \A r \in Conn, t \in Tok : Created(r, t)' <=> Created(r, t)
<1> USE DEF TokenInv, Untouched
<1>1. \A r \in Conn, t \in Tok : /\ Created(r, t)' <=> Created(r, t)
                                /\ Written(r, t)' <=> Written(r, t)
  BY DEF Created, Written
<1>2. OneWriter' /\ OneCreated'
  BY <1>1 DEF OneWriter, OneCreated, Created, Written
<1>3. Families'
  BY DEF Families, TokRow
<1>4. WrittenTokens' /\ OnlySpends'
  BY <1>1 DEF WrittenTokens, OnlySpends, Created, Written
<1>5. Successors'
  <2> SUFFICES ASSUME NEW r \in Conn, NEW t \in Tok, Created(r, t)'
               PROVE  /\ Usable(w[r][t])
                      /\ w[r][t].fam = t \/ \E k \in Tok : Replaces(r, k, w[r][t].fam)'
    BY DEF Successors
  <2>1. \A k \in Tok : Replaces(r, k, w[r][t].fam) => Replaces(r, k, w[r][t].fam)'
    BY <1>1 DEF Replaces
  <2> QED
    BY <1>1, <2>1 DEF Successors, Created, Written
<1>6. OneHolder'
  BY HoldersAre DEF OneHolder
<1> QED
  BY <1>1, <1>2, <1>3, <1>4, <1>5, <1>6 DEF Created, Written

\* A transaction writes a token that exists.
LEMMA WriteKeeps ==
  ASSUME TokenInv, NEW r \in Conn, NEW t \in Tok, NEW v \in TokRow,
         db[t] # NoRow, Free(r, t), v.fam = db[t].fam, Usable(v) => Usable(db[t]),
         \A u \in Tok : ~Created(r, u),
         Put(r, t, v), UNCHANGED db
  PROVE  /\ TokenInv'
         /\ \A q \in Conn, u \in Tok : Created(q, u)' <=> Created(q, u)
         /\ w'[r][t] = v
         /\ \A q \in Conn \ {r}, u \in Tok : w'[q][u] = w[q][u]
<1> USE DEF TokenInv
<1>0. t \in Row /\ Tok \subseteq Row
  BY InRow
<1>1. /\ DOMAIN w' = Conn /\ \A q \in Conn : DOMAIN w'[q] = Row
      /\ \A q \in Conn, u \in Tok : w'[q][u] = IF q = r /\ u = t THEN v ELSE w[q][u]
  BY <1>0, PutIs
<1>2. v # Nil /\ \A q \in Conn \ {r} : ~Written(q, t)
  BY Sentinels DEF Free, Written
<1>3. \A q \in Conn, u \in Tok : /\ Created(q, u)' <=> Created(q, u)
                                /\ Written(q, u)' <=> Written(q, u) \/ (q = r /\ u = t)
  BY <1>1, <1>2 DEF Created, Written
<1>4. Shape' /\ OneWriter' /\ OneCreated'
  BY <1>1, <1>2, <1>3 DEF Shape, OneWriter, OneCreated, Created, Written
<1>5. Families' /\ OneHolder'
  BY DEF Families, OneHolder, Holders
<1>6. WrittenTokens' /\ OnlySpends'
  BY <1>1, <1>3 DEF WrittenTokens, OnlySpends, Created, Written
<1>7. Successors'
  <2> SUFFICES ASSUME NEW q \in Conn, NEW u \in Tok, Created(q, u)'
               PROVE  /\ Usable(w[q][u])'
                      /\ (w[q][u].fam = u)' \/ \E k \in Tok : Replaces(q, k, w[q][u].fam)'
    BY DEF Successors
  <2>1. Created(q, u)
    BY <1>1 DEF Created, Written
  <2>2. q # r /\ w'[q][u] = w[q][u]
    BY <1>1, <2>1
  <2>3. ASSUME NEW k \in Tok, Replaces(q, k, w[q][u].fam)
        PROVE  Replaces(q, k, w[q][u].fam)'
    BY <1>1, <1>3, <2>2, <2>3 DEF Replaces
  <2> QED
    BY <2>1, <2>2, <2>3 DEF Successors
<1> QED
  BY <1>1, <1>3, <1>4, <1>5, <1>6, <1>7 DEF Created, Written

\* A transaction that has created none creates a token that starts a family.
LEMMA IssueKeeps ==
  ASSUME TokenInv, NEW r \in Conn, Unused # {}, NEW v \in TokRow,
         v.fam = Fresh, Usable(v),
         \A u \in Tok : ~Created(r, u),
         Put(r, Fresh, v), UNCHANGED db
  PROVE  /\ TokenInv'
         /\ \A q \in Conn, u \in Tok :
               Created(q, u)' <=> Created(q, u) \/ (q = r /\ u = Fresh)
         /\ \A q \in Conn \ {r}, u \in Tok : w'[q][u] = w[q][u]
<1> DEFINE t == Fresh
<1> USE DEF TokenInv
<1>0. t \in Tok /\ db[t] = NoRow /\ \A q \in Conn : w[q][t] = Nil
  BY FreshIs
<1>1. /\ DOMAIN w' = Conn /\ \A q \in Conn : DOMAIN w'[q] = Row
      /\ \A q \in Conn, u \in Tok : w'[q][u] = IF q = r /\ u = t THEN v ELSE w[q][u]
  BY InRow, PutIs
<1>2. v # Nil /\ v.fam = t
  BY Sentinels
<1> HIDE DEF t
<1>3. \A q \in Conn, u \in Tok :
         /\ Created(q, u)' <=> Created(q, u) \/ (q = r /\ u = t)
         /\ Written(q, u)' <=> Written(q, u) \/ (q = r /\ u = t)
  BY <1>0, <1>1, <1>2 DEF Created, Written
<1>4. Shape' /\ OneWriter'
  BY <1>0, <1>1, <1>2 DEF Shape, OneWriter, Written
<1>5. OneCreated'
  BY <1>0, <1>1, <1>2 DEF OneCreated, Created, Written
<1>6. Families' /\ OneHolder'
  BY DEF Families, OneHolder, Holders
<1>7. WrittenTokens' /\ OnlySpends'
  BY <1>0, <1>1, <1>2 DEF WrittenTokens, OnlySpends, Written
<1>8. Successors'
  <2> SUFFICES ASSUME NEW q \in Conn, NEW u \in Tok, Created(q, u)'
               PROVE  /\ Usable(w[q][u])'
                      /\ (w[q][u].fam = u)' \/ \E k \in Tok : Replaces(q, k, w[q][u].fam)'
    BY DEF Successors
  <2>1. CASE q = r /\ u = t
    BY <1>1, <1>2, <2>1
  <2>2. CASE ~(q = r /\ u = t)
    <3>1. w'[q][u] = w[q][u] /\ Created(q, u)
      BY <1>1, <2>2 DEF Created, Written
    <3>2. ASSUME NEW k \in Tok, Replaces(q, k, w[q][u].fam)
          PROVE  Replaces(q, k, w[q][u].fam)'
      <4>1. k # t
        BY <1>0, <3>2 DEF Replaces
      <4> QED
        BY <1>1, <3>1, <3>2, <4>1 DEF Replaces, Written
    <3> QED
      BY <3>1, <3>2 DEF Successors
  <2> QED
    BY <2>1, <2>2
<1>9. \A q \in Conn \ {r}, u \in Tok : w'[q][u] = w[q][u]
  BY <1>1
<1> QED
  BY <1>3, <1>4, <1>5, <1>6, <1>7, <1>8, <1>9 DEF Created, Written, t

\* A transaction that has created none puts a token in the place of one it holds.
PutTwo(r, x, v, y, z) == w' = [w EXCEPT ![r][x] = v, ![r][y] = z]

LEMMA ReplaceKeeps ==
  ASSUME TokenInv, NEW r \in Conn, NEW t \in Tok, NEW key \in Tok,
         NEW succ \in TokRow, NEW spent \in TokRow,
         db[t] = NoRow, \A q \in Conn : w[q][t] = Nil,
         db[key] # NoRow, Usable(db[key]), \A q \in Conn \ {r} : w[q][key] = Nil,
         Usable(succ), succ.fam = db[key].fam,
         ~Usable(spent), spent.fam = db[key].fam,
         \A u \in Tok : ~Created(r, u),
         PutTwo(r, t, succ, key, spent),
         db' = db
  PROVE  /\ TokenInv'
         /\ \A q \in Conn, u \in Tok :
               Created(q, u)' <=> Created(q, u) \/ (q = r /\ u = t)
         /\ \A q \in Conn \ {r}, u \in Tok : w'[q][u] = w[q][u]
<1> USE DEF TokenInv
<1>0. succ # Nil /\ spent # Nil /\ key # t
  BY Sentinels
<1>1. /\ DOMAIN w' = Conn /\ \A q \in Conn : DOMAIN w'[q] = Row
      /\ \A q \in Conn, u \in Tok :
            w'[q][u] = IF q = r /\ u = key THEN spent
                       ELSE IF q = r /\ u = t THEN succ ELSE w[q][u]
  BY InRow DEF Shape, PutTwo
<1>2. \A q \in Conn, u \in Tok : Created(q, u)' <=> Created(q, u) \/ (q = r /\ u = t)
  BY <1>0, <1>1 DEF Created, Written
<1>3. Shape' /\ OneWriter'
  BY <1>0, <1>1 DEF Shape, OneWriter, Written
<1>4. OneCreated'
  BY <1>0, <1>1 DEF OneCreated, Created, Written
<1>5. Families' /\ OneHolder'
  BY DEF Families, OneHolder, Holders
<1>6. WrittenTokens'
  BY <1>1 DEF WrittenTokens, Written
<1>7. OnlySpends'
  BY <1>0, <1>1 DEF OnlySpends, Written
<1>8. Successors'
  <2> SUFFICES ASSUME NEW q \in Conn, NEW u \in Tok, Created(q, u)'
               PROVE  /\ Usable(w[q][u])'
                      /\ (w[q][u].fam = u)' \/ \E k \in Tok : Replaces(q, k, w[q][u].fam)'
    BY DEF Successors
  <2>1. CASE q = r /\ u = t
    <3>1. w'[q][u] = succ /\ w'[r][key] = spent
      BY <1>0, <1>1, <2>1
    <3>2. Replaces(q, key, w[q][u].fam)'
      BY <1>0, <2>1, <3>1 DEF Replaces, Written
    <3> QED
      BY <3>1, <3>2
  <2>2. CASE ~(q = r /\ u = t)
    <3>1. q # r /\ w'[q][u] = w[q][u] /\ Created(q, u)
      BY <1>0, <1>1, <2>2 DEF Created, Written
    <3>2. ASSUME NEW k \in Tok, Replaces(q, k, w[q][u].fam)
          PROVE  Replaces(q, k, w[q][u].fam)'
      BY <1>1, <3>1, <3>2 DEF Replaces, Written
    <3> QED
      BY <3>1, <3>2 DEF Successors
  <2> QED
    BY <2>1, <2>2
<1>9. \A q \in Conn \ {r}, u \in Tok : w'[q][u] = w[q][u]
  BY <1>1
<1> QED
  BY <1>2, <1>3, <1>4, <1>5, <1>6, <1>7, <1>8, <1>9 DEF Created, Written

\* The transaction ends.
Drop(r) == w' = [w EXCEPT ![r] = Blank]

LEMMA DropIs ==
  ASSUME Shape, NEW r \in Conn, Drop(r)
  PROVE  /\ DOMAIN w' = Conn /\ \A q \in Conn : DOMAIN w'[q] = Row
         /\ \A q \in Conn, u \in Tok : w'[q][u] = IF q = r THEN Nil ELSE w[q][u]
  BY InRow DEF Shape, Drop, Blank

LEMMA FailKeeps ==
  ASSUME TokenInv, NEW r \in Conn, Drop(r), UNCHANGED db
  PROVE  TokenInv'
<1> USE DEF TokenInv
<1>1. /\ DOMAIN w' = Conn /\ \A q \in Conn : DOMAIN w'[q] = Row
      /\ \A q \in Conn, u \in Tok : w'[q][u] = IF q = r THEN Nil ELSE w[q][u]
  BY DropIs
<1>2. Shape' /\ OneWriter' /\ OneCreated'
  BY <1>1 DEF Shape, OneWriter, OneCreated, Created, Written
<1>3. Families' /\ OneHolder' /\ WrittenTokens' /\ OnlySpends'
  BY <1>1 DEF Families, OneHolder, Holders, WrittenTokens, OnlySpends, Written
<1>4. Successors'
  <2> SUFFICES ASSUME NEW q \in Conn, NEW u \in Tok, Created(q, u)'
               PROVE  /\ Usable(w[q][u])'
                      /\ (w[q][u].fam = u)' \/ \E k \in Tok : Replaces(q, k, w[q][u].fam)'
    BY DEF Successors
  <2>1. q # r /\ w'[q][u] = w[q][u] /\ Created(q, u)
    BY <1>1 DEF Created, Written
  <2>2. ASSUME NEW k \in Tok, Replaces(q, k, w[q][u].fam)
        PROVE  Replaces(q, k, w[q][u].fam)'
    BY <1>1, <2>1, <2>2 DEF Replaces, Written
  <2> QED
    BY <2>1, <2>2 DEF Successors
<1> QED
  BY <1>2, <1>3, <1>4

-----------------------------------------------------------------------------
(* Commit.                                                                  *)

Committing(r) == Drop(r) /\ db' = View(r)

LEMMA ViewIs ==
  ASSUME TokenInv, NEW r \in Conn, Committing(r)
  PROVE  /\ DOMAIN db' = Row
         /\ \A t \in Tok : db'[t] = IF Written(r, t) THEN w[r][t] ELSE db[t]
         /\ \A t \in Tok : db[t] # NoRow => /\ db'[t] # NoRow /\ db'[t] \in TokRow
                                            /\ db'[t].fam = db[t].fam
                                            /\ Usable(db'[t]) => Usable(db[t])
         /\ \A t \in Tok : db[t] = NoRow => (db'[t] # NoRow <=> Created(r, t))
<1>1. DOMAIN db' = Row /\ \A t \in Tok : db'[t] = IF Written(r, t) THEN w[r][t] ELSE db[t]
  BY InRow DEF Committing, View, See, Written
<1>2. \A t \in Tok : Written(r, t) => w[r][t] # NoRow
  BY Sentinels DEF TokenInv, WrittenTokens
<1>3. \A t \in Tok : db[t] # NoRow => /\ db'[t] # NoRow /\ db'[t] \in TokRow
                                      /\ db'[t].fam = db[t].fam
                                      /\ Usable(db'[t]) => Usable(db[t])
  BY <1>1, <1>2 DEF TokenInv, WrittenTokens, OnlySpends, Families
<1> QED
  BY <1>1, <1>2, <1>3 DEF Created

\* A token that is usable after the commit was so before, or has been created and
\* starts its family, or has been created in the place of one that no longer is.
LEMMA UsableAfter ==
  ASSUME TokenInv, NEW r \in Conn, Committing(r),
         NEW t \in Tok, db'[t] # NoRow, Usable(db'[t])
  PROVE  \/ db[t] # NoRow /\ Usable(db[t]) /\ db'[t].fam = db[t].fam
         \/ Created(r, t) /\ db'[t] = w[r][t] /\ db'[t].fam = t
         \/ /\ Created(r, t) /\ db'[t] = w[r][t]
            /\ \E k \in Tok : /\ db[k] # NoRow /\ Usable(db[k]) /\ ~Usable(db'[k])
                             /\ db[k].fam = db'[t].fam
<1>1. CASE db[t] # NoRow
  BY <1>1, ViewIs
<1>2. CASE db[t] = NoRow
  <2>1. Created(r, t) /\ db'[t] = w[r][t]
    BY <1>2, ViewIs DEF Created
  <2>2. w[r][t].fam = t \/ \E k \in Tok : Replaces(r, k, w[r][t].fam)
    BY <2>1 DEF TokenInv, Successors
  <2> QED
    BY <2>1, <2>2, ViewIs DEF Replaces
<1> QED
  BY <1>1, <1>2

LEMMA HolderStays == ASSUME TokenInv, NEW r \in Conn, Committing(r) PROVE OneHolder'
<1> SUFFICES ASSUME NEW t \in Tok, NEW u \in Tok,
                    db'[t] # NoRow, Usable(db'[t]), db'[u] # NoRow, Usable(db'[u]),
                    db'[t].fam = db'[u].fam
             PROVE  t = u
  BY HoldersAre DEF OneHolder
<1>1. \A a, b \in Tok : /\ db[a] # NoRow /\ Usable(db[a]) /\ db[b] # NoRow /\ Usable(db[b])
                       /\ db[a].fam = db[b].fam => a = b
  BY HoldersAre DEF TokenInv, OneHolder
<1>2. \A a, b \in Tok : Created(r, a) /\ Created(r, b) => a = b
  BY DEF TokenInv, OneCreated
<1>3. \A a, b \in Tok : db[a] # NoRow /\ Created(r, b) => db[a].fam # b
  BY DEF TokenInv, Families, Created
<1>4. CASE db[t] # NoRow /\ db[u] # NoRow
  BY <1>1, <1>4, ViewIs
<1>5. CASE db[t] = NoRow /\ db[u] = NoRow
  BY <1>2, <1>5, ViewIs
<1>6. ASSUME NEW a \in Tok, NEW b \in Tok, db[a] # NoRow, db[b] = NoRow,
             db'[a] # NoRow, Usable(db'[a]), db'[b] # NoRow, Usable(db'[b]),
             db'[a].fam = db'[b].fam
      PROVE  FALSE
  <2>1. Created(r, b) /\ Usable(db[a]) /\ db[a].fam = db'[b].fam
    BY <1>6, ViewIs
  <2>2. PICK k \in Tok : /\ db[k] # NoRow /\ Usable(db[k]) /\ ~Usable(db'[k])
                        /\ db[k].fam = db'[b].fam
    BY <1>3, <1>6, <2>1, UsableAfter
  <2> QED
    BY <1>1, <1>6, <2>1, <2>2
<1> QED
  BY <1>4, <1>5, <1>6

LEMMA CommitKeeps == ASSUME TokenInv, NEW r \in Conn, Committing(r) PROVE TokenInv'
<1> USE DEF TokenInv
<1>1. /\ DOMAIN w' = Conn /\ \A q \in Conn : DOMAIN w'[q] = Row
      /\ \A q \in Conn, u \in Tok : w'[q][u] = IF q = r THEN Nil ELSE w[q][u]
  BY DropIs DEF Committing
<1>2. \A q \in Conn \ {r}, u \in Tok : Written(q, u) => db'[u] = db[u]
  BY ViewIs DEF OneWriter
<1>3. Shape' /\ OneWriter' /\ OneCreated'
  BY <1>1, <1>2, ViewIs DEF Shape, OneWriter, OneCreated, Created, Written
<1>4. Families'
  <2> SUFFICES ASSUME NEW t \in Tok, db'[t] # NoRow
               PROVE  db'[t] \in TokRow /\ db'[db'[t].fam] # NoRow
    BY DEF Families
  <2>1. CASE db[t] # NoRow
    <3>1. db[t].fam \in Tok /\ db[db[t].fam] # NoRow
      BY <2>1 DEF Families, TokRow
    <3> QED
      BY <2>1, <3>1, ViewIs
  <2>2. CASE db[t] = NoRow
    <3>1. Created(r, t) /\ db'[t] = w[r][t] /\ db'[t] \in TokRow
      BY <2>2, ViewIs DEF WrittenTokens, Created
    <3>2. CASE w[r][t].fam = t
      BY <3>1, <3>2
    <3>3. ASSUME NEW k \in Tok, Replaces(r, k, w[r][t].fam)
          PROVE  db'[w[r][t].fam] # NoRow
      <4>1. db[k] # NoRow /\ db[k].fam = w[r][t].fam
        BY <3>3 DEF Replaces
      <4>2. db[k].fam \in Tok /\ db[db[k].fam] # NoRow
        BY <4>1 DEF Families, TokRow
      <4> QED
        BY <4>1, <4>2, ViewIs
    <3> QED
      BY <3>1, <3>2, <3>3 DEF Successors
  <2> QED
    BY <2>1, <2>2
<1>5. WrittenTokens' /\ OnlySpends'
  BY <1>1, <1>2 DEF WrittenTokens, OnlySpends, Written
<1>6. Successors'
  <2> SUFFICES ASSUME NEW q \in Conn, NEW u \in Tok, Created(q, u)'
               PROVE  /\ Usable(w[q][u])'
                      /\ (w[q][u].fam = u)' \/ \E k \in Tok : Replaces(q, k, w[q][u].fam)'
    BY DEF Successors
  <2>1. q # r /\ w'[q][u] = w[q][u] /\ Created(q, u)
    BY <1>1, <1>2 DEF Created, Written
  <2>2. ASSUME NEW k \in Tok, Replaces(q, k, w[q][u].fam)
        PROVE  Replaces(q, k, w[q][u].fam)'
    BY <1>1, <1>2, <2>1, <2>2 DEF Replaces, Written
  <2> QED
    BY <2>1, <2>2 DEF Successors
<1> QED
  BY <1>3, <1>4, <1>5, <1>6, HolderStays

-----------------------------------------------------------------------------
(* What a step does to the requests.                                        *)

SetReq(r, n) == req' = [req EXCEPT ![r] = n]

LEMMA SetReqIs ==
  ASSUME req \in [Conn -> Requests], NEW r \in Conn, NEW n \in Requests, SetReq(r, n)
  PROVE  /\ req' \in [Conn -> Requests]
         /\ \A q \in Conn : req'[q] = IF q = r THEN n ELSE req[q]
  BY DEF SetReq

\* The request of r becomes n; tokens stay, and so does what other requests hold.
LEMMA RequestsKeep ==
  ASSUME IInv, NEW r \in Conn, NEW n \in Requests, SetReq(r, n),
         \A t \in Tok : db[t] # NoRow => db'[t] # NoRow,
         \A q \in Conn \ {r}, t \in Tok : Created(q, t)' => Created(q, t),
         \A q \in Conn \ {r}, t \in Tok :
             Written(q, t) => w'[q][t] = w[q][t] /\ db'[t] = db[t],
         Placed(n)', HoldsKey(r)', CreatedLast(r)'
  PROVE  RequestInv'
<1>1. /\ req' \in [Conn -> Requests]
      /\ \A q \in Conn : req'[q] = IF q = r THEN n ELSE req[q]
  BY SetReqIs DEF IInv, RequestInv
<1>2. Placed(req[r])'
  BY <1>1 DEF Placed
<1>3. ASSUME NEW q \in Conn \ {r}
      PROVE  Placed(req[q])' /\ HoldsKey(q)' /\ CreatedLast(q)'
  <2>1. req'[q] = req[q] /\ req[q] \in Requests
    BY <1>1 DEF IInv, RequestInv
  <2>2. Placed(req[q]) /\ HoldsKey(q) /\ CreatedLast(q)
    BY DEF IInv, RequestInv
  <2>3. Placed(req[q])'
    BY <2>1, <2>2 DEF Placed
  <2>4. HoldsKey(q)'
    <3> SUFFICES ASSUME req[q].kind = "refresh" /\ req[q].at \in {"find", "rotate"}
                 PROVE  /\ req[q].key \in Tok
                        /\ db'[req[q].key] # NoRow /\ Usable(db'[req[q].key])
                        /\ w'[q][req[q].key] = db'[req[q].key]
      BY <2>1 DEF HoldsKey
    <3>1. /\ req[q].key \in Tok
          /\ db[req[q].key] # NoRow /\ Usable(db[req[q].key])
          /\ w[q][req[q].key] = db[req[q].key]
      BY <2>2 DEF HoldsKey
    <3>2. Written(q, req[q].key)
      BY <3>1, Sentinels DEF IInv, TokenInv, Families, Written
    <3> QED
      BY <3>1, <3>2
  <2>5. CreatedLast(q)'
    BY <2>1, <2>2 DEF CreatedLast, Created, Written
  <2> QED
    BY <2>3, <2>4, <2>5
<1> QED
  BY <1>1, <1>2, <1>3 DEF RequestInv

\* The request goes on to its next statement.
LEMMA OnwardIs ==
  ASSUME RequestInv, NEW r \in Conn,
         req[r].at \notin {"none", "lock", "rows", "codes", "bump", "mail"},
         req[r].at = "commit" => req[r].kind = "resend"
  PROVE  /\ Onward(r) \in Requests /\ Placed(Onward(r))
         /\ Onward(r).kind = req[r].kind /\ Onward(r).key = req[r].key
         /\ Onward(r).dev = req[r].dev
         /\ Onward(r).at = Flow[req[r].kind][req[r].at] /\ Onward(r).at # "bump"
         /\ Onward(r).kind = "refresh" /\ req[r].at # "find"
               => Onward(r).at \notin {"find", "rotate"}
<1> DEFINE k == req[r].kind
           a == req[r].at
           b == Flow[k][a]
<1>1. req[r] \in Requests /\ Placed(req[r])
  BY DEF RequestInv
<1>2. k \in Kinds /\ a \in Stage[k]
  BY <1>1 DEF Placed, Requests
<1>3. a \in DOMAIN Flow[k]
  <2>1. CASE a = "commit"
    BY <2>1 DEF Flow, ResendFlow
  <2>2. CASE a # "commit"
    BY <1>2, <2>2, FlowCovers
  <2> QED
    BY <2>1, <2>2
<1>4. b \in Stage[k] \ {"lock", "one", "rows", "codes", "bump"} /\ b \in Statement
  BY <1>2, <1>3, FlowStays, StageIsStatement
<1>5. k = "refresh" /\ a # "find" => b \notin {"find", "rotate"}
  BY <1>2, FlowEnds, StageKinds
<1>6. Onward(r) = [req[r] EXCEPT !.at = b]
  BY DEF Onward
<1> HIDE DEF b
<1>7. /\ Onward(r) \in Requests
      /\ Onward(r).kind = k /\ Onward(r).key = req[r].key /\ Onward(r).at = b
      /\ Onward(r).dev = req[r].dev /\ Onward(r).left = req[r].left
  BY <1>1, <1>4, <1>6 DEF Requests
<1>8. Placed(Onward(r))
  BY <1>1, <1>2, <1>4, <1>7 DEF Placed
<1> QED
  BY <1>4, <1>5, <1>7, <1>8 DEF b

\* A step that leaves the tokens alone.
LEMMA QuietStep ==
  ASSUME IInv, NEW r \in Conn, NEW n \in Requests, Untouched, SetReq(r, n), Placed(n),
         (\E t \in Tok : Created(r, t)) =>
             n.at = "commit" \/ (n.kind = "refresh" /\ n.at \in {"seen", "user"}),
         n.kind = "refresh" /\ n.at \in {"find", "rotate"} =>
             /\ req[r].kind = "refresh" /\ req[r].at = "find" /\ n.key = req[r].key
  PROVE  IInv'
<1>1. TokenInv' /\ \A q \in Conn, t \in Tok : Created(q, t)' <=> Created(q, t)
  BY UntouchedKeeps DEF IInv
<1>2. req'[r] = n
  BY SetReqIs DEF IInv, RequestInv
<1>3. HoldsKey(r)'
  <2>1. HoldsKey(r)
    BY DEF IInv, RequestInv
  <2> QED
    BY <1>2, <2>1 DEF HoldsKey, Untouched
<1>4. CreatedLast(r)'
  BY <1>1, <1>2 DEF CreatedLast, Created, Written
<1>5. Placed(n)'
  BY DEF Placed, Untouched
<1>6. RequestInv'
  BY <1>1, <1>3, <1>4, <1>5, RequestsKeep DEF Untouched, Created, Written
<1> QED
  BY <1>1, <1>6 DEF IInv

LEMMA Standing ==
  ASSUME IInv, NEW r \in Conn, NEW a \in Statement \ {"none"}, At(r, a)
  PROVE  /\ req[r] \in Requests /\ Placed(req[r]) /\ req[r].at = a
         /\ req[r].kind \in Kinds /\ a \in Stage[req[r].kind]
         /\ a \notin {"commit", "seen", "user"} => \A t \in Tok : ~Created(r, t)
         /\ a \in {"seen", "user"} /\ (\E t \in Tok : Created(r, t))
               => req[r].kind = "refresh"
<1>1. req[r] \in Requests /\ Placed(req[r]) /\ req[r].at = a /\ CreatedLast(r)
  BY DEF IInv, RequestInv, At
<1> QED
  BY <1>1 DEF Placed, Requests, CreatedLast

LEMMA PutElsewhere ==
  ASSUME IInv, NEW r \in Conn, NEW x, x \notin Tok, NEW v, Put(r, x, v), UNCHANGED db
  PROVE  Untouched
  BY PutIs, InRow DEF IInv, TokenInv, Shape, Untouched

LEMMA NothingWritten == ASSUME IInv, UNCHANGED <<db, w>> PROVE Untouched
  BY DEF IInv, TokenInv, Shape, Untouched

\* A statement that writes no token and goes on.
LEMMA PlainStep ==
  ASSUME IInv, NEW r \in Conn, NEW a \in Statement, At(r, a),
         a \notin {"none", "lock", "find", "rotate", "rows", "codes", "bump", "mail", "commit"},
         Untouched, NEW fit \in BOOLEAN,
         SetReq(r, [Onward(r) EXCEPT !.fit = fit])
  PROVE  IInv'
<1> DEFINE n == [Onward(r) EXCEPT !.fit = fit]
<1>1. /\ req[r].at = a /\ req[r].kind \in Kinds /\ a \in Stage[req[r].kind]
      /\ a \notin {"seen", "user"} => \A t \in Tok : ~Created(r, t)
      /\ (\E t \in Tok : Created(r, t)) => req[r].kind = "refresh"
  BY Standing
<1>2. /\ Onward(r) \in Requests /\ Placed(Onward(r))
      /\ Onward(r).kind = req[r].kind
      /\ Onward(r).at = Flow[req[r].kind][req[r].at]
      /\ Onward(r).kind = "refresh" => Onward(r).at \notin {"find", "rotate"}
  BY <1>1, OnwardIs DEF IInv
<1>3. /\ n \in Requests /\ n.kind = Onward(r).kind /\ n.at = Onward(r).at
      /\ n.dev = Onward(r).dev /\ n.key = Onward(r).key /\ n.left = Onward(r).left
  BY <1>2 DEF Requests
<1>4. Placed(n)
  BY <1>2, <1>3 DEF Placed
<1> HIDE DEF n
<1>5. (\E t \in Tok : Created(r, t)) =>
          n.at = "commit" \/ (n.kind = "refresh" /\ n.at \in {"seen", "user"})
  <2> SUFFICES ASSUME \E t \in Tok : Created(r, t)
               PROVE  n.at = "commit" \/ (n.kind = "refresh" /\ n.at \in {"seen", "user"})
    OBVIOUS
  <2>1. req[r].kind = "refresh" /\ a \in {"seen", "user"}
    BY <1>1
  <2>2. Onward(r).at \in {"user", "commit"}
    BY <1>1, <1>2, <2>1, FlowEnds
  <2> QED
    BY <1>2, <1>3, <2>1, <2>2
<1>6. n.kind = "refresh" => n.at \notin {"find", "rotate"}
  BY <1>2, <1>3
<1>7. SetReq(r, n)
  BY DEF n
<1> QED
  BY <1>3, <1>4, <1>5, <1>6, <1>7, QuietStep

\* Going on without a new judgement of the user is going on with the old one.
LEMMA GoIsPlain ==
  ASSUME IInv, NEW r \in Conn, Go(r), Onward(r) \in Requests
  PROVE  SetReq(r, [Onward(r) EXCEPT !.fit = req[r].fit]) /\ req[r].fit \in BOOLEAN
<1>1. req[r] \in Requests
  BY DEF IInv, RequestInv
<1>2. Onward(r).fit = req[r].fit
  BY <1>1 DEF Onward, Requests
<1>3. [Onward(r) EXCEPT !.fit = req[r].fit] = Onward(r)
  BY <1>2 DEF Requests
<1> QED
  BY <1>1, <1>3 DEF Go, SetReq, Requests

LEMMA GoStep ==
  ASSUME IInv, NEW r \in Conn, NEW a \in Statement, At(r, a), Untouched, Go(r),
         a \notin {"none", "lock", "find", "rotate", "rows", "codes", "bump", "mail", "commit"}
  PROVE  IInv'
<1>1. Onward(r) \in Requests
  BY OnwardIs, Standing DEF IInv
<1>2. SetReq(r, [Onward(r) EXCEPT !.fit = req[r].fit]) /\ req[r].fit \in BOOLEAN
  BY <1>1, GoIsPlain
<1> QED
  BY <1>2, PlainStep

LEMMA DeviceIsNoToken ==
  ASSUME IInv, NEW r \in Conn PROVE req[r].dev \notin Tok
  BY RowsAssumption DEF IInv, RequestInv, Requests, Row

LEMMA DeviceSteps ==
  ASSUME IInv, NEW r \in Conn, SignInDevice(r) \/ TouchDevice(r) \/ RetireDevice(r)
  PROVE  IInv'
<1>1. CASE SignInDevice(r)
  <2>1. Untouched
    BY <1>1, PutElsewhere, DeviceIsNoToken DEF SignInDevice
  <2> QED
    BY <1>1, <2>1, GoStep DEF SignInDevice, Statement
<1>2. CASE TouchDevice(r)
  <2>1. Untouched
    BY <1>2, PutElsewhere, DeviceIsNoToken DEF TouchDevice
  <2> QED
    BY <1>2, <2>1, GoStep DEF TouchDevice, Statement
<1>3. CASE RetireDevice(r)
  <2>1. Untouched
    BY <1>3, PutElsewhere, DeviceIsNoToken DEF RetireDevice
  <2> QED
    BY <1>3, <2>1, GoStep DEF RetireDevice, Statement
<1> QED
  BY <1>1, <1>2, <1>3

LEMMA UserStep == ASSUME IInv, NEW r \in Conn, WriteUser(r) PROVE IInv'
<1>1. PICK fit \in BOOLEAN : SetReq(r, [Onward(r) EXCEPT !.fit = fit])
  <2>1. Onward(r) \in Requests /\ Onward(r).fit \in BOOLEAN
    BY OnwardIs, Standing DEF WriteUser, At, IInv, Statement, Requests
  <2>2. \A u : CanSignIn(u) \in BOOLEAN
    BY DEF CanSignIn
  <2> QED
    BY <2>1, <2>2 DEF WriteUser, SetReq
<1>2. Untouched
  BY PutElsewhere, InRow DEF WriteUser
<1> QED
  BY <1>1, <1>2, PlainStep DEF WriteUser, Statement

LEMMA FindStep == ASSUME IInv, NEW r \in Conn, Find(r) PROVE IInv'
<1> DEFINE fit == CanSignIn(See(r, User))
           n == [Onward(r) EXCEPT !.fit = fit]
<1>1. At(r, "find") /\ SetReq(r, n) /\ fit \in BOOLEAN
  BY DEF Find, SetReq, CanSignIn
<1>2. /\ req[r].at = "find" /\ req[r].kind \in Kinds
      /\ \A t \in Tok : ~Created(r, t)
  BY <1>1, Standing DEF Statement
<1>3. /\ Onward(r) \in Requests /\ Placed(Onward(r))
      /\ Onward(r).kind = req[r].kind /\ Onward(r).key = req[r].key
  BY <1>2, OnwardIs DEF IInv
<1> HIDE DEF fit
<1>4. /\ n \in Requests /\ n.kind = Onward(r).kind /\ n.at = Onward(r).at
      /\ n.dev = Onward(r).dev /\ n.key = Onward(r).key /\ n.left = Onward(r).left
  BY <1>1, <1>3 DEF Requests
<1>5. Placed(n)
  BY <1>3, <1>4 DEF Placed
<1>6. Untouched
  BY NothingWritten DEF Find
<1> HIDE DEF n
<1> QED
  BY <1>1, <1>2, <1>3, <1>4, <1>5, <1>6, QuietStep

\* The commands that work through rows.
LEMMA RevokeStep == ASSUME IInv, NEW r \in Conn, Revoke(r) PROVE IInv'
<1>1. At(r, "revoke") /\ Untouched
  BY NothingWritten DEF Revoke
<1>2. /\ req[r] \in Requests /\ Placed(req[r]) /\ req[r].at = "revoke"
      /\ req[r].kind \in Kinds /\ "revoke" \in Stage[req[r].kind]
      /\ \A t \in Tok : ~Created(r, t)
  BY <1>1, Standing DEF Statement
<1>3. CASE Scope(r) = {}
  <2>1. Go(r)
    BY <1>3 DEF Revoke, Go
  <2> QED
    BY <1>1, <2>1, GoStep DEF Statement
<1>4. CASE Scope(r) # {}
  <2> DEFINE n == [req[r] EXCEPT !.at = "rows", !.left = Scope(r)]
  <2>1. SetReq(r, n)
    BY <1>4 DEF Revoke, SetReq
  <2>2. Scope(r) \subseteq Tok /\ \A t \in Scope(r) : db[t] # NoRow
    BY <1>2 DEF Scope, See, Created, Written
  <2>3. Scope(r) \subseteq Row
    BY <2>2, InRow
  <2>4. /\ n \in Requests /\ n.kind = req[r].kind /\ n.at = "rows"
        /\ n.dev = req[r].dev /\ n.key = req[r].key /\ n.left = Scope(r)
    BY <1>2, <2>3 DEF Requests, Statement
  <2>5. "rows" \in Stage[req[r].kind]
    BY <1>2 DEF Kinds, Stage
  <2>6. Placed(n)
    BY <1>2, <2>2, <2>4, <2>5 DEF Placed
  <2> HIDE DEF n
  <2> QED
    BY <1>1, <1>2, <2>1, <2>4, <2>6, QuietStep
<1> QED
  BY <1>3, <1>4

\* A step of r after which it has created nothing, and does not hold its key.
LEMMA TokenStep ==
  ASSUME IInv, NEW r \in Conn, NEW n \in Requests, SetReq(r, n), Placed(n),
         TokenInv', UNCHANGED db,
         \A q \in Conn, t \in Tok : Created(q, t)' <=> Created(q, t),
         \A q \in Conn \ {r}, t \in Tok : w'[q][t] = w[q][t],
         \A t \in Tok : ~Created(r, t),
         n.kind = "refresh" => n.at \notin {"find", "rotate"}
  PROVE  IInv'
<1>1. req'[r] = n
  BY SetReqIs DEF IInv, RequestInv
<1>2. HoldsKey(r)' /\ CreatedLast(r)'
  BY <1>1 DEF HoldsKey, CreatedLast, Created, Written
<1>3. Placed(n)'
  BY DEF Placed
<1>4. RequestInv'
  BY <1>2, <1>3, RequestsKeep DEF Created, Written
<1> QED
  BY <1>4 DEF IInv

\* What r sees of a token that exists, no other transaction holding it.
LEMMA SeenToken ==
  ASSUME TokenInv, NEW r \in Conn, NEW t \in Tok, db[t] # NoRow
  PROVE  /\ See(r, t) \in TokRow /\ See(r, t).fam = db[t].fam
         /\ Usable(See(r, t)) => Usable(db[t])
  BY DEF TokenInv, Families, WrittenTokens, OnlySpends, See, Written

LEMMA RevokeOneStep == ASSUME IInv, NEW r \in Conn, RevokeOne(r) PROVE IInv'
<1> DEFINE t == req[r].key
           v == [See(r, t) EXCEPT !.rev = TRUE]
<1>1. At(r, "one") /\ Free(r, t) /\ Put(r, t, v) /\ Go(r) /\ UNCHANGED db
  BY DEF RevokeOne
<1>2. /\ Placed(req[r]) /\ req[r].at = "one" /\ req[r].kind \in Kinds
      /\ \A u \in Tok : ~Created(r, u)
  BY <1>1, Standing DEF Statement
<1>3. t \in Tok /\ db[t] # NoRow
  BY <1>2 DEF Placed
<1>4. v \in TokRow /\ v.fam = db[t].fam /\ ~Usable(v)
  BY <1>3, SeenToken, Revoked DEF IInv
<1> HIDE DEF t, v
<1>5. /\ TokenInv'
      /\ \A q \in Conn, u \in Tok : Created(q, u)' <=> Created(q, u)
      /\ \A q \in Conn \ {r}, u \in Tok : w'[q][u] = w[q][u]
  BY <1>1, <1>2, <1>3, <1>4, WriteKeeps DEF IInv
<1>6. /\ Onward(r) \in Requests /\ Placed(Onward(r))
      /\ Onward(r).kind = "refresh" => Onward(r).at \notin {"find", "rotate"}
  BY <1>2, OnwardIs DEF IInv
<1>7. SetReq(r, Onward(r))
  BY <1>1 DEF Go, SetReq
<1> QED
  BY <1>1, <1>2, <1>5, <1>6, <1>7, TokenStep

LEMMA RevokeRowStep == ASSUME IInv, NEW r \in Conn, NEW t \in Tok, RevokeRow(r, t) PROVE IInv'
<1> DEFINE v == [See(r, t) EXCEPT !.rev = TRUE]
           b == IF req[r].left = {t} THEN Flow[req[r].kind]["revoke"] ELSE "rows"
           n == [req[r] EXCEPT !.left = req[r].left \ {t}, !.at = b]
<1>1. /\ At(r, "rows") /\ t \in req[r].left /\ Free(r, t) /\ UNCHANGED db
      /\ UNCHANGED w \/ Put(r, t, v)
      /\ SetReq(r, n)
  <2>1. At(r, "rows") /\ t \in req[r].left /\ Free(r, t) /\ UNCHANGED db
    BY DEF RevokeRow
  <2>2. UNCHANGED w \/ Put(r, t, v)
    BY DEF RevokeRow, Put
  <2>3. SetReq(r, n)
    BY DEF RevokeRow, SetReq
  <2> QED
    BY <2>1, <2>2, <2>3
<1>2. /\ req[r] \in Requests /\ Placed(req[r]) /\ req[r].at = "rows"
      /\ req[r].kind \in Kinds /\ "rows" \in Stage[req[r].kind]
      /\ \A u \in Tok : ~Created(r, u)
  BY <1>1, Standing DEF Statement
<1>3. db[t] # NoRow
  BY <1>1, <1>2 DEF Placed
<1>4. v \in TokRow /\ v.fam = db[t].fam /\ ~Usable(v)
  BY <1>3, SeenToken, Revoked DEF IInv
<1>5. /\ b \in Stage[req[r].kind] \ {"lock", "one", "codes", "bump"} /\ b \in Statement
      /\ req[r].kind = "refresh" => b \notin {"find", "rotate"}
  <2>1. "revoke" \in Stage[req[r].kind]
    BY <1>2 DEF Kinds, Stage
  <2>2. "revoke" \in DOMAIN Flow[req[r].kind]
    BY <1>2, <2>1, FlowCovers
  <2>3. Flow[req[r].kind]["revoke"] \in Stage[req[r].kind] \ {"lock", "one", "rows", "codes", "bump"}
    BY <1>2, <2>2, FlowStays
  <2> QED
    BY <1>2, <2>3, FlowEnds, StageIsStatement
<1> HIDE DEF b
<1>6. /\ n \in Requests /\ n.kind = req[r].kind /\ n.at = b
      /\ n.dev = req[r].dev /\ n.key = req[r].key /\ n.left = req[r].left \ {t}
  BY <1>2, <1>5 DEF Requests
<1>7. Placed(n)
  BY <1>2, <1>5, <1>6 DEF Placed, b
<1> HIDE DEF n, v
<1>8. CASE UNCHANGED w
  <2>1. Untouched
    BY <1>1, <1>8, NothingWritten
  <2> QED
    BY <1>1, <1>2, <1>5, <1>6, <1>7, <2>1, QuietStep
<1>9. CASE Put(r, t, v)
  <2>1. /\ TokenInv'
        /\ \A q \in Conn, u \in Tok : Created(q, u)' <=> Created(q, u)
        /\ \A q \in Conn \ {r}, u \in Tok : w'[q][u] = w[q][u]
    BY <1>1, <1>2, <1>3, <1>4, <1>9, WriteKeeps DEF IInv
  <2> QED
    BY <1>1, <1>2, <1>5, <1>6, <1>7, <2>1, TokenStep
<1> QED
  BY <1>1, <1>8, <1>9

LEMMA RequestTo ==
  ASSUME IInv, NEW r \in Conn, NEW n \in Requests, SetReq(r, n), Placed(n),
         TokenInv', UNCHANGED db,
         \A q \in Conn \ {r}, t \in Tok : Created(q, t)' => Created(q, t),
         \A q \in Conn \ {r}, t \in Tok : w'[q][t] = w[q][t],
         HoldsKey(r)', CreatedLast(r)'
  PROVE  IInv'
<1>1. Placed(n)'
  BY DEF Placed
<1>2. RequestInv'
  BY <1>1, RequestsKeep DEF Created, Written
<1> QED
  BY <1>2 DEF IInv

LEMMA LockStep == ASSUME IInv, NEW r \in Conn, LockToken(r) PROVE IInv'
<1> DEFINE t == req[r].key
           b == IF db[t].rev \/ db[t].next # Nil THEN "revoke" ELSE "find"
           n == [req[r] EXCEPT !.at = b]
<1>1. /\ At(r, "lock") /\ Free(r, t) /\ Put(r, t, db[t]) /\ UNCHANGED db
      /\ req' = [req EXCEPT ![r].at = b]
  BY DEF LockToken
<1>2. /\ req[r] \in Requests /\ Placed(req[r]) /\ req[r].at = "lock"
      /\ req[r].kind = "refresh" /\ \A u \in Tok : ~Created(r, u)
  BY <1>1, Standing, StageKinds DEF Statement
<1>3. t \in Tok /\ db[t] # NoRow
  BY <1>2 DEF Placed
<1>4. db[t] \in TokRow
  BY <1>3 DEF IInv, TokenInv, Families
<1>5. b \in {"revoke", "find"} /\ (b = "find" => Usable(db[t]))
  BY DEF Usable
<1>6. SetReq(r, n)
  BY <1>1 DEF SetReq, IInv, RequestInv
<1> HIDE DEF b
<1>7. /\ n \in Requests /\ n.kind = "refresh" /\ n.at = b
      /\ n.dev = req[r].dev /\ n.key = t /\ n.left = req[r].left
  BY <1>2, <1>5 DEF Requests, Statement
<1>8. Placed(n)
  BY <1>2, <1>5, <1>7 DEF Placed, Stage, SignIn
<1> HIDE DEF n, t
<1>9. /\ TokenInv' /\ w'[r][t] = db[t]
      /\ \A q \in Conn, u \in Tok : Created(q, u)' <=> Created(q, u)
      /\ \A q \in Conn \ {r}, u \in Tok : w'[q][u] = w[q][u]
  BY <1>1, <1>2, <1>3, <1>4, WriteKeeps DEF IInv
<1>10. req'[r] = n
  BY <1>6, <1>7, SetReqIs DEF IInv, RequestInv
<1>11. HoldsKey(r)' /\ CreatedLast(r)'
  BY <1>1, <1>2, <1>3, <1>5, <1>7, <1>9, <1>10 DEF HoldsKey, CreatedLast, Created, Written
<1>12. \A q \in Conn \ {r}, u \in Tok : Created(q, u)' => Created(q, u)
  BY <1>9 DEF Created, Written
<1> QED
  BY <1>1, <1>6, <1>7, <1>8, <1>9, <1>11, <1>12, RequestTo

\* A token is created, and the request goes on to the end.
LEMMA CreatingStep ==
  ASSUME IInv, NEW r \in Conn, NEW t \in Tok, TokenInv', UNCHANGED db,
         \A q \in Conn, u \in Tok :
             Created(q, u)' <=> Created(q, u) \/ (q = r /\ u = t),
         \A q \in Conn \ {r}, u \in Tok : w'[q][u] = w[q][u],
         Onward(r) \in Requests, Placed(Onward(r)), Go(r),
         \/ Onward(r).at = "commit"
         \/ Onward(r).kind = "refresh" /\ Onward(r).at = "seen"
  PROVE  IInv'
<1>1. SetReq(r, Onward(r))
  BY DEF Go, SetReq
<1>2. req'[r] = Onward(r)
  BY <1>1, SetReqIs DEF IInv, RequestInv
<1>3. HoldsKey(r)' /\ CreatedLast(r)'
  BY <1>2 DEF HoldsKey, CreatedLast
<1>4. \A q \in Conn \ {r}, u \in Tok : Created(q, u)' => Created(q, u)
  BY DEF Created, Written
<1> QED
  BY <1>1, <1>3, <1>4, RequestTo DEF Created, Written

LEMMA IssueStep == ASSUME IInv, NEW r \in Conn, IssueToken(r) PROVE IInv'
<1> DEFINE v == [dev |-> req[r].dev, fam |-> Fresh, rev |-> FALSE, next |-> Nil]
<1>1. At(r, "issue") /\ Unused # {} /\ Put(r, Fresh, v) /\ Go(r) /\ UNCHANGED db
  BY DEF IssueToken
<1>2. /\ Placed(req[r]) /\ req[r].at = "issue" /\ req[r].kind \in SignIn
      /\ \A u \in Tok : ~Created(r, u)
  BY <1>1, Standing, StageKinds DEF Statement
<1>3. req[r].dev \in Device /\ Fresh \in Tok
  BY <1>1, <1>2, FreshIs DEF Placed
<1>4. v \in TokRow /\ v.fam = Fresh /\ Usable(v)
  BY <1>3, Starting
<1>5. Onward(r) \in Requests /\ Placed(Onward(r)) /\ Onward(r).at = "commit"
  BY <1>2, OnwardIs, FlowEnds DEF IInv
<1> HIDE DEF v
<1>6. /\ TokenInv'
      /\ \A q \in Conn, u \in Tok :
            Created(q, u)' <=> Created(q, u) \/ (q = r /\ u = Fresh)
      /\ \A q \in Conn \ {r}, u \in Tok : w'[q][u] = w[q][u]
  BY <1>1, <1>2, <1>4, IssueKeeps DEF IInv
<1> QED
  BY <1>1, <1>3, <1>5, <1>6, CreatingStep

LEMMA RotateStep == ASSUME IInv, NEW r \in Conn, Rotate(r) PROVE IInv'
<1> DEFINE key == req[r].key
           old == See(r, key)
           succ == [old EXCEPT !.rev = FALSE, !.next = Nil]
           spent == [old EXCEPT !.next = Fresh]
<1>1. /\ At(r, "rotate") /\ Unused # {} /\ Free(r, key) /\ Go(r) /\ UNCHANGED db
      /\ PutTwo(r, Fresh, succ, key, spent)
  BY DEF Rotate, PutTwo
<1>2. /\ req[r].at = "rotate" /\ req[r].kind = "refresh" /\ \A u \in Tok : ~Created(r, u)
  BY <1>1, Standing, StageKinds DEF Statement
<1>3. Fresh \in Tok /\ db[Fresh] = NoRow /\ \A q \in Conn : w[q][Fresh] = Nil
  BY <1>1, FreshIs
<1>4. key \in Tok /\ db[key] # NoRow /\ Usable(db[key]) /\ w[r][key] = db[key]
  BY <1>2 DEF IInv, RequestInv, HoldsKey
<1>5. old = db[key] /\ old \in TokRow
  BY <1>4 DEF See, IInv, TokenInv, Families
<1>6. /\ succ \in TokRow /\ Usable(succ) /\ succ.fam = db[key].fam
      /\ spent \in TokRow /\ ~Usable(spent) /\ spent.fam = db[key].fam
  BY <1>3, <1>5, Succeeding, Spent
<1>7. \A q \in Conn \ {r} : w[q][key] = Nil
  BY <1>1 DEF Free
<1>8. /\ Onward(r) \in Requests /\ Placed(Onward(r))
      /\ Onward(r).kind = "refresh" /\ Onward(r).at = "seen"
  BY <1>2, OnwardIs, FlowEnds DEF IInv
<1> HIDE DEF key, succ, spent, old
<1>9. /\ TokenInv'
      /\ \A q \in Conn, u \in Tok :
            Created(q, u)' <=> Created(q, u) \/ (q = r /\ u = Fresh)
      /\ \A q \in Conn \ {r}, u \in Tok : w'[q][u] = w[q][u]
  BY <1>1, <1>2, <1>3, <1>4, <1>6, <1>7, ReplaceKeeps DEF IInv
<1> QED
  BY <1>1, <1>3, <1>8, <1>9, CreatingStep

LEMMA CodeIsNoToken ==
  ASSUME IInv, NEW r \in Conn, NEW a \in Statement, At(r, a),
         a \in {"bump", "consume", "create", "mail", "codes", "judge", "supersede"}
  PROVE  req[r].key \notin Tok /\ req[r].kind \in {"verify", "resend"}
<1>1. Placed(req[r]) /\ req[r].kind \in Kinds /\ a \in Stage[req[r].kind]
  BY Standing
<1>2. req[r].kind \in {"verify", "resend"}
  BY <1>1, StageKinds
<1> QED
  BY <1>1, <1>2 DEF Placed

\* A request that has ended, or is back before its first statement.
LEMMA EndIs == Idle \in Requests /\ Placed(Idle) /\ Idle.kind = "none" /\ Idle.at = "none"
  BY DEF Idle, Requests, Placed, Kinds, Statement, SignIn

LEMMA CodeTouched ==
  ASSUME IInv, NEW x, x \notin Tok, NEW d, db' = [db EXCEPT ![x] = d], UNCHANGED w
  PROVE  Untouched
  BY InRow DEF IInv, TokenInv, Shape, Untouched

LEMMA CodeSteps ==
  ASSUME IInv, NEW r \in Conn, Supersede(r) \/ CreateCode(r) \/ ConsumeCode(r)
  PROVE  IInv'
<1>1. CASE CreateCode(r)
  <2>1. At(r, "create") /\ Untouched /\ Go(r)
    BY <1>1, PutElsewhere, CodeIsNoToken DEF CreateCode, Statement
  <2> QED
    BY <2>1, GoStep DEF Statement
<1>2. CASE ConsumeCode(r)
  <2>1. At(r, "consume") /\ Untouched /\ Go(r)
    BY <1>2, PutElsewhere, CodeIsNoToken DEF ConsumeCode, Statement
  <2> QED
    BY <2>1, GoStep DEF Statement
<1>3. CASE Supersede(r)
  <2>1. At(r, "supersede") /\ Untouched
    BY <1>3, NothingWritten DEF Supersede
  <2>2. /\ req[r] \in Requests /\ Placed(req[r]) /\ req[r].at = "supersede"
        /\ req[r].kind \in Kinds /\ "supersede" \in Stage[req[r].kind]
        /\ \A t \in Tok : ~Created(r, t)
    BY <2>1, Standing DEF Statement
  <2>3. CASE Unspent(r) = {}
    <3>1. Go(r)
      BY <1>3, <2>3 DEF Supersede, Go
    <3> QED
      BY <2>1, <3>1, GoStep DEF Statement
  <2>4. CASE Unspent(r) # {}
    <3> DEFINE n == [req[r] EXCEPT !.at = "codes", !.left = Unspent(r)]
    <3>1. SetReq(r, n)
      BY <1>3, <2>4 DEF Supersede, SetReq
    <3>2. Unspent(r) \subseteq Code /\ Unspent(r) \subseteq Row
      BY DEF Unspent, Row
    <3>3. /\ n \in Requests /\ n.kind = req[r].kind /\ n.at = "codes"
          /\ n.dev = req[r].dev /\ n.key = req[r].key /\ n.left = Unspent(r)
      BY <2>2, <3>2 DEF Requests, Statement
    <3>4. "codes" \in Stage[req[r].kind]
      BY <2>2 DEF Kinds, Stage
    <3>5. Placed(n)
      BY <2>2, <3>2, <3>3, <3>4 DEF Placed
    <3> HIDE DEF n
    <3> QED
      BY <2>1, <2>2, <3>1, <3>3, <3>5, QuietStep
  <2> QED
    BY <2>3, <2>4
<1> QED
  BY <1>1, <1>2, <1>3

LEMMA SupersedeCodeStep ==
  ASSUME IInv, NEW r \in Conn, NEW c \in Code, SupersedeCode(r, c)
  PROVE  IInv'
<1> DEFINE b == IF req[r].left = {c} THEN Flow[req[r].kind]["supersede"] ELSE "codes"
           n == [req[r] EXCEPT !.left = req[r].left \ {c}, !.at = b]
<1>1. At(r, "codes") /\ Untouched
  BY PutElsewhere, InRow DEF SupersedeCode
<1>2. SetReq(r, n)
  BY DEF SupersedeCode, SetReq
<1>3. /\ req[r] \in Requests /\ Placed(req[r]) /\ req[r].at = "codes"
      /\ req[r].kind \in Kinds /\ "codes" \in Stage[req[r].kind]
      /\ \A t \in Tok : ~Created(r, t)
  BY <1>1, Standing DEF Statement
<1>4. req[r].kind = "resend"
  BY <1>3 DEF Kinds, Stage
<1>5. b \in Stage[req[r].kind] \ {"lock", "one", "rows", "bump"} /\ b \in Statement
  BY <1>3, <1>4 DEF Flow, ResendFlow, Stage, Statement
<1> HIDE DEF b
<1>6. /\ n \in Requests /\ n.kind = req[r].kind /\ n.at = b
      /\ n.dev = req[r].dev /\ n.key = req[r].key /\ n.left = req[r].left \ {c}
  BY <1>3, <1>5 DEF Requests
<1>7. Placed(n)
  BY <1>3, <1>5, <1>6 DEF Placed
<1> HIDE DEF n
<1> QED
  BY <1>1, <1>2, <1>3, <1>4, <1>6, <1>7, QuietStep

LEMMA JudgeStep == ASSUME IInv, NEW r \in Conn, Judge(r) PROVE IInv'
<1>1. At(r, "judge") /\ Untouched
  BY NothingWritten DEF Judge
<1>2. /\ req[r] \in Requests /\ Placed(req[r]) /\ req[r].at = "judge"
      /\ req[r].kind \in Kinds /\ "judge" \in Stage[req[r].kind]
      /\ \A t \in Tok : ~Created(r, t)
  BY <1>1, Standing DEF Statement
<1>3. PICK c \in Code :
         req' = [req EXCEPT ![r] = IF req[r].key = c THEN Onward(r)
                                   ELSE [req[r] EXCEPT !.key = c, !.at = "bump"]]
  BY DEF Judge
<1>4. CASE req[r].key = c
  <2>1. Go(r)
    BY <1>3, <1>4 DEF Go
  <2> QED
    BY <1>1, <2>1, GoStep DEF Statement
<1>5. CASE req[r].key # c
  <2> DEFINE n == [req[r] EXCEPT !.key = c, !.at = "bump"]
  <2>1. SetReq(r, n)
    BY <1>3, <1>5 DEF SetReq
  <2>2. req[r].kind = "verify" /\ c \notin Tok
    BY <1>2, InRow DEF Kinds, Stage
  <2>3. /\ n \in Requests /\ n.kind = "verify" /\ n.at = "bump"
        /\ n.dev = req[r].dev /\ n.key = c /\ n.left = req[r].left
    BY <1>2, <2>2 DEF Requests, Statement
  <2>4. Placed(n)
    BY <1>2, <2>2, <2>3 DEF Placed, Stage
  <2> HIDE DEF n
  <2> QED
    BY <1>1, <1>2, <2>1, <2>3, <2>4, QuietStep
<1> QED
  BY <1>4, <1>5

\* The statements that are transactions of their own, and end the request.
LEMMA CodeEnds ==
  ASSUME IInv, NEW r \in Conn, SendCode(r) \/ BumpAttempt(r)
  PROVE  IInv'
<1>1. /\ At(r, "mail") \/ At(r, "bump")
      /\ UNCHANGED w /\ SetReq(r, Idle)
      /\ UNCHANGED db \/ \E d : db' = [db EXCEPT ![req[r].key] = d]
  BY DEF SendCode, BumpAttempt, SetReq
<1>2. req[r].key \notin Tok /\ \A t \in Tok : ~Created(r, t)
  BY <1>1, CodeIsNoToken, Standing DEF Statement
<1>3. Untouched
  BY <1>1, <1>2, NothingWritten, CodeTouched
<1> QED
  BY <1>1, <1>2, <1>3, EndIs, QuietStep

LEMMA DoomedAre == ASSUME Families, NEW k, NEW d PROVE Doomed(k, d) \subseteq Tok
  BY DEF Families, Doomed, Live, Holders, TokRow

LEMMA KeysAre ==
  ASSUME Families, NEW k \in Kinds, NEW key \in Keys(k), NEW d \in Devices(k, key)
  PROVE  /\ key \in Tok \cup Code \cup {Nil} /\ d \in Device \cup {Nil}
         /\ k \in {"refresh", "logout", "logout_device"} => key \in Tok /\ db[key] # NoRow
         /\ k \in {"verify", "resend"} => key \notin Tok
         /\ k \in SignIn => d \in Device
<1>1. CASE k \in {"refresh", "logout", "logout_device"}
  <2>1. key \in Tok /\ db[key] # NoRow /\ d = db[key].dev
    BY <1>1 DEF Keys, Devices
  <2> QED
    BY <1>1, <2>1 DEF Families, TokRow, SignIn
<1>2. CASE k \in {"verify", "resend"}
  <2>1. key \in Code \cup {Nil} /\ key \notin Tok
    BY <1>2, Sentinels, InRow DEF Keys
  <2>2. d \in Device \cup {Nil} /\ (k = "verify" => d \in Device)
    BY <1>2 DEF Devices
  <2> QED
    BY <1>2, <2>1, <2>2 DEF SignIn
<1>3. CASE k \notin {"refresh", "logout", "logout_device", "verify", "resend"}
  BY <1>3 DEF Keys, Devices, SignIn
<1> QED
  BY <1>1, <1>2, <1>3

LEMMA BeginStep == ASSUME IInv, NEW r \in Conn, NEW k \in Kind, Begin(r, k) PROVE IInv'
<1>1. req[r] = Idle /\ Untouched
  BY NothingWritten DEF Begin
<1>2. PICK key \in Keys(k) : \E d \in Devices(k, key) :
         req' = [req EXCEPT ![r] = [Idle EXCEPT !.kind = k, !.at = First(k), !.dev = d,
                                                !.key = key, !.found = Doomed(k, d)]]
  BY DEF Begin
<1>3. PICK d \in Devices(k, key) :
         req' = [req EXCEPT ![r] = [Idle EXCEPT !.kind = k, !.at = First(k), !.dev = d,
                                                !.key = key, !.found = Doomed(k, d)]]
  BY <1>2
<1> DEFINE n == [Idle EXCEPT !.kind = k, !.at = First(k), !.dev = d, !.key = key,
                             !.found = Doomed(k, d)]
<1>4. SetReq(r, n)
  BY <1>3 DEF SetReq
<1>5. k \in Kinds
  BY KindsAre
<1>6. First(k) \in Stage[k] \ {"rows", "codes"} /\ First(k) \in Statement
  BY <1>5, FirstIn, StageIsStatement
<1>7. /\ key \in Tok \cup Code \cup {Nil} /\ d \in Device \cup {Nil}
      /\ k \in {"refresh", "logout", "logout_device"} => key \in Tok /\ db[key] # NoRow
      /\ k \in {"verify", "resend"} => key \notin Tok
      /\ k \in SignIn => d \in Device
  BY <1>5, KeysAre DEF IInv, TokenInv
<1>8. Doomed(k, d) \subseteq Tok
  BY DoomedAre DEF IInv, TokenInv
<1>9. /\ n \in Requests /\ n.kind = k /\ n.at = First(k) /\ n.dev = d /\ n.key = key
      /\ n.left = {}
  BY <1>5, <1>6, <1>7, <1>8 DEF Requests, Idle
<1> HIDE DEF n
<1>10. k # "none" /\ First(k) \in {"lock", "one"} => k \in {"refresh", "logout", "logout_device"}
  BY <1>5, FirstKinds
<1>11. Placed(n)
  BY <1>5, <1>6, <1>7, <1>9, <1>10 DEF Placed, Kinds
<1>12. \A t \in Tok : ~Created(r, t)
  BY <1>1 DEF IInv, RequestInv, CreatedLast, Idle
<1> QED
  BY <1>1, <1>4, <1>5, <1>9, <1>11, <1>12, FirstKinds, QuietStep

LEMMA FailStep == ASSUME IInv, NEW r \in Conn, Fail(r) PROVE IInv'
<1>1. Drop(r) /\ SetReq(r, Idle) /\ UNCHANGED db
  BY DEF Fail, Drop, SetReq
<1>2. TokenInv'
  BY <1>1, FailKeeps DEF IInv
<1>3. \A q \in Conn, t \in Tok : w'[q][t] = IF q = r THEN Nil ELSE w[q][t]
  BY <1>1, DropIs DEF IInv, TokenInv
<1>4. req'[r] = Idle
  BY <1>1, EndIs, SetReqIs DEF IInv, RequestInv
<1>5. HoldsKey(r)' /\ CreatedLast(r)'
  BY <1>3, <1>4, EndIs DEF HoldsKey, CreatedLast, Created, Written
<1>6. \A q \in Conn \ {r}, t \in Tok : Created(q, t)' => Created(q, t)
  BY <1>1, <1>3 DEF Created, Written
<1>7. \A q \in Conn \ {r}, t \in Tok : w'[q][t] = w[q][t]
  BY <1>3
<1> QED
  BY <1>1, <1>2, <1>5, <1>6, <1>7, EndIs, RequestTo

LEMMA CommitIs ==
  ASSUME IInv, NEW r \in Conn, Commit(r)
  PROVE  /\ At(r, "commit") /\ Committing(r)
         /\ \E n \in Requests : /\ SetReq(r, n) /\ Placed(n)
                                /\ n.kind = "refresh" => n.at \notin {"find", "rotate"}
                                /\ n.at \notin {"lock", "one", "rows"}
<1>1. At(r, "commit") /\ Committing(r)
  BY DEF Commit, Committing, Drop
<1>2. /\ req[r] \in Requests /\ Placed(req[r]) /\ req[r].at = "commit"
      /\ req[r].kind \in Kinds
  BY <1>1, Standing DEF Statement
<1>3. CASE req[r].kind = "resend"
  <2>1. SetReq(r, Onward(r))
    BY <1>3 DEF Commit, SetReq, IInv, RequestInv
  <2>2. Onward(r) \in Requests /\ Placed(Onward(r)) /\ Onward(r).kind = "resend"
    BY <1>2, <1>3, OnwardIs DEF IInv
  <2>3. Onward(r).at \notin {"lock", "one", "rows"}
    BY <2>2 DEF Placed, Stage, Kinds
  <2> QED
    BY <1>1, <2>1, <2>2, <2>3
<1>4. CASE req[r].kind # "resend"
  <2>1. SetReq(r, Idle)
    BY <1>4 DEF Commit, SetReq, IInv, RequestInv
  <2> QED
    BY <1>1, <2>1, EndIs
<1> QED
  BY <1>3, <1>4

LEMMA CommitStep == ASSUME IInv, NEW r \in Conn, Commit(r) PROVE IInv'
<1>1. Committing(r)
  BY CommitIs
<1>2. PICK n \in Requests : /\ SetReq(r, n) /\ Placed(n)
                            /\ n.kind = "refresh" => n.at \notin {"find", "rotate"}
                            /\ n.at \notin {"lock", "one", "rows"}
  BY CommitIs
<1>3. TokenInv'
  BY <1>1, CommitKeeps DEF IInv
<1>4. \A q \in Conn, t \in Tok : w'[q][t] = IF q = r THEN Nil ELSE w[q][t]
  BY <1>1, DropIs DEF IInv, TokenInv, Committing
<1>5. \A t \in Tok : db[t] # NoRow => db'[t] # NoRow
  BY <1>1, ViewIs DEF IInv
<1>6. \A q \in Conn \ {r}, t \in Tok : Written(q, t) => w'[q][t] = w[q][t] /\ db'[t] = db[t]
  BY <1>1, <1>4, ViewIs DEF IInv, TokenInv, OneWriter
<1>7. \A q \in Conn \ {r}, t \in Tok : Created(q, t)' => Created(q, t)
  BY <1>4, <1>5 DEF Created, Written
<1>8. req'[r] = n
  BY <1>2, SetReqIs DEF IInv, RequestInv
<1>9. HoldsKey(r)' /\ CreatedLast(r)'
  BY <1>2, <1>4, <1>8 DEF HoldsKey, CreatedLast, Created, Written
<1>10. Placed(n)'
  BY <1>2 DEF Placed
<1>11. RequestInv'
  BY <1>2, <1>5, <1>6, <1>7, <1>9, <1>10, RequestsKeep
<1> QED
  BY <1>3, <1>11 DEF IInv

-----------------------------------------------------------------------------
LEMMA NextStep == ASSUME IInv, [Next]_vars PROVE IInv'
<1>1. CASE UNCHANGED vars
  <2>1. UNCHANGED <<db, w, req>>
    BY <1>1 DEF vars
  <2> QED
    BY <2>1 DEF IInv, TokenInv, Shape, OneWriter, Families, WrittenTokens, OnlySpends,
                Successors, Replaces, OneCreated, OneHolder, Holders, Created, Written,
                RequestInv, Placed, HoldsKey, CreatedLast
<1>2. ASSUME NEW r \in Conn, NEW k \in Kind, Begin(r, k) PROVE IInv'
  BY <1>2, BeginStep
<1>3. ASSUME NEW r \in Conn, NEW t \in Tok, RevokeRow(r, t) PROVE IInv'
  BY <1>3, RevokeRowStep
<1>4. ASSUME NEW r \in Conn, NEW c \in Code, SupersedeCode(r, c) PROVE IInv'
  BY <1>4, SupersedeCodeStep
<1>5. ASSUME NEW r \in Conn,
             \/ Find(r) \/ WriteUser(r) \/ SignInDevice(r) \/ TouchDevice(r) \/ RetireDevice(r)
             \/ Supersede(r) \/ CreateCode(r) \/ ConsumeCode(r) \/ SendCode(r)
             \/ BumpAttempt(r) \/ Judge(r)
      PROVE  IInv'
  BY <1>5, FindStep, UserStep, DeviceSteps, CodeSteps, CodeEnds, JudgeStep
<1>6. ASSUME NEW r \in Conn,
             \/ IssueToken(r) \/ LockToken(r) \/ Rotate(r) \/ RevokeOne(r) \/ Revoke(r)
             \/ Commit(r) \/ Fail(r)
      PROVE  IInv'
  BY <1>6, IssueStep, LockStep, RotateStep, RevokeOneStep, RevokeStep, CommitStep, FailStep
<1> QED
  BY <1>1, <1>2, <1>3, <1>4, <1>5, <1>6 DEF Next

LEMMA Inductive == Spec => []IInv
<1>1. IInv /\ [Next]_vars => IInv'
  BY NextStep
<1> QED
  BY InitHolds, <1>1, PTL DEF Spec

\* Rotation is single-use (LockRefreshToken's FOR UPDATE, Refresh): however often
\* and however concurrently a token is presented, and whatever other requests
\* revoke, no session ever has two tokens that can be rotated.
THEOREM RotationSingleUse == Spec => []OneHolder
<1>1. IInv => OneHolder
  BY DEF IInv, TokenInv
<1> QED
  BY Inductive, <1>1, PTL

-----------------------------------------------------------------------------
(* Tokens implement sessions.                                               *)

\* The sessions there have been.
Opened(rows) == {rows[t].fam : t \in {u \in Tok : rows[u] # NoRow}}

LEMMA LiveIs ==
  ASSUME NEW rows
  PROVE  /\ \A f : f \in Live(rows) <=>
                   \E t \in Tok : rows[t] # NoRow /\ Usable(rows[t]) /\ rows[t].fam = f
         /\ \A f : f \in Opened(rows) <=> \E t \in Tok : rows[t] # NoRow /\ rows[t].fam = f
         /\ Live(rows) \subseteq Opened(rows)
<1>1. \A f : f \in Live(rows) <=>
             \E t \in Tok : rows[t] # NoRow /\ Usable(rows[t]) /\ rows[t].fam = f
  BY HoldersAre DEF Live
<1>2. \A f : f \in Opened(rows) <=> \E t \in Tok : rows[t] # NoRow /\ rows[t].fam = f
  BY DEF Opened
<1> QED
  BY <1>1, <1>2

\* r takes a step.
Acts(r) ==
    \/ \E k \in Kind : Begin(r, k)
    \/ Find(r) \/ WriteUser(r) \/ SignInDevice(r) \/ IssueToken(r)
    \/ LockToken(r) \/ Rotate(r) \/ TouchDevice(r) \/ RetireDevice(r)
    \/ RevokeOne(r) \/ Revoke(r)
    \/ \E t \in Tok : RevokeRow(r, t)
    \/ Supersede(r) \/ CreateCode(r) \/ SendCode(r)
    \/ \E c \in Code : SupersedeCode(r, c)
    \/ Judge(r) \/ BumpAttempt(r) \/ ConsumeCode(r)
    \/ Commit(r) \/ Fail(r)

\* The statements that are not COMMIT leave the committed tokens alone.
LEMMA TokensKept ==
  ASSUME IInv, NEW r \in Conn, Acts(r), ~Commit(r)
  PROVE  \A t \in Tok : db'[t] = db[t]
<1>1. CASE SendCode(r) \/ BumpAttempt(r)
  <2>1. At(r, "mail") \/ At(r, "bump")
    BY <1>1 DEF SendCode, BumpAttempt
  <2>2. req[r].key \notin Tok
    BY <2>1, CodeIsNoToken DEF Statement
  <2>3. DOMAIN db = Row /\ (db' = db \/ \E d : db' = [db EXCEPT ![req[r].key] = d])
    BY <1>1 DEF SendCode, BumpAttempt, IInv, TokenInv, Shape
  <2> QED
    BY <2>2, <2>3, InRow
<1>2. CASE ~SendCode(r) /\ ~BumpAttempt(r)
  BY <1>2 DEF Acts, Begin, Find, WriteUser, SignInDevice, IssueToken, LockToken, Rotate,
              TouchDevice, RetireDevice, RevokeOne, Revoke, RevokeRow, Supersede,
              CreateCode, SupersedeCode, Judge, ConsumeCode, Fail
<1> QED
  BY <1>1, <1>2

LEMMA TokensStay ==
  ASSUME IInv, [Next]_vars, \A r \in Conn : ~Commit(r)
  PROVE  \A t \in Tok : db'[t] = db[t]
<1>1. CASE UNCHANGED vars
  BY <1>1 DEF vars
<1>2. CASE Next
  BY <1>2, TokensKept DEF Next, Acts
<1> QED
  BY <1>1, <1>2

LEMMA CommitChanges ==
  ASSUME TokenInv, NEW r \in Conn, Committing(r)
  PROVE  /\ Live(db') \ Live(db) \subseteq Tok \ Opened(db)
         /\ Opened(db) \subseteq Opened(db')
         /\ Opened(db') \subseteq Opened(db) \cup Live(db')
<1>1. ASSUME NEW f \in Live(db') \ Live(db)
      PROVE  f \in Tok \ Opened(db)
  <2>1. PICK t \in Tok : db'[t] # NoRow /\ Usable(db'[t]) /\ db'[t].fam = f
    BY <1>1, LiveIs
  <2>2. Created(r, t) /\ f = t
    BY <1>1, <2>1, UsableAfter, LiveIs
  <2>3. db[t] = NoRow
    BY <2>2 DEF Created
  <2>4. \A u \in Tok : db[u] # NoRow => db[u].fam # t
    BY <2>3 DEF TokenInv, Families
  <2> QED
    BY <2>2, <2>4, LiveIs
<1>2. Opened(db) \subseteq Opened(db')
  BY ViewIs, LiveIs
<1>3. ASSUME NEW f \in Opened(db') PROVE f \in Opened(db) \cup Live(db')
  <2>1. PICK t \in Tok : db'[t] # NoRow /\ db'[t].fam = f
    BY <1>3, LiveIs
  <2>2. CASE db[t] # NoRow
    BY <2>1, <2>2, ViewIs, LiveIs
  <2>3. CASE db[t] = NoRow
    <3>1. Created(r, t) /\ db'[t] = w[r][t]
      BY <2>1, <2>3, ViewIs DEF Created
    <3>2. Usable(db'[t])
      BY <3>1 DEF TokenInv, Successors
    <3> QED
      BY <2>1, <3>2, LiveIs
  <2> QED
    BY <2>2, <2>3
<1> QED
  BY <1>1, <1>2, <1>3

LEMMA StepIsSession ==
  ASSUME IInv, [Next]_vars
  PROVE  [S!Next]_<<Live(db), Opened(db) \ Live(db)>>
<1>1. CASE \A r \in Conn : ~Commit(r)
  <2>1. \A t \in Tok : db'[t] = db[t]
    BY <1>1, TokensStay
  <2>2. Live(db') = Live(db) /\ Opened(db') = Opened(db)
    BY <2>1 DEF Live, Holders, Opened
  <2> QED
    BY <2>2
<1>2. ASSUME NEW r \in Conn, Commit(r)
      PROVE  S!Next
  <2> DEFINE over == Opened(db) \ Live(db)
  <2>1. Committing(r)
    BY <1>2, CommitIs
  <2>2. /\ Live(db') \ Live(db) \subseteq Tok \ Opened(db)
        /\ Opened(db) \subseteq Opened(db')
        /\ Opened(db') \subseteq Opened(db) \cup Live(db')
    BY <2>1, CommitChanges DEF IInv
  <2>3. Live(db) \subseteq Opened(db) /\ Live(db') \subseteq Opened(db')
    BY LiveIs
  <2>4. PICK ended : ended = Live(db) \ Live(db')
    OBVIOUS
  <2>5. PICK opened : opened = Live(db') \ Live(db)
    OBVIOUS
  <2>6. ended \in SUBSET Live(db) /\ opened \in SUBSET (Tok \ (Live(db) \cup over))
    BY <2>2, <2>3, <2>4, <2>5
  <2>7. Live(db') = (Live(db) \ ended) \cup opened
    BY <2>4, <2>5
  <2>8. Opened(db') \ Live(db') = over \cup ended
    BY <2>2, <2>3, <2>4
  <2>9. S!Change(ended, opened)
    BY <2>7, <2>8 DEF S!Change, Opened
  <2> QED
    BY <2>6, <2>9 DEF S!Next, Opened
<1> QED
  BY <1>1, <1>2

\* Whatever requests do to each other, tokens implement sessions: each is opened
\* once, by a sign-in that names a family of its own, and a session that ended, by
\* a logout, a revocation or a reuse, never comes back.
THEOREM ImplementsSessions == Spec => SessionsSpec
<1>1. IInv => S!Init
  <2> SUFFICES ASSUME IInv PROVE S!Init
    OBVIOUS
  <2>1. Opened(db) \subseteq Tok /\ Live(db) \subseteq Opened(db)
    BY LiveIs DEF IInv, TokenInv, Families, TokRow
  <2> QED
    BY <2>1 DEF S!Init, Opened
<1>2. IInv /\ [Next]_vars => [S!Next]_<<Live(db), Opened(db) \ Live(db)>>
  BY StepIsSession
<1> QED
  BY InitHolds, Inductive, <1>1, <1>2, PTL DEF Spec, SessionsSpec, S!SessionsSpec, Opened

-----------------------------------------------------------------------------
(* Requests that end sessions.                                              *)

Ending == {"suspend", "schedule", "revoke_device"}

\* Rows that serialize requests.
Held == {User} \cup Device

HeldTypes ==
    /\ db[User] \in UserRow
    /\ \A d \in Device : db[d] \in DeviceRow \cup {NoRow}
    /\ \A q \in Conn : w[q][User] \in UserRow \cup {Nil}
    /\ \A q \in Conn, d \in Device : w[q][d] \in DeviceRow \cup {NoRow, Nil}

OneLock == \A q, r \in Conn, x \in Held : w[q][x] # Nil /\ w[r][x] # Nil => q = r

\* As a version of token t, v is for the device of t's family.
SameDevice(t, v) ==
    \/ db[t] # NoRow /\ v.dev = db[t].dev
    \/ db[t] = NoRow /\ v.fam = t
    \/ db[t] = NoRow /\ db[v.fam] # NoRow /\ v.dev = db[v.fam].dev

FamilyDevice ==
    /\ \A t \in Tok : db[t] # NoRow => db[t].dev = db[db[t].fam].dev
    /\ \A q \in Conn, t \in Tok : Written(q, t) => SameDevice(t, w[q][t])

\* A refresh is for the device of its token.
KeyDevice(q) ==
    req[q].kind = "refresh" =>
        req[q].key \in Tok /\ db[req[q].key] # NoRow /\ req[q].dev = db[req[q].key].dev

\* These have not written a token.
EmptyHanded(q) ==
    req[q].kind \in {"none", "resend"} \/ (req[q].kind = "verify" /\ req[q].at # "commit") =>
        \A t \in Tok : ~Written(q, t)

\* A refresh that has put a token in the place of another locks its device, then
\* the user, before it commits.
Carries(q) ==
    \A t \in Tok : Created(q, t) /\ w[q][t].fam # t =>
        /\ req[q].kind = "refresh" /\ req[q].at \in {"seen", "user", "commit"}
        /\ w[q][t].dev = req[q].dev
        /\ req[q].at \in {"user", "commit"} => w[q][req[q].dev] # Nil
        /\ req[q].at = "commit" => w[q][User] # Nil

\* The row a request that ends sessions holds while it revokes their tokens.
Lock(r) == IF req[r].kind = "revoke_device" THEN req[r].dev ELSE User

\* Tokens of the sessions to be ended that would survive a commit of r.
Exposed(r) ==
    {t \in Tok : /\ db[t] # NoRow /\ Usable(db[t]) /\ db[t].fam \in req[r].found
                 /\ ~Written(r, t)}

Ends(r) ==
    req[r].kind \in Ending =>
        /\ \A f \in req[r].found : db[f] # NoRow
        /\ req[r].kind = "revoke_device" =>
              req[r].dev \in Device /\ \A f \in req[r].found : db[f].dev = req[r].dev
        /\ \A t \in Tok : Written(r, t) => w[r][t].rev
        /\ req[r].at \in {"revoke", "rows", "commit"} => w[r][Lock(r)] # Nil
        /\ req[r].at = "rows" => Exposed(r) \subseteq req[r].left
        /\ req[r].at = "commit" => Exposed(r) = {}

EndInv ==
    /\ HeldTypes /\ OneLock /\ FamilyDevice
    /\ \A r \in Conn : KeyDevice(r) /\ EmptyHanded(r) /\ Carries(r) /\ Ends(r)

-----------------------------------------------------------------------------
LEMMA HeldAre ==
  /\ Held \subseteq Row /\ Held \cap Tok = {} /\ Held \cap Code = {}
  /\ User \in Held /\ Device \subseteq Held /\ User \notin Device
  /\ Nil \notin Row
  /\ Nil \notin UserRow /\ Nil \notin DeviceRow /\ NoRow \notin UserRow /\ NoRow # Nil
  BY RowsAssumption DEF Row, Held

LEMMA EndInit == Init => EndInv
<1> SUFFICES ASSUME Init PROVE EndInv
  OBVIOUS
<1>1. PICK s \in Start : db = Loaded(s)
  BY DEF Init
<1>2. \A q \in Conn, x \in Row : w[q][x] = Nil
  BY DEF Init, Blank
<1>3. HeldTypes
  BY <1>1, <1>2, AccountAssumption, HeldAre DEF HeldTypes
<1>4. OneLock /\ FamilyDevice
  BY <1>1, <1>2, AccountAssumption, HeldAre, InRow DEF OneLock, FamilyDevice, Written
<1>5. \A q \in Conn : req[q].kind = "none"
  BY DEF Init, Idle
<1>6. \A q \in Conn, t \in Tok : ~Written(q, t)
  BY <1>2, InRow DEF Written
<1> QED
  BY <1>3, <1>4, <1>5, <1>6 DEF EndInv, KeyDevice, EmptyHanded, Carries, Ends, Ending, Created

-----------------------------------------------------------------------------
(* What a step of r writes.                                                 *)

\* It leaves the other requests alone, and what their transactions hold.
Others(r) ==
    \A q \in Conn \ {r} : req'[q] = req[q] /\ w'[q] = w[q]

LEMMA OthersStay == ASSUME IInv, NEW r \in Conn, Acts(r) PROVE Others(r)
<1>1. Shape /\ req \in [Conn -> Requests]
  BY DEF IInv, TokenInv, RequestInv
<1>2. ASSUME NEW k \in Kind, Begin(r, k) PROVE Others(r)
  BY <1>1, <1>2 DEF Others, Begin
<1>3. ASSUME NEW t \in Tok, RevokeRow(r, t) PROVE Others(r)
  BY <1>1, <1>3 DEF Others, RevokeRow, Shape
<1>4. ASSUME NEW c \in Code, SupersedeCode(r, c) PROVE Others(r)
  BY <1>1, <1>4 DEF Others, SupersedeCode, Shape, Put
<1>5. CASE \/ Find(r) \/ Revoke(r) \/ Supersede(r) \/ Judge(r) \/ BumpAttempt(r) \/ SendCode(r)
  BY <1>1, <1>5 DEF Others, Find, Revoke, Supersede, Judge, BumpAttempt, SendCode
<1>6. CASE WriteUser(r) \/ SignInDevice(r) \/ TouchDevice(r) \/ RetireDevice(r)
  BY <1>1, <1>6 DEF Others, WriteUser, SignInDevice, TouchDevice, RetireDevice, Put, Go, Shape
<1>7. CASE IssueToken(r) \/ LockToken(r) \/ RevokeOne(r)
  BY <1>1, <1>7 DEF Others, IssueToken, LockToken, RevokeOne, Put, Go, Shape
<1>8. CASE Rotate(r)
  BY <1>1, <1>8 DEF Others, Rotate, Go, Shape
<1>9. CASE CreateCode(r) \/ ConsumeCode(r)
  BY <1>1, <1>9 DEF Others, CreateCode, ConsumeCode, Put, Go, Shape
<1>10. CASE Commit(r) \/ Fail(r)
  BY <1>1, <1>10 DEF Others, Commit, Fail, Shape
<1> QED
  BY <1>2, <1>3, <1>4, <1>5, <1>6, <1>7, <1>8, <1>9, <1>10 DEF Acts

-----------------------------------------------------------------------------
(* The rows that serialize requests.                                        *)

LEMMA HeldQuiet ==
  ASSUME IInv, HeldTypes, OneLock,
         \A q \in Conn, x \in Held : w'[q][x] = w[q][x] \/ w'[q][x] = Nil,
         \A x \in Held : db'[x] = db[x]
  PROVE  HeldTypes' /\ OneLock'
<1>1. HeldTypes'
  BY HeldAre DEF HeldTypes
<1>2. OneLock'
  BY DEF OneLock
<1> QED
  BY <1>1, <1>2

LEMMA HeldPut ==
  ASSUME IInv, HeldTypes, OneLock, NEW r \in Conn, NEW x, NEW v,
         Put(r, x, v), UNCHANGED db, Free(r, x),
         x = User => v \in UserRow,
         x \in Device => v \in DeviceRow \cup {NoRow}
  PROVE  HeldTypes' /\ OneLock'
<1>1. \A q \in Conn, y \in Held : w'[q][y] = IF q = r /\ y = x THEN v ELSE w[q][y]
  BY PutIs, HeldAre DEF IInv, TokenInv
<1>2. HeldTypes'
  <2>1. \A q \in Conn : w'[q][User] \in UserRow \cup {Nil}
    BY <1>1, HeldAre DEF HeldTypes
  <2>2. \A q \in Conn, d \in Device : w'[q][d] \in DeviceRow \cup {NoRow, Nil}
    BY <1>1, HeldAre DEF HeldTypes
  <2> QED
    BY <2>1, <2>2 DEF HeldTypes
<1>3. OneLock'
  BY <1>1 DEF OneLock, Free
<1> QED
  BY <1>2, <1>3

LEMMA UserAfterIs == ASSUME NEW k, NEW u \in UserRow PROVE UserAfter(k, u) \in UserRow
  BY DEF UserAfter, UserRow, Status

\* A code's row, or none, is what code requests write.
LEMMA KeyNotHeld ==
  ASSUME IInv, NEW r \in Conn PROVE req[r].key \notin Held
  BY HeldAre, InRow DEF IInv, RequestInv, Requests

LEMMA HeldPast ==
  ASSUME IInv, NEW r \in Conn, NEW x, x \notin Held, NEW v, Put(r, x, v)
  PROVE  \A q \in Conn, y \in Held : w'[q][y] = w[q][y]
  BY PutIs, HeldAre DEF IInv, TokenInv

LEMMA HeldEnd ==
  ASSUME IInv, HeldTypes, OneLock, NEW r \in Conn, Commit(r) \/ Fail(r)
  PROVE  HeldTypes' /\ OneLock'
<1>1. \A q \in Conn, x \in Held : w'[q][x] = IF q = r THEN Nil ELSE w[q][x]
  BY HeldAre DEF Commit, Fail, Blank, IInv, TokenInv, Shape
<1>2. CASE Fail(r)
  BY <1>1, <1>2, HeldQuiet DEF Fail
<1>3. CASE Commit(r)
  <2>1. \A x \in Held : db'[x] = IF w[r][x] # Nil THEN w[r][x] ELSE db[x]
    BY <1>3, HeldAre DEF Commit, View, See
  <2>2. HeldTypes'
    BY <1>1, <2>1, HeldAre DEF HeldTypes
  <2>3. OneLock'
    BY <1>1 DEF OneLock
  <2> QED
    BY <2>2, <2>3
<1> QED
  BY <1>2, <1>3

LEMMA HeldStep ==
  ASSUME IInv, HeldTypes, OneLock, NEW r \in Conn, KeyDevice(r), Acts(r)
  PROVE  HeldTypes' /\ OneLock'
<1>1. CASE \/ \E k \in Kind : Begin(r, k)
           \/ Find(r) \/ Revoke(r) \/ Supersede(r) \/ Judge(r)
  <2>1. UNCHANGED <<db, w>>
    BY <1>1 DEF Begin, Find, Revoke, Supersede, Judge
  <2> QED
    BY <2>1, HeldQuiet
<1>2. CASE SendCode(r) \/ BumpAttempt(r)
  <2>1. UNCHANGED w /\ (db' = db \/ \E v : db' = [db EXCEPT ![req[r].key] = v])
    BY <1>2 DEF SendCode, BumpAttempt
  <2>2. \A x \in Held : db'[x] = db[x]
    BY <2>1, KeyNotHeld, HeldAre DEF IInv, TokenInv, Shape
  <2> QED
    BY <2>1, <2>2, HeldQuiet
<1>3. CASE WriteUser(r)
  <2>1. See(r, User) \in UserRow
    BY DEF See, HeldTypes
  <2> DEFINE u == UserAfter(req[r].kind, See(r, User))
  <2>2. u \in UserRow
    BY <2>1, UserAfterIs
  <2>3. Put(r, User, u) /\ UNCHANGED db /\ Free(r, User)
    BY <1>3 DEF WriteUser
  <2> HIDE DEF u
  <2> QED
    BY <2>2, <2>3, HeldPut, HeldAre
<1>4. CASE SignInDevice(r) \/ RetireDevice(r)
  <2>1. PICK v \in DeviceRow : Put(r, req[r].dev, v) /\ UNCHANGED db /\ Free(r, req[r].dev)
    <3>1. [off |-> FALSE] \in DeviceRow /\ [off |-> TRUE] \in DeviceRow
      BY DEF DeviceRow
    <3>2. CASE SignInDevice(r)
      BY <3>1, <3>2 DEF SignInDevice
    <3>3. CASE RetireDevice(r)
      BY <3>1, <3>3 DEF RetireDevice
    <3> QED
      BY <1>4, <3>2, <3>3
  <2>2. req[r].dev # User
    BY HeldAre DEF IInv, RequestInv, Requests, Row
  <2> QED
    BY <2>1, <2>2, HeldPut
<1>5. CASE TouchDevice(r)
  <2>1. req[r].dev \in Device
    <3>1. req[r].kind = "refresh"
      BY <1>5, Standing, StageKinds DEF TouchDevice, Statement
    <3>2. db[req[r].key] \in TokRow /\ req[r].dev = db[req[r].key].dev
      BY <3>1 DEF KeyDevice, IInv, TokenInv, Families
    <3> QED
      BY <3>2 DEF TokRow
  <2>2. See(r, req[r].dev) \in DeviceRow \cup {NoRow}
    BY <2>1 DEF See, HeldTypes
  <2>3. Put(r, req[r].dev, See(r, req[r].dev)) /\ UNCHANGED db /\ Free(r, req[r].dev)
    BY <1>5 DEF TouchDevice
  <2> QED
    BY <2>1, <2>2, <2>3, HeldPut, HeldAre
<1>6. CASE \/ CreateCode(r) \/ ConsumeCode(r) \/ RevokeOne(r) \/ LockToken(r)
  <2>1. UNCHANGED db /\ \E v : Put(r, req[r].key, v)
    BY <1>6 DEF CreateCode, ConsumeCode, RevokeOne, LockToken
  <2> QED
    BY <2>1, KeyNotHeld, HeldPast, HeldQuiet
<1>7. CASE IssueToken(r)
  <2>1. UNCHANGED db /\ Fresh \in Tok /\ \E v : Put(r, Fresh, v)
    BY <1>7, FreshIs DEF IssueToken
  <2>2. Fresh \notin Held
    BY <2>1, HeldAre
  <2> QED
    BY <2>1, <2>2, HeldPast, HeldQuiet
<1>8. CASE Rotate(r)
  <2>1. /\ UNCHANGED db /\ Fresh \in Tok
        /\ \E v, z : w' = [w EXCEPT ![r][Fresh] = v, ![r][req[r].key] = z]
    BY <1>8, FreshIs DEF Rotate
  <2>2. Fresh \notin Held
    BY <2>1, HeldAre
  <2>3. \A q \in Conn, x \in Held : w'[q][x] = w[q][x]
    BY <2>1, <2>2, KeyNotHeld, HeldAre DEF IInv, TokenInv, Shape
  <2> QED
    BY <2>1, <2>3, HeldQuiet
<1>9. ASSUME NEW t \in Tok, RevokeRow(r, t) PROVE HeldTypes' /\ OneLock'
  <2>1. UNCHANGED db /\ (UNCHANGED w \/ \E v : Put(r, t, v))
    BY <1>9 DEF RevokeRow, Put
  <2>2. t \notin Held
    BY HeldAre
  <2> QED
    BY <2>1, <2>2, HeldPast, HeldQuiet
<1>10. ASSUME NEW c \in Code, SupersedeCode(r, c) PROVE HeldTypes' /\ OneLock'
  <2>1. UNCHANGED db /\ \E v : Put(r, c, v)
    BY <1>10 DEF SupersedeCode
  <2>2. c \notin Held
    BY HeldAre
  <2> QED
    BY <2>1, <2>2, HeldPast, HeldQuiet
<1>11. CASE Commit(r) \/ Fail(r)
  BY <1>11, HeldEnd
<1> QED
  BY <1>1, <1>2, <1>3, <1>4, <1>5, <1>6, <1>7, <1>8, <1>9, <1>10, <1>11 DEF Acts

-----------------------------------------------------------------------------
(* The devices of families.                                                 *)

\* A token that exists stays one, of its family and its device.
LineStays ==
    \A t \in Tok : db[t] # NoRow =>
        db'[t] # NoRow /\ db'[t].fam = db[t].fam /\ db'[t].dev = db[t].dev

LEMMA LineCommit ==
  ASSUME IInv, FamilyDevice, NEW r \in Conn, Committing(r)
  PROVE  LineStays /\ FamilyDevice'
<1>1. /\ \A t \in Tok : db'[t] = IF Written(r, t) THEN w[r][t] ELSE db[t]
      /\ \A t \in Tok : db[t] # NoRow => db'[t] # NoRow /\ db'[t].fam = db[t].fam
      /\ \A t \in Tok : db[t] = NoRow => (db'[t] # NoRow <=> Created(r, t))
  BY ViewIs DEF IInv
<1>2. LineStays
  BY <1>1 DEF LineStays, FamilyDevice, SameDevice
<1>3. ASSUME NEW t \in Tok, db'[t] # NoRow
      PROVE  db'[t].dev = db'[db'[t].fam].dev
  <2>1. CASE db[t] # NoRow
    <3>1. db[t].fam \in Tok /\ db[db[t].fam] # NoRow
      BY <2>1 DEF IInv, TokenInv, Families, TokRow
    <3> QED
      BY <1>2, <2>1, <3>1 DEF LineStays, FamilyDevice
  <2>2. CASE db[t] = NoRow
    <3>1. Written(r, t) /\ db'[t] = w[r][t]
      BY <1>1, <1>3, <2>2 DEF Created
    <3>2. w[r][t].fam \in Tok
      BY <3>1 DEF IInv, TokenInv, WrittenTokens, TokRow
    <3> QED
      BY <1>2, <2>2, <3>1, <3>2 DEF FamilyDevice, SameDevice, LineStays
  <2> QED
    BY <2>1, <2>2
<1>4. ASSUME NEW q \in Conn, NEW t \in Tok, Written(q, t)'
      PROVE  SameDevice(t, w[q][t])'
  <2>1. q # r /\ w'[q][t] = w[q][t] /\ Written(q, t)
    BY <1>4, DropIs DEF IInv, TokenInv, Committing, Written
  <2>2. ~Written(r, t)
    BY <2>1 DEF IInv, TokenInv, OneWriter
  <2>3. db'[t] = db[t] /\ w[q][t].fam \in Tok
    BY <1>1, <2>1, <2>2 DEF IInv, TokenInv, WrittenTokens, TokRow
  <2>4. SameDevice(t, w[q][t])
    BY <2>1 DEF FamilyDevice
  <2> QED
    BY <1>2, <2>1, <2>3, <2>4 DEF SameDevice, LineStays
<1> QED
  BY <1>2, <1>3, <1>4 DEF FamilyDevice

LEMMA LineQuiet ==
  ASSUME IInv, IInv', FamilyDevice, NEW r \in Conn, Others(r),
         \A t \in Tok : db'[t] = db[t],
         \A t \in Tok : w'[r][t] = w[r][t] \/ w'[r][t] = Nil \/ SameDevice(t, w'[r][t])
  PROVE  LineStays /\ FamilyDevice'
<1>1. LineStays
  BY DEF LineStays
<1>2. \A t \in Tok : db'[t] # NoRow => db'[t].dev = db'[db'[t].fam].dev
  BY DEF FamilyDevice, IInv, TokenInv, Families, TokRow
<1>3. ASSUME NEW q \in Conn, NEW t \in Tok, Written(q, t)'
      PROVE  SameDevice(t, w[q][t])'
  <2>1. SameDevice(t, w'[q][t])
    BY <1>3, InRow DEF Others, FamilyDevice, Written
  <2>2. w'[q][t].fam \in Tok
    BY <1>3 DEF IInv, TokenInv, WrittenTokens, TokRow
  <2> QED
    BY <2>1, <2>2 DEF SameDevice
<1> QED
  BY <1>1, <1>2, <1>3 DEF FamilyDevice

\* r writes version v of token t, which exists: the token it sees, changed.
LEMMA SeenDevice ==
  ASSUME IInv, FamilyDevice, NEW r \in Conn, NEW t \in Tok, db[t] # NoRow
  PROVE  See(r, t) \in TokRow /\ See(r, t).dev = db[t].dev
<1>1. See(r, t) \in TokRow
  BY SeenToken DEF IInv
<1>2. See(r, t).dev = db[t].dev
  BY DEF See, FamilyDevice, SameDevice, Written
<1> QED
  BY <1>1, <1>2

LEMMA TokensPut ==
  ASSUME IInv, NEW r \in Conn, NEW x, NEW v, Put(r, x, v)
  PROVE  \A t \in Tok : w'[r][t] = IF t = x THEN v ELSE w[r][t]
  BY PutIs, InRow DEF IInv, TokenInv

\* A new version of token t.
Writes(r, t) ==
    /\ SameDevice(t, w'[r][t])
    /\ \/ IssueToken(r) \/ Rotate(r)
       \/ db[t] # NoRow /\ req[r].at \in {"one", "rows", "lock"}

\* Tokens written by the statements other than COMMIT and the rollback.
LEMMA TokensWritten ==
  ASSUME IInv, FamilyDevice, NEW r \in Conn, KeyDevice(r), Acts(r), ~Commit(r), ~Fail(r)
  PROVE  \A t \in Tok : w'[r][t] = w[r][t] \/ Writes(r, t)
<1>1. CASE \/ \E k \in Kind : Begin(r, k)
           \/ Find(r) \/ Revoke(r) \/ Supersede(r) \/ Judge(r) \/ SendCode(r) \/ BumpAttempt(r)
  BY <1>1 DEF Begin, Find, Revoke, Supersede, Judge, SendCode, BumpAttempt
<1>2. CASE WriteUser(r) \/ SignInDevice(r) \/ RetireDevice(r) \/ TouchDevice(r)
  <2>1. \E x, v : x \notin Tok /\ Put(r, x, v)
    BY <1>2, DeviceIsNoToken, InRow DEF WriteUser, SignInDevice, RetireDevice, TouchDevice
  <2> QED
    BY <2>1, TokensPut
<1>3. CASE CreateCode(r) \/ ConsumeCode(r) \/ \E c \in Code : SupersedeCode(r, c)
  <2>1. \E x, v : x \notin Tok /\ Put(r, x, v)
    <3>1. CASE CreateCode(r)
      <4>1. At(r, "create") /\ \E v : Put(r, req[r].key, v)
        BY <3>1 DEF CreateCode
      <4> QED
        BY <4>1, CodeIsNoToken DEF Statement
    <3>2. CASE ConsumeCode(r)
      <4>1. At(r, "consume") /\ \E v : Put(r, req[r].key, v)
        BY <3>2 DEF ConsumeCode
      <4> QED
        BY <4>1, CodeIsNoToken DEF Statement
    <3>3. ASSUME NEW c \in Code, SupersedeCode(r, c) PROVE \E v : c \notin Tok /\ Put(r, c, v)
      BY <3>3, InRow DEF SupersedeCode
    <3> QED
      BY <1>3, <3>1, <3>2, <3>3
  <2> QED
    BY <2>1, TokensPut
<1>4. CASE RevokeOne(r) \/ \E t \in Tok : RevokeRow(r, t)
  <2>1. ASSUME NEW t \in Tok, db[t] # NoRow, req[r].at \in {"one", "rows"}, Put(r, t, [See(r, t) EXCEPT !.rev = TRUE])
        PROVE  \A u \in Tok : w'[r][u] = w[r][u] \/ Writes(r, u)
    <3> DEFINE v == [See(r, t) EXCEPT !.rev = TRUE]
    <3>1. v.dev = db[t].dev
      BY <2>1, SeenDevice DEF TokRow
    <3>2. Put(r, t, v)
      BY <2>1
    <3> HIDE DEF v
    <3> QED
      BY <2>1, <3>1, <3>2, TokensPut DEF SameDevice, Writes
  <2>2. CASE RevokeOne(r)
    <3>1. At(r, "one") /\ Put(r, req[r].key, [See(r, req[r].key) EXCEPT !.rev = TRUE])
      BY <2>2 DEF RevokeOne
    <3>2. req[r].key \in Tok /\ db[req[r].key] # NoRow /\ req[r].at = "one"
      BY <3>1, Standing DEF Placed, Statement, At
    <3> QED
      BY <2>1, <3>1, <3>2
  <2>3. ASSUME NEW t \in Tok, RevokeRow(r, t)
        PROVE  \A u \in Tok : w'[r][u] = w[r][u] \/ Writes(r, u)
    <3>1. /\ At(r, "rows") /\ t \in req[r].left
          /\ UNCHANGED w \/ Put(r, t, [See(r, t) EXCEPT !.rev = TRUE])
      BY <2>3 DEF RevokeRow, Put
    <3>2. db[t] # NoRow /\ req[r].at = "rows"
      BY <3>1, Standing DEF Placed, Statement, At
    <3> QED
      BY <2>1, <3>1, <3>2
  <2> QED
    BY <1>4, <2>2, <2>3
<1>5. CASE LockToken(r)
  <2>1. At(r, "lock") /\ Put(r, req[r].key, db[req[r].key])
    BY <1>5 DEF LockToken
  <2>2. req[r].key \in Tok /\ db[req[r].key] # NoRow /\ req[r].at = "lock"
    BY <2>1, Standing DEF Placed, Statement, At
  <2> QED
    BY <2>1, <2>2, TokensPut DEF SameDevice, Writes
<1>6. CASE IssueToken(r)
  <2> DEFINE v == [dev |-> req[r].dev, fam |-> Fresh, rev |-> FALSE, next |-> Nil]
  <2>1. Put(r, Fresh, v) /\ Unused # {}
    BY <1>6 DEF IssueToken
  <2>2. Fresh \in Tok /\ db[Fresh] = NoRow /\ v.fam = Fresh
    BY <2>1, FreshIs
  <2> HIDE DEF v
  <2> QED
    BY <1>6, <2>1, <2>2, TokensPut DEF SameDevice, Writes
<1>7. CASE Rotate(r)
  <2> DEFINE k == req[r].key
             succ == [See(r, k) EXCEPT !.rev = FALSE, !.next = Nil]
             spent == [See(r, k) EXCEPT !.next = Fresh]
  <2>1. At(r, "rotate") /\ PutTwo(r, Fresh, succ, k, spent) /\ Unused # {}
    BY <1>7 DEF Rotate, PutTwo
  <2>2. k \in Tok /\ db[k] # NoRow
    BY <2>1, Standing, StageKinds DEF KeyDevice, Statement
  <2>3. See(r, k) \in TokRow /\ See(r, k).fam = db[k].fam /\ See(r, k).dev = db[k].dev
    BY <2>2, SeenToken, SeenDevice DEF IInv
  <2>4. spent.dev = db[k].dev /\ succ.dev = db[k].dev /\ succ.fam = db[k].fam
    BY <2>3 DEF TokRow
  <2>5. Fresh \in Tok /\ db[Fresh] = NoRow
    BY <2>1, FreshIs
  <2> HIDE DEF succ, spent
  <2>6. \A t \in Tok : w'[r][t] = IF t = k THEN spent ELSE IF t = Fresh THEN succ ELSE w[r][t]
    BY <2>1, InRow DEF PutTwo, IInv, TokenInv, Shape
  <2>7. db[db[k].fam] # NoRow /\ db[k].dev = db[db[k].fam].dev
    BY <2>2 DEF IInv, TokenInv, Families, FamilyDevice
  <2> QED
    BY <2>2, <2>4, <2>5, <2>6, <1>7, <2>7 DEF SameDevice, Writes
<1> QED
  BY <1>1, <1>2, <1>3, <1>4, <1>5, <1>6, <1>7 DEF Acts

LEMMA LineStep ==
  ASSUME IInv, IInv', FamilyDevice, NEW r \in Conn, KeyDevice(r), Acts(r)
  PROVE  LineStays /\ FamilyDevice'
<1>1. CASE Commit(r)
  BY <1>1, CommitIs, LineCommit
<1>2. CASE Fail(r)
  <2>1. db' = db /\ \A t \in Tok : w'[r][t] = Nil
    BY <1>2, DropIs DEF Fail, Drop, IInv, TokenInv
  <2> QED
    BY <2>1, OthersStay, LineQuiet
<1>3. CASE ~Commit(r) /\ ~Fail(r)
  <2>1. \A t \in Tok : db'[t] = db[t]
    BY <1>3, TokensKept
  <2> QED
    BY <1>3, <2>1, OthersStay, TokensWritten, LineQuiet DEF Writes
<1> QED
  BY <1>1, <1>2, <1>3

-----------------------------------------------------------------------------
(* The refreshes.                                                           *)

\* A step that is not the first of a request keeps what the request was given, or
\* is the last, or turns to the code that was guessed at.
LEMMA GivenStays ==
  ASSUME IInv, NEW r \in Conn, Acts(r), \A k \in Kind : ~Begin(r, k)
  PROVE  \/ req'[r] = Idle /\ (SendCode(r) \/ BumpAttempt(r) \/ Commit(r) \/ Fail(r))
         \/ /\ req'[r].kind = req[r].kind /\ req'[r].dev = req[r].dev
            /\ req'[r].found = req[r].found
            /\ req'[r].key = req[r].key \/ At(r, "judge")
<1>1. req \in [Conn -> Requests] /\ req[r] \in Requests
  BY DEF IInv, RequestInv
<1>2. CASE \/ \E t \in Tok : RevokeRow(r, t)
           \/ \E c \in Code : SupersedeCode(r, c)
  <2>1. PICK l, a : req' = [req EXCEPT ![r] = [req[r] EXCEPT !.left = l, !.at = a]]
    BY <1>2 DEF RevokeRow, SupersedeCode
  <2> QED
    BY <1>1, <2>1 DEF Requests
<1>3. CASE Revoke(r) \/ Supersede(r) \/ LockToken(r)
  <2>1. \/ req' = [req EXCEPT ![r] = Onward(r)]
        \/ \E l, a : req' = [req EXCEPT ![r] = [req[r] EXCEPT !.at = a, !.left = l]]
        \/ \E a : req' = [req EXCEPT ![r].at = a]
    BY <1>3 DEF Revoke, Supersede, LockToken
  <2> QED
    BY <1>1, <2>1 DEF Onward, Requests
<1>4. CASE Find(r) \/ WriteUser(r)
  <2>1. PICK f : req' = [req EXCEPT ![r] = [Onward(r) EXCEPT !.fit = f]]
    BY <1>4 DEF Find, WriteUser
  <2> QED
    BY <1>1, <2>1 DEF Onward, Requests
<1>5. CASE \/ SignInDevice(r) \/ IssueToken(r) \/ Rotate(r) \/ TouchDevice(r)
           \/ RetireDevice(r) \/ RevokeOne(r) \/ CreateCode(r) \/ ConsumeCode(r)
  <2>1. Go(r)
    BY <1>5 DEF SignInDevice, IssueToken, Rotate, TouchDevice, RetireDevice, RevokeOne,
                CreateCode, ConsumeCode
  <2> QED
    BY <1>1, <2>1 DEF Go, Onward, Requests
<1>6. CASE Judge(r)
  BY <1>1, <1>6 DEF Judge, Onward, Requests
<1>7. CASE SendCode(r) \/ BumpAttempt(r) \/ Commit(r) \/ Fail(r)
  BY <1>1, <1>7 DEF SendCode, BumpAttempt, Commit, Fail, Onward, Requests
<1> QED
  BY <1>2, <1>3, <1>4, <1>5, <1>6, <1>7 DEF Acts

LEMMA KeyDeviceStep ==
  ASSUME IInv, NEW r \in Conn, Acts(r), LineStays, NEW q \in Conn, KeyDevice(q)
  PROVE  KeyDevice(q)'
<1>1. CASE q # r
  <2>1. req'[q] = req[q]
    BY <1>1, OthersStay DEF Others
  <2> QED
    BY <2>1 DEF KeyDevice, LineStays
<1>2. CASE q = r /\ \A k \in Kind : ~Begin(r, k)
  <2>1. CASE req'[r] = Idle
    BY <1>2, <2>1, EndIs DEF KeyDevice
  <2>2. CASE req'[r] # Idle
    <3>1. /\ req'[r].kind = req[r].kind /\ req'[r].dev = req[r].dev
          /\ req'[r].key = req[r].key \/ At(r, "judge")
      BY <1>2, <2>2, GivenStays
    <3>2. req[r].kind = "refresh" => ~At(r, "judge")
      BY Standing, StageKinds DEF Statement
    <3> QED
      BY <1>2, <3>1, <3>2 DEF KeyDevice, LineStays
  <2> QED
    BY <2>1, <2>2
<1>3. ASSUME NEW k \in Kind, Begin(r, k)
      PROVE  KeyDevice(r)'
  <2>1. PICK key \in Keys(k) : \E d \in Devices(k, key) :
           req' = [req EXCEPT ![r] = [Idle EXCEPT !.kind = k, !.at = First(k), !.dev = d,
                                                  !.key = key, !.found = Doomed(k, d)]]
    BY <1>3 DEF Begin
  <2>2. PICK d \in Devices(k, key) :
           req' = [req EXCEPT ![r] = [Idle EXCEPT !.kind = k, !.at = First(k), !.dev = d,
                                                  !.key = key, !.found = Doomed(k, d)]]
    BY <2>1
  <2>3. req'[r].kind = k /\ req'[r].dev = d /\ req'[r].key = key
    BY <2>2 DEF Idle, IInv, RequestInv
  <2>4. CASE k = "refresh"
    <3>1. key \in Tok /\ db[key] # NoRow /\ d = db[key].dev
      BY <2>4 DEF Keys, Devices
    <3> QED
      BY <2>3, <3>1 DEF KeyDevice, LineStays
  <2> QED
    BY <2>3, <2>4 DEF KeyDevice
<1> QED
  BY <1>1, <1>2, <1>3

LEMMA CarriesOther ==
  ASSUME IInv, NEW r \in Conn, Acts(r), LineStays, NEW q \in Conn \ {r}, Carries(q)
  PROVE  Carries(q)'
<1>1. req'[q] = req[q] /\ w'[q] = w[q]
  BY OthersStay DEF Others
<1>2. \A t \in Tok : Created(q, t)' => Created(q, t)
  BY <1>1, InRow DEF Created, Written, LineStays
<1> QED
  BY <1>1, <1>2 DEF Carries

LEMMA CarriesOwn ==
  ASSUME IInv, IInv', HeldTypes, FamilyDevice, NEW r \in Conn, KeyDevice(r), Carries(r),
         Acts(r)
  PROVE  Carries(r)'
<1>1. req[r].kind = "refresh" => req[r].dev \in Device /\ db[req[r].key] \in TokRow
  BY DEF KeyDevice, IInv, TokenInv, Families, TokRow
<1>2. CASE Commit(r) \/ Fail(r)
  <2>1. \A t \in Tok : w'[r][t] = Nil
    BY <1>2, DropIs DEF Commit, Fail, Drop, IInv, TokenInv
  <2> QED
    BY <2>1 DEF Carries, Created, Written
<1>3. CASE TouchDevice(r)
  <2>1. /\ At(r, "seen") /\ Put(r, req[r].dev, See(r, req[r].dev)) /\ Go(r)
        /\ UNCHANGED db
    BY <1>3 DEF TouchDevice
  <2>2. req[r].kind = "refresh" /\ req[r].at = "seen"
    BY <2>1, Standing, StageKinds DEF Statement
  <2>3. See(r, req[r].dev) # Nil
    BY <1>1, <2>2, HeldAre DEF See, HeldTypes
  <2>4. w'[r][req[r].dev] # Nil /\ \A t \in Tok : w'[r][t] = w[r][t]
    BY <1>1, <2>1, <2>2, <2>3, PutIs, InRow, HeldAre DEF IInv, TokenInv
  <2>5. req'[r].kind = "refresh" /\ req'[r].at = "user" /\ req'[r].dev = req[r].dev
    BY <2>1, <2>2, FlowEnds DEF Go, Onward, IInv, RequestInv, Requests
  <2> QED
    BY <2>1, <2>4, <2>5 DEF Carries, Created, Written
<1>4. CASE WriteUser(r)
  <2> DEFINE u == UserAfter(req[r].kind, See(r, User))
  <2>1. At(r, "user") /\ Put(r, User, u) /\ UNCHANGED db
    BY <1>4 DEF WriteUser
  <2>2. u # Nil
    BY UserAfterIs, HeldAre DEF See, HeldTypes
  <2> HIDE DEF u
  <2>3. /\ w'[r][User] # Nil /\ \A t \in Tok : w'[r][t] = w[r][t]
        /\ \A d \in Device : w'[r][d] = w[r][d]
    BY <2>1, <2>2, PutIs, InRow, HeldAre DEF IInv, TokenInv
  <2>4. CASE req[r].kind = "refresh"
    <3>1. PICK f : req' = [req EXCEPT ![r] = [Onward(r) EXCEPT !.fit = f]]
      BY <1>4 DEF WriteUser
    <3>2. req'[r].kind = "refresh" /\ req'[r].at = "commit" /\ req'[r].dev = req[r].dev
      BY <2>1, <2>4, <3>1, FlowEnds DEF At, Onward, IInv, RequestInv, Requests
    <3> QED
      BY <1>1, <2>1, <2>3, <2>4, <3>2 DEF Carries, Created, Written, At
  <2>5. CASE req[r].kind # "refresh"
    BY <2>1, <2>3, <2>5 DEF Carries, Created, Written
  <2> QED
    BY <2>4, <2>5
<1>5. CASE Rotate(r)
  <2> DEFINE k == req[r].key
             succ == [See(r, k) EXCEPT !.rev = FALSE, !.next = Nil]
             spent == [See(r, k) EXCEPT !.next = Fresh]
  <2>1. /\ At(r, "rotate") /\ PutTwo(r, Fresh, succ, k, spent) /\ Unused # {} /\ Go(r)
        /\ UNCHANGED db
    BY <1>5 DEF Rotate, PutTwo
  <2>2. /\ req[r].kind = "refresh" /\ req[r].at = "rotate" /\ k \in Tok /\ db[k] # NoRow
        /\ \A t \in Tok : ~Created(r, t)
    BY <2>1, Standing, StageKinds DEF KeyDevice, Statement
  <2>3. See(r, k) \in TokRow /\ See(r, k).dev = db[k].dev
    BY <2>2, SeenDevice
  <2>4. succ.dev = req[r].dev
    BY <2>2, <2>3 DEF TokRow, KeyDevice
  <2> HIDE DEF succ, spent
  <2>5. Fresh \in Tok /\ db[Fresh] = NoRow
    BY <2>1, FreshIs
  <2>6. \A t \in Tok : w'[r][t] = IF t = k THEN spent ELSE IF t = Fresh THEN succ ELSE w[r][t]
    BY <2>1, InRow DEF PutTwo, IInv, TokenInv, Shape
  <2>7. req'[r].kind = "refresh" /\ req'[r].at = "seen" /\ req'[r].dev = req[r].dev
    BY <2>1, <2>2, FlowEnds DEF Go, Onward, IInv, RequestInv, Requests
  <2>8. \A t \in Tok : Created(r, t)' => t = Fresh
    BY <2>1, <2>2, <2>6 DEF Created, Written
  <2>9. w'[r][Fresh].dev = req[r].dev
    BY <2>2, <2>4, <2>5, <2>6
  <2> QED
    BY <2>7, <2>8, <2>9 DEF Carries
<1>6. CASE IssueToken(r)
  <2> DEFINE v == [dev |-> req[r].dev, fam |-> Fresh, rev |-> FALSE, next |-> Nil]
  <2>1. At(r, "issue") /\ Put(r, Fresh, v) /\ Unused # {} /\ v.fam = Fresh /\ UNCHANGED db
    BY <1>6 DEF IssueToken
  <2> HIDE DEF v
  <2>2. Fresh \in Tok /\ \A t \in Tok : ~Created(r, t)
    BY <2>1, FreshIs, Standing DEF Statement
  <2>3. \A t \in Tok : Created(r, t)' => t = Fresh /\ w'[r][t].fam = t
    BY <2>1, <2>2, TokensPut DEF Created, Written
  <2> QED
    BY <2>3 DEF Carries
<1>7. CASE ~Commit(r) /\ ~Fail(r) /\ ~TouchDevice(r) /\ ~WriteUser(r) /\ ~Rotate(r)
           /\ ~IssueToken(r)
  <2>1. req[r].at \notin {"commit", "seen", "user"}
    <3>1. CASE \E k \in Kind : Begin(r, k)
      BY <3>1, EndIs DEF Begin
    <3>2. CASE \A k \in Kind : ~Begin(r, k)
      BY <1>7, <3>2 DEF Acts, Find, SignInDevice, LockToken, RetireDevice, RevokeOne, Revoke,
                        RevokeRow, Supersede, CreateCode, SendCode, SupersedeCode, Judge,
                        BumpAttempt, ConsumeCode, At
    <3> QED
      BY <3>1, <3>2
  <2>2. \A t \in Tok : ~Created(r, t)
    BY <2>1 DEF IInv, RequestInv, CreatedLast
  <2>3. \A t \in Tok : w'[r][t] = w[r][t] \/ db[t] # NoRow
    BY <1>7, TokensWritten DEF Writes
  <2>4. \A t \in Tok : db'[t] = db[t]
    BY <1>7, TokensKept
  <2>5. \A t \in Tok : ~Created(r, t)'
    BY <2>2, <2>3, <2>4 DEF Created, Written
  <2> QED
    BY <2>5 DEF Carries
<1> QED
  BY <1>2, <1>3, <1>4, <1>5, <1>6, <1>7

LEMMA EmptyHandedStep ==
  ASSUME IInv, IInv', FamilyDevice, NEW r \in Conn, KeyDevice(r), Acts(r),
         NEW q \in Conn, EmptyHanded(q)
  PROVE  EmptyHanded(q)'
<1>1. CASE q # r
  <2>1. req'[q] = req[q] /\ w'[q] = w[q]
    BY <1>1, OthersStay DEF Others
  <2> QED
    BY <2>1 DEF EmptyHanded, Written
<1>2. CASE Commit(r) \/ Fail(r)
  <2>1. \A t \in Tok : w'[r][t] = Nil
    BY <1>2, DropIs DEF Commit, Fail, Drop, IInv, TokenInv
  <2> QED
    BY <1>1, <2>1 DEF EmptyHanded, Written
<1>3. CASE q = r /\ \E k \in Kind : Begin(r, k)
  <2>1. req[r] = Idle /\ UNCHANGED w
    BY <1>3 DEF Begin
  <2> QED
    BY <1>3, <2>1, EndIs DEF EmptyHanded, Written
<1>4. CASE q = r /\ (SendCode(r) \/ BumpAttempt(r))
  <2>1. /\ UNCHANGED w /\ req[r].at # "commit"
        /\ At(r, "mail") \/ At(r, "bump")
    BY <1>4 DEF SendCode, BumpAttempt, At
  <2>2. req[r].kind \in {"verify", "resend"}
    BY <2>1, CodeIsNoToken DEF Statement
  <2> QED
    BY <1>4, <2>1, <2>2 DEF EmptyHanded, Written
<1>5. CASE /\ q = r /\ ~Commit(r) /\ ~Fail(r) /\ ~SendCode(r) /\ ~BumpAttempt(r)
           /\ \A k \in Kind : ~Begin(r, k)
  <2>1. req[r].at \notin {"none", "commit"}
    BY <1>5 DEF Acts, Find, WriteUser, SignInDevice, IssueToken, LockToken, Rotate,
                TouchDevice, RetireDevice, RevokeOne, Revoke, RevokeRow, Supersede, CreateCode,
                SupersedeCode, Judge, ConsumeCode, At
  <2>2. /\ req[r] \in Requests /\ req[r].kind \in Kinds /\ req[r].at \in Stage[req[r].kind]
    BY <2>1 DEF IInv, RequestInv, Placed, Requests
  <2>3. req'[r].kind = req[r].kind
    BY <1>5, GivenStays
  <2>4. CASE req[r].kind \in {"resend", "verify"}
    <3>1. req[r].at \notin {"one", "rows", "lock", "rotate"}
      BY <2>2, <2>4, StageKinds DEF Stage
    <3>2. CASE IssueToken(r)
      <4>1. At(r, "issue") /\ Go(r)
        BY <3>2 DEF IssueToken
      <4>2. req[r].kind \in SignIn
        BY <4>1, <2>2, StageKinds DEF At
      <4>3. req[r].kind = "verify"
        BY <2>4, <4>2 DEF SignIn
      <4>4. req'[r].at = "commit"
        BY <4>1, <4>2, FlowEnds DEF Go, Onward, IInv, RequestInv, Requests, At
      <4> QED
        BY <1>5, <2>3, <4>3, <4>4 DEF EmptyHanded
    <3>3. CASE ~IssueToken(r)
      <4>1. ~Rotate(r)
        BY <3>1 DEF Rotate, At
      <4>2. \A t \in Tok : w'[r][t] = w[r][t]
        BY <1>5, <3>1, <3>3, <4>1, TokensWritten DEF Writes
      <4> QED
        BY <1>5, <2>1, <2>4, <4>2 DEF EmptyHanded, Written
    <3> QED
      BY <3>2, <3>3
  <2>5. CASE req[r].kind \notin {"resend", "verify"}
    BY <1>5, <2>2, <2>3, <2>5 DEF EmptyHanded, Kinds
  <2> QED
    BY <2>4, <2>5
<1> QED
  BY <1>1, <1>2, <1>3, <1>4, <1>5

-----------------------------------------------------------------------------
(* The requests that end sessions.                                          *)

LEMMA EndingFlow ==
  ASSUME NEW k \in Ending
  PROVE  /\ k \in Kinds /\ k \notin {"refresh", "verify", "resend", "none"}
         /\ Stage[k] \subseteq {"find", "user", "retire", "revoke", "rows", "commit"}
         /\ "user" \in Stage[k] => k # "revoke_device" /\ Flow[k]["user"] = "revoke"
         /\ "find" \in Stage[k] => Flow[k]["find"] = "user"
         /\ "retire" \in Stage[k] => k = "revoke_device" /\ Flow[k]["retire"] = "revoke"
         /\ Flow[k]["revoke"] = "commit"
         /\ First(k) \in {"find", "user", "retire"}
  BY DEF Ending, Kinds, Stage, First, Flow, SuspendFlow, ScheduleFlow, RevokeDeviceFlow

\* The row r holds keeps a refresh from committing a token of a session r ends.
LEMMA NoNewcomer ==
  ASSUME IInv, OneLock, FamilyDevice, NEW q \in Conn, NEW r \in Conn \ {q},
         KeyDevice(q), Carries(q), Ends(r),
         req[q].at = "commit", req[r].kind \in Ending, req[r].at \in {"revoke", "rows", "commit"},
         NEW t \in Tok, Created(q, t)
  PROVE  w[q][t].fam \notin req[r].found
<1> SUFFICES ASSUME w[q][t].fam \in req[r].found PROVE FALSE
  OBVIOUS
<1>1. /\ db[w[q][t].fam] # NoRow /\ w[r][Lock(r)] # Nil
      /\ req[r].kind = "revoke_device" =>
            req[r].dev \in Device /\ db[w[q][t].fam].dev = req[r].dev
  BY DEF Ends
<1>2. db[t] = NoRow /\ w[q][t].fam # t
  BY <1>1 DEF Created
<1>3. /\ req[q].kind = "refresh" /\ w[q][t].dev = req[q].dev
      /\ w[q][req[q].dev] # Nil /\ w[q][User] # Nil
  BY <1>2 DEF Carries
<1>4. w[q][t].dev = db[w[q][t].fam].dev
  BY <1>2 DEF FamilyDevice, SameDevice, Created
<1>5. CASE req[r].kind = "revoke_device"
  BY <1>1, <1>3, <1>4, <1>5 DEF Lock, OneLock, Held
<1>6. CASE req[r].kind # "revoke_device"
  BY <1>1, <1>3, <1>6 DEF Lock, OneLock, Held
<1> QED
  BY <1>5, <1>6

LEMMA EndsOther ==
  ASSUME IInv, OneLock, FamilyDevice, NEW q \in Conn, KeyDevice(q), Carries(q), Acts(q),
         LineStays, NEW r \in Conn \ {q}, Ends(r)
  PROVE  Ends(r)'
<1> SUFFICES ASSUME req[r].kind \in Ending PROVE Ends(r)'
  BY OthersStay DEF Others, Ends
<1>1. req'[r] = req[r] /\ w'[r] = w[r]
  BY OthersStay DEF Others
<1>2. /\ \A f \in req[r].found : db[f] # NoRow
      /\ req[r].kind = "revoke_device" =>
            req[r].dev \in Device /\ \A f \in req[r].found : db[f].dev = req[r].dev
      /\ \A t \in Tok : Written(r, t) => w[r][t].rev
      /\ req[r].at \in {"revoke", "rows", "commit"} => w[r][Lock(r)] # Nil
      /\ req[r].at = "rows" => Exposed(r) \subseteq req[r].left
      /\ req[r].at = "commit" => Exposed(r) = {}
  BY DEF Ends
<1>3. \A f \in req[r].found : f \in Tok
  BY DEF IInv, RequestInv, Requests
<1>4. req[r].at \in {"rows", "commit"} => Exposed(r)' \subseteq Exposed(r)
  <2> SUFFICES ASSUME req[r].at \in {"rows", "commit"}, NEW t \in Exposed(r)'
               PROVE  t \in Exposed(r)
    OBVIOUS
  <2>1. /\ t \in Tok /\ db'[t] # NoRow /\ Usable(db'[t]) /\ db'[t].fam \in req[r].found
        /\ ~Written(r, t)
    BY <1>1 DEF Exposed, Written
  <2>2. CASE ~Commit(q)
    BY <2>1, <2>2, TokensKept DEF Exposed
  <2>3. CASE Commit(q)
    <3>1. Committing(q) /\ req[q].at = "commit"
      BY <2>3, CommitIs DEF At
    <3>2. CASE db[t] # NoRow
      BY <2>1, <3>1, <3>2, ViewIs DEF Exposed, IInv
    <3>3. CASE db[t] = NoRow
      <4>1. Created(q, t) /\ db'[t] = w[q][t]
        BY <2>1, <3>1, <3>3, ViewIs DEF Created, IInv
      <4> QED
        BY <2>1, <3>1, <4>1, NoNewcomer
    <3> QED
      BY <3>2, <3>3
  <2> QED
    BY <2>2, <2>3
<1>5. /\ \A f \in req[r].found : db'[f] # NoRow /\ db'[f].dev = db[f].dev
  BY <1>2, <1>3 DEF LineStays
<1> QED
  BY <1>1, <1>2, <1>4, <1>5 DEF Ends, Lock, Written

LEMMA EndsBegin ==
  ASSUME IInv, FamilyDevice, NEW r \in Conn, EmptyHanded(r), NEW k \in Kind, Begin(r, k)
  PROVE  Ends(r)'
<1>1. PICK key \in Keys(k) : \E d \in Devices(k, key) :
         req' = [req EXCEPT ![r] = [Idle EXCEPT !.kind = k, !.at = First(k), !.dev = d,
                                                !.key = key, !.found = Doomed(k, d)]]
  BY DEF Begin
<1>2. PICK d \in Devices(k, key) :
         req' = [req EXCEPT ![r] = [Idle EXCEPT !.kind = k, !.at = First(k), !.dev = d,
                                                !.key = key, !.found = Doomed(k, d)]]
  BY <1>1
<1>3. /\ req'[r].kind = k /\ req'[r].dev = d /\ req'[r].at = First(k)
      /\ req'[r].found = Doomed(k, d)
  BY <1>2 DEF Idle, IInv, RequestInv
<1>4. req[r] = Idle /\ UNCHANGED <<db, w>>
  BY DEF Begin
<1>5. \A t \in Tok : ~Written(r, t)
  BY <1>4, EndIs DEF EmptyHanded
<1> SUFFICES ASSUME k \in Ending PROVE Ends(r)'
  BY <1>3 DEF Ends
<1>6. First(k) \notin {"revoke", "rows", "commit"}
  BY EndingFlow
<1>7. ASSUME NEW f \in Doomed(k, d)
      PROVE  db[f] # NoRow /\ (k = "revoke_device" => db[f].dev = d)
  <2>1. PICK t \in Tok : /\ db[t] # NoRow /\ db[t].fam = f
                         /\ k = "revoke_device" => db[t].dev = d
    BY <1>7 DEF Doomed, Live, Holders, Ending
  <2> QED
    BY <2>1 DEF IInv, TokenInv, Families, FamilyDevice
<1>8. k = "revoke_device" => d \in Device
  BY DEF Devices
<1> QED
  BY <1>3, <1>4, <1>5, <1>6, <1>7, <1>8 DEF Ends, Written

\* The request of r goes on, having written nothing but its own row.
LEMMA EndsOn ==
  ASSUME IInv, NEW r \in Conn, Ends(r), req[r].kind \in Ending,
         UNCHANGED db, \A t \in Tok : w'[r][t] = w[r][t],
         req'[r].kind = req[r].kind, req'[r].dev = req[r].dev, req'[r].found = req[r].found,
         req'[r].at \in {"revoke", "rows", "commit"} => w'[r][Lock(r)] # Nil,
         req'[r].at = "rows" => Exposed(r) \subseteq req'[r].left,
         req'[r].at = "commit" => Exposed(r) = {}
  PROVE  Ends(r)'
<1>1. Exposed(r)' = Exposed(r)
  BY DEF Exposed, Written
<1> QED
  BY <1>1 DEF Ends, Lock, Written

LEMMA EndsRevoke ==
  ASSUME IInv, FamilyDevice, NEW r \in Conn, Ends(r), req[r].kind \in Ending, Revoke(r)
  PROVE  Ends(r)'
<1>1. /\ req[r].at = "revoke" /\ UNCHANGED <<db, w>>
      /\ req' = [req EXCEPT ![r] =
                    IF Scope(r) = {} THEN Onward(r)
                                     ELSE [req[r] EXCEPT !.at = "rows", !.left = Scope(r)]]
  BY DEF Revoke, At
<1>2. Exposed(r) \subseteq Scope(r)
  <2> SUFFICES ASSUME NEW t \in Exposed(r) PROVE t \in Scope(r)
    OBVIOUS
  <2>1. /\ t \in Tok /\ db[t] # NoRow /\ Usable(db[t]) /\ db[t].fam \in req[r].found
        /\ See(r, t) = db[t]
    BY DEF Exposed, See, Written
  <2>2. req[r].kind = "revoke_device" => db[t].dev = req[r].dev
    BY <2>1 DEF Ends, FamilyDevice
  <2> QED
    BY <2>1, <2>2 DEF Scope, Usable, Ending
<1>3. /\ req'[r].kind = req[r].kind /\ req'[r].dev = req[r].dev /\ req'[r].found = req[r].found
      /\ \/ Scope(r) = {} /\ req'[r].at = "commit"
         \/ req'[r].at = "rows" /\ req'[r].left = Scope(r)
  BY <1>1, EndingFlow DEF Onward, IInv, RequestInv, Requests
<1>4. w[r][Lock(r)] # Nil
  BY <1>1 DEF Ends
<1> QED
  BY <1>1, <1>2, <1>3, <1>4, EndsOn

LEMMA EndsRow ==
  ASSUME IInv, NEW r \in Conn, Ends(r), req[r].kind \in Ending, NEW t \in Tok, RevokeRow(r, t)
  PROVE  Ends(r)'
<1> DEFINE v == [See(r, t) EXCEPT !.rev = TRUE]
<1>1. /\ req[r].at = "rows" /\ t \in req[r].left /\ UNCHANGED db
      /\ req' = [req EXCEPT ![r] =
                    [req[r] EXCEPT !.left = req[r].left \ {t},
                                   !.at = IF req[r].left = {t}
                                             THEN Flow[req[r].kind]["revoke"] ELSE "rows"]]
  BY DEF RevokeRow, At
<1>2. /\ req'[r].kind = req[r].kind /\ req'[r].dev = req[r].dev /\ req'[r].found = req[r].found
      /\ req'[r].left = req[r].left \ {t}
      /\ \/ req'[r].at = "commit" /\ req[r].left = {t}
         \/ req'[r].at = "rows"
  BY <1>1, EndingFlow DEF IInv, RequestInv, Requests
<1>3. /\ w[r][Lock(r)] # Nil /\ Exposed(r) \subseteq req[r].left
      /\ \A u \in Tok : Written(r, u) => w[r][u].rev
  BY <1>1 DEF Ends
<1>4. db[t] # NoRow /\ See(r, t) \in TokRow
  <2>1. db[t] # NoRow
    BY <1>1 DEF IInv, RequestInv, Placed
  <2> QED
    BY <2>1, SeenToken DEF IInv
<1>5. v # Nil /\ v.rev
  BY <1>4, Revoked, Sentinels DEF TokRow
<1>6. \/ See(r, t).rev /\ UNCHANGED w
      \/ Put(r, t, v)
  BY DEF RevokeRow, Put
<1> HIDE DEF v
<1>7. /\ w'[r][Lock(r)] # Nil
      /\ \A u \in Tok \ {t} : w'[r][u] = w[r][u]
      /\ w'[r][t] = v \/ (w'[r][t] = w[r][t] /\ See(r, t).rev)
  <2>1. CASE UNCHANGED w /\ See(r, t).rev
    BY <1>3, <2>1
  <2>2. CASE Put(r, t, v)
    <3>1. Lock(r) \in Held
      BY DEF Ends, Lock, Held
    <3> QED
      BY <1>3, <2>2, <3>1, PutIs, InRow, HeldAre DEF IInv, TokenInv
  <2> QED
    BY <1>6, <2>1, <2>2
<1>8. Exposed(r)' \subseteq req[r].left \ {t}
  <2>1. \A u \in Tok \ {t} : u \in Exposed(r)' => u \in Exposed(r)
    BY <1>1, <1>2, <1>7 DEF Exposed, Written
  <2>2. t \notin Exposed(r)'
    BY <1>1, <1>2, <1>5, <1>7 DEF Exposed, Written, See, Usable
  <2>3. Exposed(r)' \subseteq Tok
    BY DEF Exposed
  <2> QED
    BY <1>3, <2>1, <2>2, <2>3
<1>9. \A u \in Tok : w'[r][u] # Nil => w'[r][u].rev
  BY <1>3, <1>5, <1>7 DEF Written
<1> QED
  BY <1>1, <1>2, <1>7, <1>8, <1>9 DEF Ends, Lock, Written

LEMMA EndsOwn ==
  ASSUME IInv, IInv', HeldTypes, FamilyDevice, NEW r \in Conn, KeyDevice(r), EmptyHanded(r),
         Ends(r), Acts(r)
  PROVE  Ends(r)'
<1>1. CASE \E k \in Kind : Begin(r, k)
  BY <1>1, EndsBegin
<1>2. CASE req'[r] = Idle
  BY <1>2, EndIs, EndingFlow DEF Ends
<1>3. CASE (\A k \in Kind : ~Begin(r, k)) /\ req'[r] # Idle /\ req[r].kind \notin Ending
  BY <1>3, GivenStays DEF Ends
<1>4. CASE (\A k \in Kind : ~Begin(r, k)) /\ req'[r] # Idle /\ req[r].kind \in Ending
  <2>1. /\ req'[r].kind = req[r].kind /\ req'[r].dev = req[r].dev
        /\ req'[r].found = req[r].found
    BY <1>4, GivenStays
  <2>2. req[r].at \in Stage[req[r].kind]
    BY <1>4, EndingFlow DEF IInv, RequestInv, Placed
  <2>3. req[r].at \in {"find", "user", "retire", "revoke", "rows", "commit"}
    BY <1>4, <2>2, EndingFlow
  <2>4. CASE Find(r)
    <3>1. /\ UNCHANGED <<db, w>> /\ req[r].at = "find"
          /\ \E f : req' = [req EXCEPT ![r] = [Onward(r) EXCEPT !.fit = f]]
      BY <2>4 DEF Find, At
    <3>2. req'[r].at = "user"
      BY <1>4, <2>2, <3>1, EndingFlow DEF Onward, IInv, RequestInv, Requests
    <3> QED
      BY <1>4, <2>1, <3>1, <3>2, EndsOn
  <2>5. CASE WriteUser(r)
    <3> DEFINE u == UserAfter(req[r].kind, See(r, User))
    <3>1. /\ UNCHANGED db /\ req[r].at = "user" /\ Put(r, User, u)
          /\ \E f : req' = [req EXCEPT ![r] = [Onward(r) EXCEPT !.fit = f]]
      BY <2>5 DEF WriteUser, At
    <3>2. req'[r].at = "revoke" /\ req[r].kind # "revoke_device"
      BY <1>4, <2>2, <3>1, EndingFlow DEF Onward, IInv, RequestInv, Requests
    <3>3. u # Nil
      BY UserAfterIs, HeldAre DEF See, HeldTypes
    <3> HIDE DEF u
    <3>4. w'[r][User] # Nil /\ \A t \in Tok : w'[r][t] = w[r][t]
      BY <3>1, <3>3, PutIs, InRow, HeldAre DEF IInv, TokenInv
    <3> QED
      BY <1>4, <2>1, <3>1, <3>2, <3>4, EndsOn DEF Lock
  <2>6. CASE RetireDevice(r)
    <3>1. /\ UNCHANGED db /\ req[r].at = "retire" /\ Put(r, req[r].dev, [off |-> TRUE])
          /\ Go(r)
      BY <2>6 DEF RetireDevice, At
    <3>2. req'[r].at = "revoke" /\ req[r].kind = "revoke_device"
      BY <1>4, <2>2, <3>1, EndingFlow DEF Go, Onward, IInv, RequestInv, Requests
    <3>3. [off |-> TRUE] \in DeviceRow /\ req[r].dev \in Device
      BY <3>2 DEF Ends, DeviceRow, Ending
    <3>4. w'[r][req[r].dev] # Nil /\ \A t \in Tok : w'[r][t] = w[r][t]
      BY <3>1, <3>3, PutIs, InRow, HeldAre DEF IInv, TokenInv
    <3> QED
      BY <1>4, <2>1, <3>1, <3>2, <3>4, EndsOn DEF Lock
  <2>7. CASE Revoke(r)
    BY <1>4, <2>7, EndsRevoke
  <2>8. ASSUME NEW t \in Tok, RevokeRow(r, t) PROVE Ends(r)'
    BY <1>4, <2>8, EndsRow
  <2>9. CASE Commit(r) \/ Fail(r)
    <3>1. req[r].kind # "resend"
      BY <1>4, EndingFlow
    <3>2. req'[r] = Idle
      BY <2>9, <3>1 DEF Commit, Fail, IInv, RequestInv
    <3> QED
      BY <1>4, <3>2
  <2> QED
    BY <1>4, <2>3, <2>4, <2>5, <2>6, <2>7, <2>8, <2>9
       DEF Acts, SignInDevice, IssueToken, LockToken, Rotate, TouchDevice, RevokeOne,
           Supersede, CreateCode, SendCode, SupersedeCode, Judge, BumpAttempt, ConsumeCode, At
<1> QED
  BY <1>1, <1>2, <1>3, <1>4

LEMMA EndStep == ASSUME IInv, IInv', EndInv, NEW r \in Conn, Acts(r) PROVE EndInv'
<1> USE DEF EndInv
<1>1. HeldTypes' /\ OneLock'
  BY HeldStep
<1>2. LineStays /\ FamilyDevice'
  BY LineStep
<1>3. \A q \in Conn : KeyDevice(q)'
  BY <1>2, KeyDeviceStep
<1>4. \A q \in Conn : EmptyHanded(q)'
  BY EmptyHandedStep
<1>5. \A q \in Conn : Carries(q)'
  BY <1>2, CarriesOwn, CarriesOther
<1>6. \A q \in Conn : Ends(q)'
  BY <1>2, EndsOwn, EndsOther
<1> QED
  BY <1>1, <1>2, <1>3, <1>4, <1>5, <1>6

LEMMA EndInvariant == Spec => []EndInv
<1>1. IInv /\ IInv' /\ EndInv /\ [Next]_vars => EndInv'
  <2>1. ASSUME IInv, IInv', EndInv, UNCHANGED vars PROVE EndInv'
    BY <2>1 DEF vars, EndInv, HeldTypes, OneLock, FamilyDevice, SameDevice, KeyDevice,
                EmptyHanded, Carries, Ends, Exposed, Lock, Created, Written
  <2>2. Next => \E r \in Conn : Acts(r)
    BY DEF Next, Acts
  <2> QED
    BY <2>1, <2>2, EndStep
<1> QED
  BY EndInit, Inductive, <1>1, PTL DEF Spec

\* What r commits.
LEMMA EndedAre ==
  ASSUME IInv, EndInv, NEW r \in Conn, Commit(r), req[r].kind \in Ending
  PROVE  req[r].found \cap Live(db') = {}
<1> SUFFICES ASSUME NEW f \in req[r].found, f \in Live(db') PROVE FALSE
  OBVIOUS
<1>1. Committing(r) /\ req[r].at = "commit"
  BY CommitIs DEF At
<1>2. PICK t \in Tok : db'[t] # NoRow /\ Usable(db'[t]) /\ db'[t].fam = f
  BY LiveIs
<1>3. db'[t] = IF Written(r, t) THEN w[r][t] ELSE db[t]
  BY <1>1, ViewIs DEF IInv
<1>4. Exposed(r) = {} /\ (Written(r, t) => w[r][t].rev)
  BY <1>1 DEF EndInv, Ends
<1>5. ~Written(r, t)
  BY <1>2, <1>3, <1>4 DEF Usable
<1> QED
  BY <1>2, <1>3, <1>4, <1>5 DEF Exposed

\* RevocationEnds (UpdateUserStatus and RevokeDevice before the tokens, Refresh's
\* touches of both before its commit): a suspension, a scheduled deletion and the
\* revocation of a device end every session that was live when they came in,
\* whatever refreshes, sign-ins and other revocations run beside them.
THEOREM RevocationsEnd == Spec => RevocationEnds
<1>1. ASSUME IInv, EndInv, [Next]_vars, NEW r \in Conn, Commits(r),
             req[r].kind \in {"suspend", "schedule", "revoke_device"}
      PROVE  req[r].found \cap Live(db') = {}
  <2>1. req[r].at = "commit" /\ req'[r] # req[r] /\ db' # db
    BY <1>1 DEF Commits, At
  <2>2. PICK q \in Conn : Acts(q)
    BY <1>1, <2>1 DEF Next, Acts, vars
  <2>3. q = r
    BY <1>1, <2>1, <2>2, OthersStay DEF Others
  <2>4. Commit(r)
    <3>1. ~\E k \in Kind : Begin(r, k)
      BY <2>1, EndIs DEF Begin
    <3> QED
      BY <2>1, <2>2, <2>3, <3>1
         DEF Acts, Find, WriteUser, SignInDevice, IssueToken, LockToken, Rotate, TouchDevice,
             RetireDevice, RevokeOne, Revoke, RevokeRow, Supersede, CreateCode, SendCode,
             SupersedeCode, Judge, BumpAttempt, ConsumeCode, Fail, At
  <2> QED
    BY <1>1, <2>4, EndedAre DEF Ending
<1>2. IInv /\ EndInv /\ [Next]_vars
         => [\A r \in Conn :
                Commits(r) /\ req[r].kind \in {"suspend", "schedule", "revoke_device"}
                   => req[r].found \cap Live(db') = {}]_vars
  BY <1>1
<1> QED
  BY <1>2, Inductive, EndInvariant, PTL DEF Spec, RevocationEnds
=============================================================================
