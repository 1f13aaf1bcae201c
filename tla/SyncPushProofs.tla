---------------------------- MODULE SyncPushProofs ----------------------------
(***************************************************************************)
(* Proofs about SyncPush, for any number of connections, rows and          *)
(* operations, any rule table and any batches.                             *)
(***************************************************************************)
EXTENDS SyncPush, SequenceTheorems, TLAPS

-----------------------------------------------------------------------------
(* What the control state implies.                                          *)

Busy == {"lookup", "fetch", "parent", "insert", "stmt"}

\* A request under way has an operation at hand; the statement machinery is
\* at rest outside the apply function; a row about to be inserted is one this
\* transaction has not written.
ControlOf(c) ==
    /\ pc[c] \in Busy => batch[c] # <<>>
    /\ pc[c] \in {"fetch", "parent", "insert"} => Op(c).op \in {"upsert", "delete"}
    /\ pc[c] # "stmt" => stm[c] = <<>> /\ run[c].left = {} /\ rets[c] = {}
    /\ run[c].left # {} => stm[c] # <<>>
    /\ pc[c] = "parent" /\ seen[c].ver = 0 => wr[c][Self(c)].ver = 0
    /\ pc[c] = "insert" => wr[c][Self(c)].ver = 0

ControlOK == \A c \in Conn : ControlOf(c)

-----------------------------------------------------------------------------
(* Types of the operators.                                                  *)

LEMMA ViewType ==
    ASSUME TypeOK, NEW c \in Conn, NEW e \in Ent
    PROVE  View(c, e) \in Row
BY DEF TypeOK, View

\* The operation at hand is one of the batch.
LEMMA OpType ==
    ASSUME TypeOK, NEW c \in Conn, batch[c] # <<>>
    PROVE  /\ Cur(c) \in OpId
           /\ Op(c) \in Operation
           /\ Self(c) \in Ent
           /\ Tail(batch[c]) \in Seq(OpId)
<1>1. batch[c] \in Seq(OpId)
  BY DEF TypeOK
<1>2. Cur(c) \in OpId /\ Tail(batch[c]) \in Seq(OpId)
  BY <1>1, HeadTailProperties DEF Cur
<1>3. Op(c) \in Operation
  BY <1>2 DEF TypeOK, Op
<1>4. Self(c) \in Ent
  BY <1>3 DEF Self, Operation
<1> QED
  BY <1>2, <1>3, <1>4

LEMMA NoRowType == NoRow \in Row
BY DEF NoRow, NoRef, Row

LEMMA NoResType == NoRes \in Result
BY DEF NoRes, Result, Absent

\* The references of an inserted row.
LEMMA RefsOnInsertType ==
    ASSUME NEW o \in Operation, NEW rule, NEW par \in Row
    PROVE  RefsOnInsert(o, rule, par) \in [RefName -> Ent \cup {Nil}]
BY DEF RefsOnInsert, OrNil, Operation, Row

\* The references of an updated row.
LEMMA RefsOnUpdateType ==
    ASSUME NEW o \in Operation, NEW rule, NEW old \in Row
    PROVE  RefsOnUpdate(o, rule, old) \in [RefName -> Ent \cup {Nil}]
BY DEF RefsOnUpdate, Operation, Row

LEMMA FreshRowType ==
    ASSUME TypeOK, NEW c \in Conn, batch[c] # <<>>
    PROVE  FreshRow(c) \in Row /\ FreshRow(c).ver = 1
<1>1. Op(c) \in Operation /\ parent[c] \in Row
  BY OpType DEF TypeOK
<1>2. RefsOnInsert(Op(c), RuleOf(Self(c)), parent[c]) \in [RefName -> Ent \cup {Nil}]
  BY <1>1, RefsOnInsertType
<1>3. NoRef \in [RefName -> Ent \cup {Nil}]
  BY DEF NoRef
<1> QED
  BY <1>2, <1>3 DEF FreshRow, Row

LEMMA WrittenType ==
    ASSUME TypeOK, NEW c \in Conn, batch[c] # <<>>, NEW s \in Stmt, NEW row \in Row
    PROVE  /\ Written(c, s, row) \in Row
           /\ Written(c, s, row).ver = row.ver + 1
           /\ row.dead => Written(c, s, row).dead
<1>1. Op(c) \in Operation /\ seen[c] \in Row
  BY OpType DEF TypeOK
<1>2. RefsOnUpdate(Op(c), RuleOf(Self(c)), seen[c]) \in [RefName -> Ent \cup {Nil}]
  BY <1>1, RefsOnUpdateType
<1>3. [r \in RefName |-> IF s.act = "detach" /\ r = s.ref THEN Nil ELSE row.ref[r]]
         \in [RefName -> Ent \cup {Nil}]
  BY DEF Row
<1> QED
  BY <1>2, <1>3 DEF Written, Row

LEMMA RestType ==
    ASSUME NEW c, stm[c] \in Seq(Stmt), stm[c] # <<>>,
           NEW a, NEW R \in SUBSET Ent
    PROVE  Rest(c, a, R) \in Seq(Stmt)
<1> DEFINE s    == Head(stm[c])
           kids == [act |-> "tombstone", kind |-> s.kids, ref |-> s.kind,
                    kids |-> Absent, at |-> R]
<1>1. s \in Stmt /\ Tail(stm[c]) \in Seq(Stmt)
  BY HeadTailProperties
<1>2. kids \in Stmt
  <2>1. s.kids \in Name /\ s.kind \in Name
    BY <1>1 DEF Stmt
  <2>2. Absent \in Name
    BY DEF Name
  <2> HIDE DEF s
  <2> QED
    BY <2>1, <2>2 DEF Stmt
<1>3. [s EXCEPT !.at = @ \ {a}] \in Stmt
  BY <1>1 DEF Stmt
<1>4. /\ (IF s.kids = Absent \/ R = {} THEN <<>> ELSE <<kids>>) \in Seq(Stmt)
      /\ (IF s.at = {a} THEN <<>> ELSE <<[s EXCEPT !.at = @ \ {a}]>>) \in Seq(Stmt)
  BY <1>2, <1>3
<1> QED
  BY <1>1, <1>4, ConcatProperties DEF Rest

-----------------------------------------------------------------------------
(* Type correctness.                                                        *)

LEMMA TypeInit == Init => TypeOK
<1> SUFFICES ASSUME Init PROVE TypeOK
  OBVIOUS
<1>1. content \in [OpId -> Operation]
  BY RuleAssumption DEF Init
<1>2. \A c \in Conn : batch[c] \in Seq(OpId) /\ stm[c] \in Seq(Stmt)
  BY EmptySeq DEF Init
<1>3. batch \in [Conn -> Seq(OpId)] /\ stm \in [Conn -> Seq(Stmt)]
  BY <1>2 DEF Init
<1> QED
  BY <1>1, <1>3, NoRowType, NoResType DEF Init, TypeOK, Idle

Pc == {"idle", "lookup", "fetch", "parent", "insert", "stmt", "commit"}

\* The part of TypeOK about the transactions.
TxTypeOK ==
    /\ pc \in [Conn -> {"idle", "lookup", "fetch", "parent", "insert", "stmt", "commit"}]
    /\ batch \in [Conn -> Seq(OpId)]
    /\ seen \in [Conn -> Row]
    /\ parent \in [Conn -> Row]
    /\ stm \in [Conn -> Seq(Stmt)]
    /\ run \in [Conn -> [at : Ent \cup {Nil}, left : SUBSET Ent]]
    /\ rets \in [Conn -> SUBSET Change]
    /\ res \in [Conn -> Result]
    /\ wr \in [Conn -> [Ent -> Row]]
    /\ wlog \in [Conn -> SUBSET Logged]
    /\ wled \in [Conn -> [OpId -> Result]]

LEMMA ReleasedType ==
    ASSUME TypeOK, NEW c \in Conn, Released(c)
    PROVE  TxTypeOK'
<1>1. <<>> \in Seq(OpId) /\ <<>> \in Seq(Stmt)
  BY EmptySeq
<1>2. Idle \in [at : Ent \cup {Nil}, left : SUBSET Ent]
  BY DEF Idle
<1> QED
  BY <1>1, <1>2, NoRowType, NoResType DEF TypeOK, TxTypeOK, Released, Set

\* The statements of a delete are typed, wherever they are to be run.
LEMMA ProgramType ==
    ASSUME NEW P \in Seq(Stmt), NEW e \in Ent
    PROVE  [i \in DOMAIN P |-> [P[i] EXCEPT !.at = {e}]] \in Seq(Stmt)
<1>1. PICK n \in Nat : P \in [1 .. n -> Stmt]
  BY SeqDef
<1>2. \A i \in 1 .. n : [P[i] EXCEPT !.at = {e}] \in Stmt
  <2> SUFFICES ASSUME NEW i \in 1 .. n PROVE [P[i] EXCEPT !.at = {e}] \in Stmt
    OBVIOUS
  <2>1. P[i] \in Stmt
    BY <1>1
  <2> QED
    BY <2>1 DEF Stmt
<1>3. [i \in DOMAIN P |-> [P[i] EXCEPT !.at = {e}]] \in [1 .. n -> Stmt]
  BY <1>1, <1>2
<1> QED
  BY <1>3, SeqDef

\* What a step of the apply function may set.
ApplyTypeOK ==
    /\ pc \in [Conn -> Pc]
    /\ stm \in [Conn -> Seq(Stmt)]
    /\ res \in [Conn -> Result]

\* Perform starts the statements of a rule.
LEMMA PerformType ==
    ASSUME TypeOK, NEW c \in Conn, NEW P \in Seq(Stmt),
           Self(c) \in Ent, Perform(c, P)
    PROVE  ApplyTypeOK'
<1>1. [i \in DOMAIN P |-> [P[i] EXCEPT !.at = {Self(c)}]] \in Seq(Stmt)
  BY ProgramType
<1> QED
  BY <1>1 DEF Perform, Set, TypeOK, ApplyTypeOK, Pc

\* Answer ends the apply function with a result.
LEMMA AnswerType ==
    ASSUME TypeOK, NEW c \in Conn, NEW result \in Result, Answer(c, result)
    PROVE  ApplyTypeOK'
BY DEF Answer, Set, TypeOK, ApplyTypeOK, Pc

LEMMA GoOnType ==
    ASSUME TypeOK, NEW c \in Conn, NEW p \in Pc, Set(pc, c, p), UNCHANGED <<stm, res>>
    PROVE  ApplyTypeOK'
BY DEF Set, TypeOK, ApplyTypeOK, Pc

LEMMA AnswerTypes ==
    /\ Rejected \in Result
    /\ \A v \in Nat : Accepted(v) \in Result /\ Conflict(v) \in Result
BY DEF Rejected, Accepted, Conflict, Result

LEMMA MergeType == MergeProgram \in Seq(Stmt)
<1>1. [act |-> "merge", kind |-> Absent, ref |-> Absent, kids |-> Absent, at |-> {}] \in Stmt
  BY DEF Stmt, Name
<1> QED
  BY <1>1 DEF MergeProgram

LEMMA SettleType ==
    ASSUME TypeOK, NEW c \in Conn, batch[c] # <<>>, NEW row \in Row, Settle(c, row)
    PROVE  ApplyTypeOK'
<1>1. MergeProgram \in Seq(Stmt)
  BY MergeType
<1>2. Self(c) \in Ent
  BY OpType
<1>3. row.ver \in Nat
  BY DEF Row
<1>4. CASE Answer(c, Rejected)
  BY <1>4, AnswerType, AnswerTypes
<1>5. CASE Answer(c, Conflict(row.ver))
  BY <1>3, <1>5, AnswerType, AnswerTypes
<1>6. CASE Set(pc, c, "insert") /\ UNCHANGED <<stm, res>>
  BY <1>6, GoOnType DEF Pc
<1>7. CASE Perform(c, MergeProgram)
  BY <1>1, <1>2, <1>7, PerformType
<1> QED
  BY <1>4, <1>5, <1>6, <1>7 DEF Settle

\* Committed state keeps its types as long as the commit does not write it.
LEMMA TypeStep == TypeOK /\ ControlOK /\ [Next]_vars => TypeOK'
<1> SUFFICES ASSUME TypeOK, ControlOK, [Next]_vars
             PROVE  TypeOK'
  OBVIOUS
<1>1. CASE UNCHANGED vars
  BY <1>1 DEF TypeOK, vars
<1>2. ASSUME NEW c \in Conn, NEW b \in Batch, Begin(c, b)
      PROVE  TypeOK'
  <2>1. b \in Seq(OpId)
    BY RuleAssumption
  <2> QED
    BY <1>2, <2>1 DEF Begin, Set, db, own, TypeOK
<1>3. ASSUME NEW c \in Conn, Replay(c)
      PROVE  TypeOK'
  <2>1. Tail(batch[c]) \in Seq(OpId)
    BY <1>3, OpType DEF ControlOK, ControlOf, Busy, Replay
  <2> QED
    BY <1>3, <2>1, NoRowType, NoResType DEF Replay, NextOp, Set, db, own, TypeOK
<1>4. ASSUME NEW c \in Conn, Lookup(c)
      PROVE  TypeOK'
  <2>3. ApplyTypeOK'
    <3>1. CASE Set(pc, c, "fetch") /\ UNCHANGED <<stm, res>>
      BY <3>1, GoOnType DEF Pc
    <3>2. CASE Answer(c, Rejected)
      BY <3>2, AnswerType, AnswerTypes
    <3> QED
      BY <1>4, <3>1, <3>2 DEF Lookup
  <2> QED
    BY <1>4, <2>3 DEF Lookup, db, own, TypeOK, ApplyTypeOK, Pc
<1>5. ASSUME NEW c \in Conn, Fetch(c)
      PROVE  TypeOK'
  <2>1. batch[c] # <<>>
    BY <1>5 DEF ControlOK, ControlOf, Busy, Fetch
  <2>2. Self(c) \in Ent /\ View(c, Self(c)) \in Row
    BY <2>1, OpType, ViewType
  <2>3. RuleOf(Self(c)).program \in Seq(Stmt)
    BY <2>2, RuleAssumption DEF RuleOf
  <2>4. ApplyTypeOK'
    <3> DEFINE row == View(c, Self(c))
    <3>0. row.ver \in Nat
      BY <2>2 DEF Row
    <3>1. CASE Set(pc, c, "insert") /\ UNCHANGED <<stm, res>>
      BY <3>1, GoOnType DEF Pc
    <3>2. CASE Set(pc, c, "parent") /\ UNCHANGED <<stm, res>>
      BY <3>2, GoOnType DEF Pc
    <3>6. CASE Answer(c, Accepted(row.ver))
      <4>1. Accepted(row.ver) \in Result
        BY <3>0, AnswerTypes
      <4> QED
        BY <3>6, <4>1 DEF Answer, Set, TypeOK, ApplyTypeOK, Pc
    <3>3. CASE Answer(c, Rejected)
      BY <3>3, AnswerType, AnswerTypes
    <3>4. CASE Perform(c, RuleOf(Self(c)).program)
      <4> DEFINE P == RuleOf(Self(c)).program
      <4>1. [i \in DOMAIN P |-> [P[i] EXCEPT !.at = {Self(c)}]] \in Seq(Stmt)
        BY <2>2, <2>3, ProgramType
      <4> QED
        BY <3>4, <4>1 DEF Perform, Set, TypeOK, ApplyTypeOK, Pc
    <3>5. CASE Settle(c, row)
      BY <2>1, <2>2, <3>5, SettleType
    <3> QED
      BY <1>5, <3>1, <3>2, <3>6, <3>3, <3>4, <3>5 DEF Fetch
  <2>5. seen' \in [Conn -> Row]
    BY <1>5, <2>2 DEF Fetch, Set, TypeOK
  <2> QED
    BY <1>5, <2>4, <2>5 DEF Fetch, db, own, TypeOK, ApplyTypeOK, Pc
<1>6. ASSUME NEW c \in Conn, FetchParent(c)
      PROVE  TypeOK'
  <2> DEFINE p   == Op(c).refs[RuleOf(Self(c)).parent]
             row == IF p \in Ent THEN View(c, p) ELSE NoRow
  <2>1. batch[c] # <<>>
    BY <1>6 DEF ControlOK, ControlOf, Busy, FetchParent
  <2>2. row \in Row
    BY ViewType, NoRowType
  <2>3. ApplyTypeOK'
    <3>1. CASE Answer(c, Rejected)
      BY <3>1, AnswerType, AnswerTypes
    <3>2. CASE Settle(c, seen[c])
      BY <2>1, <3>2, SettleType DEF TypeOK
    <3> QED
      BY <1>6, <3>1, <3>2 DEF FetchParent
  <2>4. parent' \in [Conn -> Row]
    BY <1>6, <2>2 DEF FetchParent, Set, TypeOK
  <2> QED
    BY <1>6, <2>3, <2>4 DEF FetchParent, db, own, TypeOK, ApplyTypeOK, Pc
<1>7. ASSUME NEW c \in Conn, Insert(c)
      PROVE  TypeOK'
  <2>1. batch[c] # <<>> /\ Op(c).op \in {"upsert", "delete"}
    BY <1>7 DEF ControlOK, ControlOf, Busy, Insert
  <2>2. Self(c) \in Ent /\ Cur(c) \in OpId /\ FreshRow(c) \in Row
    BY <2>1, OpType, FreshRowType
  <2>3. [ent |-> Self(c), op |-> Op(c).op, ver |-> 1, by |-> Cur(c)] \in Change
    BY <2>1, <2>2 DEF Change
  <2>4. rets' \in [Conn -> SUBSET Change]
    BY <1>7, <2>3 DEF Insert, Set, TypeOK
  <2>5. wr' \in [Conn -> [Ent -> Row]]
    BY <1>7, <2>2 DEF Insert, TypeOK
  <2>6. res' \in [Conn -> Result]
    BY <1>7 DEF Insert, Set, Accepted, Result, TypeOK
  <2> QED
    BY <1>7, <2>4, <2>5, <2>6 DEF Insert, Set, db, TypeOK
<1>8. ASSUME NEW c \in Conn, NEW a \in Ent, Scan(c, a)
      PROVE  TypeOK'
  <2> DEFINE s   == Head(stm[c])
             hit == Hits(c, s, a)
  <2>1. hit \in SUBSET Ent
    BY DEF Hits
  <2>2. Rest(c, a, hit) \in Seq(Stmt)
    BY <1>8, <2>1, RestType DEF Scan, TypeOK
  <2>3. stm' \in [Conn -> Seq(Stmt)]
    BY <1>8, <2>2 DEF Scan, Set, TypeOK
  <2>4. run' \in [Conn -> [at : Ent \cup {Nil}, left : SUBSET Ent]]
    <3>1. [at |-> a, left |-> hit] \in [at : Ent \cup {Nil}, left : SUBSET Ent]
      BY <2>1
    <3>2. CASE UNCHANGED run
      BY <3>2 DEF TypeOK
    <3>3. CASE run' = [run EXCEPT ![c] = [at |-> a, left |-> hit]]
      BY <3>1, <3>3 DEF TypeOK
    <3> QED
      BY <1>8, <3>2, <3>3 DEF Scan, Set
  <2> QED
    BY <1>8, <2>3, <2>4 DEF Scan, db, own, TypeOK
<1>9. ASSUME NEW c \in Conn, NEW e \in Ent, Touch(c, e)
      PROVE  TypeOK'
  <2> DEFINE s    == Head(stm[c])
             row  == View(c, e)
             new  == Written(c, s, row)
             left == run[c].left \ {e}
  <2>1. /\ batch[c] # <<>> /\ stm[c] # <<>>
        /\ stm[c] \in Seq(Stmt) /\ s \in Stmt
    BY <1>9, HeadTailProperties DEF Touch, ControlOK, ControlOf, Busy, TypeOK
  <2>2. Cur(c) \in OpId /\ row \in Row /\ new \in Row /\ new.ver \in Nat
    BY <2>1, OpType, ViewType, WrittenType DEF Row
  <2>3. wr' \in [Conn -> [Ent -> Row]]
    <3>1. CASE UNCHANGED wr
      BY <3>1 DEF TypeOK
    <3>2. CASE wr' = [wr EXCEPT ![c][e] = new]
      BY <2>2, <3>2 DEF TypeOK
    <3> QED
      BY <1>9, <3>1, <3>2 DEF Touch
  <2>4. /\ rets'[c] \in SUBSET Change
        /\ rets' = [rets EXCEPT ![c] = rets'[c]]
    <3>1. \A x \in {"upsert", "delete"} :
             [ent |-> e, ver |-> new.ver, by |-> Cur(c), op |-> x] \in Change
      BY <2>2 DEF Change
    <3>2. [ent |-> e, ver |-> new.ver, by |-> Cur(c),
           op |-> IF s.act \in {"merge", "detach"} THEN "upsert" ELSE "delete"] \in Change
      BY <3>1
    <3> QED
      BY <1>9, <3>2 DEF Touch, Set, TypeOK
  <2>5. res' \in [Conn -> Result]
    <3>1. Accepted(new.ver) \in Result
      BY <2>2, AnswerTypes
    <3> QED
      BY <1>9, <3>1 DEF Touch, Set, TypeOK
  <2>6. stm' \in [Conn -> Seq(Stmt)]
    <3>1. {r.ent : r \in rets'[c]} \in SUBSET Ent
      BY <2>4 DEF Change
    <3>2. Rest(c, run[c].at, {r.ent : r \in rets'[c]}) \in Seq(Stmt)
      BY <2>1, <3>1, RestType
    <3>3. \/ UNCHANGED stm
          \/ stm' = [stm EXCEPT ![c] = Rest(c, run[c].at, {r.ent : r \in rets'[c]})]
      BY <1>9 DEF Touch, Set, TypeOK
    <3> QED
      BY <3>2, <3>3 DEF TypeOK
  <2>7. run' \in [Conn -> [at : Ent \cup {Nil}, left : SUBSET Ent]]
    <3>1. /\ Idle \in [at : Ent \cup {Nil}, left : SUBSET Ent]
          /\ [at |-> run[c].at, left |-> left] \in [at : Ent \cup {Nil}, left : SUBSET Ent]
      BY DEF Idle, TypeOK
    <3>2. \/ run' = [run EXCEPT ![c] = Idle]
          \/ run' = [run EXCEPT ![c] = [at |-> run[c].at, left |-> left]]
      BY <1>9 DEF Touch, Set
    <3> QED
      BY <3>1, <3>2 DEF TypeOK
  <2> QED
    BY <1>9, <2>3, <2>4, <2>5, <2>6, <2>7 DEF Touch, db, TypeOK
<1>10. ASSUME NEW c \in Conn, NEW r \in rets[c], LogChange(c, r)
       PROVE  TypeOK'
  <2>1. r \in Change
    BY DEF TypeOK
  <2>2. [seq |-> seq + 1, ent |-> r.ent, op |-> r.op, ver |-> r.ver, by |-> r.by] \in Logged
    BY <2>1 DEF Change, Logged, TypeOK
  <2>3. wlog' \in [Conn -> SUBSET Logged]
    BY <1>10, <2>2 DEF LogChange, TypeOK
  <2>4. rets' \in [Conn -> SUBSET Change] /\ seq' \in Nat
    BY <1>10 DEF LogChange, Set, TypeOK
  <2> QED
    BY <1>10, <2>3, <2>4 DEF LogChange, db, TypeOK
<1>11. ASSUME NEW c \in Conn, StoreLedger(c)
       PROVE  TypeOK'
  <2>1. Tail(batch[c]) \in Seq(OpId)
    BY <1>11, OpType DEF ControlOK, ControlOf, Busy, StoreLedger, Applied
  <2>2. Cur(c) \in OpId /\ res[c] \in Result
    BY <1>11, OpType DEF ControlOK, ControlOf, Busy, StoreLedger, Applied, TypeOK
  <2>3. wled' \in [Conn -> [OpId -> Result]]
    BY <1>11, <2>2 DEF StoreLedger, TypeOK
  <2> QED
    BY <1>11, <2>1, <2>3, NoRowType, NoResType DEF StoreLedger, NextOp, Set, db, TypeOK
<1>12. ASSUME NEW c \in Conn, Commit(c)
       PROVE  TypeOK'
  <2>1. rows' \in [Ent -> Row]
    BY <1>12, ViewType DEF Commit
  <2>2. log' \in SUBSET Logged /\ ledger' \in [OpId -> Result]
    BY <1>12 DEF Commit, TypeOK
  <2>3. TxTypeOK'
    BY <1>12, ReleasedType DEF Commit
  <2> QED
    BY <1>12, <2>1, <2>2, <2>3 DEF Commit, TypeOK, TxTypeOK
<1>13. ASSUME NEW c \in Conn, Fail(c) \/ Victim(c)
       PROVE  TypeOK'
  <2>1. TxTypeOK'
    BY <1>13, ReleasedType DEF Fail, Victim
  <2> QED
    BY <1>13, <2>1 DEF Fail, Victim, db, TypeOK, TxTypeOK
<1>14. ASSUME NEW c \in Conn, Crash(c)
       PROVE  TypeOK'
  <2>1. TxTypeOK'
    BY <1>14, ReleasedType DEF Crash
  <2> QED
    BY <1>14, <2>1 DEF Crash, db, TypeOK, TxTypeOK
<1> QED
  BY <1>1, <1>2, <1>3, <1>4, <1>5, <1>6, <1>7, <1>8, <1>9, <1>10, <1>11, <1>12,
     <1>13, <1>14 DEF Next, Proceed

-----------------------------------------------------------------------------
(* A step of one connection.                                                *)

\* What connection c does leaves the others' transactions alone.
Frame(c) ==
    /\ content' = content
    /\ \A d \in Conn \ {c} :
          /\ pc'[d] = pc[d]
          /\ batch'[d] = batch[d]
          /\ seen'[d] = seen[d]
          /\ stm'[d] = stm[d]
          /\ run'[d] = run[d]
          /\ rets'[d] = rets[d]
          /\ wr'[d] = wr[d]
          /\ wlog'[d] = wlog[d]
          /\ wled'[d] = wled[d]

Step(c) ==
    \/ \E b \in Batch : Begin(c, b)
    \/ Proceed(c)
    \/ Crash(c)

LEMMA StepFrame ==
    ASSUME TypeOK, NEW c \in Conn, Step(c)
    PROVE  Frame(c)
<1>1. CASE \E b \in Batch : Begin(c, b)
  BY <1>1 DEF Begin, Frame, Set, own, TypeOK
<1>2. CASE Replay(c)
  BY <1>2 DEF Replay, NextOp, Frame, Set, own, TypeOK
<1>3. CASE Lookup(c)
  BY <1>3 DEF Lookup, Answer, Frame, Set, own, TypeOK
<1>4. CASE Fetch(c)
  <2>1. \A d \in Conn \ {c} : pc'[d] = pc[d] /\ stm'[d] = stm[d]
    BY <1>4 DEF Fetch, Settle, Answer, Perform, Set, TypeOK
  <2> QED
    BY <1>4, <2>1 DEF Fetch, Frame, Set, own, TypeOK
<1>5. CASE FetchParent(c)
  <2>1. \A d \in Conn \ {c} : pc'[d] = pc[d] /\ stm'[d] = stm[d]
    BY <1>5 DEF FetchParent, Settle, Answer, Perform, Set, TypeOK
  <2> QED
    BY <1>5, <2>1 DEF FetchParent, Frame, Set, own, TypeOK
<1>6. CASE Insert(c)
  BY <1>6 DEF Insert, Frame, Set, TypeOK
<1>7. CASE \E a \in Ent : Scan(c, a)
  BY <1>7 DEF Scan, Frame, Set, own, TypeOK
<1>8. CASE \E e \in Ent : Touch(c, e)
  BY <1>8 DEF Touch, Frame, Set, TypeOK
<1>9. CASE \E r \in rets[c] : LogChange(c, r)
  BY <1>9 DEF LogChange, Frame, Set, TypeOK
<1>10. CASE StoreLedger(c)
  BY <1>10 DEF StoreLedger, NextOp, Frame, Set, TypeOK
<1>11. CASE Commit(c)
  BY <1>11 DEF Commit, Released, Frame, Set, TypeOK
<1>12. CASE Fail(c) \/ Victim(c) \/ Crash(c)
  BY <1>12 DEF Fail, Victim, Crash, Released, Frame, Set, TypeOK
<1> QED
  BY <1>1, <1>2, <1>3, <1>4, <1>5, <1>6, <1>7, <1>8, <1>9, <1>10, <1>11, <1>12
  DEF Step, Proceed

LEMMA ControlFrame ==
    ASSUME ControlOK, NEW c \in Conn, Frame(c), NEW d \in Conn \ {c}
    PROVE  ControlOf(d)'
BY DEF ControlOK, ControlOf, Frame, Op, Cur, Self, Busy

LEMMA ReleasedControl ==
    ASSUME TypeOK, NEW c \in Conn, Released(c)
    PROVE  ControlOf(c)'
BY DEF Released, Set, Idle, ControlOf, Busy, TypeOK

\* The row fetched by an upsert of an unknown row is one this transaction has
\* not written, whether the parent has been fetched in between or not.
LEMMA SettleControl ==
    ASSUME TypeOK, NEW c \in Conn, batch[c] # <<>>,
           Op(c).op \in {"upsert", "delete"}, stm[c] = <<>>,
           run[c].left = {}, rets[c] = {},
           NEW row \in Row, row.ver = 0 => wr[c][Self(c)].ver = 0,
           Settle(c, row),
           UNCHANGED <<content, batch, run, rets, wr>>
    PROVE  ControlOf(c)'
<1>1. Op(c)' = Op(c) /\ Self(c)' = Self(c) /\ batch'[c] # <<>>
  BY DEF Op, Self, Cur
<1>2. CASE pc' = [pc EXCEPT ![c] = "stmt"]
  BY <1>1, <1>2 DEF ControlOf, Busy, TypeOK
<1>3. CASE pc' = [pc EXCEPT ![c] = "insert"] /\ stm' = stm /\ row.ver = 0
  BY <1>1, <1>3 DEF ControlOf, Busy, TypeOK
<1>4. Verdict(Op(c), row, RuleOf(Self(c))) = "insert" => row.ver = 0
  BY DEF Verdict, Row
<1> QED
  BY <1>2, <1>3, <1>4 DEF Settle, Answer, Perform, Set

LEMMA ControlStep ==
    ASSUME TypeOK, ControlOK, NEW c \in Conn, Step(c)
    PROVE  ControlOK'
<1>1. Frame(c)
  BY StepFrame
<1>2. ControlOf(c)
  BY DEF ControlOK
<1> SUFFICES ControlOf(c)'
  BY <1>1, ControlFrame DEF ControlOK
<1>3. CASE \E b \in Batch : Begin(c, b)
  BY <1>2, <1>3, RuleAssumption DEF Begin, Set, ControlOf, Busy, TypeOK, own
<1>4. CASE Replay(c) \/ StoreLedger(c)
  <2>1. /\ pc' = [pc EXCEPT ![c] = IF Tail(batch[c]) = <<>> THEN "commit" ELSE "lookup"]
        /\ batch' = [batch EXCEPT ![c] = Tail(batch[c])]
        /\ stm'[c] = <<>> /\ run'[c].left = {} /\ rets'[c] = {}
    BY <1>2, <1>4 DEF Replay, StoreLedger, Applied, NextOp, Set, ControlOf, own
  <2> QED
    BY <2>1 DEF ControlOf, Busy, TypeOK
<1>5. CASE Lookup(c)
  <2>1. batch[c] # <<>> /\ stm[c] = <<>> /\ run[c].left = {} /\ rets[c] = {}
    BY <1>2, <1>5 DEF Lookup, ControlOf, Busy
  <2>2. Op(c)' = Op(c)
    BY <1>5 DEF Lookup, Op, Cur
  <2> QED
    BY <1>5, <2>1, <2>2 DEF Lookup, Answer, Set, ControlOf, Busy, TypeOK
<1>6. CASE Fetch(c)
  <2> DEFINE row == View(c, Self(c))
  <2>1. /\ batch[c] # <<>> /\ stm[c] = <<>> /\ run[c].left = {} /\ rets[c] = {}
        /\ Op(c).op \in {"upsert", "delete"}
    BY <1>2, <1>6 DEF Fetch, ControlOf, Busy
  <2>2. Op(c)' = Op(c) /\ Self(c)' = Self(c)
    BY <1>6 DEF Fetch, Op, Cur, Self
  <2>3. Self(c) \in Ent /\ row \in Row /\ wr[c][Self(c)] \in Row
    BY <2>1, OpType, ViewType DEF TypeOK
  <2>4. row.ver = 0 => wr[c][Self(c)].ver = 0
    BY <2>3 DEF View, Row
  <2>5. CASE Settle(c, row)
    BY <1>6, <2>1, <2>3, <2>4, <2>5, SettleControl DEF Fetch, own
  <2>6. CASE \/ row.ver = 0 /\ Set(pc, c, "insert") /\ UNCHANGED <<stm, res>>
             \/ Set(pc, c, "parent") /\ UNCHANGED <<stm, res>>
    BY <1>6, <2>1, <2>2, <2>4, <2>6 DEF Fetch, Set, ControlOf, Busy, TypeOK, own
  <2>7. CASE pc' = [pc EXCEPT ![c] = "stmt"]
    BY <1>6, <2>1, <2>7 DEF Fetch, ControlOf, Busy, TypeOK
  <2> QED
    BY <1>6, <2>5, <2>6, <2>7 DEF Fetch, Answer, Perform, Set
<1>7. CASE FetchParent(c)
  <2>1. /\ batch[c] # <<>> /\ stm[c] = <<>> /\ run[c].left = {} /\ rets[c] = {}
        /\ Op(c).op \in {"upsert", "delete"}
        /\ seen[c].ver = 0 => wr[c][Self(c)].ver = 0
    BY <1>2, <1>7 DEF FetchParent, ControlOf, Busy
  <2>2. CASE Answer(c, Rejected)
    BY <1>7, <2>1, <2>2 DEF FetchParent, Answer, Set, ControlOf, Busy, TypeOK
  <2>3. CASE Settle(c, seen[c])
    BY <1>7, <2>1, <2>3, SettleControl DEF FetchParent, TypeOK, own
  <2> QED
    BY <1>7, <2>2, <2>3 DEF FetchParent
<1>8. CASE Insert(c)
  BY <1>2, <1>8 DEF Insert, Set, ControlOf, Busy, TypeOK
<1>9. CASE \E a \in Ent : Scan(c, a)
  BY <1>2, <1>9 DEF Scan, Set, ControlOf, Busy, TypeOK
<1>10. CASE \E e \in Ent : Touch(c, e)
  BY <1>2, <1>10 DEF Touch, Set, Idle, ControlOf, Busy, TypeOK
<1>11. CASE \E r \in rets[c] : LogChange(c, r)
  BY <1>2, <1>11 DEF LogChange, Set, ControlOf, Busy, TypeOK
<1>12. CASE Commit(c) \/ Fail(c) \/ Victim(c) \/ Crash(c)
  BY <1>12, ReleasedControl DEF Commit, Fail, Victim, Crash
<1> QED
  BY <1>3, <1>4, <1>5, <1>6, <1>7, <1>8, <1>9, <1>10, <1>11, <1>12 DEF Step, Proceed

\* TypeOK: every variable keeps its type.
THEOREM TypeCorrect == Spec => []TypeOK
<1>1. Init => TypeOK /\ ControlOK
  <2>1. Init => ControlOK
    BY DEF Init, ControlOK, ControlOf, Busy, Idle
  <2> QED
    BY <2>1, TypeInit
<1>2. TypeOK /\ ControlOK /\ [Next]_vars => (TypeOK /\ ControlOK)'
  <2> SUFFICES ASSUME TypeOK, ControlOK, [Next]_vars PROVE ControlOK'
    BY TypeStep
  <2>1. CASE UNCHANGED vars
    BY <2>1 DEF vars, ControlOK, ControlOf, Op, Cur, Self
  <2>2. ASSUME NEW c \in Conn, Step(c) PROVE ControlOK'
    BY <2>2, ControlStep
  <2> QED
    BY <2>1, <2>2 DEF Next, Step
<1> QED
  BY <1>1, <1>2, PTL DEF Spec

-----------------------------------------------------------------------------
(* Why the feed is a complete and ordered history.                          *)

\* A row has one writer at a time, which only moves it forward.
LockOK ==
    /\ \A c, d \in Conn, e \in Ent : wr[c][e].ver > 0 /\ wr[d][e].ver > 0 => c = d
    /\ \A c \in Conn, e \in Ent :
          wr[c][e].ver > 0 => /\ rows[e].ver < wr[c][e].ver
                              /\ rows[e].dead => wr[c][e].dead
    /\ \A e \in Ent : rows[e].dead => rows[e].ver > 0

\* Every version a transaction has written and not committed is in its part of
\* the feed or among the rows still to be logged, once; those still to be
\* logged are the newest of their rows.
PendingOf(c) ==
    /\ \A l \in wlog[c] : rows[l.ent].ver < l.ver /\ l.ver <= View(c, l.ent).ver
    /\ \A r \in rets[c] : /\ rows[r.ent].ver < r.ver
                          /\ r.ver = View(c, r.ent).ver
                          /\ r.ent \notin run[c].left
    /\ \A e \in Ent : \A v \in rows[e].ver + 1 .. View(c, e).ver :
          \/ \E l \in wlog[c] : l.ent = e /\ l.ver = v
          \/ \E r \in rets[c] : r.ent = e /\ r.ver = v
    /\ \A l \in wlog[c], r \in rets[c] : l.ent = r.ent => l.ver < r.ver
    /\ \A r, s \in rets[c] : r.ent = s.ent => r = s
    /\ \A l, m \in wlog[c] : l.ent = m.ent /\ l.ver = m.ver => l = m

PendingOK == \A c \in Conn : PendingOf(c)

\* Sequence numbers are drawn while the row is locked.
SeqOf(c) ==
    /\ \A l \in wlog[c] : l.seq <= seq
    /\ \A l \in log, m \in wlog[c] : l.ent = m.ent => l.seq < m.seq
    /\ \A l, m \in wlog[c] : l.ent = m.ent /\ l.ver < m.ver => l.seq < m.seq

SeqOK ==
    /\ \A l \in log : l.seq <= seq
    /\ \A c \in Conn : SeqOf(c)

\* An operation is booked by one transaction, and once.
BookOK ==
    /\ \A c \in Conn, o \in OpId : wled[c][o] # NoRes => ledger[o] = NoRes
    /\ \A c, d \in Conn, o \in OpId : wled[c][o] # NoRes /\ wled[d][o] # NoRes => c = d

TxInv == LockOK /\ PendingOK /\ SeqOK /\ BookOK

\* What holds of transactions whatever has become of the changes committed.
EngineInv == TypeOK /\ ControlOK /\ TxInv

\* The inductive invariant.
HistoryInv == EngineInv /\ VersionsLogged /\ SeqFollowsVersion

\* A step that writes nothing; it may take rows off a running statement, or
\* start one when nothing waits to be logged.
LEMMA QuietStep ==
    ASSUME EngineInv,
           UNCHANGED <<rows, log, seq, ledger, wr, wlog, wled, rets>>,
           \A d \in Conn : rets[d] = {} \/ run'[d].left \subseteq run[d].left
    PROVE  TxInv'
<1>1. LockOK' /\ SeqOK' /\ BookOK'
  BY DEF EngineInv, TxInv, LockOK, SeqOK, SeqOf, BookOK
<1>2. \A d \in Conn, e \in Ent : View(d, e)' = View(d, e)
  BY DEF View
<1>3. ASSUME NEW d \in Conn PROVE PendingOf(d)'
  <2>1. PendingOf(d)
    BY DEF EngineInv, TxInv, PendingOK
  <2>2. /\ \A l \in wlog[d] : l.ent \in Ent
        /\ \A r \in rets[d] : r.ent \in Ent
    BY DEF EngineInv, TypeOK, Change, Logged
  <2> QED
    BY <1>2, <2>1, <2>2 DEF PendingOf
<1> QED
  BY <1>1, <1>3 DEF TxInv, PendingOK

\* A step that writes one row no other transaction holds.
LEMMA WriteStep ==
    ASSUME EngineInv, NEW c \in Conn, NEW e \in Ent, NEW new \in Row, NEW chg \in Change,
           ~Locked(c, e),
           new.ver = View(c, e).ver + 1, View(c, e).dead => new.dead,
           chg.ent = e, chg.ver = new.ver,
           \A r \in rets[c] : r.ent # e,
           wr' = [wr EXCEPT ![c][e] = new],
           rets' = [rets EXCEPT ![c] = @ \cup {chg}],
           e \notin run'[c].left, run'[c].left \subseteq run[c].left,
           \A d \in Conn \ {c} : run'[d] = run[d],
           UNCHANGED <<rows, log, seq, ledger, wlog, wled>>
    PROVE  TxInv'
<1> USE DEF EngineInv, TxInv
<1>0. /\ wr \in [Conn -> [Ent -> Row]] /\ rows \in [Ent -> Row]
      /\ rets \in [Conn -> SUBSET Change] /\ wlog \in [Conn -> SUBSET Logged]
  BY DEF TypeOK
<1>1. SeqOK' /\ BookOK'
  BY DEF SeqOK, SeqOf, BookOK
<1>2. /\ wr'[c][e] = new
      /\ \A d \in Conn, x \in Ent : d # c \/ x # e => wr'[d][x] = wr[d][x]
      /\ rets'[c] = rets[c] \cup {chg}
      /\ \A d \in Conn \ {c} : rets'[d] = rets[d]
  BY <1>0
<1>3. \A d \in Conn \ {c} : wr[d][e].ver = 0
  BY <1>0 DEF Locked, Row
<1>4. /\ rows[e].ver <= View(c, e).ver
      /\ rows[e].dead => View(c, e).dead
      /\ View(c, e).ver \in Nat /\ rows[e].ver \in Nat
  BY <1>0 DEF View, LockOK, Row
<1>5. LockOK'
  <2>1. \A d \in Conn, x \in Ent :
           wr'[d][x].ver > 0 => /\ rows[x].ver < wr'[d][x].ver
                                /\ rows[x].dead => wr'[d][x].dead
    BY <1>2, <1>4 DEF LockOK
  <2>2. \A d, f \in Conn, x \in Ent : wr'[d][x].ver > 0 /\ wr'[f][x].ver > 0 => d = f
    BY <1>2, <1>3 DEF LockOK
  <2> QED
    BY <2>1, <2>2 DEF LockOK
<1>6. /\ View(c, e)' = new
      /\ \A d \in Conn, x \in Ent : d # c \/ x # e => View(d, x)' = View(d, x)
  BY <1>2, <1>4 DEF View
<1>7. ASSUME NEW d \in Conn \ {c} PROVE PendingOf(d)'
  <2>1. PendingOf(d)
    BY DEF PendingOK
  <2>2. \A x \in Ent : View(d, x)' = View(d, x)
    BY <1>6
  <2>3. /\ \A l \in wlog[d] : l.ent \in Ent
        /\ \A r \in rets[d] : r.ent \in Ent
    BY <1>0 DEF Change, Logged
  <2> QED
    BY <1>2, <2>1, <2>2, <2>3 DEF PendingOf
<1>8. PendingOf(c)'
  <2>0. PendingOf(c)
    BY DEF PendingOK
  <2>1. /\ \A l \in wlog[c] : l.ent \in Ent /\ l.ver \in Nat
        /\ \A r \in rets[c] : r.ent \in Ent /\ r.ver \in Nat
    BY <1>0 DEF Change, Logged
  <2>2. \A l \in wlog[c] : rows[l.ent].ver < l.ver /\ l.ver <= View(c, l.ent)'.ver
    <3> SUFFICES ASSUME NEW l \in wlog[c]
                 PROVE  rows[l.ent].ver < l.ver /\ l.ver <= View(c, l.ent)'.ver
      OBVIOUS
    <3>1. rows[l.ent].ver < l.ver /\ l.ver <= View(c, l.ent).ver
      BY <2>0 DEF PendingOf
    <3>2. CASE l.ent = e
      BY <1>4, <1>6, <2>1, <3>1, <3>2
    <3>3. CASE l.ent # e
      BY <1>6, <2>1, <3>1, <3>3
    <3> QED
      BY <3>2, <3>3
  <2>3. \A r \in rets'[c] : /\ rows[r.ent].ver < r.ver
                            /\ r.ver = View(c, r.ent)'.ver
                            /\ r.ent \notin run'[c].left
    BY <1>2, <1>4, <1>6, <2>0, <2>1 DEF PendingOf
  <2>4. ASSUME NEW x \in Ent, NEW v \in rows[x].ver + 1 .. View(c, x)'.ver
        PROVE  \/ \E l \in wlog[c] : l.ent = x /\ l.ver = v
               \/ \E r \in rets'[c] : r.ent = x /\ r.ver = v
    <3>1. CASE v \in rows[x].ver + 1 .. View(c, x).ver
      BY <1>2, <2>0, <3>1 DEF PendingOf
    <3>2. CASE v \notin rows[x].ver + 1 .. View(c, x).ver
      <4>1. x = e /\ v = new.ver
        BY <1>4, <1>6, <3>2
      <4> QED
        BY <1>2, <4>1
    <3> QED
      BY <3>1, <3>2
  <2>5. \A l \in wlog[c], r \in rets'[c] : l.ent = r.ent => l.ver < r.ver
    <3> SUFFICES ASSUME NEW l \in wlog[c], NEW r \in rets'[c], l.ent = r.ent
                 PROVE  l.ver < r.ver
      OBVIOUS
    <3>1. CASE r \in rets[c]
      BY <2>0, <3>1 DEF PendingOf
    <3>2. CASE r = chg
      <4>1. l.ver <= View(c, e).ver
        BY <2>0, <3>2 DEF PendingOf
      <4> QED
        BY <1>4, <2>1, <3>2, <4>1
    <3> QED
      BY <1>2, <3>1, <3>2
  <2>6. \A r, s \in rets'[c] : r.ent = s.ent => r = s
    BY <1>2, <2>0 DEF PendingOf
  <2>7. \A l, m \in wlog[c] : l.ent = m.ent /\ l.ver = m.ver => l = m
    BY <2>0 DEF PendingOf
  <2> QED
    BY <2>2, <2>3, <2>4, <2>5, <2>6, <2>7 DEF PendingOf
<1> QED
  BY <1>1, <1>5, <1>7, <1>8 DEF PendingOK

\* logChange moves a change into the transaction's part of the feed, under the
\* highest sequence number so far.
LEMMA LogStep ==
    ASSUME EngineInv, NEW c \in Conn, NEW r \in rets[c], LogChange(c, r)
    PROVE  TxInv'
<1> USE DEF EngineInv, TxInv
<1> DEFINE new == [seq |-> seq + 1, ent |-> r.ent, op |-> r.op, ver |-> r.ver, by |-> r.by]
<1>0. /\ rows \in [Ent -> Row] /\ seq \in Nat /\ log \in SUBSET Logged
      /\ rets \in [Conn -> SUBSET Change] /\ wlog \in [Conn -> SUBSET Logged]
      /\ r \in Change
  BY DEF TypeOK
<1>1. /\ UNCHANGED <<rows, log, ledger, wr, wled, run>>
      /\ seq' = seq + 1
      /\ wlog'[c] = wlog[c] \cup {new}
      /\ rets'[c] = rets[c] \ {r}
      /\ \A d \in Conn \ {c} : wlog'[d] = wlog[d] /\ rets'[d] = rets[d]
  BY <1>0 DEF LogChange, Set, db
<1>2. LockOK' /\ BookOK'
  BY <1>1 DEF LockOK, BookOK
<1>3. \A d \in Conn, x \in Ent : View(d, x)' = View(d, x)
  BY <1>1 DEF View
<1>4. /\ \A d \in Conn : \A l \in wlog[d] : l.ent \in Ent /\ l.ver \in Nat /\ l.seq \in Nat
      /\ \A d \in Conn : \A s \in rets[d] : s.ent \in Ent /\ s.ver \in Nat
      /\ \A l \in log : l.seq \in Nat
      /\ new.ent = r.ent /\ new.ver = r.ver /\ new.seq = seq + 1
  BY <1>0 DEF Change, Logged
<1>5. \A d \in Conn : PendingOf(d) /\ SeqOf(d)
  BY DEF PendingOK, SeqOK
<1>6. ASSUME NEW d \in Conn \ {c} PROVE PendingOf(d)' /\ SeqOf(d)'
  <2>1. PendingOf(d)'
    BY <1>1, <1>3, <1>4, <1>5 DEF PendingOf
  <2>2. SeqOf(d)'
    BY <1>0, <1>1, <1>4, <1>5 DEF SeqOf
  <2> QED
    BY <2>1, <2>2
<1>7. PendingOf(c)'
  <2>0. PendingOf(c)
    BY <1>5
  <2>1. \A l \in wlog'[c] : rows[l.ent].ver < l.ver /\ l.ver <= View(c, l.ent).ver
    <3>1. rows[r.ent].ver < new.ver /\ new.ver <= View(c, r.ent).ver
      BY <1>4, <2>0 DEF PendingOf
    <3> QED
      BY <1>1, <1>4, <2>0, <3>1 DEF PendingOf
  <2>2. \A s \in rets'[c] : /\ rows[s.ent].ver < s.ver
                            /\ s.ver = View(c, s.ent).ver
                            /\ s.ent \notin run[c].left
    BY <1>1, <2>0 DEF PendingOf
  <2>3. ASSUME NEW x \in Ent, NEW v \in rows[x].ver + 1 .. View(c, x).ver
        PROVE  \/ \E l \in wlog'[c] : l.ent = x /\ l.ver = v
               \/ \E s \in rets'[c] : s.ent = x /\ s.ver = v
    <3>1. CASE \E l \in wlog[c] : l.ent = x /\ l.ver = v
      BY <1>1, <3>1
    <3>2. CASE \E s \in rets[c] \ {r} : s.ent = x /\ s.ver = v
      BY <1>1, <3>2
    <3>3. CASE r.ent = x /\ r.ver = v
      BY <1>1, <1>4, <3>3
    <3> QED
      BY <2>0, <3>1, <3>2, <3>3 DEF PendingOf
  <2>4. \A l \in wlog'[c], s \in rets'[c] : l.ent = s.ent => l.ver < s.ver
    BY <1>1, <1>4, <2>0 DEF PendingOf
  <2>5. \A s, t \in rets'[c] : s.ent = t.ent => s = t
    BY <1>1, <2>0 DEF PendingOf
  <2>6. \A l, m \in wlog'[c] : l.ent = m.ent /\ l.ver = m.ver => l = m
    BY <1>1, <1>4, <2>0 DEF PendingOf
  <2> QED
    BY <1>1, <1>3, <1>4, <2>1, <2>2, <2>3, <2>4, <2>5, <2>6 DEF PendingOf
<1>8. SeqOf(c)'
  <2>0. SeqOf(c) /\ PendingOf(c) /\ \A l \in log : l.seq <= seq
    BY <1>5 DEF SeqOK
  <2>1. \A l \in wlog'[c] : l.seq <= seq + 1
    BY <1>0, <1>1, <1>4, <2>0 DEF SeqOf
  <2>2. \A l \in log, m \in wlog'[c] : l.ent = m.ent => l.seq < m.seq
    BY <1>0, <1>1, <1>4, <2>0 DEF SeqOf
  <2>3. ASSUME NEW l \in wlog'[c], NEW m \in wlog'[c], l.ent = m.ent, l.ver < m.ver
        PROVE  l.seq < m.seq
    <3>1. CASE l \in wlog[c] /\ m \in wlog[c]
      BY <2>0, <2>3, <3>1 DEF SeqOf
    <3>2. CASE l \in wlog[c] /\ m = new
      BY <1>0, <1>4, <2>0, <3>2 DEF SeqOf
    <3>3. CASE l = new
      \* Nothing logged before is newer than a change still to be logged.
      <4>1. m.ver <= new.ver
        BY <1>1, <1>4, <2>0, <2>3, <3>3 DEF PendingOf
      <4> QED
        BY <1>1, <1>4, <2>3, <3>3, <4>1
    <3> QED
      BY <1>1, <3>1, <3>2, <3>3
  <2> QED
    BY <1>1, <2>1, <2>2, <2>3 DEF SeqOf
<1>9. \A l \in log' : l.seq <= seq'
  BY <1>0, <1>1, <1>4 DEF SeqOK
<1> QED
  BY <1>2, <1>6, <1>7, <1>8, <1>9 DEF PendingOK, SeqOK

\* A transaction ends without a commit: its writes are gone, nobody else's.
LEMMA DropStep ==
    ASSUME EngineInv, NEW c \in Conn, Frame(c), Released(c),
           UNCHANGED <<rows, log, seq, ledger>>
    PROVE  TxInv'
<1> USE DEF EngineInv, TxInv
<1>1. /\ wlog'[c] = {} /\ rets'[c] = {}
      /\ \A e \in Ent : wr'[c][e] = NoRow
      /\ \A o \in OpId : wled'[c][o] = NoRes
  BY DEF Released, Set, TypeOK
<1>2. NoRow.ver = 0
  BY DEF NoRow
<1>3. LockOK' /\ BookOK'
  BY <1>1, <1>2 DEF LockOK, BookOK, Frame
<1>5. SeqOK'
  BY <1>1 DEF SeqOK, SeqOf, Frame
<1>6. \A d \in Conn \ {c}, e \in Ent : View(d, e)' = View(d, e)
  BY DEF View, Frame
<1>7. \A e \in Ent : View(c, e)' = rows[e] /\ rows[e].ver \in Nat
  BY <1>1, <1>2 DEF View, TypeOK, Row
<1>8. PendingOf(c)'
  BY <1>1, <1>7 DEF PendingOf
<1>9. ASSUME NEW d \in Conn \ {c} PROVE PendingOf(d)'
  <2>1. /\ \A l \in wlog[d] : l.ent \in Ent
        /\ \A r \in rets[d] : r.ent \in Ent
    BY DEF TypeOK, Change, Logged
  <2> QED
    BY <1>6, <2>1 DEF PendingOK, PendingOf, Frame
<1> QED
  BY <1>3, <1>5, <1>8, <1>9 DEF PendingOK

\* storeLedger books an operation no other transaction has booked.
LEMMA BookStep ==
    ASSUME EngineInv, NEW c \in Conn, StoreLedger(c)
    PROVE  TxInv'
<1> USE DEF EngineInv, TxInv
<1>1. UNCHANGED <<rows, log, seq, ledger, wr, wlog, rets, run>>
  BY DEF StoreLedger, db
<1>2. LockOK' /\ SeqOK'
  BY <1>1 DEF LockOK, SeqOK, SeqOf
<1>3. PendingOK'
  BY <1>1 DEF PendingOK, PendingOf, View
<1>4. /\ \A d \in Conn, o \in OpId : d # c \/ o # Cur(c) => wled'[d][o] = wled[d][o]
      /\ ledger[Cur(c)] = NoRes
      /\ \A d \in Conn \ {c} : wled[d][Cur(c)] = NoRes
  BY DEF StoreLedger, BookWaits, TypeOK
<1>5. BookOK'
  BY <1>1, <1>4 DEF BookOK
<1> QED
  BY <1>2, <1>3, <1>5

\* What a commit publishes: the transaction has logged all it wrote.
LEMMA CommitFacts ==
    ASSUME EngineInv, NEW c \in Conn, Commit(c)
    PROVE  /\ \A e \in Ent : rows'[e] = View(c, e)
           /\ log' = log \cup wlog[c]
           /\ \A l \in wlog[c] : /\ l.ent \in Ent /\ wr[c][l.ent].ver > 0
                                 /\ rows[l.ent].ver < l.ver
                                 /\ l.ver <= rows'[l.ent].ver
           /\ \A e \in Ent : \A v \in rows[e].ver + 1 .. rows'[e].ver :
                 \E l \in wlog[c] : l.ent = e /\ l.ver = v
           /\ \A e \in Ent : \/ wr[c][e].ver = 0 /\ rows'[e] = rows[e]
                             \/ wr[c][e].ver > 0 /\ rows'[e] = wr[c][e]
<1> USE DEF EngineInv, TxInv
<1>1. rets[c] = {}
  BY DEF Commit, ControlOK, ControlOf
<1>2. PendingOf(c)
  BY DEF PendingOK
<1>3. \A e \in Ent : rows'[e] = View(c, e)
  BY DEF Commit
<1>4. \A l \in wlog[c] : l.ent \in Ent /\ l.ver \in Nat
  BY DEF TypeOK, Logged
<1>5. \A e \in Ent : wr[c][e].ver \in Nat /\ rows[e].ver \in Nat
  BY DEF TypeOK, Row
<1>6. \A e \in Ent : \/ wr[c][e].ver = 0 /\ rows'[e] = rows[e]
                     \/ wr[c][e].ver > 0 /\ rows'[e] = wr[c][e]
  BY <1>3, <1>5 DEF View
<1>7. \A l \in wlog[c] : rows[l.ent].ver < l.ver /\ l.ver <= rows'[l.ent].ver
  BY <1>2, <1>3, <1>4 DEF PendingOf
<1>8. \A l \in wlog[c] : wr[c][l.ent].ver > 0
  BY <1>4, <1>5, <1>6, <1>7
<1>9. \A e \in Ent : \A v \in rows[e].ver + 1 .. rows'[e].ver :
         \E l \in wlog[c] : l.ent = e /\ l.ver = v
  BY <1>1, <1>2, <1>3 DEF PendingOf
<1> QED
  BY <1>3, <1>4, <1>6, <1>7, <1>8, <1>9 DEF Commit

\* A commit publishes the changes it logged with the rows it wrote.
LEMMA CommitStep ==
    ASSUME EngineInv, NEW c \in Conn, Frame(c), Commit(c)
    PROVE  TxInv'
<1> USE DEF EngineInv, TxInv
<1>0. /\ \A e \in Ent : rows[e].ver \in Nat /\ rows'[e].ver \in Nat
      /\ \A d \in Conn, e \in Ent : wr[d][e].ver \in Nat
      /\ \A l \in log : l.ent \in Ent /\ l.ver \in Nat /\ l.seq \in Nat
      /\ \A d \in Conn : \A l \in wlog[d] : l.ent \in Ent /\ l.ver \in Nat /\ l.seq \in Nat
      /\ \A d \in Conn : \A r \in rets[d] : r.ent \in Ent /\ r.ver \in Nat
  <2>1. \A e \in Ent : View(c, e) \in Row
    BY ViewType
  <2>2. \A e \in Ent : rows'[e].ver \in Nat
    BY <2>1, CommitFacts DEF Row
  <2>3. /\ \A e \in Ent : rows[e] \in Row
        /\ \A d \in Conn, e \in Ent : wr[d][e] \in Row
        /\ log \subseteq Logged
        /\ \A d \in Conn : wlog[d] \subseteq Logged /\ rets[d] \subseteq Change
    BY DEF TypeOK
  <2> QED
    BY <2>2, <2>3 DEF Row, Logged, Change
<1>1. /\ wlog'[c] = {} /\ rets'[c] = {} /\ seq' = seq
      /\ \A e \in Ent : wr'[c][e] = NoRow
      /\ \A o \in OpId : wled'[c][o] = NoRes
      /\ \A o \in OpId : ledger'[o] = IF wled[c][o] # NoRes THEN wled[c][o] ELSE ledger[o]
  BY DEF Commit, Released, Set, TypeOK
<1>2. NoRow.ver = 0
  BY DEF NoRow
<1>3. \A d \in Conn \ {c} : /\ run'[d] = run[d] /\ rets'[d] = rets[d] /\ wr'[d] = wr[d]
                            /\ wlog'[d] = wlog[d] /\ wled'[d] = wled[d]
  BY DEF Frame
<1>4. \A d \in Conn \ {c}, e \in Ent : wr[d][e].ver > 0 => rows'[e] = rows[e]
  BY CommitFacts DEF LockOK
<1>5. LockOK'
  <2>1. \A d \in Conn, e \in Ent :
           wr'[d][e].ver > 0 => /\ rows'[e].ver < wr'[d][e].ver
                                /\ rows'[e].dead => wr'[d][e].dead
    BY <1>1, <1>2, <1>3, <1>4 DEF LockOK
  <2>2. \A d, f \in Conn, e \in Ent : wr'[d][e].ver > 0 /\ wr'[f][e].ver > 0 => d = f
    BY <1>1, <1>2, <1>3 DEF LockOK
  <2>3. \A e \in Ent : rows'[e].dead => rows'[e].ver > 0
    BY CommitFacts DEF LockOK
  <2> QED
    BY <2>1, <2>2, <2>3 DEF LockOK
<1>6. BookOK'
  BY <1>1, <1>3 DEF BookOK
<1>7. ASSUME NEW d \in Conn PROVE PendingOf(d)'
  <2>1. CASE d = c
    <3>1. \A e \in Ent : View(c, e)' = rows'[e]
      BY <1>1, <1>2 DEF View
    <3> QED
      BY <1>0, <1>1, <2>1, <3>1 DEF PendingOf
  <2>2. CASE d # c
    <3>0. PendingOf(d)
      BY DEF PendingOK
    <3>1. \A e \in Ent : \/ rows'[e] = rows[e] /\ View(d, e)' = View(d, e)
                         \/ View(d, e) = rows[e] /\ View(d, e)' = rows'[e]
      BY <1>3, <1>4, <2>2 DEF View
    <3>2. \A l \in wlog[d] : rows'[l.ent].ver < l.ver /\ l.ver <= View(d, l.ent)'.ver
      BY <1>0, <3>0, <3>1 DEF PendingOf
    <3>3. \A r \in rets[d] : rows'[r.ent].ver < r.ver /\ r.ver = View(d, r.ent)'.ver
      BY <1>0, <3>0, <3>1 DEF PendingOf
    <3>4. ASSUME NEW e \in Ent, NEW v \in rows'[e].ver + 1 .. View(d, e)'.ver
          PROVE  \/ \E l \in wlog[d] : l.ent = e /\ l.ver = v
                 \/ \E r \in rets[d] : r.ent = e /\ r.ver = v
      BY <1>0, <3>0, <3>1 DEF PendingOf
    <3> QED
      BY <1>3, <2>2, <3>0, <3>2, <3>3, <3>4 DEF PendingOf
  <2> QED
    BY <2>1, <2>2
<1>8. SeqOK'
  <2>0. log' = log \cup wlog[c] /\ SeqOf(c) /\ \A l \in log : l.seq <= seq
    BY CommitFacts DEF SeqOK
  <2>1. \A l \in log' : l.seq <= seq
    BY <2>0 DEF SeqOf
  <2>2. ASSUME NEW d \in Conn \ {c} PROVE SeqOf(d)'
    <3>0. SeqOf(d) /\ PendingOf(d)
      BY DEF SeqOK, PendingOK
    <3>1. \A m \in wlog[d] : wr[d][m.ent].ver > 0
      BY <1>0, <3>0 DEF PendingOf, View
    <3>2. \A l \in wlog[c], m \in wlog[d] : l.ent # m.ent
      BY <1>0, <3>1, CommitFacts DEF LockOK
    <3> QED
      BY <1>1, <1>3, <2>0, <3>0, <3>2 DEF SeqOf
  <2>3. SeqOf(c)'
    BY <1>1 DEF SeqOf
  <2> QED
    BY <1>1, <2>1, <2>2, <2>3 DEF SeqOK
<1> QED
  BY <1>5, <1>6, <1>7, <1>8 DEF PendingOK

\* The feed stays a complete and ordered history.
LEMMA CommitHistory ==
    ASSUME HistoryInv, NEW c \in Conn, Commit(c)
    PROVE  VersionsLogged' /\ SeqFollowsVersion'
<1> USE DEF HistoryInv, EngineInv, TxInv
<1>0. /\ \A e \in Ent : rows[e].ver \in Nat /\ rows'[e].ver \in Nat
      /\ \A d \in Conn, e \in Ent : wr[d][e].ver \in Nat
      /\ \A l \in log : l.ent \in Ent /\ l.ver \in Nat /\ l.seq \in Nat
      /\ \A d \in Conn : \A l \in wlog[d] : l.ent \in Ent /\ l.ver \in Nat /\ l.seq \in Nat
      /\ \A d \in Conn : \A r \in rets[d] : r.ent \in Ent /\ r.ver \in Nat
  <2>1. \A e \in Ent : View(c, e) \in Row
    BY ViewType
  <2>2. \A e \in Ent : rows'[e].ver \in Nat
    BY <2>1, CommitFacts DEF Row
  <2>3. /\ \A e \in Ent : rows[e] \in Row
        /\ \A d \in Conn, e \in Ent : wr[d][e] \in Row
        /\ log \subseteq Logged
        /\ \A d \in Conn : wlog[d] \subseteq Logged /\ rets[d] \subseteq Change
    BY DEF TypeOK
  <2> QED
    BY <2>2, <2>3 DEF Row, Logged, Change
<1>1. VersionsLogged'
  <2>0. log' = log \cup wlog[c]
    BY CommitFacts
  <2>1. \A e \in Ent : rows[e].ver <= rows'[e].ver
    BY <1>0, CommitFacts DEF LockOK
  <2>2. \A l \in log' : l.ver \in 1 .. rows'[l.ent].ver
    <3>1. ASSUME NEW l \in log PROVE l.ver \in 1 .. rows'[l.ent].ver
      BY <1>0, <2>1 DEF VersionsLogged
    <3>2. ASSUME NEW l \in wlog[c] PROVE l.ver \in 1 .. rows'[l.ent].ver
      BY <1>0, CommitFacts
    <3> QED
      BY <2>0, <3>1, <3>2
  <2>3. ASSUME NEW e \in Ent, NEW v \in 1 .. rows'[e].ver
        PROVE  \E l \in log' : l.ent = e /\ l.ver = v
    <3>1. CASE v \in 1 .. rows[e].ver
      BY <2>0, <3>1 DEF VersionsLogged
    <3>2. CASE v \in rows[e].ver + 1 .. rows'[e].ver
      BY <2>0, <3>2, CommitFacts
    <3> QED
      BY <1>0, <3>1, <3>2
  <2>4. ASSUME NEW l \in log', NEW m \in log', l.ent = m.ent, l.ver = m.ver
        PROVE  l = m
    <3>1. CASE l \in log /\ m \in log
      BY <2>4, <3>1 DEF VersionsLogged
    <3>2. CASE l \in wlog[c] /\ m \in wlog[c]
      BY <2>4, <3>2 DEF PendingOK, PendingOf
    <3>3. ASSUME NEW p \in log, NEW q \in wlog[c], p.ent = q.ent PROVE p.ver # q.ver
      <4>1. p.ver <= rows[p.ent].ver
        BY <1>0 DEF VersionsLogged
      <4>2. rows[q.ent].ver < q.ver
        BY CommitFacts
      <4> QED
        BY <1>0, <3>3, <4>1, <4>2
    <3> QED
      BY <2>0, <2>4, <3>1, <3>2, <3>3
  <2> QED
    BY <2>2, <2>3, <2>4 DEF VersionsLogged
<1>2. SeqFollowsVersion'
  <2> SUFFICES ASSUME NEW l \in log', NEW m \in log', l.ent = m.ent, l.ver < m.ver
               PROVE  l.seq < m.seq
    BY DEF SeqFollowsVersion
  <2>0. log' = log \cup wlog[c] /\ SeqOf(c)
    BY CommitFacts DEF SeqOK
  <2>1. CASE l \in log /\ m \in log
    BY <2>1 DEF SeqFollowsVersion
  <2>2. CASE m \in wlog[c]
    BY <2>0, <2>2 DEF SeqOf
  <2>3. CASE l \in wlog[c] /\ m \in log
    <3>1. m.ver <= rows[m.ent].ver
      BY <1>0, <2>3 DEF VersionsLogged
    <3>2. rows[l.ent].ver < l.ver
      BY <2>3, CommitFacts
    <3> QED
      BY <1>0, <2>3, <3>1, <3>2
  <2> QED
    BY <2>0, <2>1, <2>2, <2>3
<1> QED
  BY <1>1, <1>2

\* The INSERT is refused or waits unless its key is free, here and elsewhere.
LEMMA InsertStep ==
    ASSUME EngineInv, NEW c \in Conn, Frame(c), Insert(c)
    PROVE  TxInv'
<1> USE DEF EngineInv
<1> DEFINE e   == Self(c)
           new == FreshRow(c)
           chg == [ent |-> e, op |-> Op(c).op, ver |-> 1, by |-> Cur(c)]
<1>1. /\ batch[c] # <<>> /\ Op(c).op \in {"upsert", "delete"}
      /\ rets[c] = {} /\ run[c].left = {} /\ wr[c][e].ver = 0
  BY DEF Insert, ControlOK, ControlOf, Busy
<1>2. e \in Ent /\ Cur(c) \in OpId /\ new \in Row /\ new.ver = 1
  BY <1>1, OpType, FreshRowType
<1>3. chg \in Change
  BY <1>1, <1>2 DEF Change
<1>4. rows[e].ver = 0 /\ ~rows[e].dead
  BY <1>2 DEF Insert, InsertRefused, TxInv, LockOK, TypeOK, Row
<1>5. ~Locked(c, e)
  BY <1>2 DEF Insert, InsertWaits, Locked
<1>6. View(c, e).ver = 0 /\ ~View(c, e).dead
  BY <1>1, <1>4 DEF View
<1>7. wr' = [wr EXCEPT ![c][e] = new] /\ rets' = [rets EXCEPT ![c] = @ \cup {chg}]
  BY <1>1 DEF Insert, Set
<1>8. UNCHANGED <<rows, log, seq, ledger, wlog, wled, run>>
  BY DEF Insert, db
<1>9. /\ chg.ent = e /\ chg.ver = new.ver
      /\ new.ver = View(c, e).ver + 1 /\ (View(c, e).dead => new.dead)
      /\ \A r \in rets[c] : r.ent # e
      /\ e \notin run'[c].left /\ run'[c].left \subseteq run[c].left
      /\ \A d \in Conn \ {c} : run'[d] = run[d]
  BY <1>1, <1>2, <1>6, <1>8
<1> HIDE DEF e, new, chg
<1> QED
  BY <1>2, <1>3, <1>5, <1>7, <1>8, <1>9, WriteStep

\* An UPDATE writes the latest version of a row once it holds its lock.
LEMMA TouchStep ==
    ASSUME EngineInv, NEW c \in Conn, Frame(c), NEW e \in Ent, Touch(c, e)
    PROVE  TxInv'
<1> USE DEF EngineInv
<1> DEFINE s   == Head(stm[c])
           row == View(c, e)
           new == Written(c, s, row)
           hit == s.act \in {"merge", "bury"} \/ Match(s, run[c].at, e, row)
           chg == [ent |-> e, ver |-> new.ver, by |-> Cur(c),
                   op  |-> IF s.act \in {"merge", "detach"} THEN "upsert" ELSE "delete"]
<1>1. batch[c] # <<>> /\ stm[c] # <<>> /\ stm[c] \in Seq(Stmt)
  BY DEF Touch, ControlOK, ControlOf, Busy, TypeOK
<1>2. s \in Stmt /\ row \in Row
  BY <1>1, HeadTailProperties, ViewType
<1>3. Cur(c) \in OpId /\ new \in Row /\ new.ver = row.ver + 1 /\ (row.dead => new.dead)
  BY <1>1, <1>2, OpType, WrittenType
<1>4. chg \in Change /\ chg.ent = e /\ chg.ver = new.ver
  <2>1. \A x \in {"upsert", "delete"} :
           [ent |-> e, ver |-> new.ver, by |-> Cur(c), op |-> x] \in Change
    BY <1>3 DEF Change, Row
  <2> QED
    BY <2>1
<1>5. ~Locked(c, e) /\ e \in run[c].left
  BY DEF Touch
<1>6. \A r \in rets[c] : r.ent # e
  BY <1>5 DEF TxInv, PendingOK, PendingOf
<1>7. run'[c].left = run[c].left \ {e} /\ \A d \in Conn \ {c} : run'[d] = run[d]
  BY DEF Touch, Set, Idle, TypeOK
<1>8. UNCHANGED <<rows, log, seq, ledger, wlog, wled>>
  BY DEF Touch, db
<1>9. CASE hit
  <2>1. wr' = [wr EXCEPT ![c][e] = new]
    BY <1>9 DEF Touch
  <2>2. rets' = [rets EXCEPT ![c] = @ \cup {chg}]
    BY <1>9 DEF Touch, Set
  <2> HIDE DEF chg, new, row
  <2> QED
    BY <1>3, <1>4, <1>5, <1>6, <1>7, <1>8, <2>1, <2>2, WriteStep DEF row
<1>10. CASE ~hit
  <2>1. UNCHANGED <<wr, rets>>
    BY <1>10 DEF Touch, Set, TypeOK
  <2> QED
    BY <1>7, <1>8, <2>1, QuietStep
<1> QED
  BY <1>9, <1>10

LEMMA TxStep ==
    ASSUME EngineInv, NEW c \in Conn, Step(c)
    PROVE  TxInv'
<1>1. Frame(c)
  BY StepFrame DEF EngineInv
<1>2. CASE \/ \E b \in Batch : Begin(c, b)
           \/ Replay(c) \/ Lookup(c) \/ Fetch(c) \/ FetchParent(c)
  <2>1. UNCHANGED <<rows, log, seq, ledger, wr, wlog, wled, rets, run>>
    BY <1>2 DEF Begin, Replay, Lookup, Fetch, FetchParent, db, own
  <2> QED
    BY <2>1, QuietStep
<1>3. CASE Insert(c)
  BY <1>1, <1>3, InsertStep
<1>4. CASE \E a \in Ent : Scan(c, a)
  <2>1. UNCHANGED <<rows, log, seq, ledger, wr, wlog, wled, rets>> /\ rets[c] = {}
    BY <1>4 DEF Scan, db, own
  <2> QED
    BY <1>1, <2>1, QuietStep DEF Frame
<1>5. CASE \E e \in Ent : Touch(c, e)
  BY <1>1, <1>5, TouchStep
<1>6. CASE \E r \in rets[c] : LogChange(c, r)
  BY <1>6, LogStep
<1>7. CASE StoreLedger(c)
  BY <1>7, BookStep
<1>8. CASE Commit(c)
  BY <1>1, <1>8, CommitStep
<1>9. CASE Fail(c) \/ Victim(c) \/ Crash(c)
  BY <1>1, <1>9, DropStep DEF Fail, Victim, Crash, db
<1> QED
  BY <1>2, <1>3, <1>4, <1>5, <1>6, <1>7, <1>8, <1>9 DEF Step, Proceed

LEMMA HistoryInit == Init => HistoryInv
<1> SUFFICES ASSUME Init PROVE HistoryInv
  OBVIOUS
<1>1. TypeOK
  BY TypeInit
<1>2. ControlOK
  BY DEF Init, ControlOK, ControlOf, Busy, Idle
<1>3. \A e \in Ent : rows[e].ver = 0 /\ rows[e].dead = FALSE
  BY DEF Init, NoRow
<1>4. \A c \in Conn, e \in Ent : wr[c][e].ver = 0 /\ View(c, e).ver = 0
  BY <1>3 DEF Init, NoRow, View
<1>5. LockOK /\ BookOK
  BY <1>3, <1>4 DEF Init, LockOK, BookOK
<1>6. PendingOK
  BY <1>3, <1>4 DEF Init, PendingOK, PendingOf
<1>7. SeqOK /\ VersionsLogged /\ SeqFollowsVersion
  BY <1>3 DEF Init, SeqOK, SeqOf, VersionsLogged, SeqFollowsVersion
<1> QED
  BY <1>1, <1>2, <1>5, <1>6, <1>7 DEF HistoryInv, EngineInv, TxInv

LEMMA EngineStep == EngineInv /\ [Next]_vars => EngineInv'
<1> SUFFICES ASSUME EngineInv, [Next]_vars PROVE EngineInv'
  OBVIOUS
<1>1. TypeOK'
  BY TypeStep DEF EngineInv
<1>2. CASE UNCHANGED vars
  <2>1. ControlOK'
    BY <1>2 DEF vars, EngineInv, ControlOK, ControlOf, Op, Cur, Self
  <2>2. TxInv'
    BY <1>2, QuietStep DEF vars
  <2> QED
    BY <1>1, <2>1, <2>2 DEF EngineInv
<1>3. ASSUME NEW c \in Conn, Step(c) PROVE EngineInv'
  BY <1>1, <1>3, ControlStep, TxStep DEF EngineInv
<1> QED
  BY <1>2, <1>3 DEF Next, Step

LEMMA OtherStepsStutter ==
    ASSUME [Next]_vars
    PROVE  (\E c \in Conn : Commit(c)) \/ UNCHANGED <<rows, log, ledger>>
<1>1. ASSUME NEW c \in Conn, Step(c), ~Commit(c)
      PROVE  UNCHANGED <<rows, log, ledger>>
  BY <1>1 DEF Step, Proceed, Begin, Replay, Lookup, Fetch, FetchParent, Insert, Scan,
     Touch, LogChange, StoreLedger, Fail, Victim, Crash, db
<1> QED
  BY <1>1 DEF Next, Step, vars

LEMMA HistoryStep == HistoryInv /\ [Next]_vars => HistoryInv'
<1> SUFFICES ASSUME HistoryInv, [Next]_vars PROVE HistoryInv'
  OBVIOUS
<1>1. EngineInv'
  BY EngineStep DEF HistoryInv
<1>2. VersionsLogged' /\ SeqFollowsVersion'
  <2>1. CASE \E c \in Conn : Commit(c)
    BY <2>1, CommitHistory
  <2>2. CASE UNCHANGED <<rows, log, ledger>>
    BY <2>2 DEF HistoryInv, VersionsLogged, SeqFollowsVersion
  <2> QED
    BY <2>1, <2>2, OtherStepsStutter
<1> QED
  BY <1>1, <1>2 DEF HistoryInv

-----------------------------------------------------------------------------
(* The theorems.                                                            *)

\* HistoryInv is invariant: locks, pending changes and sequence numbers are in
\* the relation the two properties below rest on.
THEOREM HistoryInvariant == Spec => []HistoryInv
BY HistoryInit, HistoryStep, PTL DEF Spec

\* VersionsLogged: every version of every row, cascades included, is in
\* sync_changes exactly once, whatever interleaves, crashes or rolls back.
THEOREM FeedComplete == Spec => []VersionsLogged
<1>1. HistoryInv => VersionsLogged
  BY DEF HistoryInv
<1> QED
  BY <1>1, HistoryInvariant, PTL

\* SeqFollowsVersion: a device that applies the feed in order never takes a
\* row back to an older version.
THEOREM FeedOrdered == Spec => []SeqFollowsVersion
<1>1. HistoryInv => SeqFollowsVersion
  BY DEF HistoryInv
<1> QED
  BY <1>1, HistoryInvariant, PTL

\* What a step of the engine does to what is committed, as the change feed
\* sees it.
LEMMA CommitAccepts ==
    ASSUME HistoryInv, HistoryInv', NEW c \in Conn, Commit(c)
    PROVE  Feed!Accept
<1> USE DEF HistoryInv, EngineInv, TxInv
<1>1. \A e \in Ent : rows[e].ver \in Nat /\ rows'[e].ver \in Nat
  BY DEF TypeOK, Row
<1>2. \A e \in Ent : /\ rows[e].ver <= rows'[e].ver
                     /\ rows[e].dead => rows'[e].dead
                     /\ rows'[e].dead # rows[e].dead => rows[e].ver < rows'[e].ver
  BY <1>1, CommitFacts DEF LockOK
<1>3. log' = log \cup wlog[c] /\ log' \ log \subseteq wlog[c]
  BY CommitFacts
<1>4. \A e \in Ent : \A v \in rows[e].ver + 1 .. rows'[e].ver :
         \E n \in log' \ log : n.ent = e /\ n.ver = v
  <2> SUFFICES ASSUME NEW e \in Ent, NEW v \in rows[e].ver + 1 .. rows'[e].ver
               PROVE  \E n \in log' \ log : n.ent = e /\ n.ver = v
    OBVIOUS
  <2>1. PICK n \in wlog[c] : n.ent = e /\ n.ver = v
    BY CommitFacts
  <2>2. n \notin log
    BY <1>1, <2>1 DEF VersionsLogged
  <2> QED
    BY <1>3, <2>1, <2>2
<1>5. \A n \in log' \ log : n.ver \in rows[n.ent].ver + 1 .. rows'[n.ent].ver
  <2>1. \A n \in wlog[c] : n.ent \in Ent /\ n.ver \in Nat
    BY DEF TypeOK, Logged
  <2> QED
    BY <1>1, <1>3, <2>1, CommitFacts
<1>6. \A o \in OpId : ledger[o] # NoRes => ledger'[o] = ledger[o]
  BY DEF Commit, BookOK
<1>7. \A n \in log' \ log : n.ent \in Ent
  BY <1>3, CommitFacts
<1>8. /\ \A m, n \in log' \ log : m.ent = n.ent /\ m.ver = n.ver => m = n
      /\ \A m \in log \cup (log' \ log), n \in log' \ log :
            m.ent = n.ent /\ m.ver < n.ver => m.seq < n.seq
  BY <1>3 DEF VersionsLogged, SeqFollowsVersion
<1> QED
  BY <1>2, <1>3, <1>4, <1>5, <1>6, <1>7, <1>8 DEF Feed!Accept, Feed!Publishes

LEMMA FeedInitHolds == Init => Feed!FeedInit
BY DEF Init, NoRow, Feed!FeedInit

LEMMA FeedStep == HistoryInv /\ HistoryInv' /\ [Next]_vars => [Feed!Accept]_(Feed!feedVars)
<1> SUFFICES ASSUME HistoryInv, HistoryInv', [Next]_vars
             PROVE  [Feed!Accept]_(Feed!feedVars)
  OBVIOUS
<1>1. CASE \E c \in Conn : Commit(c)
  BY <1>1, CommitAccepts
<1>2. CASE UNCHANGED <<rows, log, ledger>>
  BY <1>2 DEF Feed!feedVars
<1> QED
  BY <1>1, <1>2, OtherStepsStutter

\* FeedSpec: the push side implements the change feed. Seen from outside a
\* commit is the only step, and rows, sync_changes and ledger move together.
THEOREM ImplementsFeed == Spec => FeedSpec
<1>1. Init => Feed!FeedInit
  BY FeedInitHolds
<1> QED
  BY <1>1, FeedStep, HistoryInvariant, PTL DEF Spec, FeedSpec, Feed!FeedSpec

\* TombstoneFinal: no step brings a deleted row back or loses a version.
THEOREM TombstonesFinal == Spec => TombstoneFinal
<1>1. ASSUME HistoryInv, HistoryInv', [Next]_vars
      PROVE  \/ \A e \in Ent : /\ rows[e].dead => rows'[e].dead
                               /\ rows[e].ver <= rows'[e].ver
             \/ UNCHANGED vars
  <2>1. CASE \E c \in Conn : Commit(c)
    <3>1. Feed!Accept
      BY <1>1, <2>1, CommitAccepts
    <3> QED
      BY <3>1 DEF Feed!Accept
  <2>2. CASE UNCHANGED <<rows, log, ledger>>
    BY <1>1, <2>2 DEF HistoryInv, EngineInv, TypeOK, Row
  <2> QED
    BY <1>1, <2>1, <2>2, OtherStepsStutter
<1> QED
  BY <1>1, HistoryInvariant, PTL DEF Spec, TombstoneFinal

\* LedgerFinal: a result once booked for an operation is never replaced.
THEOREM AnswersFinal == Spec => LedgerFinal
<1>1. ASSUME HistoryInv, HistoryInv', [Next]_vars
      PROVE  \/ \A o \in OpId : ledger[o] # NoRes => ledger'[o] = ledger[o]
             \/ UNCHANGED vars
  <2>1. CASE \E c \in Conn : Commit(c)
    BY <1>1, <2>1, CommitAccepts DEF Feed!Accept
  <2>2. CASE UNCHANGED <<rows, log, ledger>>
    BY <2>2
  <2> QED
    BY <1>1, <2>1, <2>2, OtherStepsStutter
<1> QED
  BY <1>1, HistoryInvariant, PTL DEF Spec, LedgerFinal
=============================================================================
