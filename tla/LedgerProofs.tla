----------------------------- MODULE LedgerProofs -----------------------------
(***************************************************************************)
(* What the ledger and the feed say of each other and of the rows: proofs  *)
(* about SyncPush, for any rule table that meets its assumptions.          *)
(*                                                                         *)
(* The argument: what a transaction has booked, or is about to, is true of *)
(* the rows as it sees them, and its view of a row never goes back; and    *)
(* while statements change other rows, the one that buries the operation's *)
(* own row has set the answer or is still to run, so that no effect is     *)
(* booked as a refusal.                                                    *)
(*                                                                         *)
(* An operation changes a row once: what one connection publishes of it is *)
(* booked, what is booked was published once, and the statements left to   *)
(* run write other tables or rows that no longer match them.               *)
(*                                                                         *)
(* Of requests that do not overlap more holds: the row an upsert decided   *)
(* about is the row it writes, and a live row in a session waits for the   *)
(* delete of that session to come to it.                                   *)
(***************************************************************************)
EXTENDS SyncPushProofs, SyncCascade

\* Statements on the operation's own row, which set its answer.
OwnRow == {"merge", "bury"}

Due(program) == \E i \in DOMAIN program : program[i].act \in OwnRow /\ program[i].at # {}

\* Where a request stands between the lookup and the booking of its operation.
StageOf(c) ==
    /\ pc[c] = "parent" => Op(c).op = "upsert"
    /\ pc[c] \in {"fetch", "parent", "insert", "stmt"} => wled[c][Cur(c)] = NoRes
    /\ pc[c] # "stmt" => res[c] = NoRes
    /\ stm[c] # <<>> => res[c].status = "accepted" \/ Due(stm[c])
    /\ \A i \in DOMAIN stm[c] : stm[c][i].act \in OwnRow =>
          /\ stm[c][i].at \subseteq {Self(c)}
          /\ stm[c][i].act = "merge" => Op(c).op = "upsert"
    /\ run[c].left # {} =>
          /\ Head(stm[c]).act # "select"
          /\ Head(stm[c]).act \in OwnRow => run[c].left \subseteq {Self(c)}

\* A row is a tombstone in a transaction that has written it when it was one or
\* the transaction has a delete of it in its part of the feed.
Told(c, e) == \E r \in wlog[c] \cup rets[c] : r.ent = e /\ r.op = "delete"

DeadOf(c) ==
    \A e \in Ent : wr[c][e].ver > 0 => (wr[c][e].dead <=> rows[e].dead \/ Told(c, e))

\* A change has its operation booked as accepted, or about to be.
OwedOf(c) ==
    \A r \in wlog[c] \cup rets[c] :
        \/ wled[c][r.by].status = "accepted"
        \/ /\ pc[c] = "stmt" /\ r.by = Cur(c)
           /\ res[c].status = "accepted" \/ Due(stm[c])

\* result, as the answer to operation o, is true of row.
TrueOf(o, result, row) ==
    result.status = "accepted" =>
        /\ result.ver \in 1 .. row.ver
        /\ content[o].op = "delete" => row.dead

TruthOf(c) ==
    /\ pc[c] = "stmt" => TrueOf(Cur(c), res[c], View(c, Self(c)))
    /\ \A o \in OpId : TrueOf(o, wled[c][o], View(c, content[o].ent))

LedgerOf(c) == StageOf(c) /\ DeadOf(c) /\ OwedOf(c) /\ TruthOf(c)

Committed ==
    /\ DeleteLogged
    /\ EffectsBooked
    /\ \A o \in OpId : TrueOf(o, ledger[o], rows[content[o].ent])

LedgerInv == Committed /\ \A c \in Conn : LedgerOf(c)

-----------------------------------------------------------------------------
(* What a connection does to the others.                                    *)

LEMMA AnswerFrame ==
    ASSUME TypeOK, NEW c \in Conn, Step(c), NEW d \in Conn \ {c}
    PROVE  res'[d] = res[d]
<1>1. CASE Lookup(c) \/ Fetch(c) \/ FetchParent(c)
  BY <1>1 DEF Lookup, Fetch, FetchParent, Settle, Answer, Perform, Set, TypeOK
<1>2. CASE Commit(c) \/ Fail(c) \/ Victim(c) \/ Crash(c)
  BY <1>2 DEF Commit, Fail, Victim, Crash, Released, Set, TypeOK
<1>3. CASE Replay(c) \/ StoreLedger(c)
  BY <1>3 DEF Replay, StoreLedger, NextOp, Set, TypeOK
<1>4. CASE Insert(c) \/ \E e \in Ent : Touch(c, e)
  BY <1>4 DEF Insert, Touch, Set, TypeOK
<1> QED
  BY <1>1, <1>2, <1>3, <1>4 DEF Step, Proceed, Begin, Scan, LogChange

LEMMA NoCommit ==
    ASSUME NEW c \in Conn, Step(c), ~Commit(c)
    PROVE  UNCHANGED <<rows, log, ledger>>
BY DEF Step, Proceed, Begin, Replay, Lookup, Fetch, FetchParent, Insert, Scan,
   Touch, LogChange, StoreLedger, Fail, Victim, Crash, db

\* A row another transaction has written stays as it is; the others only move
\* forward.
LEMMA RowsForward ==
    ASSUME EngineInv, NEW c \in Conn, Step(c), NEW e \in Ent
    PROVE  /\ rows[e].ver \in Nat /\ rows'[e].ver \in Nat
           /\ rows[e].ver <= rows'[e].ver
           /\ rows[e].dead => rows'[e].dead
           /\ \A d \in Conn \ {c} : wr[d][e].ver > 0 => rows'[e] = rows[e]
<1> USE DEF EngineInv, TxInv
<1>1. CASE Commit(c)
  <2>1. /\ \/ wr[c][e].ver = 0 /\ rows'[e] = rows[e]
           \/ wr[c][e].ver > 0 /\ rows'[e] = wr[c][e]
        /\ rows[e] \in Row /\ wr[c][e] \in Row
    BY <1>1, CommitFacts DEF TypeOK
  <2> QED
    BY <2>1 DEF LockOK, Row
<1>2. CASE ~Commit(c)
  BY <1>2, NoCommit DEF TypeOK, Row
<1> QED
  BY <1>1, <1>2

LEMMA OthersKeep ==
    ASSUME HistoryInv, LedgerInv, NEW c \in Conn, Step(c), NEW d \in Conn \ {c}
    PROVE  LedgerOf(d)'
<1>1. Frame(c) /\ res'[d] = res[d] /\ LedgerOf(d)
  BY StepFrame, AnswerFrame DEF HistoryInv, EngineInv, LedgerInv
<1>2. /\ content' = content /\ pc'[d] = pc[d] /\ batch'[d] = batch[d]
      /\ stm'[d] = stm[d] /\ run'[d] = run[d] /\ rets'[d] = rets[d]
      /\ wr'[d] = wr[d] /\ wlog'[d] = wlog[d] /\ wled'[d] = wled[d]
  BY <1>1 DEF Frame
<1>3. Cur(d)' = Cur(d) /\ Op(d)' = Op(d) /\ Self(d)' = Self(d)
  BY <1>2 DEF Cur, Op, Self
<1>4. StageOf(d)'
  BY <1>1, <1>2, <1>3 DEF LedgerOf, StageOf
<1>5. DeadOf(d)'
  <2>1. \A e \in Ent : wr[d][e].ver > 0 => rows'[e] = rows[e]
    BY RowsForward DEF HistoryInv
  <2> QED
    BY <1>1, <1>2, <2>1 DEF LedgerOf, DeadOf, Told
<1>6. OwedOf(d)'
  BY <1>1, <1>2, <1>3 DEF LedgerOf, OwedOf
<1>7. \A e \in Ent : /\ View(d, e).ver \in Nat /\ View(d, e)'.ver \in Nat
                     /\ View(d, e).ver <= View(d, e)'.ver
                     /\ View(d, e).dead => View(d, e)'.dead
  BY <1>2, RowsForward DEF View, HistoryInv, EngineInv, TypeOK, Row
<1>8. \A o \in OpId : content[o].ent \in Ent
  BY DEF HistoryInv, EngineInv, TypeOK, Operation
<1>9. TruthOf(d)'
  <2>1. pc[d] = "stmt" => Cur(d) \in OpId /\ Self(d) \in Ent
    BY OpType DEF HistoryInv, EngineInv, ControlOK, ControlOf, Busy
  <2>2. pc'[d] = "stmt" => TrueOf(Cur(d), res[d], View(d, Self(d)))'
    BY <1>1, <1>2, <1>3, <1>7, <2>1 DEF LedgerOf, TruthOf, TrueOf
  <2>3. \A o \in OpId : TrueOf(o, wled[d][o], View(d, content[o].ent))'
    BY <1>1, <1>2, <1>7, <1>8 DEF LedgerOf, TruthOf, TrueOf, View
  <2> QED
    BY <2>2, <2>3 DEF TruthOf
<1> QED
  BY <1>4, <1>5, <1>6, <1>9 DEF LedgerOf
-----------------------------------------------------------------------------
(* Steps that write no row.                                                 *)

\* What is true of every such step.
LEMMA QuietLedger ==
    ASSUME HistoryInv, LedgerInv, NEW c \in Conn,
           UNCHANGED <<content, rows, log, ledger, wr, wlog, rets, wled>>
    PROVE  /\ Committed' /\ DeadOf(c)'
           /\ \A o \in OpId : TrueOf(o, wled[c][o], View(c, content[o].ent))'
           /\ \A e \in Ent : View(c, e)' = View(c, e)
<1> USE DEF LedgerInv, LedgerOf
<1>1. Committed'
  BY DEF Committed, DeleteLogged, EffectsBooked, TrueOf
<1>2. DeadOf(c)'
  BY DEF DeadOf, Told
<1>3. \A o \in OpId : TrueOf(o, wled[c][o], View(c, content[o].ent))'
  BY DEF TruthOf, TrueOf, View
<1> QED
  BY <1>1, <1>2, <1>3 DEF View

\* With no statement to run and no operation that has changed anything, what is
\* pending is booked.
LEMMA RestingOwed ==
    ASSUME LedgerInv, NEW c \in Conn, pc[c] # "stmt",
           UNCHANGED <<wlog, rets, wled>>
    PROVE  OwedOf(c)'
BY DEF LedgerInv, LedgerOf, OwedOf

LEMMA BeginLedger ==
    ASSUME HistoryInv, LedgerInv, NEW c \in Conn, NEW b \in Batch, Begin(c, b)
    PROVE  Committed' /\ LedgerOf(c)'
<1>1. /\ pc'[c] = "lookup" /\ pc[c] = "idle" /\ stm[c] = <<>> /\ run[c].left = {}
      /\ UNCHANGED <<content, rows, log, ledger, wr, wlog, rets, wled, stm, run, res>>
  BY DEF Begin, Set, db, own, HistoryInv, EngineInv, ControlOK, ControlOf, TypeOK
<1>2. StageOf(c)'
  BY <1>1 DEF StageOf, LedgerInv, LedgerOf
<1>3. OwedOf(c)'
  BY <1>1, RestingOwed
<1> QED
  BY <1>1, <1>2, <1>3, QuietLedger DEF LedgerOf, TruthOf

LEMMA ReplayLedger ==
    ASSUME HistoryInv, LedgerInv, NEW c \in Conn, Replay(c)
    PROVE  Committed' /\ LedgerOf(c)'
<1>1. /\ pc'[c] \in {"commit", "lookup"} /\ pc[c] = "lookup"
      /\ stm[c] = <<>> /\ run[c].left = {} /\ res'[c] = NoRes
      /\ UNCHANGED <<content, rows, log, ledger, wr, wlog, rets, wled, stm, run>>
  BY DEF Replay, NextOp, Set, db, own, HistoryInv, EngineInv, ControlOK, ControlOf, TypeOK
<1>2. StageOf(c)'
  BY <1>1 DEF StageOf
<1>3. OwedOf(c)'
  BY <1>1, RestingOwed
<1> QED
  BY <1>1, <1>2, <1>3, QuietLedger DEF LedgerOf, TruthOf

\* A step of the apply function: it goes on, answers, or starts its statements.
LEMMA ApplyLedger ==
    ASSUME HistoryInv, LedgerInv, NEW c \in Conn, batch[c] # <<>>,
           pc[c] \in {"lookup", "fetch", "parent"}, wled[c][Cur(c)] = NoRes,
           UNCHANGED <<content, rows, log, ledger, wr, wlog, rets, wled, batch, run>>,
           \/ /\ pc'[c] \in {"fetch", "parent", "insert"} /\ stm' = stm /\ res' = res
              /\ pc'[c] = "parent" => Op(c).op = "upsert"
           \/ /\ pc'[c] = "stmt" /\ stm' = stm
              /\ TrueOf(Cur(c), res'[c], View(c, Self(c)))
           \/ /\ pc'[c] = "stmt" /\ res' = res /\ Due(stm'[c])
              /\ \A i \in DOMAIN stm'[c] : stm'[c][i].act \in OwnRow =>
                    /\ stm'[c][i].at \subseteq {Self(c)}
                    /\ stm'[c][i].act = "merge" => Op(c).op = "upsert"
    PROVE  Committed' /\ LedgerOf(c)'
<1>1. Cur(c)' = Cur(c) /\ Op(c)' = Op(c) /\ Self(c)' = Self(c)
  BY DEF Cur, Op, Self
<1>2. stm[c] = <<>> /\ run[c].left = {} /\ res[c] = NoRes
  BY DEF HistoryInv, EngineInv, ControlOK, ControlOf, LedgerInv, LedgerOf, StageOf
<1>3. StageOf(c)'
  BY <1>1, <1>2 DEF StageOf
<1>4. OwedOf(c)'
  BY RestingOwed
<1>5. View(c, Self(c))' = View(c, Self(c))
  BY <1>1 DEF View
<1>6. NoRes.status # "accepted"
  BY DEF NoRes, Absent
<1>7. pc'[c] = "stmt" => TrueOf(Cur(c), res[c], View(c, Self(c)))'
  BY <1>1, <1>2, <1>5, <1>6 DEF TrueOf
<1> QED
  BY <1>3, <1>4, <1>7, QuietLedger DEF LedgerOf, TruthOf

\* Perform starts the statements of a rule, or the one of an upsert.
LEMMA PerformLedger ==
    ASSUME TypeOK, NEW c \in Conn, NEW P \in Seq(Stmt), Perform(c, P),
           \E i \in DOMAIN P : P[i].act \in OwnRow,
           \A i \in DOMAIN P : P[i].act = "merge" => Op(c).op = "upsert"
    PROVE  /\ Due(stm'[c])
           /\ \A i \in DOMAIN stm'[c] : stm'[c][i].act \in OwnRow =>
                 /\ stm'[c][i].at \subseteq {Self(c)}
                 /\ stm'[c][i].act = "merge" => Op(c).op = "upsert"
<1>1. stm'[c] = [i \in DOMAIN P |-> [P[i] EXCEPT !.at = {Self(c)}]]
  BY DEF Perform, Set, TypeOK
<1>2. \A i \in DOMAIN P : P[i] \in Stmt
  BY ElementOfSeq, LenProperties
<1>3. DOMAIN stm'[c] = DOMAIN P
  BY <1>1
<1>4. \A i \in DOMAIN P : stm'[c][i].act = P[i].act /\ stm'[c][i].at = {Self(c)}
  <2> SUFFICES ASSUME NEW i \in DOMAIN P
               PROVE  stm'[c][i].act = P[i].act /\ stm'[c][i].at = {Self(c)}
    OBVIOUS
  <2>1. stm'[c][i] = [P[i] EXCEPT !.at = {Self(c)}]
    BY <1>1
  <2> QED
    BY <1>2, <2>1 DEF Stmt
<1> QED
  BY <1>3, <1>4 DEF Due

\* What the apply function may do next, as ApplyLedger asks for it.
Applies(c) ==
    \/ /\ pc'[c] \in {"fetch", "parent", "insert"} /\ stm' = stm /\ res' = res
       /\ pc'[c] = "parent" => Op(c).op = "upsert"
    \/ /\ pc'[c] = "stmt" /\ stm' = stm
       /\ TrueOf(Cur(c), res'[c], View(c, Self(c)))
    \/ /\ pc'[c] = "stmt" /\ res' = res /\ Due(stm'[c])
       /\ \A i \in DOMAIN stm'[c] : stm'[c][i].act \in OwnRow =>
             /\ stm'[c][i].at \subseteq {Self(c)}
             /\ stm'[c][i].act = "merge" => Op(c).op = "upsert"

LEMMA AnswerApplies ==
    ASSUME TypeOK, NEW c \in Conn, NEW result, Answer(c, result),
           TrueOf(Cur(c), result, View(c, Self(c)))
    PROVE  Applies(c)
BY DEF Answer, Set, Applies, TypeOK

LEMMA SettleApplies ==
    ASSUME TypeOK, NEW c \in Conn, Op(c).op = "upsert", NEW row, Settle(c, row)
    PROVE  Applies(c)
<1>1. CASE Answer(c, Rejected)
  BY <1>1, AnswerApplies DEF Rejected, TrueOf
<1>2. CASE Answer(c, Conflict(row.ver))
  BY <1>2, AnswerApplies DEF Conflict, TrueOf
<1>3. CASE Set(pc, c, "insert") /\ UNCHANGED <<stm, res>>
  BY <1>3 DEF Set, Applies, TypeOK
<1>4. CASE Perform(c, MergeProgram)
  <2> DEFINE s == [act |-> "merge", kind |-> Absent, ref |-> Absent, kids |-> Absent, at |-> {}]
  <2>1. s \in Stmt
    BY DEF Stmt, Name
  <2>2. /\ MergeProgram \in Seq(Stmt)
        /\ \E i \in DOMAIN MergeProgram : MergeProgram[i].act \in OwnRow
    BY <2>1 DEF MergeProgram, OwnRow
  <2>3. pc'[c] = "stmt" /\ res' = res
    BY <1>4 DEF Perform, Set, TypeOK
  <2> QED
    BY <1>4, <2>2, <2>3, PerformLedger DEF Applies
<1> QED
  BY <1>1, <1>2, <1>3, <1>4 DEF Settle

LEMMA LookupLedger ==
    ASSUME HistoryInv, LedgerInv, NEW c \in Conn, Lookup(c)
    PROVE  Committed' /\ LedgerOf(c)'
<1>1. /\ batch[c] # <<>> /\ pc[c] = "lookup" /\ wled[c][Cur(c)] = NoRes
      /\ UNCHANGED <<content, rows, log, ledger, wr, wlog, rets, wled, batch, run>>
  BY DEF Lookup, db, own, HistoryInv, EngineInv, ControlOK, ControlOf, Busy
<1>2. Applies(c)
  <2>1. CASE Set(pc, c, "fetch") /\ UNCHANGED <<stm, res>>
    BY <2>1 DEF Set, Applies, HistoryInv, EngineInv, TypeOK
  <2>2. CASE Answer(c, Rejected)
    BY <2>2, AnswerApplies DEF Rejected, TrueOf, HistoryInv, EngineInv
  <2> QED
    BY <2>1, <2>2 DEF Lookup
<1> QED
  BY <1>1, <1>2, ApplyLedger DEF Applies

LEMMA FetchLedger ==
    ASSUME HistoryInv, LedgerInv, NEW c \in Conn, Fetch(c)
    PROVE  Committed' /\ LedgerOf(c)'
<1> DEFINE row == View(c, Self(c))
<1>1. /\ batch[c] # <<>> /\ pc[c] = "fetch" /\ wled[c][Cur(c)] = NoRes
      /\ UNCHANGED <<content, rows, log, ledger, wr, wlog, rets, wled, batch, run>>
  BY DEF Fetch, db, own, HistoryInv, EngineInv, ControlOK, ControlOf, Busy, LedgerInv, LedgerOf, StageOf
<1>2. Self(c) \in Ent /\ row \in Row /\ Cur(c) \in OpId /\ TypeOK
  BY <1>1, OpType, ViewType DEF HistoryInv, EngineInv
<1>3. Applies(c)
  <2>1. CASE Set(pc, c, "insert") /\ UNCHANGED <<stm, res>>
    BY <1>2, <2>1 DEF Set, Applies, TypeOK
  <2>2. CASE row.ver > 0 /\ row.dead /\ Answer(c, Accepted(row.ver))
    <3>1. TrueOf(Cur(c), Accepted(row.ver), row)
      BY <1>2, <2>2 DEF TrueOf, Accepted, Row
    <3> HIDE DEF row
    <3> QED
      BY <1>2, <2>2, <3>1 DEF Answer, Set, TypeOK, Applies, row
  <2>3. CASE Op(c).op = "delete" /\ Perform(c, RuleOf(Self(c)).program)
    <3> DEFINE P == RuleOf(Self(c)).program
    <3>1. /\ P \in Seq(Stmt)
          /\ \E i \in DOMAIN P : P[i].act \in OwnRow
          /\ \A i \in DOMAIN P : P[i].act # "merge"
      BY <1>2, RuleAssumption, ProgramAssumption DEF RuleOf, OwnRow
    <3>2. pc'[c] = "stmt" /\ res' = res
      BY <1>2, <2>3 DEF Perform, Set, TypeOK
    <3>3. Perform(c, P) /\ Op(c).op = "delete"
      BY <2>3
    <3> HIDE DEF P
    <3>4. PICK Q : Q = P
      OBVIOUS
    <3>5. Perform(c, Q)
      BY <3>3, <3>4 DEF Perform
    <3>6. /\ Due(stm'[c])
          /\ \A i \in DOMAIN stm'[c] : stm'[c][i].act \in OwnRow =>
                /\ stm'[c][i].at \subseteq {Self(c)}
                /\ stm'[c][i].act = "merge" => Op(c).op = "upsert"
      BY <1>2, <3>1, <3>4, <3>5, PerformLedger
    <3> QED
      BY <3>2, <3>6 DEF Applies
  <2>4. CASE Answer(c, Rejected)
    BY <1>2, <2>4, AnswerApplies DEF Rejected, TrueOf
  <2>5. CASE Op(c).op = "upsert" /\ Set(pc, c, "parent") /\ UNCHANGED <<stm, res>>
    BY <1>2, <2>5 DEF Set, Applies, TypeOK
  <2>6. CASE Op(c).op = "upsert" /\ Settle(c, row)
    BY <1>2, <2>6, SettleApplies
  <2> QED
    BY <2>1, <2>2, <2>3, <2>4, <2>5, <2>6 DEF Fetch
<1> QED
  BY <1>1, <1>3, ApplyLedger DEF Applies

LEMMA FetchParentLedger ==
    ASSUME HistoryInv, LedgerInv, NEW c \in Conn, FetchParent(c)
    PROVE  Committed' /\ LedgerOf(c)'
<1>1. /\ batch[c] # <<>> /\ pc[c] = "parent" /\ wled[c][Cur(c)] = NoRes
      /\ Op(c).op = "upsert"
      /\ UNCHANGED <<content, rows, log, ledger, wr, wlog, rets, wled, batch, run>>
  BY DEF FetchParent, db, own, HistoryInv, EngineInv, ControlOK, ControlOf, Busy, LedgerInv, LedgerOf,
         StageOf
<1>2. Applies(c)
  <2>1. CASE Answer(c, Rejected)
    BY <2>1, AnswerApplies DEF Rejected, TrueOf, HistoryInv, EngineInv
  <2>2. CASE Settle(c, seen[c])
    BY <1>1, <2>2, SettleApplies DEF HistoryInv, EngineInv
  <2> QED
    BY <2>1, <2>2 DEF FetchParent
<1> QED
  BY <1>1, <1>2, ApplyLedger DEF Applies

-----------------------------------------------------------------------------
(* Steps that write a row.                                                  *)

\* A transaction has no change pending of a row it has not written.
LEMMA Untold ==
    ASSUME EngineInv, NEW c \in Conn, NEW r \in wlog[c] \cup rets[c]
    PROVE  r.ent \in Ent /\ wr[c][r.ent].ver > 0
<1> USE DEF EngineInv, TxInv
<1>1. r.ent \in Ent /\ r.ver \in Nat
  BY DEF TypeOK, Change, Logged
<1>2. rows[r.ent].ver < r.ver /\ r.ver <= View(c, r.ent).ver
  BY <1>1, ViewType DEF PendingOK, PendingOf, Row
<1> QED
  BY <1>1, <1>2 DEF View, TypeOK, Row

\* The view of a row does not go back.
Forward(c, x) ==
    /\ View(c, x).ver \in Nat /\ View(c, x)'.ver \in Nat
    /\ View(c, x).ver <= View(c, x)'.ver
    /\ View(c, x).dead => View(c, x)'.dead

LEMMA WriteLedger ==
    ASSUME HistoryInv, LedgerInv, NEW c \in Conn, NEW e \in Ent,
           NEW new \in Row, NEW chg \in Change,
           new.ver = View(c, e).ver + 1,
           new.dead <=> View(c, e).dead \/ chg.op = "delete",
           chg.ent = e,
           wr' = [wr EXCEPT ![c][e] = new],
           rets' = [rets EXCEPT ![c] = @ \cup {chg}],
           UNCHANGED <<content, rows, log, ledger, wlog, wled>>
    PROVE  /\ Committed' /\ DeadOf(c)'
           /\ \A o \in OpId : TrueOf(o, wled[c][o], View(c, content[o].ent))'
           /\ View(c, e)' = new
           /\ rets'[c] = rets[c] \cup {chg}
           /\ \A x \in Ent : Forward(c, x)
<1> USE DEF LedgerInv, LedgerOf
<1>0. /\ wr \in [Conn -> [Ent -> Row]] /\ rows \in [Ent -> Row]
      /\ \A o \in OpId : content[o].ent \in Ent
      /\ View(c, e) \in Row
  BY ViewType DEF HistoryInv, EngineInv, TypeOK, Operation
<1>1. /\ wr'[c][e] = new /\ \A x \in Ent \ {e} : wr'[c][x] = wr[c][x]
      /\ rets'[c] = rets[c] \cup {chg}
  BY <1>0 DEF HistoryInv, EngineInv, TypeOK
<1>2. View(c, e)' = new /\ \A x \in Ent \ {e} : View(c, x)' = View(c, x)
  BY <1>0, <1>1 DEF View, Row
<1>3. Committed'
  BY DEF Committed, DeleteLogged, EffectsBooked, TrueOf
<1>4. DeadOf(c)'
  <2>1. /\ \A x \in Ent \ {e} : Told(c, x)' <=> Told(c, x)
        /\ Told(c, e)' <=> Told(c, e) \/ chg.op = "delete"
    BY <1>1 DEF Told
  <2>2. new.dead <=> rows[e].dead \/ Told(c, e)'
    <3>1. CASE wr[c][e].ver > 0
      BY <2>1, <3>1 DEF DeadOf, View
    <3>2. CASE ~(wr[c][e].ver > 0)
      BY <2>1, <3>2, Untold DEF HistoryInv, Told, View
    <3> QED
      BY <3>1, <3>2
  <2> QED
    BY <1>1, <2>1, <2>2 DEF DeadOf
<1>5. /\ \A o \in OpId : TrueOf(o, wled[c][o], View(c, content[o].ent))'
      /\ \A x \in Ent : Forward(c, x)
  <2>1. \A x \in Ent : Forward(c, x)
    <3> SUFFICES ASSUME NEW x \in Ent
                 PROVE  /\ View(c, x).ver \in Nat /\ View(c, x)'.ver \in Nat
                        /\ View(c, x).ver <= View(c, x)'.ver
                        /\ View(c, x).dead => View(c, x)'.dead
      BY DEF Forward
    <3>1. View(c, x) \in Row
      BY ViewType DEF HistoryInv, EngineInv
    <3>2. CASE x = e
      BY <1>2, <3>1, <3>2 DEF Row
    <3>3. CASE x # e
      BY <1>2, <3>1, <3>3 DEF Row
    <3> QED
      BY <3>2, <3>3
  <2> QED
    BY <1>0, <2>1 DEF TruthOf, TrueOf, View, Forward
<1> QED
  BY <1>1, <1>2, <1>3, <1>4, <1>5

LEMMA InsertLedger ==
    ASSUME HistoryInv, LedgerInv, NEW c \in Conn, Insert(c)
    PROVE  Committed' /\ LedgerOf(c)'
<1> USE DEF HistoryInv, EngineInv
<1>1. /\ batch[c] # <<>> /\ Op(c).op \in {"upsert", "delete"}
      /\ rets[c] = {} /\ run[c].left = {} /\ stm[c] = <<>> /\ wr[c][Self(c)].ver = 0
      /\ pc[c] = "insert" /\ wled[c][Cur(c)] = NoRes
  BY DEF Insert, ControlOK, ControlOf, Busy, LedgerInv, LedgerOf, StageOf
<1>2. Self(c) \in Ent /\ Cur(c) \in OpId /\ FreshRow(c) \in Row /\ FreshRow(c).ver = 1
  BY <1>1, OpType, FreshRowType
<1>3. [ent |-> Self(c), op |-> Op(c).op, ver |-> 1, by |-> Cur(c)] \in Change
  BY <1>1, <1>2 DEF Change
<1>4. PICK e \in Ent, new \in Row, chg \in Change :
         /\ e = Self(c) /\ new = FreshRow(c)
         /\ chg = [ent |-> Self(c), op |-> Op(c).op, ver |-> 1, by |-> Cur(c)]
  BY <1>2, <1>3
<1>5. View(c, e).ver = 0 /\ ~View(c, e).dead
  BY <1>1, <1>4 DEF Insert, InsertRefused, TxInv, LockOK, TypeOK, Row, View
<1>6. /\ new.ver = 1 /\ (new.dead <=> Op(c).op = "delete")
      /\ chg.ent = e /\ chg.op = Op(c).op /\ chg.by = Cur(c)
  BY <1>2, <1>4 DEF FreshRow
<1>7. /\ wr' = [wr EXCEPT ![c][e] = new] /\ rets' = [rets EXCEPT ![c] = @ \cup {chg}]
      /\ pc'[c] = "stmt" /\ res'[c] = Accepted(1)
      /\ UNCHANGED <<content, rows, log, ledger, batch, stm, run, wlog, wled>>
  BY <1>1, <1>4 DEF Insert, Set, db, TypeOK
<1>8. Op(c)' = Op(c) /\ Self(c)' = Self(c) /\ Cur(c)' = Cur(c)
  BY <1>7 DEF Op, Self, Cur
<1>9. Accepted(1).status = "accepted" /\ Accepted(1).ver = 1
  BY DEF Accepted
<1>10. /\ Committed' /\ DeadOf(c)'
       /\ \A o \in OpId : TrueOf(o, wled[c][o], View(c, content[o].ent))'
       /\ View(c, e)' = new
       /\ rets'[c] = {chg}
  <2>1. new.ver = View(c, e).ver + 1 /\ (new.dead <=> View(c, e).dead \/ chg.op = "delete")
    BY <1>5, <1>6
  <2>2. UNCHANGED <<content, rows, log, ledger, wlog, wled>>
    BY <1>7
  <2>3. /\ Committed' /\ DeadOf(c)'
        /\ \A o \in OpId : TrueOf(o, wled[c][o], View(c, content[o].ent))'
        /\ View(c, e)' = new
        /\ rets'[c] = rets[c] \cup {chg}
    BY <1>6, <1>7, <2>1, <2>2, WriteLedger
  <2> QED
    BY <1>1, <2>3
<1>11. StageOf(c)'
  BY <1>1, <1>7, <1>8 DEF StageOf
<1>12. OwedOf(c)'
  BY <1>1, <1>6, <1>7, <1>8, <1>9, <1>10 DEF OwedOf, LedgerInv, LedgerOf
<1>13. TrueOf(Cur(c), res[c], View(c, Self(c)))'
  <2>1. View(c, Self(c))' = new
    BY <1>4, <1>8, <1>10 DEF View
  <2> QED
    BY <1>6, <1>7, <1>8, <1>9, <2>1 DEF TrueOf, Op
<1> QED
  BY <1>10, <1>11, <1>12, <1>13 DEF LedgerOf, TruthOf
-----------------------------------------------------------------------------
(* What is left to run.                                                     *)

LEMMA Concat ==
    ASSUME NEW S, NEW x \in Seq(S), NEW y \in Seq(S), NEW out, out = x \o y
    PROVE  /\ out \in Seq(S) /\ Len(out) = Len(x) + Len(y)
           /\ \A i \in 1 .. Len(x) + Len(y) :
                 out[i] = IF i <= Len(x) THEN x[i] ELSE y[i - Len(x)]
BY ConcatProperties

\* Every element of out is one of x, y or z, and every one of y and z is one of out.
MadeOf(out, x, y, z) ==
    /\ \A j \in 1 .. Len(out) : \/ \E i \in 1 .. Len(x) : out[j] = x[i]
                                \/ \E i \in 1 .. Len(y) : out[j] = y[i]
                                \/ \E i \in 1 .. Len(z) : out[j] = z[i]
    /\ \A i \in 1 .. Len(y) : \E j \in 1 .. Len(out) : out[j] = y[i]
    /\ \A i \in 1 .. Len(z) : \E j \in 1 .. Len(out) : out[j] = z[i]

LEMMA ThreeParts ==
    ASSUME NEW x \in Seq(Stmt), NEW y \in Seq(Stmt), NEW z \in Seq(Stmt),
           NEW xy, xy = x \o y, NEW out, out = xy \o z
    PROVE  out \in Seq(Stmt) /\ MadeOf(out, x, y, z)
<1>1. /\ xy \in Seq(Stmt) /\ Len(xy) = Len(x) + Len(y)
      /\ \A i \in 1 .. Len(x) + Len(y) : xy[i] = IF i <= Len(x) THEN x[i] ELSE y[i - Len(x)]
  BY Concat
<1>2. Len(x) \in Nat /\ Len(y) \in Nat /\ Len(z) \in Nat
  BY LenProperties
<1>3. /\ out \in Seq(Stmt) /\ Len(out) = Len(xy) + Len(z)
      /\ \A i \in 1 .. Len(xy) + Len(z) :
            out[i] = IF i <= Len(xy) THEN xy[i] ELSE z[i - Len(xy)]
  BY <1>1, Concat
<1>4. ASSUME NEW j \in 1 .. Len(out)
      PROVE  \/ \E i \in 1 .. Len(x) : out[j] = x[i]
             \/ \E i \in 1 .. Len(y) : out[j] = y[i]
             \/ \E i \in 1 .. Len(z) : out[j] = z[i]
  <2>1. CASE j <= Len(x)
    <3>1. j \in 1 .. Len(x) /\ out[j] = x[j]
      BY <1>1, <1>2, <1>3, <2>1
    <3> QED
      BY <3>1
  <2>2. CASE ~(j <= Len(x)) /\ j <= Len(xy)
    <3>1. j - Len(x) \in 1 .. Len(y) /\ out[j] = y[j - Len(x)]
      BY <1>1, <1>2, <1>3, <2>2
    <3> QED
      BY <3>1
  <2>3. CASE ~(j <= Len(xy))
    <3>1. j - Len(xy) \in 1 .. Len(z) /\ out[j] = z[j - Len(xy)]
      BY <1>1, <1>2, <1>3, <2>3
    <3> QED
      BY <3>1
  <2> QED
    BY <2>1, <2>2, <2>3
<1>5. ASSUME NEW i \in 1 .. Len(z)
      PROVE  \E j \in 1 .. Len(out) : out[j] = z[i]
  <2>1. i + Len(xy) \in 1 .. Len(out) /\ out[i + Len(xy)] = z[i]
    BY <1>1, <1>2, <1>3
  <2> QED
    BY <2>1
<1>6. ASSUME NEW i \in 1 .. Len(y)
      PROVE  \E j \in 1 .. Len(out) : out[j] = y[i]
  <2>1. i + Len(x) \in 1 .. Len(out) /\ i + Len(x) <= Len(xy) /\ out[i + Len(x)] = xy[i + Len(x)]
    BY <1>1, <1>2, <1>3
  <2>2. xy[i + Len(x)] = y[i]
    BY <1>1, <1>2
  <2> QED
    BY <2>1, <2>2
<1> QED
  BY <1>3, <1>4, <1>5, <1>6 DEF MadeOf

\* The statements left are statements there were, for no more rows, or one that
\* tombstones children; a statement that is not the first is not lost.
LEMMA RestFacts ==
    ASSUME TypeOK, NEW c \in Conn, stm[c] # <<>>, NEW a, NEW R \in SUBSET Ent
    PROVE  /\ \A j \in DOMAIN Rest(c, a, R) :
                 Rest(c, a, R)[j].act \in OwnRow =>
                    \E i \in DOMAIN stm[c] : /\ stm[c][i].act = Rest(c, a, R)[j].act
                                             /\ Rest(c, a, R)[j].at \subseteq stm[c][i].at
           /\ Head(stm[c]).act \notin OwnRow /\ Due(stm[c]) => Due(Rest(c, a, R))
<1> DEFINE s    == Head(stm[c])
           kids == [act |-> "tombstone", kind |-> s.kids, ref |-> s.kind,
                    kids |-> Absent, at |-> R]
           less == [s EXCEPT !.at = @ \ {a}]
           x    == IF s.kids = Absent \/ R = {} THEN <<>> ELSE <<kids>>
           y    == IF s.at = {a} THEN <<>> ELSE <<less>>
           z    == Tail(stm[c])
<1>1. /\ stm[c] \in Seq(Stmt) /\ s \in Stmt /\ z \in Seq(Stmt)
      /\ Len(z) = Len(stm[c]) - 1 /\ \A i \in 1 .. Len(z) : z[i] = stm[c][i + 1]
      /\ s = stm[c][1] /\ Len(stm[c]) \in Nat \ {0}
  BY HeadTailProperties, EmptySeq DEF TypeOK
<1>2. DOMAIN stm[c] = 1 .. Len(stm[c]) /\ Len(z) \in Nat
  BY <1>1, LenProperties
<1>3. kids \in Stmt /\ kids.act = "tombstone"
  <2>1. s.kids \in Name /\ s.kind \in Name /\ Absent \in Name
    BY <1>1 DEF Stmt, Name
  <2> HIDE DEF s
  <2> QED
    BY <2>1 DEF Stmt
<1>4. less \in Stmt /\ less.act = s.act /\ less.at \subseteq s.at
  BY <1>1 DEF Stmt
<1>5. x \in Seq(Stmt) /\ \A i \in 1 .. Len(x) : x[i].act = "tombstone"
  <2> HIDE DEF kids
  <2>1. CASE x = <<>>
    BY <2>1, EmptySeq
  <2>2. CASE x = <<kids>>
    BY <1>3, <2>2
  <2> QED
    BY <2>1, <2>2
<1>6. y \in Seq(Stmt) /\ \A i \in 1 .. Len(y) : y[i] = less
  <2> HIDE DEF less
  <2>1. CASE y = <<>>
    BY <2>1, EmptySeq
  <2>2. CASE y = <<less>>
    BY <1>4, <2>2
  <2> QED
    BY <2>1, <2>2
<1> HIDE DEF x, y, z, less
<1>7. PICK xx, yy, zz, ss, xy, out :
         /\ xx = x /\ yy = y /\ zz = z /\ ss = stm[c]
         /\ xy = xx \o yy /\ out = xy \o zz
         /\ xx \in Seq(Stmt) /\ yy \in Seq(Stmt) /\ zz \in Seq(Stmt) /\ ss \in Seq(Stmt)
  BY <1>1, <1>5, <1>6
<1>8. out = Rest(c, a, R)
  BY <1>7 DEF Rest, x, y, z, less
<1>9. /\ out \in Seq(Stmt)
      /\ \A j \in 1 .. Len(out) : \/ \E i \in 1 .. Len(xx) : out[j] = xx[i]
                                  \/ \E i \in 1 .. Len(yy) : out[j] = yy[i]
                                  \/ \E i \in 1 .. Len(zz) : out[j] = zz[i]
      /\ \A i \in 1 .. Len(zz) : \E j \in 1 .. Len(out) : out[j] = zz[i]
  <2>1. xy = xx \o yy /\ out = xy \o zz
    BY <1>7
  <2>2. out \in Seq(Stmt) /\ MadeOf(out, xx, yy, zz)
    BY <1>7, <2>1, ThreeParts
  <2> QED
    BY <2>2 DEF MadeOf
<1>10. DOMAIN out = 1 .. Len(out) /\ DOMAIN ss = 1 .. Len(ss) /\ Len(ss) \in Nat \ {0}
  BY <1>1, <1>7, <1>9, LenProperties
<1>11. ASSUME NEW j \in 1 .. Len(out), out[j].act \in OwnRow
       PROVE  \E i \in 1 .. Len(ss) : ss[i].act = out[j].act /\ out[j].at \subseteq ss[i].at
  <2>1. CASE \E i \in 1 .. Len(xx) : out[j] = xx[i]
    BY <1>5, <1>7, <1>11, <2>1 DEF OwnRow
  <2>2. CASE \E i \in 1 .. Len(yy) : out[j] = yy[i]
    <3>1. 1 \in 1 .. Len(ss) /\ ss[1].act = out[j].act /\ out[j].at \subseteq ss[1].at
      BY <1>1, <1>4, <1>6, <1>7, <1>10, <2>2
    <3> QED
      BY <3>1
  <2>3. CASE \E i \in 1 .. Len(zz) : out[j] = zz[i]
    <3>1. PICK i \in 1 .. Len(zz) : out[j] = zz[i]
      BY <2>3
    <3>2. i + 1 \in 1 .. Len(ss) /\ zz[i] = ss[i + 1]
      BY <1>1, <1>2, <1>7, <1>10
    <3> QED
      BY <3>1, <3>2
  <2> QED
    BY <1>9, <2>1, <2>2, <2>3
<1>12. ASSUME Head(stm[c]).act \notin OwnRow, Due(ss)
       PROVE  Due(out)
  <2>1. PICK i \in 1 .. Len(ss) : ss[i].act \in OwnRow /\ ss[i].at # {}
    BY <1>10, <1>12 DEF Due
  <2>2. i # 1
    BY <1>1, <1>7, <1>12, <2>1
  <2>3. i - 1 \in 1 .. Len(zz) /\ zz[i - 1] = ss[i]
    BY <1>1, <1>2, <1>7, <1>10, <2>2
  <2>4. PICK j \in 1 .. Len(out) : out[j] = zz[i - 1]
    BY <1>9, <2>3
  <2> QED
    BY <1>10, <2>1, <2>3, <2>4 DEF Due
<1>13. stm[c] = ss
  BY <1>7
<1> QED
  BY <1>8, <1>10, <1>11, <1>12, <1>13
-----------------------------------------------------------------------------
(* The statements of a delete or an upsert.                                 *)

\* The rows a statement is still to be run for are among those of a statement
\* there was.
Fewer(program, c) ==
    \A j \in DOMAIN program : program[j].act \in OwnRow =>
        \E i \in DOMAIN stm[c] : /\ stm[c][i].act = program[j].act
                                 /\ program[j].at \subseteq stm[c][i].at

\* The first statement.
LEMMA HeadFacts ==
    ASSUME TypeOK, NEW c \in Conn, stm[c] # <<>>
    PROVE  /\ stm[c] \in Seq(Stmt) /\ Head(stm[c]) \in Stmt
           /\ 1 \in DOMAIN stm[c] /\ stm[c][1] = Head(stm[c])
<1>1. stm[c] \in Seq(Stmt)
  BY DEF TypeOK
<1> QED
  BY <1>1, EmptySeq, HeadTailProperties, LenProperties

LEMMA ScanLedger ==
    ASSUME HistoryInv, LedgerInv, NEW c \in Conn, NEW a \in Ent, Scan(c, a)
    PROVE  Committed' /\ LedgerOf(c)'
<1> USE DEF HistoryInv, EngineInv
<1> DEFINE s == Head(stm[c])
<1>0. StageOf(c) /\ OwedOf(c) /\ TruthOf(c)
  BY DEF LedgerInv, LedgerOf
<1>1. /\ pc[c] = "stmt" /\ stm[c] # <<>> /\ run[c].left = {} /\ a \in s.at
      /\ UNCHANGED <<content, rows, log, ledger, wr, wlog, rets, wled, batch, pc, res>>
  BY DEF Scan, db, own
<1>2. Cur(c)' = Cur(c) /\ Op(c)' = Op(c) /\ Self(c)' = Self(c)
  BY <1>1 DEF Cur, Op, Self
<1>3. PICK R \in SUBSET Ent : R = Hits(c, s, a)
  BY DEF Hits
<1>4. s \in Stmt /\ 1 \in DOMAIN stm[c] /\ stm[c][1] = s
  BY <1>1, HeadFacts
<1>5. s.act \in OwnRow => R = {a} /\ s.act # "select"
  BY <1>3 DEF Hits, OwnRow
<1>6. TrueOf(Cur(c), res[c], View(c, Self(c)))'
  BY <1>0, <1>1, <1>2 DEF TruthOf, TrueOf, View
<1>7. CASE s.act = "select" \/ R = {}
  <2>1. stm' = [stm EXCEPT ![c] = Rest(c, a, R)] /\ run' = run
    BY <1>3, <1>7 DEF Scan, Set
  <2>2. stm'[c] = Rest(c, a, R)
    BY <2>1 DEF TypeOK
  <2>3. /\ Fewer(Rest(c, a, R), c)
        /\ s.act \notin OwnRow /\ Due(stm[c]) => Due(Rest(c, a, R))
    BY <1>1, RestFacts DEF Fewer
  <2>4. res[c].status = "accepted" \/ Due(stm'[c])
    BY <1>0, <1>1, <1>5, <1>7, <2>2, <2>3 DEF StageOf
  <2>5. \A i \in DOMAIN stm'[c] : stm'[c][i].act \in OwnRow =>
           /\ stm'[c][i].at \subseteq {Self(c)}
           /\ stm'[c][i].act = "merge" => Op(c).op = "upsert"
    BY <1>0, <2>2, <2>3 DEF Fewer, StageOf
  <2>6. StageOf(c)'
    BY <1>0, <1>1, <1>2, <2>1, <2>4, <2>5 DEF StageOf
  <2>7. OwedOf(c)'
    BY <1>0, <1>1, <1>2, <2>4 DEF OwedOf
  <2> QED
    BY <1>1, <1>6, <2>6, <2>7, QuietLedger DEF LedgerOf, TruthOf
<1>8. CASE ~(s.act = "select" \/ R = {})
  <2>1. stm' = stm /\ run'[c] = [at |-> a, left |-> R]
    BY <1>3, <1>8 DEF Scan, Set, TypeOK
  <2>2. s.act \in OwnRow => R \subseteq {Self(c)}
    BY <1>0, <1>1, <1>4, <1>5 DEF StageOf
  <2>3. StageOf(c)'
    BY <1>0, <1>1, <1>2, <1>8, <2>1, <2>2 DEF StageOf
  <2>4. OwedOf(c)'
    BY <1>0, <1>1, <1>2, <2>1 DEF OwedOf
  <2> QED
    BY <1>1, <1>6, <2>3, <2>4, QuietLedger DEF LedgerOf, TruthOf
<1> QED
  BY <1>7, <1>8

\* What a step of a running statement leaves to run, and what it promises.
LEMMA TouchRest ==
    ASSUME HistoryInv, LedgerInv, NEW c \in Conn, NEW e \in Ent, Touch(c, e)
    PROVE  /\ res'[c].status = "accepted" \/ Due(stm'[c])
           /\ \A i \in DOMAIN stm'[c] : stm'[c][i].act \in OwnRow =>
                 /\ stm'[c][i].at \subseteq {Self(c)}
                 /\ stm'[c][i].act = "merge" => Op(c).op = "upsert"
           /\ run'[c].left # {} => stm'[c] = stm[c] /\ run'[c].left \subseteq run[c].left
           /\ Head(stm[c]).act \in OwnRow => res'[c].status = "accepted"
           /\ Head(stm[c]).act \notin OwnRow => res'[c] = res[c]
<1> USE DEF HistoryInv, EngineInv
<1> DEFINE s    == Head(stm[c])
           left == run[c].left \ {e}
<1>1. StageOf(c) /\ stm[c] # <<>> /\ e \in run[c].left
  BY DEF Touch, ControlOK, ControlOf, LedgerInv, LedgerOf
<1>2. rets'[c] \subseteq Change
  BY TypeStep DEF TypeOK, Next, Proceed
<1>3. PICK R, a : /\ R \in SUBSET Ent
                  /\ R = {r.ent : r \in rets'[c]} /\ a = run[c].at
  BY <1>2 DEF Change
<1>4. /\ s.act \in OwnRow => res'[c].status = "accepted"
      /\ s.act \notin OwnRow => res'[c] = res[c]
  BY DEF Touch, Set, Accepted, OwnRow, TypeOK
<1>5. \/ /\ left = {} /\ run'[c] = Idle /\ stm'[c] = Rest(c, a, R)
      \/ /\ left # {} /\ run'[c].left = left /\ stm'[c] = stm[c]
  <2>1. CASE left = {}
    BY <1>3, <2>1 DEF Touch, Set, TypeOK
  <2>2. CASE left # {}
    BY <2>2 DEF Touch, Set, TypeOK
  <2> QED
    BY <2>1, <2>2
<1>6. /\ Fewer(Rest(c, a, R), c)
      /\ s.act \notin OwnRow /\ Due(stm[c]) => Due(Rest(c, a, R))
  BY <1>1, <1>3, RestFacts DEF Fewer
<1>7. res'[c].status = "accepted" \/ Due(stm'[c])
  BY <1>1, <1>4, <1>5, <1>6 DEF StageOf
<1>8. \A i \in DOMAIN stm'[c] : stm'[c][i].act \in OwnRow =>
         /\ stm'[c][i].at \subseteq {Self(c)}
         /\ stm'[c][i].act = "merge" => Op(c).op = "upsert"
  BY <1>1, <1>5, <1>6 DEF StageOf, Fewer
<1>9. run'[c].left # {} => stm'[c] = stm[c] /\ run'[c].left \subseteq run[c].left
  BY <1>5 DEF Idle
<1> QED
  BY <1>4, <1>7, <1>8, <1>9

LEMMA TouchStage ==
    ASSUME HistoryInv, LedgerInv, NEW c \in Conn, NEW e \in Ent, Touch(c, e)
    PROVE  StageOf(c)'
<1>1. StageOf(c)
  BY DEF LedgerInv, LedgerOf
<1>2. pc[c] = "stmt" /\ UNCHANGED <<content, pc, batch, wled>>
  BY DEF Touch
<1>3. Cur(c)' = Cur(c) /\ Op(c)' = Op(c) /\ Self(c)' = Self(c)
  BY <1>2 DEF Cur, Op, Self
<1> QED
  BY <1>1, <1>2, <1>3, TouchRest DEF StageOf

LEMMA TouchLedger ==
    ASSUME HistoryInv, LedgerInv, NEW c \in Conn, NEW e \in Ent, Touch(c, e)
    PROVE  Committed' /\ LedgerOf(c)'
<1> USE DEF HistoryInv, EngineInv
<1> DEFINE s == Head(stm[c])
<1>0. StageOf(c) /\ OwedOf(c) /\ TruthOf(c) /\ StageOf(c)'
  BY TouchStage DEF LedgerInv, LedgerOf
<1>1. /\ pc[c] = "stmt" /\ batch[c] # <<>> /\ stm[c] # <<>> /\ e \in run[c].left
      /\ UNCHANGED <<content, rows, log, ledger, wlog, wled, batch, pc>>
  BY DEF Touch, db, ControlOK, ControlOf, Busy
<1>2. Cur(c)' = Cur(c) /\ Op(c)' = Op(c) /\ Self(c)' = Self(c)
  BY <1>1 DEF Cur, Op, Self
<1>3. s \in Stmt /\ 1 \in DOMAIN stm[c] /\ stm[c][1] = s /\ s.act # "select"
  BY <1>0, <1>1, HeadFacts DEF StageOf
<1>4. /\ View(c, e) \in Row /\ Cur(c) \in OpId /\ Self(c) \in Ent
      /\ Written(c, s, View(c, e)) \in Row
      /\ Written(c, s, View(c, e)).ver = View(c, e).ver + 1
  BY <1>1, <1>3, ViewType, WrittenType, OpType
<1>5. res'[c].status = "accepted" \/ Due(stm'[c])
  BY TouchRest
<1>6. \A r \in wlog[c] \cup rets[c] :
         \/ wled'[c][r.by].status = "accepted"
         \/ r.by = Cur(c)
  BY <1>0, <1>1 DEF OwedOf
<1>7. CASE s.act \in OwnRow \/ Match(s, run[c].at, e, View(c, e))
  <2>1. PICK new \in Row, chg \in Change :
           /\ new = Written(c, s, View(c, e))
           /\ chg = [ent |-> e, ver |-> Written(c, s, View(c, e)).ver, by |-> Cur(c),
                     op  |-> IF s.act \in {"merge", "detach"} THEN "upsert" ELSE "delete"]
    <3>1. \A x \in {"upsert", "delete"} :
             [ent |-> e, ver |-> Written(c, s, View(c, e)).ver, by |-> Cur(c), op |-> x] \in Change
      BY <1>4 DEF Change, Row
    <3> QED
      BY <1>4, <3>1
  <2>2. /\ wr' = [wr EXCEPT ![c][e] = new]
        /\ rets' = [rets EXCEPT ![c] = @ \cup {chg}]
    BY <1>7, <2>1 DEF Touch, Set, OwnRow
  <2>3. /\ new.ver = View(c, e).ver + 1 /\ chg.ent = e /\ chg.by = Cur(c)
        /\ new.dead <=> View(c, e).dead \/ s.act \in {"bury", "tombstone"}
        /\ chg.op = "delete" <=> s.act \in {"bury", "tombstone"}
    BY <1>3, <1>4, <2>1 DEF Written, Stmt
  <2>4. new.dead <=> View(c, e).dead \/ chg.op = "delete"
    BY <2>3
  <2>5. UNCHANGED <<content, rows, log, ledger, wlog, wled>>
    BY <1>1
  <2>6. /\ Committed' /\ DeadOf(c)'
        /\ \A o \in OpId : TrueOf(o, wled[c][o], View(c, content[o].ent))'
        /\ View(c, e)' = new
        /\ rets'[c] = rets[c] \cup {chg}
        /\ \A x \in Ent : Forward(c, x)
    BY <2>2, <2>3, <2>4, <2>5, WriteLedger
  <2>7. OwedOf(c)'
    BY <1>1, <1>2, <1>5, <1>6, <2>3, <2>6 DEF OwedOf
  <2>8. TrueOf(Cur(c), res[c], View(c, Self(c)))'
    <3>1. CASE s.act \in OwnRow
      <4>1. e = Self(c) /\ (s.act = "merge" => Op(c).op = "upsert")
        BY <1>0, <1>1, <1>3, <3>1 DEF StageOf
      <4>2. res'[c] = Accepted(new.ver)
        BY <2>1, <3>1 DEF Touch, Set, OwnRow, TypeOK
      <4>3. View(c, Self(c))' = new
        BY <1>2, <2>6, <4>1 DEF View
      <4>4. Op(c).op = "delete" => new.dead
        BY <2>3, <3>1, <4>1 DEF OwnRow
      <4>5. new.ver \in 1 .. new.ver /\ Accepted(new.ver).ver = new.ver
        BY <1>4, <2>3 DEF Accepted, Row
      <4> QED
        BY <1>1, <1>2, <4>2, <4>3, <4>4, <4>5 DEF TrueOf, Op
    <3>2. CASE s.act \notin OwnRow
      <4>1. res'[c] = res[c]
        BY <3>2, TouchRest
      <4>2. Forward(c, Self(c))
        BY <1>4, <2>6
      <4>3. /\ View(c, Self(c)).ver \in Nat /\ View(c, Self(c))'.ver \in Nat
            /\ View(c, Self(c)).ver <= View(c, Self(c))'.ver
            /\ View(c, Self(c)).dead => View(c, Self(c))'.dead
        BY <1>2, <4>2 DEF Forward, View
      <4> QED
        BY <1>0, <1>1, <1>2, <4>1, <4>3 DEF TruthOf, TrueOf
    <3> QED
      BY <3>1, <3>2
  <2> QED
    BY <1>0, <2>6, <2>7, <2>8 DEF LedgerOf, TruthOf
<1>8. CASE ~(s.act \in OwnRow \/ Match(s, run[c].at, e, View(c, e)))
  <2>1. wr' = wr /\ rets' = rets /\ res'[c] = res[c]
    BY <1>8 DEF Touch, Set, OwnRow, TypeOK
  <2>2. UNCHANGED <<content, rows, log, ledger, wr, wlog, rets, wled>>
    BY <1>1, <2>1
  <2>3. OwedOf(c)'
    BY <1>1, <1>2, <1>5, <1>6, <2>1 DEF OwedOf
  <2>4. TrueOf(Cur(c), res[c], View(c, Self(c)))'
    BY <1>0, <1>1, <1>2, <2>1 DEF TruthOf, TrueOf, View
  <2> QED
    BY <1>0, <2>2, <2>3, <2>4, QuietLedger DEF LedgerOf, TruthOf
<1> QED
  BY <1>7, <1>8

-----------------------------------------------------------------------------
(* Logging, booking and the end of a transaction.                           *)

LEMMA LogLedger ==
    ASSUME HistoryInv, LedgerInv, NEW c \in Conn, NEW r \in rets[c], LogChange(c, r)
    PROVE  Committed' /\ LedgerOf(c)'
<1> USE DEF LedgerInv, LedgerOf
<1> DEFINE new == [seq |-> seq + 1, ent |-> r.ent, op |-> r.op, ver |-> r.ver, by |-> r.by]
<1>1. /\ wlog'[c] = wlog[c] \cup {new} /\ rets'[c] = rets[c] \ {r}
      /\ UNCHANGED <<content, rows, log, ledger, wr, wled, pc, batch, stm, run, res>>
  BY DEF LogChange, Set, db, HistoryInv, EngineInv, TypeOK
<1>2. new.ent = r.ent /\ new.op = r.op /\ new.by = r.by
  OBVIOUS
<1> HIDE DEF new
<1>3. Cur(c)' = Cur(c) /\ Op(c)' = Op(c) /\ Self(c)' = Self(c)
  BY <1>1 DEF Cur, Op, Self
<1>4. Committed'
  BY <1>1 DEF Committed, DeleteLogged, EffectsBooked, TrueOf
<1>5. StageOf(c)'
  BY <1>1, <1>3 DEF StageOf
<1>6. DeadOf(c)'
  <2>1. \A e \in Ent : Told(c, e)' <=> Told(c, e)
    BY <1>1, <1>2 DEF Told
  <2> QED
    BY <1>1, <2>1 DEF DeadOf
<1>7. OwedOf(c)'
  BY <1>1, <1>2, <1>3 DEF OwedOf
<1>8. TruthOf(c)'
  BY <1>1, <1>3 DEF TruthOf, TrueOf, View
<1> QED
  BY <1>4, <1>5, <1>6, <1>7, <1>8

LEMMA BookLedger ==
    ASSUME HistoryInv, LedgerInv, NEW c \in Conn, StoreLedger(c)
    PROVE  Committed' /\ LedgerOf(c)'
<1> USE DEF LedgerInv, LedgerOf
<1>1. /\ pc[c] = "stmt" /\ stm[c] = <<>> /\ run[c].left = {} /\ rets[c] = {}
      /\ batch[c] # <<>> /\ wled[c][Cur(c)] = NoRes
  BY DEF StoreLedger, Applied, HistoryInv, EngineInv, ControlOK, ControlOf, Busy, StageOf
<1>2. Cur(c) \in OpId
  BY <1>1, OpType DEF HistoryInv, EngineInv
<1>3. /\ wled'[c][Cur(c)] = res[c]
      /\ \A o \in OpId \ {Cur(c)} : wled'[c][o] = wled[c][o]
      /\ pc'[c] \in {"commit", "lookup"} /\ res'[c] = NoRes
      /\ UNCHANGED <<content, rows, log, ledger, wr, wlog, stm, run, rets>>
  BY <1>2 DEF StoreLedger, NextOp, Set, db, HistoryInv, EngineInv, TypeOK
<1>4. NoRes.status # "accepted" /\ ~Due(<<>>)
  BY DEF NoRes, Absent, Due
<1>5. Committed'
  BY <1>3 DEF Committed, DeleteLogged, EffectsBooked, TrueOf
<1>6. StageOf(c)'
  BY <1>1, <1>3 DEF StageOf
<1>7. DeadOf(c)'
  BY <1>3 DEF DeadOf, Told
<1>8. OwedOf(c)'
  <2>1. \A r \in wlog[c] : r.by \in OpId
    BY DEF HistoryInv, EngineInv, TypeOK, Logged
  <2>2. ASSUME NEW r \in wlog[c] PROVE wled'[c][r.by].status = "accepted"
    <3>1. CASE r.by = Cur(c)
      BY <1>1, <1>3, <1>4, <3>1 DEF OwedOf
    <3>2. CASE r.by # Cur(c)
      BY <1>3, <2>1, <3>2 DEF OwedOf
    <3> QED
      BY <3>1, <3>2
  <2> QED
    BY <1>1, <1>3, <2>2 DEF OwedOf
<1>9. TruthOf(c)'
  <2>1. ASSUME NEW o \in OpId PROVE TrueOf(o, wled[c][o], View(c, content[o].ent))'
    <3>1. CASE o = Cur(c)
      BY <1>1, <1>3, <3>1 DEF TruthOf, TrueOf, View, Self, Op
    <3>2. CASE o # Cur(c)
      BY <1>3, <3>2 DEF TruthOf, TrueOf, View
    <3> QED
      BY <3>1, <3>2
  <2> QED
    BY <1>3, <2>1 DEF TruthOf
<1> QED
  BY <1>5, <1>6, <1>7, <1>8, <1>9

\* A request at rest owes nothing.
LEMMA ReleasedLedger ==
    ASSUME TypeOK, NEW c \in Conn, Released(c)
    PROVE  LedgerOf(c)'
<1>1. /\ pc'[c] = "idle" /\ stm'[c] = <<>> /\ run'[c].left = {} /\ res'[c] = NoRes
      /\ rets'[c] = {} /\ wlog'[c] = {}
      /\ \A e \in Ent : wr'[c][e] = NoRow
      /\ \A o \in OpId : wled'[c][o] = NoRes
  BY DEF Released, Set, Idle, TypeOK
<1>2. NoRow.ver = 0 /\ NoRes.status # "accepted"
  BY DEF NoRow, NoRes, Absent
<1> QED
  BY <1>1, <1>2 DEF LedgerOf, StageOf, DeadOf, OwedOf, TruthOf, TrueOf

LEMMA DropLedger ==
    ASSUME HistoryInv, LedgerInv, NEW c \in Conn, Released(c),
           UNCHANGED <<content, rows, log, ledger>>
    PROVE  Committed' /\ LedgerOf(c)'
<1>1. Committed'
  BY DEF LedgerInv, Committed, DeleteLogged, EffectsBooked, TrueOf
<1> QED
  BY <1>1, ReleasedLedger DEF HistoryInv, EngineInv

LEMMA CommitLedger ==
    ASSUME HistoryInv, LedgerInv, NEW c \in Conn, Commit(c)
    PROVE  Committed' /\ LedgerOf(c)'
<1> USE DEF HistoryInv, EngineInv, LedgerInv, LedgerOf
<1>1. /\ pc[c] = "commit" /\ rets[c] = {} /\ content' = content
      /\ \A o \in OpId : ledger'[o] = IF wled[c][o] # NoRes THEN wled[c][o] ELSE ledger[o]
  BY DEF Commit, ControlOK, ControlOf
<1>2. NoRes.status # "accepted"
  BY DEF NoRes, Absent
<1>3. /\ \A l \in log : l.ent \in Ent /\ l.by \in OpId
      /\ \A l \in wlog[c] : l.ent \in Ent /\ l.by \in OpId
      /\ \A o \in OpId : content[o].ent \in Ent
  BY DEF TypeOK, Logged, Operation
<1>4. DeleteLogged'
  <2>1. ASSUME NEW e \in Ent
        PROVE  rows'[e].dead <=> \E l \in log' : l.ent = e /\ l.op = "delete"
    <3>1. log' = log \cup wlog[c] /\ \A l \in wlog[c] : wr[c][l.ent].ver > 0
      BY CommitFacts
    <3>2. CASE wr[c][e].ver = 0 /\ rows'[e] = rows[e]
      BY <3>1, <3>2 DEF Committed, DeleteLogged
    <3>3. CASE wr[c][e].ver > 0 /\ rows'[e] = wr[c][e]
      BY <1>1, <3>1, <3>3 DEF Committed, DeleteLogged, DeadOf, Told
    <3> QED
      BY <3>2, <3>3, CommitFacts
  <2> QED
    BY <2>1 DEF DeleteLogged
<1>5. EffectsBooked'
  <2>1. log' = log \cup wlog[c]
    BY CommitFacts
  <2>2. ASSUME NEW l \in log PROVE ledger'[l.by].status = "accepted"
    BY <1>1, <1>2, <1>3 DEF Committed, EffectsBooked, TxInv, BookOK
  <2>3. ASSUME NEW l \in wlog[c] PROVE ledger'[l.by].status = "accepted"
    BY <1>1, <1>2, <1>3 DEF OwedOf
  <2> QED
    BY <2>1, <2>2, <2>3 DEF EffectsBooked
<1>6. ASSUME NEW o \in OpId PROVE TrueOf(o, ledger[o], rows[content[o].ent])'
  <2>1. CASE wled[c][o] # NoRes
    <3>1. ledger'[o] = wled[c][o] /\ rows'[content[o].ent] = View(c, content[o].ent)
      BY <1>1, <1>3, <2>1, CommitFacts
    <3> QED
      BY <1>1, <3>1 DEF TruthOf, TrueOf
  <2>2. CASE wled[c][o] = NoRes
    <3>1. ledger'[o] = ledger[o]
      BY <1>1, <2>2
    <3>2. PICK e \in Ent : e = content[o].ent
      BY <1>3
    <3>3. /\ rows[e].ver \in Nat /\ rows'[e].ver \in Nat
          /\ rows[e].ver <= rows'[e].ver
          /\ rows[e].dead => rows'[e].dead
      BY RowsForward DEF Step, Proceed
    <3> QED
      BY <1>1, <3>1, <3>2, <3>3 DEF Committed, TrueOf
  <2> QED
    BY <2>1, <2>2
<1>7. Committed'
  BY <1>1, <1>4, <1>5, <1>6 DEF Committed
<1>8. LedgerOf(c)'
  BY ReleasedLedger DEF Commit
<1> QED
  BY <1>7, <1>8

-----------------------------------------------------------------------------
(* The theorems.                                                            *)

LEMMA LedgerInit == Init => LedgerInv
<1> SUFFICES ASSUME Init PROVE LedgerInv
  OBVIOUS
<1>1. NoRow.ver = 0 /\ NoRow.dead = FALSE /\ NoRes.status # "accepted"
  BY DEF NoRow, NoRes, Absent
<1>2. Committed
  BY <1>1 DEF Init, Committed, DeleteLogged, EffectsBooked, TrueOf
<1>3. ASSUME NEW c \in Conn PROVE LedgerOf(c)
  BY <1>1 DEF Init, Idle, LedgerOf, StageOf, DeadOf, OwedOf, TruthOf, TrueOf
<1> QED
  BY <1>2, <1>3 DEF LedgerInv

LEMMA LedgerStep == HistoryInv /\ LedgerInv /\ [Next]_vars => LedgerInv'
<1> SUFFICES ASSUME HistoryInv, LedgerInv, [Next]_vars PROVE LedgerInv'
  OBVIOUS
<1>1. CASE UNCHANGED vars
  <2>1. /\ \A c \in Conn : Cur(c)' = Cur(c) /\ Op(c)' = Op(c) /\ Self(c)' = Self(c)
        /\ UNCHANGED <<content, rows, log, ledger, pc, batch, stm, run, rets, res,
                       wr, wlog, wled>>
    BY <1>1 DEF vars, Cur, Op, Self
  <2>2. ASSUME NEW c \in Conn PROVE LedgerOf(c)'
    <3>1. StageOf(c)' /\ OwedOf(c)'
      BY <2>1 DEF LedgerInv, LedgerOf, StageOf, OwedOf
    <3>2. pc'[c] = "stmt" => TrueOf(Cur(c), res[c], View(c, Self(c)))'
      BY <2>1 DEF LedgerInv, LedgerOf, TruthOf, TrueOf, View
    <3> QED
      BY <2>1, <3>1, <3>2, QuietLedger DEF LedgerOf, TruthOf
  <2>3. Committed'
    BY <2>1 DEF LedgerInv, Committed, DeleteLogged, EffectsBooked, TrueOf
  <2> QED
    BY <2>2, <2>3 DEF LedgerInv
<1>2. ASSUME NEW c \in Conn, Step(c) PROVE LedgerInv'
  <2>1. \A d \in Conn \ {c} : LedgerOf(d)'
    BY <1>2, OthersKeep
  <2>2. Committed' /\ LedgerOf(c)'
    <3>1. CASE \E b \in Batch : Begin(c, b)
      BY <3>1, BeginLedger
    <3>2. CASE \/ Replay(c) \/ Lookup(c) \/ Fetch(c) \/ FetchParent(c) \/ Insert(c)
      BY <3>2, ReplayLedger, LookupLedger, FetchLedger, FetchParentLedger, InsertLedger
    <3>3. CASE \E a \in Ent : Scan(c, a)
      BY <3>3, ScanLedger
    <3>4. CASE \E e \in Ent : Touch(c, e)
      BY <3>4, TouchLedger
    <3>5. CASE \E r \in rets[c] : LogChange(c, r)
      BY <3>5, LogLedger
    <3>6. CASE StoreLedger(c) \/ Commit(c)
      BY <3>6, BookLedger, CommitLedger
    <3>7. CASE Fail(c) \/ Victim(c) \/ Crash(c)
      BY <3>7, DropLedger DEF Fail, Victim, Crash, db
    <3> QED
      BY <1>2, <3>1, <3>2, <3>3, <3>4, <3>5, <3>6, <3>7 DEF Step, Proceed
  <2> QED
    BY <2>1, <2>2 DEF LedgerInv
<1> QED
  BY <1>1, <1>2 DEF Next, Step

LEMMA LedgerInvariant == Spec => [](HistoryInv /\ LedgerInv)
<1>1. Init => LedgerInv
  BY LedgerInit
<1>2. HistoryInv /\ LedgerInv /\ [Next]_vars => LedgerInv'
  BY LedgerStep
<1> QED
  BY <1>1, <1>2, HistoryInvariant, PTL DEF Spec

\* DeleteLogged: the devices are told to delete exactly the rows that are
\* tombstones, however deletes and cascades interleave with other writes.
THEOREM DeletesTold == Spec => []DeleteLogged
<1>1. LedgerInv => DeleteLogged
  BY DEF LedgerInv, Committed
<1> QED
  BY <1>1, LedgerInvariant, PTL

\* EffectsBooked: no change is published without the ledger row of the operation
\* that made it, cascades included: a retry never meets its own work unbooked.
THEOREM ChangesBooked == Spec => []EffectsBooked
<1>1. LedgerInv => EffectsBooked
  BY DEF LedgerInv, Committed
<1> QED
  BY <1>1, LedgerInvariant, PTL

\* LedgerTruth: what the ledger answers a retry is still so: the version it
\* reports is in the feed, and what it reports deleted is gone.
THEOREM AnswersTrue == Spec => []LedgerTruth
<1>1. HistoryInv /\ LedgerInv => LedgerTruth
  <2> SUFFICES ASSUME HistoryInv, LedgerInv, NEW o \in OpId, ledger[o].status = "accepted"
               PROVE  /\ \E l \in log : l.ent = content[o].ent /\ l.ver = ledger[o].ver
                      /\ content[o].op = "delete" => rows[content[o].ent].dead
    BY DEF LedgerTruth
  <2>1. content[o].ent \in Ent
    BY DEF HistoryInv, EngineInv, TypeOK, Operation
  <2>2. /\ ledger[o].ver \in 1 .. rows[content[o].ent].ver
        /\ content[o].op = "delete" => rows[content[o].ent].dead
    BY DEF LedgerInv, Committed, TrueOf
  <2> QED
    BY <2>1, <2>2 DEF HistoryInv, EngineInv, TxInv, VersionsLogged
<1> QED
  BY <1>1, LedgerInvariant, PTL


-----------------------------------------------------------------------------
(* However often an operation is sent, it changes a row once.               *)

\* The rows the operation at hand has changed, and the rows as it sees them.
Done(c) == {r.ent : r \in {q \in wlog[c] \cup rets[c] : q.by = Cur(c)}}
Sight(c) == [e \in Ent |-> View(c, e)]

\* Statement s, of a delete of a row of kind k, does not write row e again: it
\* writes another table, or its predicate no longer holds of the row.
Spares(k, s, e, row) ==
    /\ KindOf[e] \notin Below(s)
    /\ KindOf[e] \in Direct(k, s) =>
          \/ s.act = "tombstone" /\ row.dead
          \/ s.act = "detach" /\ row.ref[s.ref] = Nil

Writes(k, s) == Direct(k, s) \cup Below(s)

\* No two statements of Q write the same table.
Apart(self, Q) ==
    /\ \A i \in DOMAIN Q :
          /\ Q[i].kids # Absent => Q[i].at \subseteq {self}
          /\ Direct(KindOf[self], Q[i]) \cap Below(Q[i]) = {}
    /\ \A i, j \in DOMAIN Q : i # j =>
          Writes(KindOf[self], Q[i]) \cap Writes(KindOf[self], Q[j]) = {}

\* What is left to run when the rows D, of those in view V, have been changed for
\* an operation on row self.
Fit(self, D, V, Q) ==
    /\ Apart(self, Q)
    /\ \A i \in DOMAIN Q : \A e \in D : Spares(KindOf[self], Q[i], e, V[e])

\* Two changes of one row by one operation.
Twice(l, m) == l.by = m.by /\ l.ent = m.ent

OnceOf(c) ==
    /\ \A l, m \in wlog[c] : Twice(l, m) => l = m
    /\ \A l \in wlog[c], r \in rets[c] : ~Twice(l, r)
    /\ pc[c] = "stmt" => Fit(Self(c), Done(c), Sight(c), stm[c])
    /\ run[c].left # {} => run[c].at \in Ent /\ run[c].at \in Head(stm[c]).at

OnceInv == AppliedOnce /\ \A c \in Conn : OnceOf(c)

\* What replaces the first statement of Q may write no table it does not.
LEMMA FitFront ==
    ASSUME NEW self, NEW D, NEW V, NEW Q \in Seq(Stmt), Q # <<>>,
           NEW front \in Seq(Stmt), NEW out, out = front \o Tail(Q),
           Apart(self, Q),
           \A i \in DOMAIN Q \ {1} : \A e \in D : Spares(KindOf[self], Q[i], e, V[e]),
           Len(front) <= 1,
           Len(front) = 1 =>
              /\ front[1].kids # Absent => front[1].at \subseteq {self}
              /\ Direct(KindOf[self], front[1]) \cap Below(front[1]) = {}
              /\ Writes(KindOf[self], front[1]) \subseteq Writes(KindOf[self], Q[1])
              /\ \A e \in D : Spares(KindOf[self], front[1], e, V[e])
    PROVE  Fit(self, D, V, out)
<1> DEFINE z == Tail(Q)
           n == Len(front)
           from(i) == IF i <= n THEN 1 ELSE i - n + 1
<1>1. /\ z \in Seq(Stmt) /\ Len(z) = Len(Q) - 1 /\ \A i \in 1 .. Len(z) : z[i] = Q[i + 1]
      /\ Len(Q) \in Nat \ {0}
  BY HeadTailProperties, EmptySeq
<1>2. n \in {0, 1} /\ DOMAIN Q = 1 .. Len(Q)
  <2>1. /\ n \in Nat /\ n <= 1
        /\ DOMAIN Q = 1 .. Len(Q)
    BY LenProperties
  <2> HIDE DEF n
  <2> QED
    BY <2>1
<1>3. /\ out \in Seq(Stmt) /\ Len(out) = n + Len(z)
      /\ \A i \in 1 .. n + Len(z) : out[i] = IF i <= n THEN front[i] ELSE z[i - n]
  <2>1. PICK zz \in Seq(Stmt) : zz = z
    BY <1>1
  <2> QED
    BY <2>1, Concat
<1>4. DOMAIN out = 1 .. n + Len(z)
  BY <1>3, LenProperties
<1>5. ASSUME NEW i \in DOMAIN out
      PROVE  /\ from(i) \in DOMAIN Q
             /\ from(i) = 1 <=> i <= n
             /\ i <= n => i = 1 /\ n = 1 /\ out[i] = front[1]
             /\ ~(i <= n) => out[i] = Q[from(i)]
  BY <1>1, <1>2, <1>3, <1>4
<1>6. \A i, j \in DOMAIN out : i # j => from(i) # from(j)
  BY <1>1, <1>2, <1>4
<1>7. ASSUME NEW i \in DOMAIN out
      PROVE  /\ out[i].kids # Absent => out[i].at \subseteq {self}
             /\ Direct(KindOf[self], out[i]) \cap Below(out[i]) = {}
             /\ Writes(KindOf[self], out[i]) \subseteq Writes(KindOf[self], Q[from(i)])
             /\ \A e \in D : Spares(KindOf[self], out[i], e, V[e])
  <2> HIDE DEF n, z, from
  <2>1. CASE i <= n
    <3>1. n = 1 /\ out[i] = front[1] /\ from(i) = 1
      BY <1>5, <2>1
    <3> QED
      BY <3>1 DEF n
  <2>2. CASE ~(i <= n)
    <3>1. out[i] = Q[from(i)] /\ from(i) \in DOMAIN Q \ {1}
      BY <1>5, <2>2
    <3> QED
      BY <3>1 DEF Apart
  <2> QED
    BY <2>1, <2>2
<1>8. Apart(self, out)
  <2> HIDE DEF n, z, from
  <2>1. ASSUME NEW i \in DOMAIN out, NEW j \in DOMAIN out, i # j
        PROVE  Writes(KindOf[self], out[i]) \cap Writes(KindOf[self], out[j]) = {}
    <3>1. Writes(KindOf[self], Q[from(i)]) \cap Writes(KindOf[self], Q[from(j)]) = {}
      BY <1>5, <1>6, <2>1 DEF Apart
    <3> QED
      BY <1>7, <3>1
  <2> QED
    BY <1>7, <2>1 DEF Apart
<1> QED
  BY <1>7, <1>8 DEF Fit

\* The statements left once the first is done for row a: it spares what has been
\* changed, or it was to be run for no other row.
LEMMA FitRest ==
    ASSUME TypeOK, NEW c \in Conn, stm[c] # <<>>, NEW a, NEW R \in SUBSET Ent,
           NEW self, NEW D, NEW V, Apart(self, stm[c]),
           \A i \in DOMAIN stm[c] \ {1} : \A e \in D : Spares(KindOf[self], stm[c][i], e, V[e]),
           a \in Head(stm[c]).at,
           \A e \in D : KindOf[e] \notin Below(Head(stm[c])),
           \/ Head(stm[c]).at = {a}
           \/ \A e \in D : Spares(KindOf[self], Head(stm[c]), e, V[e])
    PROVE  Fit(self, D, V, Rest(c, a, R))
<1> DEFINE s    == Head(stm[c])
           kids == [act |-> "tombstone", kind |-> s.kids, ref |-> s.kind,
                    kids |-> Absent, at |-> R]
           less == [s EXCEPT !.at = @ \ {a}]
           x    == IF s.kids = Absent \/ R = {} THEN <<>> ELSE <<kids>>
           y    == IF s.at = {a} THEN <<>> ELSE <<less>>
           k    == KindOf[self]
<1>1. stm[c] \in Seq(Stmt) /\ s \in Stmt /\ 1 \in DOMAIN stm[c] /\ stm[c][1] = s
  BY HeadFacts
<1>2. /\ s.kids # Absent => s.at \subseteq {self}
      /\ Direct(k, s) \cap Below(s) = {}
  BY <1>1 DEF Apart
<1>3. s.kids # Absent => s.at = {a}
  BY <1>2
<1>4. /\ kids \in Stmt /\ kids.kids = Absent
      /\ Direct(k, kids) = {s.kids} /\ Below(kids) = {}
      /\ kids.act = "tombstone"
  <2>1. s.kids \in Name /\ s.kind \in Name /\ Absent \in Name
    BY <1>1 DEF Stmt, Name
  <2> HIDE DEF s, k
  <2> QED
    BY <2>1 DEF Stmt, Direct, Below
<1>5. /\ less \in Stmt /\ less.act = s.act /\ less.kind = s.kind /\ less.ref = s.ref
      /\ less.kids = s.kids
  BY <1>1 DEF Stmt
<1>6. /\ Direct(k, less) = Direct(k, s) /\ Below(less) = Below(s)
      /\ \A e \in D : Spares(k, less, e, V[e]) <=> Spares(k, s, e, V[e])
  <2> HIDE DEF less, s, k
  <2> QED
    BY <1>5 DEF Direct, Below, Spares
<1>7. x \in Seq(Stmt) /\ y \in Seq(Stmt)
  BY <1>4, <1>5, EmptySeq
<1>8. PICK xx \in Seq(Stmt), yy \in Seq(Stmt) : xx = x /\ yy = y
  BY <1>7
<1>9. PICK front : front = xx \o yy
  OBVIOUS
<1>10. /\ front \in Seq(Stmt) /\ Len(front) = Len(xx) + Len(yy)
       /\ \A i \in 1 .. Len(xx) + Len(yy) : front[i] = IF i <= Len(xx) THEN xx[i] ELSE yy[i - Len(xx)]
  BY <1>9, Concat
<1>11. Rest(c, a, R) = front \o Tail(stm[c])
  BY <1>8, <1>9 DEF Rest
<1>12. /\ Len(front) <= 1
       /\ Len(front) = 1 => \/ front[1] = kids /\ s.kids # Absent
                            \/ front[1] = less /\ s.kids = Absent /\ s.at # {a}
                            \/ front[1] = less /\ R = {} /\ s.at # {a}
  <2> HIDE DEF kids, less, s
  <2>1. CASE s.kids # Absent /\ R # {}
    <3>1. xx = <<kids>> /\ yy = <<>>
      BY <1>3, <1>8, <2>1
    <3> QED
      BY <1>10, <2>1, <3>1
  <2>2. CASE ~(s.kids # Absent /\ R # {}) /\ s.at = {a}
    <3>1. xx = <<>> /\ yy = <<>>
      BY <1>8, <2>2
    <3> QED
      BY <1>10, <3>1
  <2>3. CASE ~(s.kids # Absent /\ R # {}) /\ s.at # {a}
    <3>1. xx = <<>> /\ yy = <<less>>
      BY <1>8, <2>3
    <3> QED
      BY <1>10, <2>3, <3>1
  <2> QED
    BY <2>1, <2>2, <2>3
<1>13. ASSUME Len(front) = 1
       PROVE  /\ front[1].kids # Absent => front[1].at \subseteq {self}
              /\ Direct(k, front[1]) \cap Below(front[1]) = {}
              /\ Writes(k, front[1]) \subseteq Writes(k, s)
              /\ \A e \in D : Spares(k, front[1], e, V[e])
  <2> HIDE DEF kids, less, s, k
  <2>1. CASE front[1] = kids /\ s.kids # Absent
    BY <1>4, <2>1 DEF Writes, Below, Spares, s
  <2>2. CASE front[1] = less /\ s.at # {a}
    <3>1. \A e \in D : Spares(k, s, e, V[e])
      BY <2>2 DEF s, k
    <3>2. less.kids = Absent
      BY <1>3, <1>5, <2>2
    <3> QED
      BY <1>2, <1>6, <2>2, <3>1, <3>2 DEF Writes
  <2> QED
    BY <1>12, <1>13, <2>1, <2>2
<1> HIDE DEF s
<1>14. PICK Q \in Seq(Stmt) : Q = stm[c]
  BY <1>1
<1>15. PICK out : out = front \o Tail(Q)
  OBVIOUS
<1>16. Fit(self, D, V, out)
  BY <1>1, <1>10, <1>12, <1>13, <1>14, <1>15, FitFront
<1> QED
  BY <1>11, <1>14, <1>15, <1>16

-----------------------------------------------------------------------------
(* Each step.                                                               *)

\* The rows another transaction has changed stay as it sees them.
LEMMA OnceFrame ==
    ASSUME HistoryInv, OnceInv, NEW c \in Conn, Step(c), NEW d \in Conn \ {c}
    PROVE  OnceOf(d)'
<1>1. OnceOf(d) /\ Frame(c)
  BY StepFrame DEF OnceInv, HistoryInv, EngineInv
<1>2. /\ content' = content /\ pc'[d] = pc[d] /\ batch'[d] = batch[d]
      /\ stm'[d] = stm[d] /\ run'[d] = run[d] /\ rets'[d] = rets[d]
      /\ wr'[d] = wr[d] /\ wlog'[d] = wlog[d]
  BY <1>1 DEF Frame
<1>3. Cur(d)' = Cur(d) /\ Self(d)' = Self(d) /\ Done(d)' = Done(d)
  BY <1>2 DEF Cur, Op, Self, Done
<1>4. \A e \in Done(d) : e \in Ent /\ Sight(d)'[e] = Sight(d)[e]
  BY <1>2, Untold DEF Done, Sight, View, HistoryInv
<1>5. Fit(Self(d), Done(d), Sight(d), stm[d]) => Fit(Self(d), Done(d), Sight(d), stm[d])'
  BY <1>2, <1>3, <1>4 DEF Fit
<1> QED
  BY <1>1, <1>2, <1>5 DEF OnceOf

\* Before its statements, an operation that is not booked has changed nothing.
LEMMA NothingDone ==
    ASSUME LedgerInv, NEW c \in Conn, pc[c] # "stmt", wled[c][Cur(c)] = NoRes
    PROVE  Done(c) = {}
<1>1. NoRes.status # "accepted"
  BY DEF NoRes, Absent
<1> QED
  BY <1>1 DEF LedgerInv, LedgerOf, OwedOf, Done

\* A step that leaves no statement to run.
LEMMA RestingOnce ==
    ASSUME OnceInv, NEW c \in Conn, pc'[c] # "stmt", run'[c].left = {},
           UNCHANGED <<log, wlog, rets>>
    PROVE  AppliedOnce' /\ OnceOf(c)'
BY DEF OnceInv, AppliedOnce, OnceOf

LEMMA PerformApart ==
    ASSUME TypeOK, NEW c \in Conn, NEW P \in Seq(Stmt), Perform(c, P), NEW self, self = Self(c),
           \A i \in DOMAIN P : Direct(KindOf[self], P[i]) \cap Below(P[i]) = {},
           \A i, j \in DOMAIN P : i # j =>
              Writes(KindOf[self], P[i]) \cap Writes(KindOf[self], P[j]) = {}
    PROVE  Apart(self, stm'[c])
<1>1. stm'[c] = [i \in DOMAIN P |-> [P[i] EXCEPT !.at = {self}]]
  BY DEF Perform, Set, TypeOK
<1>2. \A i \in DOMAIN P : P[i] \in Stmt
  BY ElementOfSeq, LenProperties
<1>3. DOMAIN stm'[c] = DOMAIN P
  BY <1>1
<1>4. ASSUME NEW i \in DOMAIN P
      PROVE  /\ stm'[c][i].at = {self}
             /\ Direct(KindOf[self], stm'[c][i]) = Direct(KindOf[self], P[i])
             /\ Below(stm'[c][i]) = Below(P[i])
  <2>1. stm'[c][i] = [P[i] EXCEPT !.at = {self}]
    BY <1>1
  <2>2. /\ stm'[c][i].at = {self} /\ stm'[c][i].act = P[i].act
        /\ stm'[c][i].kind = P[i].kind /\ stm'[c][i].kids = P[i].kids
    BY <1>2, <2>1 DEF Stmt
  <2> QED
    BY <2>2 DEF Direct, Below
<1> QED
  BY <1>3, <1>4 DEF Apart, Writes

\* The statements an operation starts with.
LEMMA StartApart ==
    ASSUME HistoryInv, LedgerInv, NEW c \in Conn, Lookup(c) \/ Fetch(c) \/ FetchParent(c)
    PROVE  pc'[c] = "stmt" => Apart(Self(c), stm'[c])
<1> USE DEF HistoryInv, EngineInv
<1>1. batch[c] # <<>> /\ stm[c] = <<>>
  BY DEF Lookup, Fetch, FetchParent, ControlOK, ControlOf, Busy
<1>2. Self(c) \in Ent /\ KindOf[Self(c)] \in Kind
  BY <1>1, OpType, RuleAssumption
<1>3. ASSUME NEW result, Answer(c, result) PROVE Apart(Self(c), stm'[c])
  BY <1>1, <1>3 DEF Answer, Apart
<1>4. CASE Perform(c, MergeProgram)
  <2> DEFINE s == [act |-> "merge", kind |-> Absent, ref |-> Absent, kids |-> Absent, at |-> {}]
  <2>1. s \in Stmt /\ Below(s) = {}
    BY DEF Stmt, Name, Below
  <2>2. MergeProgram \in Seq(Stmt) /\ DOMAIN MergeProgram = {1} /\ MergeProgram[1] = s
    BY <2>1 DEF MergeProgram
  <2> QED
    BY <1>4, <2>1, <2>2, PerformApart
<1>5. CASE Perform(c, RuleOf(Self(c)).program)
  <2>1. PICK P : P = Rule[KindOf[Self(c)]].program
    OBVIOUS
  <2>2. Perform(c, P)
    BY <1>5, <2>1 DEF Perform, RuleOf
  <2>3. P \in Seq(Stmt)
    BY <1>2, <2>1, RuleAssumption
  <2>4. /\ \A i \in DOMAIN P : Direct(KindOf[Self(c)], P[i]) \cap Below(P[i]) = {}
        /\ \A i, j \in DOMAIN P : i # j =>
              Writes(KindOf[Self(c)], P[i]) \cap Writes(KindOf[Self(c)], P[j]) = {}
    BY <1>2, <2>1, OnceAssumption DEF Writes
  <2> QED
    BY <2>2, <2>3, <2>4, PerformApart
<1>6. CASE \E x \in {"fetch", "parent", "insert"} : Set(pc, c, x)
  BY <1>6 DEF Set, TypeOK
<1>7. ASSUME NEW row, Settle(c, row)
      PROVE  \/ Answer(c, Rejected) \/ Answer(c, Conflict(row.ver))
             \/ Perform(c, MergeProgram) \/ \E x \in {"fetch", "parent", "insert"} : Set(pc, c, x)
  BY <1>7 DEF Settle
<1>8. CASE Lookup(c)
  BY <1>3, <1>6, <1>8 DEF Lookup
<1>9. CASE Fetch(c)
  <2>1. CASE Settle(c, View(c, Self(c)))
    BY <1>3, <1>4, <1>6, <1>7, <2>1
  <2>2. CASE Set(pc, c, "insert") \/ Set(pc, c, "parent")
    BY <1>6, <2>2
  <2>3. CASE Answer(c, Accepted(View(c, Self(c)).ver))
    <3>1. PICK result : result = Accepted(View(c, Self(c)).ver)
      OBVIOUS
    <3> QED
      BY <1>3, <2>3, <3>1 DEF Answer
  <2>4. CASE Answer(c, Rejected)
    BY <1>3, <2>4
  <2> QED
    BY <1>5, <1>9, <2>1, <2>2, <2>3, <2>4 DEF Fetch
<1>10. CASE FetchParent(c)
  BY <1>3, <1>4, <1>6, <1>7, <1>10 DEF FetchParent
<1> QED
  BY <1>8, <1>9, <1>10

LEMMA StartOnce ==
    ASSUME HistoryInv, LedgerInv, OnceInv, NEW c \in Conn, Lookup(c) \/ Fetch(c) \/ FetchParent(c)
    PROVE  AppliedOnce' /\ OnceOf(c)'
<1>1. /\ pc[c] \in {"lookup", "fetch", "parent"}
      /\ UNCHANGED <<content, batch, log, wlog, rets, run>>
  BY DEF Lookup, Fetch, FetchParent, db, own
<1>2. wled[c][Cur(c)] = NoRes
  BY DEF Lookup, Fetch, FetchParent, LedgerInv, LedgerOf, StageOf
<1>3. Done(c) = {} /\ run[c].left = {}
  BY <1>1, <1>2, NothingDone DEF HistoryInv, EngineInv, ControlOK, ControlOf
<1>4. Self(c)' = Self(c) /\ Done(c)' = Done(c)
  BY <1>1 DEF Self, Op, Cur, Done
<1>5. pc'[c] = "stmt" => Fit(Self(c), Done(c), Sight(c), stm[c])'
  BY <1>3, <1>4, StartApart DEF Fit
<1> QED
  BY <1>1, <1>3, <1>5 DEF OnceInv, AppliedOnce, OnceOf

LEMMA InsertOnce ==
    ASSUME HistoryInv, LedgerInv, OnceInv, NEW c \in Conn, Insert(c)
    PROVE  AppliedOnce' /\ OnceOf(c)'
<1>1. /\ pc[c] = "insert" /\ stm[c] = <<>> /\ run[c].left = {} /\ rets[c] = {}
      /\ UNCHANGED <<content, batch, log, wlog, run, stm>>
  BY DEF Insert, db, HistoryInv, EngineInv, ControlOK, ControlOf
<1>2. Done(c) = {}
  BY <1>1, NothingDone DEF LedgerInv, LedgerOf, StageOf
<1>3. rets'[c] = {[ent |-> Self(c), op |-> Op(c).op, ver |-> 1, by |-> Cur(c)]}
  BY DEF Insert, Set, HistoryInv, EngineInv, TypeOK
<1>4. \A l \in wlog[c], r \in rets'[c] : ~Twice(l, r)
  BY <1>2, <1>3 DEF Done, Twice
<1>5. Fit(Self(c), Done(c), Sight(c), stm[c])'
  BY <1>1 DEF Fit, Apart
<1> QED
  BY <1>1, <1>4, <1>5 DEF OnceInv, AppliedOnce, OnceOf

LEMMA ScanOnce ==
    ASSUME HistoryInv, LedgerInv, OnceInv, NEW c \in Conn, NEW a \in Ent, Scan(c, a)
    PROVE  AppliedOnce' /\ OnceOf(c)'
<1> USE DEF HistoryInv, EngineInv
<1> DEFINE s == Head(stm[c])
<1>1. /\ pc[c] = "stmt" /\ stm[c] # <<>> /\ run[c].left = {} /\ a \in s.at
      /\ UNCHANGED <<content, rows, log, wr, wlog, rets, batch, pc>>
  BY DEF Scan, db, own
<1>2. Fit(Self(c), Done(c), Sight(c), stm[c])
  BY <1>1 DEF OnceInv, OnceOf
<1>3. Self(c)' = Self(c) /\ Done(c)' = Done(c) /\ Sight(c)' = Sight(c)
  BY <1>1 DEF Self, Op, Cur, Done, Sight, View
<1>4. PICK R \in SUBSET Ent : R = Hits(c, s, a)
  BY DEF Hits
<1>5. s = stm[c][1] /\ 1 \in DOMAIN stm[c]
  BY <1>1, HeadFacts
<1>6. CASE s.act = "select" \/ R = {}
  <2>1. stm'[c] = Rest(c, a, R) /\ run' = run
    BY <1>4, <1>6 DEF Scan, Set, TypeOK
  <2>2. \A e \in Done(c) : Spares(KindOf[Self(c)], s, e, Sight(c)[e])
    BY <1>2, <1>5 DEF Fit
  <2>3. PICK self, D, V : self = Self(c) /\ D = Done(c) /\ V = Sight(c)
    OBVIOUS
  <2>4. /\ Apart(self, stm[c])
        /\ \A i \in DOMAIN stm[c] \ {1} : \A e \in D : Spares(KindOf[self], stm[c][i], e, V[e])
        /\ \A e \in D : Spares(KindOf[self], Head(stm[c]), e, V[e])
        /\ \A e \in D : KindOf[e] \notin Below(Head(stm[c]))
    BY <1>2, <2>2, <2>3 DEF Fit, Spares
  <2>5. Fit(self, D, V, Rest(c, a, R))
    BY <1>1, <2>4, FitRest
  <2>6. Fit(Self(c), Done(c), Sight(c), stm[c])'
    BY <1>3, <2>1, <2>3, <2>5
  <2> QED
    BY <1>1, <2>1, <2>6 DEF OnceInv, AppliedOnce, OnceOf
<1>7. CASE ~(s.act = "select" \/ R = {})
  <2>1. stm' = stm /\ run'[c] = [at |-> a, left |-> R]
    BY <1>4, <1>7 DEF Scan, Set, TypeOK
  <2> QED
    BY <1>1, <1>2, <1>3, <2>1 DEF OnceInv, AppliedOnce, OnceOf
<1> QED
  BY <1>6, <1>7

\* What is left to run, once a row of the first statement has been written for
\* which it fits: the same statements, or the rest.
LEMMA TouchFits ==
    ASSUME HistoryInv, LedgerInv, OnceInv, NEW c \in Conn, NEW e \in Ent, Touch(c, e),
           NEW self, self = Self(c), NEW D, NEW V, Apart(self, stm[c]),
           \A i \in DOMAIN stm[c] \ {1} : \A x \in D : Spares(KindOf[self], stm[c][i], x, V[x]),
           \A x \in D : KindOf[x] \notin Below(Head(stm[c])),
           \/ run[c].left \ {e} = {} /\ Head(stm[c]).at = {run[c].at}
           \/ \A x \in D : Spares(KindOf[self], Head(stm[c]), x, V[x])
    PROVE  /\ Fit(self, D, V, stm'[c])
           /\ run'[c].left # {} => run'[c].at \in Ent /\ run'[c].at \in Head(stm'[c]).at
<1> USE DEF HistoryInv, EngineInv
<1> DEFINE left == run[c].left \ {e}
<1>1. /\ stm[c] # <<>> /\ e \in run[c].left
      /\ run[c].at \in Ent /\ run[c].at \in Head(stm[c]).at
  BY DEF Touch, ControlOK, ControlOf, OnceInv, OnceOf
<1>2. Head(stm[c]) = stm[c][1] /\ 1 \in DOMAIN stm[c]
  BY <1>1, HeadFacts
<1>3. rets'[c] \subseteq Change
  BY TypeStep DEF TypeOK, Next, Proceed
<1>4. PICK R, a : /\ R \in SUBSET Ent
                  /\ R = {r.ent : r \in rets'[c]} /\ a = run[c].at
  BY <1>3 DEF Change
<1>5. CASE left = {}
  <2>1. run'[c] = Idle /\ stm'[c] = Rest(c, a, R)
    BY <1>4, <1>5 DEF Touch, Set, TypeOK
  <2>2. Fit(self, D, V, Rest(c, a, R))
    BY <1>1, <1>4, FitRest
  <2> QED
    BY <2>1, <2>2 DEF Idle
<1>6. CASE left # {}
  <2>1. run'[c] = [at |-> run[c].at, left |-> left] /\ stm'[c] = stm[c]
    BY <1>6 DEF Touch, Set, TypeOK
  <2>2. \A x \in D : Spares(KindOf[self], stm[c][1], x, V[x])
    BY <1>2, <1>6
  <2> QED
    BY <1>1, <2>1, <2>2 DEF Fit
<1> QED
  BY <1>5, <1>6

LEMMA TouchOnce ==
    ASSUME HistoryInv, LedgerInv, OnceInv, NEW c \in Conn, NEW e \in Ent, Touch(c, e)
    PROVE  AppliedOnce' /\ OnceOf(c)'
<1> USE DEF HistoryInv, EngineInv
<1> DEFINE s == Head(stm[c])
           k == KindOf[Self(c)]
<1>1. /\ pc[c] = "stmt" /\ batch[c] # <<>> /\ stm[c] # <<>> /\ e \in run[c].left
      /\ run[c].at \in Ent /\ run[c].at \in s.at
      /\ UNCHANGED <<content, rows, log, wlog, batch, pc>>
  BY DEF Touch, db, ControlOK, ControlOf, Busy, OnceInv, OnceOf
<1>2. Self(c)' = Self(c) /\ Cur(c)' = Cur(c)
  BY <1>1 DEF Self, Op, Cur
<1>3. s \in Stmt /\ s = stm[c][1] /\ 1 \in DOMAIN stm[c] /\ s.act # "select"
  BY <1>1, HeadFacts DEF LedgerInv, LedgerOf, StageOf
<1>4. Fit(Self(c), Done(c), Sight(c), stm[c])
  BY <1>1 DEF OnceInv, OnceOf
<1>5. /\ Apart(Self(c), stm[c])
      /\ \A i \in DOMAIN stm[c] : \A x \in Done(c) : Spares(k, stm[c][i], x, Sight(c)[x])
      /\ \A x \in Done(c) : Spares(k, s, x, Sight(c)[x]) /\ KindOf[x] \notin Below(s)
  BY <1>3, <1>4 DEF Fit, Spares
<1>6. View(c, e) \in Row /\ Self(c) \in Ent /\ Done(c) \subseteq Ent
  BY <1>1, ViewType, OpType DEF Done, TypeOK, Change, Logged
<1>7. CASE ~(s.act \in OwnRow \/ Match(s, run[c].at, e, View(c, e)))
  <2>1. wr' = wr /\ rets' = rets
    BY <1>7 DEF Touch, Set, OwnRow, TypeOK
  <2>2. Done(c)' = Done(c) /\ Sight(c)' = Sight(c)
    BY <1>1, <1>2, <2>1 DEF Done, Sight, View
  <2>3. PICK self, D, V : self = Self(c) /\ D = Done(c) /\ V = Sight(c)
    OBVIOUS
  <2>4. /\ Fit(self, D, V, stm'[c])
        /\ run'[c].left # {} => run'[c].at \in Ent /\ run'[c].at \in Head(stm'[c]).at
    BY <1>5, <2>3, TouchFits
  <2> QED
    BY <1>1, <1>2, <2>1, <2>2, <2>3, <2>4 DEF OnceInv, AppliedOnce, OnceOf
<1>8. CASE s.act \in OwnRow \/ Match(s, run[c].at, e, View(c, e))
  <2> DEFINE new == Written(c, s, View(c, e))
  <2>1. /\ wr'[c] = [wr[c] EXCEPT ![e] = new]
        /\ \E op \in {"upsert", "delete"} :
              rets'[c] = rets[c] \cup {[ent |-> e, ver |-> new.ver, by |-> Cur(c), op |-> op]}
    BY <1>8 DEF Touch, Set, OwnRow, TypeOK
  <2>2. PICK chg : rets'[c] = rets[c] \cup {chg} /\ chg.ent = e /\ chg.by = Cur(c)
    <3>1. PICK op : rets'[c] = rets[c] \cup {[ent |-> e, ver |-> new.ver, by |-> Cur(c), op |-> op]}
      BY <2>1
    <3> HIDE DEF new
    <3>2. PICK r : r = [ent |-> e, ver |-> new.ver, by |-> Cur(c), op |-> op]
      OBVIOUS
    <3>3. rets'[c] = rets[c] \cup {r} /\ r.ent = e /\ r.by = Cur(c)
      BY <3>1, <3>2
    <3> QED
      BY <3>3
  <2>3. new \in Row /\ new.ver > 0
    BY <1>1, <1>3, <1>6, WrittenType DEF Row
  <2>4. Done(c)' = Done(c) \cup {e}
    BY <1>1, <1>2, <2>2 DEF Done
  <2>5. Sight(c)'[e] = new /\ \A x \in Ent \ {e} : Sight(c)'[x] = Sight(c)[x]
    <3> HIDE DEF new
    <3>1. wr'[c][e] = new /\ \A x \in Ent \ {e} : wr'[c][x] = wr[c][x]
      BY <2>1 DEF TypeOK
    <3> QED
      BY <1>1, <2>3, <3>1 DEF Sight, View
  <2>6. e \notin Done(c) /\ KindOf[e] \in Direct(k, s)
    <3>1. CASE s.act \in OwnRow
      <4>1. e = Self(c)
        BY <1>1, <3>1 DEF LedgerInv, LedgerOf, StageOf
      <4>2. KindOf[e] \in Direct(k, s) /\ s.act \notin {"tombstone", "detach"}
        BY <3>1, <4>1 DEF OwnRow, Direct
      <4> QED
        BY <1>5, <4>2 DEF Spares
    <3>2. CASE s.act \notin OwnRow /\ Match(s, run[c].at, e, View(c, e))
      <4>1. s.act \in {"tombstone", "detach"} /\ Direct(k, s) = {s.kind}
        BY <1>3, <3>2 DEF Stmt, OwnRow, Direct
      <4>2. /\ KindOf[e] = s.kind /\ ~View(c, e).dead
            /\ View(c, e).ref[s.ref] = run[c].at /\ run[c].at # Nil
        BY <1>1, <3>2, RuleAssumption DEF Match
      <4>3. Sight(c)[e] = View(c, e)
        BY DEF Sight
      <4> QED
        BY <1>5, <4>1, <4>2, <4>3 DEF Spares
    <3> QED
      BY <1>8, <3>1, <3>2
  <2>7. KindOf[e] \notin Below(s)
    BY <1>3, <1>5, <2>6 DEF Apart
  <2>8. ASSUME NEW i \in DOMAIN stm[c] \ {1}
        PROVE  KindOf[e] \notin Writes(k, stm[c][i])
    <3>1. Writes(k, stm[c][1]) \cap Writes(k, stm[c][i]) = {}
      BY <1>3, <1>5 DEF Apart
    <3> QED
      BY <1>3, <2>6, <3>1 DEF Writes
  <2>9. \/ run[c].left \ {e} = {} /\ s.at = {run[c].at}
        \/ Spares(k, s, e, new)
    <3>1. CASE s.act \in OwnRow
      <4>1. run[c].left \subseteq {Self(c)} /\ s.at \subseteq {Self(c)}
        BY <1>1, <1>3, <3>1 DEF LedgerInv, LedgerOf, StageOf
      <4> QED
        BY <1>1, <4>1
    <3>2. CASE s.act \notin OwnRow /\ Match(s, run[c].at, e, View(c, e))
      <4>1. s.act \in {"tombstone", "detach"} /\ s.ref \in RefName
        BY <1>3, <3>2 DEF Stmt, OwnRow, Match
      <4>2. /\ s.act = "tombstone" => new.dead
            /\ s.act = "detach" => new.ref[s.ref] = Nil
        BY <4>1 DEF Written
      <4> QED
        BY <2>7, <4>1, <4>2 DEF Spares
    <3> QED
      BY <1>8, <3>1, <3>2
  <2>10. PICK self, D, V : self = Self(c) /\ D = Done(c)' /\ V = Sight(c)'
    OBVIOUS
  <2>11. \A x \in Done(c) : V[x] = Sight(c)[x]
    BY <1>6, <2>5, <2>6, <2>10
  <2> HIDE DEF new, s
  <2>12. \A i \in DOMAIN stm[c] \ {1} : \A x \in D : Spares(KindOf[self], stm[c][i], x, V[x])
    BY <1>5, <2>4, <2>8, <2>10, <2>11 DEF Spares, Writes
  <2>13. \A x \in D : KindOf[x] \notin Below(s)
    BY <1>5, <2>4, <2>7, <2>10
  <2>14. \/ run[c].left \ {e} = {} /\ s.at = {run[c].at}
         \/ \A x \in D : Spares(KindOf[self], s, x, V[x])
    BY <1>5, <2>4, <2>5, <2>9, <2>10, <2>11
  <2>15. /\ Fit(self, D, V, stm'[c])
         /\ run'[c].left # {} => run'[c].at \in Ent /\ run'[c].at \in Head(stm'[c]).at
    BY <1>5, <2>10, <2>12, <2>13, <2>14, TouchFits DEF s
  <2>16. \A l \in wlog[c], r \in rets'[c] : ~Twice(l, r)
    BY <2>2, <2>6 DEF OnceInv, OnceOf, Twice, Done
  <2> QED
    BY <1>1, <1>2, <2>10, <2>15, <2>16 DEF OnceInv, AppliedOnce, OnceOf
<1> QED
  BY <1>7, <1>8

LEMMA LogOnce ==
    ASSUME HistoryInv, LedgerInv, OnceInv, NEW c \in Conn, NEW r \in rets[c], LogChange(c, r)
    PROVE  AppliedOnce' /\ OnceOf(c)'
<1> DEFINE new == [seq |-> seq + 1, ent |-> r.ent, op |-> r.op, ver |-> r.ver, by |-> r.by]
<1>1. /\ wlog'[c] = wlog[c] \cup {new} /\ rets'[c] = rets[c] \ {r}
      /\ UNCHANGED <<content, rows, log, wr, pc, batch, stm, run>>
  BY DEF LogChange, Set, db, HistoryInv, EngineInv, TypeOK
<1>2. new.ent = r.ent /\ new.by = r.by
  OBVIOUS
<1> HIDE DEF new
<1>3. OnceOf(c)
  BY DEF OnceInv
<1>4. /\ Self(c)' = Self(c) /\ Cur(c)' = Cur(c) /\ Sight(c)' = Sight(c)
  BY <1>1 DEF Self, Op, Cur, Sight, View
<1>5. Done(c)' = Done(c)
  BY <1>1, <1>2, <1>4 DEF Done
<1>6. \A l, m \in wlog'[c] : Twice(l, m) => l = m
  BY <1>1, <1>2, <1>3 DEF OnceOf, Twice
<1>7. \A l \in wlog'[c], q \in rets'[c] : ~Twice(l, q)
  <2>1. \A q \in rets[c] : q.ent = r.ent => q = r
    BY DEF HistoryInv, EngineInv, TxInv, PendingOK, PendingOf
  <2> QED
    BY <1>1, <1>2, <1>3, <2>1 DEF OnceOf, Twice
<1> QED
  BY <1>1, <1>3, <1>4, <1>5, <1>6, <1>7 DEF OnceInv, AppliedOnce, OnceOf

\* A request at rest has changed nothing.
LEMMA ReleasedOnce ==
    ASSUME TypeOK, NEW c \in Conn, Released(c)
    PROVE  OnceOf(c)'
BY DEF Released, Set, Idle, TypeOK, OnceOf

\* What a transaction publishes it books, and nothing it books was booked before.
LEMMA CommitOnce ==
    ASSUME HistoryInv, LedgerInv, OnceInv, NEW c \in Conn, Commit(c)
    PROVE  AppliedOnce' /\ OnceOf(c)'
<1> USE DEF HistoryInv, EngineInv
<1>1. OnceOf(c)'
  BY ReleasedOnce DEF Commit
<1>2. log' = log \cup wlog[c] /\ pc[c] = "commit"
  BY CommitFacts DEF Commit
<1>3. NoRes.status # "accepted"
  BY DEF NoRes, Absent
<1>4. \A l \in wlog[c] : l.by \in OpId /\ wled[c][l.by].status = "accepted"
  BY <1>2 DEF LedgerInv, LedgerOf, OwedOf, TypeOK, Logged
<1>5. \A l \in wlog[c] : ledger[l.by] = NoRes
  BY <1>3, <1>4 DEF TxInv, BookOK
<1>6. \A l \in log : ledger[l.by].status = "accepted"
  BY DEF LedgerInv, Committed, EffectsBooked
<1>7. \A l \in log, m \in wlog[c] : l.by # m.by
  BY <1>3, <1>5, <1>6
<1>8. AppliedOnce'
  BY <1>2, <1>7 DEF OnceInv, OnceOf, AppliedOnce, Twice
<1> QED
  BY <1>1, <1>8

LEMMA OnceStep == HistoryInv /\ HistoryInv' /\ LedgerInv /\ OnceInv /\ [Next]_vars => OnceInv'
<1> SUFFICES ASSUME HistoryInv, HistoryInv', LedgerInv, OnceInv, [Next]_vars PROVE OnceInv'
  OBVIOUS
<1>1. CASE UNCHANGED vars
  <2>1. UNCHANGED <<content, rows, log, pc, batch, stm, run, rets, wr, wlog>>
    BY <1>1 DEF vars
  <2>2. \A c \in Conn : /\ Self(c)' = Self(c) /\ Done(c)' = Done(c)
                        /\ Sight(c)' = Sight(c)
    BY <2>1 DEF Self, Op, Cur, Done, Sight, View
  <2> QED
    BY <2>1, <2>2 DEF OnceInv, AppliedOnce, OnceOf
<1>2. ASSUME NEW c \in Conn, Step(c) PROVE OnceInv'
  <2>1. \A d \in Conn \ {c} : OnceOf(d)'
    BY <1>2, OnceFrame
  <2>2. AppliedOnce' /\ OnceOf(c)'
    <3>1. CASE \E b \in Batch : Begin(c, b)
      <4>1. pc'[c] = "lookup" /\ UNCHANGED <<log, wlog, rets>>
        BY <3>1 DEF Begin, Set, db, own, HistoryInv, EngineInv, TypeOK
      <4> QED
        BY <4>1, RestingOnce DEF HistoryInv, EngineInv, ControlOK, ControlOf
    <3>2. CASE Replay(c) \/ StoreLedger(c)
      <4>1. pc'[c] \in {"commit", "lookup"} /\ UNCHANGED <<log, wlog, rets>>
        BY <3>2 DEF Replay, StoreLedger, NextOp, Set, db, own, HistoryInv, EngineInv, TypeOK
      <4> QED
        BY <4>1, RestingOnce DEF HistoryInv, EngineInv, ControlOK, ControlOf
    <3>3. CASE Lookup(c) \/ Fetch(c) \/ FetchParent(c)
      BY <3>3, StartOnce
    <3>4. CASE Insert(c)
      BY <3>4, InsertOnce
    <3>5. CASE \E a \in Ent : Scan(c, a)
      BY <3>5, ScanOnce
    <3>6. CASE \E e \in Ent : Touch(c, e)
      BY <3>6, TouchOnce
    <3>7. CASE \E r \in rets[c] : LogChange(c, r)
      BY <3>7, LogOnce
    <3>8. CASE Commit(c)
      BY <3>8, CommitOnce
    <3>9. CASE Fail(c) \/ Victim(c) \/ Crash(c)
      <4>1. Released(c) /\ log' = log
        BY <3>9 DEF Fail, Victim, Crash, db
      <4> QED
        BY <4>1, ReleasedOnce DEF HistoryInv, EngineInv, OnceInv, AppliedOnce
    <3> QED
      BY <1>2, <3>1, <3>2, <3>3, <3>4, <3>5, <3>6, <3>7, <3>8, <3>9 DEF Step, Proceed
  <2> QED
    BY <2>1, <2>2 DEF OnceInv
<1> QED
  BY <1>1, <1>2 DEF Next, Step

LEMMA OnceInvariant == Spec => []OnceInv
<1>1. Init => OnceInv
  BY DEF Init, Idle, OnceInv, AppliedOnce, OnceOf
<1>2. HistoryInv /\ HistoryInv' /\ LedgerInv /\ OnceInv /\ [Next]_vars => OnceInv'
  BY OnceStep
<1> QED
  BY <1>1, <1>2, LedgerInvariant, PTL DEF Spec

\* AppliedOnce: however often, and on however many connections, an operation is
\* sent, it changes its row once, and once every row its cascades reach.
THEOREM OperationsOnce == Spec => []AppliedOnce
<1>1. OnceInv => AppliedOnce
  BY DEF OnceInv
<1> QED
  BY <1>1, OnceInvariant, PTL

-----------------------------------------------------------------------------
(* Requests that do not overlap.                                            *)

\* No two requests of the user are under way at once.
OneAtATime == \A c, d \in Conn : pc[c] # "idle" /\ pc[d] # "idle" => c = d

\* No change makes a row an upsert after its tombstone.
Buried(L) == \A l, m \in L :
    l.ent = m.ent /\ l.op = "delete" /\ m.op = "upsert" => m.ver < l.ver

\* An answer that follows on the version the device had seen.
Follows(o, result) ==
    content[o].op = "upsert" /\ result.status = "accepted"
        => result.ver \in {1, content[o].base + 1}

\* The statement of an upsert is all there is to run.
OnlyMerge(c, program) ==
    /\ Head(program).act = "merge" /\ Head(program).kids = Absent
    /\ Head(program).at = {Self(c)}
    /\ Tail(program) = <<>>

\* The row an upsert decided about is the row it writes.
SerialOf(c) ==
    /\ pc[c] = "idle" => wlog[c] = {} /\ rets[c] = {}
    /\ pc[c] = "parent" => seen[c] = View(c, Self(c))
    /\ pc[c] = "stmt" /\ Op(c).op = "upsert" =>
          \/ stm[c] = <<>>
          \/ /\ OnlyMerge(c, stm[c])
             /\ View(c, Self(c)).ver > 0 /\ View(c, Self(c)).ver = Op(c).base
             /\ ~View(c, Self(c)).dead
             /\ seen[c] = View(c, Self(c))
    /\ pc[c] = "stmt" => Follows(Cur(c), res[c])
    /\ \A o \in OpId : Follows(o, wled[c][o])
    /\ Buried(log \cup wlog[c] \cup rets[c])

SerialInv ==
    /\ Buried(log)
    /\ \A o \in OpId : Follows(o, ledger[o])
    /\ \A c \in Conn : SerialOf(c)

\* An upsert updates the live row its device had seen.
LEMMA VerdictUpdate ==
    ASSUME NEW o \in Operation, NEW row \in Row, NEW rule, Verdict(o, row, rule) = "update"
    PROVE  row.ver > 0 /\ row.ver = o.base /\ ~row.dead
<1>1. row.ver \in Nat /\ o.base \in Nat /\ row.dead \in BOOLEAN
  BY DEF Row, Operation
<1>2. row.ver # 0
  BY <1>1 DEF Verdict
<1>3. CASE row.dead \/ o.base < row.ver
  BY <1>1, <1>2, <1>3 DEF Verdict
<1>4. CASE ~row.dead /\ o.base > row.ver
  BY <1>1, <1>2, <1>4 DEF Verdict
<1> QED
  BY <1>1, <1>2, <1>3, <1>4

LEMMA PerformMerge ==
    ASSUME TypeOK, NEW c \in Conn, Perform(c, MergeProgram)
    PROVE  pc'[c] = "stmt" /\ res' = res /\ OnlyMerge(c, stm'[c])
<1> DEFINE s == [act |-> "merge", kind |-> Absent, ref |-> Absent, kids |-> Absent, at |-> {}]
           t == [act |-> "merge", kind |-> Absent, ref |-> Absent, kids |-> Absent, at |-> {Self(c)}]
<1>1. stm'[c] = [i \in DOMAIN MergeProgram |-> [MergeProgram[i] EXCEPT !.at = {Self(c)}]]
  BY DEF Perform, Set, TypeOK
<1>2. DOMAIN MergeProgram = {1} /\ MergeProgram[1] = s
  BY DEF MergeProgram
<1>3. [s EXCEPT !.at = {Self(c)}] = t
  OBVIOUS
<1>4. /\ t.act = "merge" /\ t.kids = Absent /\ t.at = {Self(c)}
  OBVIOUS
<1> HIDE DEF s, t
<1>5. stm'[c] = <<t>>
  <2>1. stm'[c] = [i \in {1} |-> t]
    BY <1>1, <1>2, <1>3
  <2>2. <<t>> = [i \in {1} |-> t]
    OBVIOUS
  <2> QED
    BY <2>1, <2>2
<1>6. Head(<<t>>) = t /\ Tail(<<t>>) = <<>>
  OBVIOUS
<1> QED
  BY <1>4, <1>5, <1>6 DEF OnlyMerge, Perform, Set, TypeOK

\* Once its statement is done, an upsert has nothing to run.
LEMMA RestNothing ==
    ASSUME NEW c \in Conn, NEW R, OnlyMerge(c, stm[c])
    PROVE  Rest(c, Self(c), R) = <<>>
BY DEF Rest, OnlyMerge

\* A change to a row that is live before it, or a delete, comes after the others.
LEMMA WriteBuried ==
    ASSUME HistoryInv, LedgerInv, NEW c \in Conn, NEW e \in Ent, NEW chg,
           Buried(log \cup wlog[c] \cup rets[c]),
           chg.ent = e, chg.ver = View(c, e).ver + 1,
           chg.op = "upsert" => ~View(c, e).dead
    PROVE  Buried(log \cup wlog[c] \cup (rets[c] \cup {chg}))
<1> USE DEF HistoryInv, EngineInv
<1>1. View(c, e) \in Row /\ rows[e].ver \in Nat /\ wr[c][e] \in Row
  BY ViewType DEF TypeOK, Row
<1>2. rows[e].ver <= View(c, e).ver
  BY <1>1 DEF View, TxInv, LockOK, Row
<1>3. ASSUME NEW m \in log \cup wlog[c] \cup rets[c], m.ent = e
      PROVE  m.ver \in Nat /\ m.ver < chg.ver
  <2>1. m.ver \in Nat
    BY DEF TypeOK, Logged, Change
  <2>2. CASE m \in log
    BY <1>1, <1>2, <1>3, <2>1, <2>2 DEF VersionsLogged, Row
  <2>3. CASE m \in wlog[c] \cup rets[c]
    BY <1>1, <1>3, <2>1, <2>3 DEF TxInv, PendingOK, PendingOf, Row
  <2> QED
    BY <2>1, <2>2, <2>3
<1>4. ASSUME NEW l \in log \cup wlog[c] \cup rets[c], l.ent = e, l.op = "delete", chg.op = "upsert"
      PROVE  FALSE
  <2>1. DeleteLogged /\ DeadOf(c)
    BY DEF LedgerInv, LedgerOf, Committed
  <2>2. CASE l \in log
    <3>1. rows[e].dead
      BY <1>4, <2>1, <2>2 DEF DeleteLogged
    <3> QED
      BY <1>4, <2>1, <3>1 DEF DeadOf, View
  <2>3. CASE l \in wlog[c] \cup rets[c]
    <3>1. wr[c][e].ver > 0
      BY <1>4, <2>3, Untold
    <3> QED
      BY <1>4, <2>1, <2>3, <3>1 DEF DeadOf, Told, View
  <2> QED
    BY <1>4, <2>2, <2>3
<1> QED
  BY <1>3, <1>4 DEF Buried

LEMMA ApplySerial ==
    ASSUME HistoryInv, LedgerInv, SerialInv, NEW c \in Conn,
           UNCHANGED <<content, rows, log, ledger, wr, wlog, rets, wled, batch>>,
           pc'[c] # "idle", pc[c] # "idle",
           pc'[c] = "parent" => seen'[c] = View(c, Self(c)),
           pc'[c] = "stmt" => Follows(Cur(c), res'[c]),
           pc'[c] = "stmt" /\ Op(c).op = "upsert" =>
              \/ stm'[c] = <<>>
              \/ /\ OnlyMerge(c, stm'[c])
                 /\ View(c, Self(c)).ver > 0 /\ View(c, Self(c)).ver = Op(c).base
                 /\ ~View(c, Self(c)).dead
                 /\ seen'[c] = View(c, Self(c))
    PROVE  SerialOf(c)'
<1>1. Cur(c)' = Cur(c) /\ Op(c)' = Op(c) /\ Self(c)' = Self(c)
  BY DEF Cur, Op, Self
<1>2. View(c, Self(c))' = View(c, Self(c))
  BY <1>1 DEF View
<1>3. SerialOf(c)
  BY DEF SerialInv
<1> QED
  BY <1>1, <1>2, <1>3 DEF SerialOf, OnlyMerge, Follows, Buried

LEMMA StartSerial ==
    ASSUME HistoryInv, LedgerInv, SerialInv, NEW c \in Conn, Lookup(c) \/ Fetch(c) \/ FetchParent(c)
    PROVE  SerialOf(c)'
<1> USE DEF HistoryInv, EngineInv
<1> DEFINE row == View(c, Self(c))
<1>1. /\ pc[c] \in {"lookup", "fetch", "parent"}
      /\ UNCHANGED <<content, rows, log, ledger, wr, wlog, rets, wled, batch>>
  BY DEF Lookup, Fetch, FetchParent, db, own
<1>2. batch[c] # <<>> /\ stm[c] = <<>> /\ res[c] = NoRes
  BY <1>1 DEF ControlOK, ControlOf, Busy, LedgerInv, LedgerOf, StageOf
<1>3. Op(c) \in Operation /\ row \in Row /\ Op(c) = content[Cur(c)]
  BY <1>2, OpType, ViewType DEF Op
<1> HIDE DEF row
<1>4. NoRes.status # "accepted" /\ Rejected.status # "accepted"
  BY DEF NoRes, Absent, Rejected
<1>5. ASSUME NEW result, Answer(c, result), Follows(Cur(c), result) PROVE SerialOf(c)'
  <2>1. pc'[c] = "stmt" /\ res'[c] = result /\ stm'[c] = <<>>
    BY <1>2, <1>5 DEF Answer, Set, TypeOK
  <2> QED
    BY <1>1, <1>5, <2>1, ApplySerial
<1>6. CASE Set(pc, c, "fetch") \/ Set(pc, c, "insert")
  <2>1. pc'[c] \in {"fetch", "insert"}
    BY <1>6 DEF Set, TypeOK
  <2> QED
    BY <1>1, <2>1, ApplySerial
<1>7. ASSUME Settle(c, row), seen'[c] = row PROVE SerialOf(c)'
  <2>1. CASE Answer(c, Rejected)
    BY <1>4, <1>5, <2>1 DEF Follows
  <2>2. CASE Answer(c, Conflict(row.ver))
    <3>1. PICK result : result = Conflict(row.ver)
      OBVIOUS
    <3>2. result.status # "accepted"
      BY <3>1 DEF Conflict
    <3> QED
      BY <1>5, <2>2, <3>1, <3>2 DEF Follows, Answer
  <2>3. CASE Perform(c, MergeProgram) /\ Verdict(Op(c), row, RuleOf(Self(c))) = "update"
    <3>1. row.ver > 0 /\ row.ver = Op(c).base /\ ~row.dead
      BY <1>3, <2>3, VerdictUpdate
    <3>2. pc'[c] = "stmt" /\ res'[c] = NoRes /\ OnlyMerge(c, stm'[c])
      BY <1>2, <2>3, PerformMerge
    <3> QED
      BY <1>1, <1>4, <1>7, <3>1, <3>2, ApplySerial DEF Follows, row
  <2> QED
    BY <1>6, <1>7, <2>1, <2>2, <2>3 DEF Settle
<1>8. CASE Lookup(c)
  BY <1>4, <1>5, <1>6, <1>8 DEF Lookup, Follows
<1>9. CASE Fetch(c)
  <2>1. CASE Op(c).op = "delete" /\ Answer(c, Accepted(row.ver))
    <3>1. PICK result : result = Accepted(row.ver)
      OBVIOUS
    <3> QED
      BY <1>3, <1>5, <2>1, <3>1 DEF Follows, Answer
  <2>2. CASE Op(c).op = "delete" /\ Perform(c, RuleOf(Self(c)).program)
    <3>1. pc'[c] = "stmt" /\ res'[c] = NoRes
      BY <1>2, <2>2 DEF Perform, Set, TypeOK
    <3> QED
      BY <1>1, <1>4, <2>2, <3>1, ApplySerial DEF Follows
  <2>3. CASE Answer(c, Rejected)
    BY <1>4, <1>5, <2>3 DEF Follows
  <2>4. CASE Set(pc, c, "parent")
    <3>1. pc'[c] = "parent" /\ seen'[c] = row
      BY <1>9, <2>4 DEF Fetch, Set, TypeOK, row
    <3> QED
      BY <1>1, <3>1, ApplySerial DEF row
  <2>5. seen'[c] = row
    BY <1>9 DEF Fetch, Set, TypeOK, row
  <2> QED
    BY <1>6, <1>7, <1>9, <2>1, <2>2, <2>3, <2>4, <2>5 DEF Fetch, row
<1>10. CASE FetchParent(c)
  <2>1. CASE Answer(c, Rejected)
    BY <1>4, <1>5, <2>1 DEF Follows
  <2>2. seen[c] = row /\ seen'[c] = row
    BY <1>10 DEF FetchParent, SerialInv, SerialOf, row
  <2> QED
    BY <1>7, <1>10, <2>1, <2>2 DEF FetchParent
<1> QED
  BY <1>8, <1>9, <1>10

LEMMA InsertSerial ==
    ASSUME HistoryInv, LedgerInv, SerialInv, NEW c \in Conn, Insert(c)
    PROVE  SerialOf(c)'
<1> USE DEF HistoryInv, EngineInv
<1> DEFINE chg == [ent |-> Self(c), op |-> Op(c).op, ver |-> 1, by |-> Cur(c)]
<1>1. /\ pc[c] = "insert" /\ batch[c] # <<>> /\ stm[c] = <<>> /\ rets[c] = {}
      /\ wr[c][Self(c)].ver = 0
  BY DEF Insert, ControlOK, ControlOf, Busy
<1>2. /\ pc'[c] = "stmt" /\ res'[c] = Accepted(1) /\ rets'[c] = {chg}
      /\ UNCHANGED <<content, log, wlog, wled, batch, stm>>
  BY DEF Insert, Set, db, TypeOK
<1>3. Self(c) \in Ent
  BY <1>1, OpType
<1>4. View(c, Self(c)).ver = 0 /\ ~View(c, Self(c)).dead
  BY <1>1, <1>3 DEF Insert, InsertRefused, TxInv, LockOK, TypeOK, Row, View
<1>5. chg.ent = Self(c) /\ chg.ver = 1
  OBVIOUS
<1> HIDE DEF chg
<1>6. SerialOf(c) /\ Cur(c)' = Cur(c) /\ Op(c)' = Op(c)
  BY <1>2 DEF SerialInv, Cur, Op
<1>7. Buried(log \cup wlog[c] \cup (rets[c] \cup {chg}))
  BY <1>3, <1>4, <1>5, <1>6, WriteBuried DEF SerialOf
<1>8. Buried(log \cup wlog[c] \cup rets[c])'
  BY <1>1, <1>2, <1>7 DEF Buried
<1>9. Accepted(1).ver = 1
  BY DEF Accepted
<1> QED
  BY <1>1, <1>2, <1>6, <1>8, <1>9 DEF SerialOf, Follows

LEMMA ScanSerial ==
    ASSUME HistoryInv, LedgerInv, SerialInv, NEW c \in Conn, NEW a \in Ent, Scan(c, a)
    PROVE  SerialOf(c)'
<1> USE DEF HistoryInv, EngineInv
<1>1. /\ pc[c] = "stmt" /\ stm[c] # <<>>
      /\ UNCHANGED <<content, rows, log, wr, wlog, rets, wled, batch, pc, res, seen>>
  BY DEF Scan, db, own
<1>2. /\ SerialOf(c) /\ Cur(c)' = Cur(c) /\ Op(c)' = Op(c) /\ Self(c)' = Self(c)
      /\ View(c, Self(c))' = View(c, Self(c))
  BY <1>1 DEF SerialInv, Cur, Op, Self, View
<1>3. Op(c).op = "upsert" => stm'[c] = stm[c]
  BY <1>1, <1>2 DEF Scan, SerialOf, OnlyMerge, Hits
<1> QED
  BY <1>1, <1>2, <1>3 DEF SerialOf, OnlyMerge, Follows, Buried

LEMMA TouchSerial ==
    ASSUME HistoryInv, LedgerInv, OnceInv, SerialInv, NEW c \in Conn, NEW e \in Ent, Touch(c, e)
    PROVE  SerialOf(c)'
<1> USE DEF HistoryInv, EngineInv
<1> DEFINE s == Head(stm[c])
<1>1. /\ pc[c] = "stmt" /\ batch[c] # <<>> /\ stm[c] # <<>> /\ e \in run[c].left
      /\ run[c].at \in s.at
      /\ UNCHANGED <<content, log, wlog, wled, batch, pc>>
  BY DEF Touch, db, ControlOK, ControlOf, Busy, OnceInv, OnceOf
<1>2. /\ SerialOf(c) /\ StageOf(c)
      /\ Cur(c)' = Cur(c) /\ Op(c)' = Op(c) /\ Self(c)' = Self(c) /\ Op(c) = content[Cur(c)]
  BY <1>1 DEF SerialInv, LedgerInv, LedgerOf, Cur, Op, Self
<1>3. s \in Stmt /\ s = stm[c][1] /\ 1 \in DOMAIN stm[c]
  BY <1>1, HeadFacts
<1>4. View(c, e) \in Row /\ Written(c, s, View(c, e)).ver = View(c, e).ver + 1
  BY <1>1, <1>3, ViewType, WrittenType
<1>5. s.act = "merge" => Op(c).op = "upsert" /\ e = Self(c)
  BY <1>1, <1>2, <1>3 DEF StageOf, OwnRow
<1>6. Op(c).op = "upsert" =>
         /\ OnlyMerge(c, stm[c]) /\ s.act = "merge"
         /\ View(c, Self(c)).ver = Op(c).base /\ ~View(c, Self(c)).dead
  BY <1>1, <1>2 DEF SerialOf, OnlyMerge
<1>7. ASSUME Op(c).op = "upsert"
      PROVE  stm'[c] = <<>> /\ res'[c].ver = Op(c).base + 1
  <2>1. run[c].left \ {e} = {} /\ run[c].at = Self(c)
    BY <1>1, <1>2, <1>3, <1>6, <1>7 DEF StageOf, OwnRow, OnlyMerge
  <2>2. PICK R, a : R = {r.ent : r \in rets'[c]} /\ a = run[c].at
    OBVIOUS
  <2>3. stm'[c] = Rest(c, a, R)
    BY <2>1, <2>2 DEF Touch, Set, TypeOK
  <2>4. stm'[c] = <<>>
    BY <1>6, <1>7, <2>1, <2>2, <2>3, RestNothing
  <2>5. res'[c].ver = Written(c, s, View(c, e)).ver
    BY <1>6, <1>7 DEF Touch, Set, TypeOK, Accepted
  <2> QED
    BY <1>4, <1>5, <1>6, <1>7, <2>4, <2>5
<1>8. pc'[c] = "stmt" => Follows(Cur(c), res[c])'
  BY <1>1, <1>2, <1>7 DEF Follows
<1>9. Op(c).op = "upsert" => stm'[c] = <<>>
  BY <1>7
<1>10. Buried(log \cup wlog[c] \cup rets[c])'
  <2>1. CASE ~(s.act \in OwnRow \/ Match(s, run[c].at, e, View(c, e)))
    <3>1. rets'[c] = rets[c]
      BY <2>1 DEF Touch, Set, OwnRow, TypeOK
    <3> QED
      BY <1>1, <1>2, <3>1 DEF SerialOf, Buried
  <2>2. CASE s.act \in OwnRow \/ Match(s, run[c].at, e, View(c, e))
    <3> DEFINE chg == [ent |-> e, ver |-> Written(c, s, View(c, e)).ver, by |-> Cur(c),
                       op |-> IF s.act \in {"merge", "detach"} THEN "upsert" ELSE "delete"]
    <3>1. rets'[c] = rets[c] \cup {chg}
      BY <2>2 DEF Touch, Set, OwnRow, TypeOK
    <3>2. /\ chg.ent = e /\ chg.ver = View(c, e).ver + 1
          /\ chg.op = "upsert" => s.act \in {"merge", "detach"}
      BY <1>4
    <3>3. chg.op = "upsert" => ~View(c, e).dead
      BY <1>5, <1>6, <2>2, <3>2 DEF Match, OwnRow
    <3> HIDE DEF chg
    <3>4. Buried(log \cup wlog[c] \cup (rets[c] \cup {chg}))
      BY <1>2, <3>2, <3>3, WriteBuried DEF SerialOf
    <3> QED
      BY <1>1, <3>1, <3>4 DEF Buried
  <2> QED
    BY <2>1, <2>2
<1> QED
  BY <1>1, <1>2, <1>8, <1>9, <1>10 DEF SerialOf, Follows

LEMMA LogSerial ==
    ASSUME HistoryInv, SerialInv, NEW c \in Conn, NEW r \in rets[c], LogChange(c, r)
    PROVE  SerialOf(c)'
<1> DEFINE new == [seq |-> seq + 1, ent |-> r.ent, op |-> r.op, ver |-> r.ver, by |-> r.by]
<1>1. /\ wlog'[c] = wlog[c] \cup {new} /\ rets'[c] = rets[c] \ {r} /\ pc[c] = "stmt"
      /\ UNCHANGED <<content, rows, log, wr, wled, pc, batch, stm, run, res, seen>>
  BY DEF LogChange, Set, db, HistoryInv, EngineInv, TypeOK
<1>2. new.ent = r.ent /\ new.op = r.op /\ new.ver = r.ver
  OBVIOUS
<1> HIDE DEF new
<1>3. /\ SerialOf(c) /\ Cur(c)' = Cur(c) /\ Op(c)' = Op(c) /\ Self(c)' = Self(c)
      /\ View(c, Self(c))' = View(c, Self(c))
  BY <1>1 DEF SerialInv, Cur, Op, Self, View
<1>4. Buried(log \cup wlog[c] \cup rets[c])'
  BY <1>1, <1>2, <1>3 DEF SerialOf, Buried
<1> QED
  BY <1>1, <1>3, <1>4 DEF SerialOf, OnlyMerge, Follows

\* The end of a request, published or not.
LEMMA ReleasedSerial ==
    ASSUME TypeOK, NEW c \in Conn, Released(c), Buried(log')
    PROVE  SerialOf(c)'
<1>1. /\ pc'[c] = "idle" /\ rets'[c] = {} /\ wlog'[c] = {}
      /\ \A o \in OpId : wled'[c][o] = NoRes
  BY DEF Released, Set, TypeOK
<1>2. NoRes.status # "accepted"
  BY DEF NoRes, Absent
<1> QED
  BY <1>1, <1>2 DEF SerialOf, Follows, Buried

\* A step of the only request under way, or the one that starts it.
LEMMA SerialOwn ==
    ASSUME HistoryInv, LedgerInv, OnceInv, SerialInv, NEW c \in Conn, Step(c)
    PROVE  /\ Buried(log') /\ \A o \in OpId : Follows(o, ledger[o])'
           /\ SerialOf(c)'
<1> USE DEF HistoryInv, EngineInv
<1>1. SerialOf(c) /\ content' = content
  BY StepFrame DEF SerialInv, Frame
<1>2. CASE Commit(c)
  <2>1. rets[c] = {} /\ log' = log \cup wlog[c]
    BY <1>2, CommitFacts DEF Commit, ControlOK, ControlOf
  <2>2. \A o \in OpId : ledger'[o] = IF wled[c][o] # NoRes THEN wled[c][o] ELSE ledger[o]
    BY <1>2 DEF Commit
  <2>3. Buried(log')
    BY <1>1, <2>1 DEF SerialOf, Buried
  <2>4. \A o \in OpId : Follows(o, ledger[o])'
    BY <1>1, <2>2 DEF SerialInv, SerialOf, Follows
  <2> QED
    BY <1>2, <2>3, <2>4, ReleasedSerial DEF Commit
<1>3. CASE ~Commit(c)
  <2>1. UNCHANGED <<rows, log, ledger>>
    BY <1>3, NoCommit
  <2>2. Buried(log') /\ \A o \in OpId : Follows(o, ledger[o])'
    BY <1>1, <2>1 DEF SerialInv, Follows
  <2>3. CASE \E b \in Batch : Begin(c, b)
    <3>1. pc'[c] = "lookup" /\ UNCHANGED <<wlog, rets, wled>>
      BY <2>3 DEF Begin, Set, db, own, TypeOK
    <3> QED
      BY <1>1, <2>1, <2>2, <3>1 DEF SerialOf, Follows
  <2>4. CASE Replay(c)
    <3>1. pc'[c] \in {"commit", "lookup"} /\ UNCHANGED <<wlog, rets, wled>>
      BY <2>4 DEF Replay, NextOp, Set, db, own, TypeOK
    <3> QED
      BY <1>1, <2>1, <2>2, <3>1 DEF SerialOf, Follows
  <2>5. CASE StoreLedger(c)
    <3>1. batch[c] # <<>> /\ pc[c] = "stmt"
      BY <2>5 DEF StoreLedger, Applied, ControlOK, ControlOf, Busy
    <3>2. Cur(c) \in OpId
      BY <3>1, OpType
    <3>3. /\ pc'[c] \in {"commit", "lookup"} /\ UNCHANGED <<wlog, rets>>
          /\ \A o \in OpId : wled'[c][o] \in {wled[c][o], res[c]}
          /\ \A o \in OpId \ {Cur(c)} : wled'[c][o] = wled[c][o]
      BY <2>5, <3>2 DEF StoreLedger, NextOp, Set, db, own, TypeOK
    <3>4. \A o \in OpId : Follows(o, wled[c][o])'
      BY <1>1, <3>1, <3>3 DEF SerialOf, Follows
    <3> QED
      BY <1>1, <2>1, <2>2, <3>3, <3>4 DEF SerialOf
  <2>6. CASE Lookup(c) \/ Fetch(c) \/ FetchParent(c)
    BY <2>2, <2>6, StartSerial
  <2>7. CASE Insert(c) \/ (\E a \in Ent : Scan(c, a)) \/ (\E e \in Ent : Touch(c, e))
                       \/ \E r \in rets[c] : LogChange(c, r)
    BY <2>2, <2>7, InsertSerial, ScanSerial, TouchSerial, LogSerial
  <2>8. CASE Fail(c) \/ Victim(c) \/ Crash(c)
    BY <2>2, <2>8, ReleasedSerial DEF Fail, Victim, Crash
  <2> QED
    BY <1>3, <2>2, <2>3, <2>4, <2>5, <2>6, <2>7, <2>8 DEF Step, Proceed
<1> QED
  BY <1>2, <1>3

\* Only a request under way takes a step, or one that begins.
LEMMA Underway ==
    ASSUME TypeOK, NEW c \in Conn, Step(c)
    PROVE  pc[c] # "idle" \/ pc'[c] # "idle"
BY DEF Step, Proceed, Begin, Replay, Lookup, Fetch, FetchParent, Insert, Scan, Touch,
   LogChange, StoreLedger, Applied, Commit, Fail, Victim, Crash, Awaits, Set, TypeOK

LEMMA SerialStep ==
    ASSUME HistoryInv, LedgerInv, OnceInv, OneAtATime, OneAtATime', SerialInv, [Next]_vars
    PROVE  SerialInv'
<1>1. CASE UNCHANGED vars
  <2>1. UNCHANGED <<content, rows, log, ledger, pc, batch, seen, stm, res, rets, wr, wlog, wled>>
    BY <1>1 DEF vars
  <2>2. \A c \in Conn : /\ Self(c)' = Self(c) /\ Cur(c)' = Cur(c) /\ Op(c)' = Op(c)
                        /\ View(c, Self(c))' = View(c, Self(c))
    BY <2>1 DEF Self, Op, Cur, View
  <2> QED
    BY <2>1, <2>2 DEF SerialInv, SerialOf, OnlyMerge, Follows
<1>2. ASSUME NEW c \in Conn, Step(c) PROVE SerialInv'
  <2>1. /\ Buried(log') /\ \A o \in OpId : Follows(o, ledger[o])'
        /\ SerialOf(c)'
    BY <1>2, SerialOwn
  <2>2. pc[c] # "idle" \/ pc'[c] # "idle"
    BY <1>2, Underway DEF HistoryInv, EngineInv
  <2>3. Frame(c)
    BY <1>2, StepFrame DEF HistoryInv, EngineInv
  <2>4. ASSUME NEW d \in Conn \ {c} PROVE SerialOf(d)'
    <3>1. pc[d] = "idle" /\ pc'[d] = "idle"
      BY <2>2, <2>3 DEF Frame, OneAtATime
    <3>2. /\ wlog'[d] = {} /\ rets'[d] = {} /\ wled'[d] = wled[d] /\ content' = content
          /\ SerialOf(d)
      BY <2>3, <3>1 DEF Frame, SerialInv, SerialOf
    <3> QED
      BY <2>1, <3>1, <3>2 DEF SerialOf, Follows, Buried
  <2> QED
    BY <2>1, <2>4 DEF SerialInv
<1> QED
  BY <1>1, <1>2 DEF Next, Step

LEMMA SerialInvariant == Spec /\ []OneAtATime => []SerialInv
<1>1. Init => SerialInv
  <2>1. NoRes.status # "accepted"
    BY DEF NoRes, Absent
  <2> QED
    BY <2>1 DEF Init, SerialInv, SerialOf, Follows, Buried
<1>2. HistoryInv /\ LedgerInv /\ OnceInv /\ OneAtATime /\ OneAtATime' /\ SerialInv /\ [Next]_vars
         => SerialInv'
  BY SerialStep
<1> QED
  BY <1>1, <1>2, LedgerInvariant, OnceInvariant, PTL DEF Spec

\* NoLostUpdate: as long as the requests of a user do not overlap, an accepted
\* upsert created its row or followed directly on the version the device had seen.
THEOREM SerialUpdates == Spec /\ []OneAtATime => []NoLostUpdate
<1>1. HistoryInv /\ SerialInv => NoLostUpdate
  BY DEF SerialInv, Follows, NoLostUpdate
<1> QED
  BY <1>1, SerialInvariant, HistoryInvariant, PTL

\* DeletedRowsConflict: as long as the requests of a user do not overlap, no
\* upsert is accepted on a row after its tombstone.
THEOREM SerialDeletes == Spec /\ []OneAtATime => []DeletedRowsConflict
<1>1. SerialInv => DeletedRowsConflict
  BY DEF SerialInv, Buried, DeletedRowsConflict
<1> QED
  BY <1>1, SerialInvariant, PTL

-----------------------------------------------------------------------------
(* Sessions and what demands a live one.                                    *)

Live(row) == row.ver > 0 /\ ~row.dead

Bound == {e \in Ent : KindOf[e] \in SessionBound}

\* A statement that neither deletes sessions nor moves what is in one.
Tame(s) ==
    /\ s.kids # "session"
    /\ s.act = "tombstone" => s.kind # "session"
    /\ s.act = "detach" /\ s.kind \in SessionBound => s.ref # "session"

\* Statement i of those left to run comes to row e of session p.
Reaches(c, i, p, e) ==
    /\ stm[c][i].act = "tombstone" /\ stm[c][i].kind = KindOf[e]
    /\ stm[c][i].ref = "session" /\ p \in stm[c][i].at
    /\ i = 1 /\ run[c].left # {} /\ run[c].at = p => e \in run[c].left

Reached(c, p, e) == \E i \in DOMAIN stm[c] : Reaches(c, i, p, e)

\* The statements that run may be those that delete p.
Dying(c, p) == stm[c] # <<>> /\ Op(c).op # "upsert" /\ p = Self(c)

\* Row e is in a session p, which lives on unless the delete comes to e.
Held(c, p, e) ==
    /\ p \in Ent /\ KindOf[p] = "session"
    /\ View(c, p).ver > 0
    /\ View(c, p).dead \/ Dying(c, p) => Reached(c, p, e)

\* The row about to be inserted names a live session.
Admitted(c) ==
    pc[c] = "insert" /\ Op(c).op = "upsert" /\ Self(c) \in Bound =>
        Op(c).refs["session"] \in Ent /\ Live(View(c, Op(c).refs["session"]))

SoundOf(c) ==
    /\ pc[c] = "idle" => \A e \in Ent : wr[c][e].ver = 0
    /\ \A i \in DOMAIN stm[c] : Tame(stm[c][i])
    /\ Admitted(c)
    /\ \A e \in Bound : Live(View(c, e)) => Held(c, View(c, e).ref["session"], e)

Referred ==
    \A o \in OpId, r \in RefName : content[o].refs[r] \in Ent => KindOf[content[o].refs[r]] = r

Sheltered ==
    \A e \in Bound : Live(rows[e]) =>
        LET p == rows[e].ref["session"] IN
        p \in Ent /\ KindOf[p] = "session" /\ Live(rows[p])

SessionInv == Referred /\ Sheltered /\ \A c \in Conn : SoundOf(c)

LEMMA BoundRule ==
    ASSUME NEW e \in Bound
    PROVE  /\ e \in Ent /\ KindOf[e] \in Kind \cap SessionBound
           /\ RuleOf(e).parent = "session" /\ "session" \in RefName
           /\ Mode(RuleOf(e), "session") = "insert"
BY RuleAssumption, SessionAssumption DEF Bound, RuleOf

\* Running the first statement for row a loses no other statement, nor this one
\* for another row.
LEMMA RestKeeps ==
    ASSUME TypeOK, NEW c \in Conn, stm[c] # <<>>, NEW a, NEW R \in SUBSET Ent,
           \A i \in DOMAIN stm[c] : Tame(stm[c][i]),
           NEW Q, Q = Rest(c, a, R)
    PROVE  /\ \A j \in DOMAIN Q : Tame(Q[j])
           /\ \A i \in DOMAIN stm[c], p \in Ent :
                 p \in stm[c][i].at /\ (i # 1 \/ p # a) =>
                    \E j \in DOMAIN Q : /\ Q[j].act = stm[c][i].act /\ Q[j].kind = stm[c][i].kind
                                        /\ Q[j].ref = stm[c][i].ref /\ p \in Q[j].at
<1> DEFINE s    == Head(stm[c])
           kids == [act |-> "tombstone", kind |-> s.kids, ref |-> s.kind,
                    kids |-> Absent, at |-> R]
           less == [s EXCEPT !.at = @ \ {a}]
           x    == IF s.kids = Absent \/ R = {} THEN <<>> ELSE <<kids>>
           y    == IF s.at = {a} THEN <<>> ELSE <<less>>
           z    == Tail(stm[c])
<1>1. /\ stm[c] \in Seq(Stmt) /\ s \in Stmt /\ z \in Seq(Stmt)
      /\ Len(z) = Len(stm[c]) - 1 /\ \A i \in 1 .. Len(z) : z[i] = stm[c][i + 1]
      /\ s = stm[c][1] /\ Len(stm[c]) \in Nat \ {0}
  BY HeadTailProperties, EmptySeq DEF TypeOK
<1>2. DOMAIN stm[c] = 1 .. Len(stm[c]) /\ Len(z) \in Nat
  BY <1>1, LenProperties
<1>3. Tame(s)
  BY <1>1, <1>2
<1>4. kids \in Stmt /\ Tame(kids)
  <2>1. s.kids \in Name /\ s.kind \in Name /\ Absent \in Name
    BY <1>1 DEF Stmt, Name
  <2>2. s.kids # "session" /\ Absent # "session"
    BY <1>3 DEF Tame, Absent
  <2> HIDE DEF s
  <2> QED
    BY <2>1, <2>2 DEF Stmt, Tame
<1>5. /\ less \in Stmt /\ less.act = s.act /\ less.kind = s.kind /\ less.ref = s.ref
      /\ less.kids = s.kids /\ less.at = s.at \ {a}
  BY <1>1 DEF Stmt
<1>6. x \in Seq(Stmt) /\ \A i \in 1 .. Len(x) : Tame(x[i])
  <2> HIDE DEF kids
  <2>1. CASE x = <<>>
    BY <2>1, EmptySeq
  <2>2. CASE x = <<kids>>
    BY <1>4, <2>2
  <2> QED
    BY <2>1, <2>2
<1>7. /\ y \in Seq(Stmt) /\ \A i \in 1 .. Len(y) : y[i] = less
      /\ s.at # {a} => Len(y) = 1
  <2> HIDE DEF less
  <2>1. CASE s.at = {a}
    BY <2>1, EmptySeq
  <2>2. CASE s.at # {a}
    BY <1>5, <2>2
  <2> QED
    BY <2>1, <2>2
<1> HIDE DEF x, y, z, less
<1>8. PICK xx, yy, zz, ss, xy, out :
         /\ xx = x /\ yy = y /\ zz = z /\ ss = stm[c]
         /\ xy = xx \o yy /\ out = xy \o zz
         /\ xx \in Seq(Stmt) /\ yy \in Seq(Stmt) /\ zz \in Seq(Stmt) /\ ss \in Seq(Stmt)
  BY <1>1, <1>6, <1>7
<1>9. out = Q
  BY <1>8 DEF Rest, x, y, z, less
<1>10. /\ out \in Seq(Stmt)
       /\ \A j \in 1 .. Len(out) : \/ \E i \in 1 .. Len(xx) : out[j] = xx[i]
                                   \/ \E i \in 1 .. Len(yy) : out[j] = yy[i]
                                   \/ \E i \in 1 .. Len(zz) : out[j] = zz[i]
       /\ \A i \in 1 .. Len(yy) : \E j \in 1 .. Len(out) : out[j] = yy[i]
       /\ \A i \in 1 .. Len(zz) : \E j \in 1 .. Len(out) : out[j] = zz[i]
  <2>1. xy = xx \o yy /\ out = xy \o zz
    BY <1>8
  <2>2. out \in Seq(Stmt) /\ MadeOf(out, xx, yy, zz)
    BY <1>8, <2>1, ThreeParts
  <2> QED
    BY <2>2 DEF MadeOf
<1>11. DOMAIN out = 1 .. Len(out) /\ DOMAIN ss = 1 .. Len(ss) /\ Len(ss) \in Nat \ {0}
  BY <1>1, <1>8, <1>10, LenProperties
<1>12. ASSUME NEW j \in 1 .. Len(out) PROVE Tame(out[j])
  <2>1. CASE \E i \in 1 .. Len(xx) : out[j] = xx[i]
    BY <1>6, <1>8, <2>1
  <2>2. CASE \E i \in 1 .. Len(yy) : out[j] = yy[i]
    <3>1. out[j] = less
      BY <1>7, <1>8, <2>2
    <3> QED
      BY <1>3, <1>5, <3>1 DEF Tame
  <2>3. CASE \E i \in 1 .. Len(zz) : out[j] = zz[i]
    <3>1. PICK i \in 1 .. Len(zz) : out[j] = zz[i]
      BY <2>3
    <3>2. i + 1 \in 1 .. Len(ss) /\ zz[i] = ss[i + 1]
      BY <1>1, <1>2, <1>8, <1>11
    <3> QED
      BY <1>8, <1>11, <3>1, <3>2
  <2> QED
    BY <1>10, <2>1, <2>2, <2>3
<1>13. ASSUME NEW i \in 1 .. Len(ss), NEW p \in Ent, p \in ss[i].at, i # 1 \/ p # a
       PROVE  \E j \in 1 .. Len(out) : /\ out[j].act = ss[i].act /\ out[j].kind = ss[i].kind
                                       /\ out[j].ref = ss[i].ref /\ p \in out[j].at
  <2>1. CASE i # 1
    <3>1. i - 1 \in 1 .. Len(zz) /\ zz[i - 1] = ss[i]
      BY <1>1, <1>2, <1>8, <1>11, <2>1
    <3>2. PICK j \in 1 .. Len(out) : out[j] = zz[i - 1]
      BY <1>10, <3>1
    <3> QED
      BY <1>13, <3>1, <3>2
  <2>2. CASE i = 1 /\ p # a
    <3>1. ss[i] = s /\ p \in s.at /\ s.at # {a}
      BY <1>1, <1>8, <1>13, <2>2
    <3>2. 1 \in 1 .. Len(yy) /\ yy[1] = less
      <4>1. yy = y
        BY <1>8
      <4>2. Len(yy) = 1 /\ \A k \in 1 .. Len(yy) : yy[k] = less
        BY <1>7, <3>1, <4>1
      <4> QED
        BY <4>2
    <3>3. PICK j \in 1 .. Len(out) : out[j] = less
      BY <1>10, <3>2
    <3> QED
      BY <1>5, <2>2, <3>1, <3>3
  <2> QED
    BY <1>13, <2>1, <2>2
<1> QED
  BY <1>8, <1>9, <1>11, <1>12, <1>13

\* With no statement left to run, what a row demands is there.
LEMMA RestingHeld ==
    ASSUME TypeOK, NEW c \in Conn, SoundOf(c), stm[c] = <<>>,
           NEW e \in Bound, Live(View(c, e)), NEW p, p = View(c, e).ref["session"]
    PROVE  p \in Ent /\ KindOf[p] = "session" /\ Live(View(c, p))
<1>1. Held(c, p, e)
  BY DEF SoundOf
<1>2. ~Reached(c, p, e)
  BY EmptySeq DEF Reached
<1> QED
  BY <1>1, <1>2 DEF Held, Live

\* A step that writes no row and leaves no statement to run.
LEMMA RestingSession ==
    ASSUME TypeOK, SessionInv, NEW c \in Conn, UNCHANGED <<rows, wr>>,
           stm[c] = <<>>, stm'[c] = <<>>, pc'[c] # "idle", Admitted(c)'
    PROVE  SoundOf(c)'
<1>1. \A e \in Ent : View(c, e)' = View(c, e)
  BY DEF View
<1>2. SoundOf(c)
  BY DEF SessionInv
<1>3. ASSUME NEW e \in Bound, Live(View(c, e))' PROVE Held(c, View(c, e).ref["session"], e)'
  <2>1. e \in Ent /\ Live(View(c, e))
    BY <1>1, <1>3 DEF Bound, Live
  <2>2. PICK p : p = View(c, e).ref["session"]
    OBVIOUS
  <2>3. p \in Ent /\ KindOf[p] = "session" /\ Live(View(c, p))
    BY <1>2, <2>1, <2>2, RestingHeld
  <2>4. p = View(c, e)'.ref["session"] /\ View(c, p)' = View(c, p)
    BY <1>1, <2>1, <2>2, <2>3
  <2>5. Held(c, p, e)'
    BY <2>3, <2>4 DEF Held, Live, Dying
  <2> QED
    BY <2>4, <2>5
<1> QED
  BY <1>3, EmptySeq DEF SoundOf

\* A delete of a session comes to everything that is in it.
LEMMA PerformSession ==
    ASSUME HistoryInv, SessionInv, NEW c \in Conn,
           UNCHANGED <<content, batch, rows, wr, run>>,
           stm[c] = <<>>, run[c].left = {}, NEW P \in Seq(Stmt), Perform(c, P),
           \A i \in DOMAIN P : Tame(P[i]),
           Op(c).op # "upsert" /\ KindOf[Self(c)] = "session" =>
              \A e \in Bound : \E i \in DOMAIN P :
                 P[i].act = "tombstone" /\ P[i].kind = KindOf[e] /\ P[i].ref = "session"
    PROVE  SoundOf(c)'
<1> USE DEF HistoryInv, EngineInv
<1>1. /\ pc'[c] = "stmt" /\ stm'[c] = [i \in DOMAIN P |-> [P[i] EXCEPT !.at = {Self(c)}]]
      /\ Self(c)' = Self(c) /\ Op(c)' = Op(c)
  BY DEF Perform, Set, TypeOK, Self, Op, Cur
<1>2. \A i \in DOMAIN P : P[i] \in Stmt
  BY ElementOfSeq, LenProperties
<1>3. ASSUME NEW i \in DOMAIN P
      PROVE  /\ i \in DOMAIN stm'[c] /\ stm'[c][i].act = P[i].act /\ stm'[c][i].kind = P[i].kind
             /\ stm'[c][i].ref = P[i].ref /\ stm'[c][i].kids = P[i].kids
             /\ stm'[c][i].at = {Self(c)}
  <2>1. stm'[c][i] = [P[i] EXCEPT !.at = {Self(c)}] /\ P[i] \in Stmt
    BY <1>1, <1>2
  <2> QED
    BY <1>1, <2>1 DEF Stmt
<1>4. \A i \in DOMAIN stm'[c] : Tame(stm'[c][i])
  BY <1>1, <1>3 DEF Tame
<1>5. \A e \in Ent : View(c, e)' = View(c, e)
  BY DEF View
<1>6. SoundOf(c)
  BY DEF SessionInv
<1>7. ASSUME NEW e \in Bound, Live(View(c, e))' PROVE Held(c, View(c, e).ref["session"], e)'
  <2>1. e \in Ent /\ Live(View(c, e))
    BY <1>5, <1>7 DEF Bound, Live
  <2>2. PICK p : p = View(c, e).ref["session"]
    OBVIOUS
  <2>3. p \in Ent /\ KindOf[p] = "session" /\ Live(View(c, p))
    BY <1>6, <2>1, <2>2, RestingHeld
  <2>4. p = View(c, e)'.ref["session"] /\ View(c, p)' = View(c, p)
    BY <1>5, <2>1, <2>2, <2>3
  <2>5. ASSUME Dying(c, p)' PROVE Reached(c, p, e)'
    <3>1. p = Self(c) /\ Op(c).op # "upsert"
      BY <1>1, <2>5 DEF Dying
    <3>2. PICK i \in DOMAIN P :
             P[i].act = "tombstone" /\ P[i].kind = KindOf[e] /\ P[i].ref = "session"
      BY <2>3, <3>1
    <3>3. Reaches(c, i, p, e)' /\ i \in DOMAIN stm'[c]
      BY <1>3, <3>1, <3>2 DEF Reaches
    <3> QED
      BY <3>3 DEF Reached
  <2>6. Held(c, p, e)'
    BY <2>3, <2>4, <2>5 DEF Held, Live
  <2> QED
    BY <2>4, <2>6
<1>8. Admitted(c)'
  BY <1>1 DEF Admitted
<1> QED
  BY <1>1, <1>4, <1>7, <1>8 DEF SoundOf

LEMMA FetchSession ==
    ASSUME HistoryInv, LedgerInv, SessionInv, NEW c \in Conn, Lookup(c) \/ Fetch(c) \/ FetchParent(c)
    PROVE  SoundOf(c)'
<1> USE DEF HistoryInv, EngineInv
<1>1. /\ pc[c] \in {"lookup", "fetch", "parent"}
      /\ UNCHANGED <<content, rows, wr, batch, run>>
  BY DEF Lookup, Fetch, FetchParent, db, own
<1>2. batch[c] # <<>> /\ stm[c] = <<>> /\ run[c].left = {}
  BY <1>1 DEF ControlOK, ControlOf, Busy
<1>3. /\ Op(c) \in Operation /\ Self(c) \in Ent /\ Op(c) = content[Cur(c)] /\ Cur(c) \in OpId
      /\ Self(c)' = Self(c) /\ Op(c)' = Op(c)
  BY <1>1, <1>2, OpType DEF Op, Self, Cur
<1>4. CASE stm' = stm /\ pc'[c] \in {"stmt", "fetch", "parent"}
  BY <1>1, <1>2, <1>4, RestingSession DEF Admitted
<1>5. ASSUME NEW result, Answer(c, result) PROVE SoundOf(c)'
  BY <1>4, <1>5 DEF Answer, Set, TypeOK
<1>6. ASSUME Op(c).op = "upsert", Set(pc, c, "insert") => Admitted(c)',
             \/ Set(pc, c, "stmt") /\ stm' = stm
             \/ Set(pc, c, "insert") /\ stm' = stm
             \/ Perform(c, MergeProgram)
      PROVE  SoundOf(c)'
  <2>1. CASE Perform(c, MergeProgram)
    <3>1. DOMAIN MergeProgram = {1} /\ MergeProgram[1].act = "merge" /\ MergeProgram[1].kids = Absent
      BY DEF MergeProgram
    <3>2. \A i \in DOMAIN MergeProgram : Tame(MergeProgram[i])
      BY <3>1 DEF Tame, Absent
    <3>3. MergeProgram \in Seq(Stmt)
      BY MergeType
    <3> QED
      BY <1>1, <1>2, <1>6, <2>1, <3>2, <3>3, PerformSession
  <2>2. CASE Set(pc, c, "insert") /\ stm' = stm
    <3>1. pc'[c] = "insert"
      BY <2>2 DEF Set, TypeOK
    <3> QED
      BY <1>1, <1>2, <1>6, <2>2, <3>1, RestingSession
  <2>3. CASE Set(pc, c, "stmt") /\ stm' = stm
    BY <1>4, <2>3 DEF Set, TypeOK
  <2> QED
    BY <1>6, <2>1, <2>2, <2>3
<1>7. CASE Lookup(c)
  BY <1>4, <1>5, <1>7 DEF Lookup, Set, TypeOK
<1>8. CASE Fetch(c)
  <2>1. CASE Op(c).op = "delete" /\ Set(pc, c, "insert") /\ stm' = stm
    <3>1. Admitted(c)'
      BY <1>3, <2>1 DEF Admitted
    <3>2. pc'[c] = "insert"
      BY <2>1 DEF Set, TypeOK
    <3> QED
      BY <1>1, <1>2, <2>1, <3>1, <3>2, RestingSession
  <2>2. CASE Op(c).op = "delete" /\ Perform(c, RuleOf(Self(c)).program)
    <3> DEFINE P == RuleOf(Self(c)).program
    <3>1. P \in Seq(Stmt) /\ KindOf[Self(c)] \in Kind /\ P = Rule[KindOf[Self(c)]].program
      BY <1>3, RuleAssumption DEF RuleOf
    <3>2. \A i \in DOMAIN P : Tame(P[i])
      BY <3>1, SessionAssumption DEF Tame
    <3>3. ASSUME KindOf[Self(c)] = "session", NEW e \in Bound
          PROVE  \E i \in DOMAIN P :
                    P[i].act = "tombstone" /\ P[i].kind = KindOf[e] /\ P[i].ref = "session"
      <4>1. KindOf[e] \in Kind \cap SessionBound /\ "session" \in Kind /\ P = Rule["session"].program
        BY <3>1, <3>3, BoundRule
      <4> HIDE DEF P
      <4> QED
        BY <4>1, SessionAssumption
    <3>4. Perform(c, P)
      BY <2>2
    <3> HIDE DEF P
    <3>5. PICK program : program = P
      OBVIOUS
    <3>6. /\ program \in Seq(Stmt) /\ Perform(c, program)
          /\ \A i \in DOMAIN program : Tame(program[i])
          /\ Op(c).op # "upsert" /\ KindOf[Self(c)] = "session" =>
                \A e \in Bound : \E i \in DOMAIN program :
                   program[i].act = "tombstone" /\ program[i].kind = KindOf[e]
                   /\ program[i].ref = "session"
      BY <3>1, <3>2, <3>3, <3>4, <3>5 DEF Perform
    <3> QED
      BY <1>1, <1>2, <3>6, PerformSession
  <2>3. CASE Set(pc, c, "parent") /\ UNCHANGED <<stm, res>>
    BY <1>4, <2>3 DEF Set, TypeOK
  <2>4. CASE /\ Op(c).op = "upsert" /\ RuleOf(Self(c)).parent \notin RefName
             /\ Settle(c, View(c, Self(c)))
    <3>1. Self(c) \notin Bound
      BY <2>4, BoundRule
    <3>2. Admitted(c)'
      BY <1>3, <3>1 DEF Admitted, Bound
    <3> QED
      BY <1>6, <2>4, <3>2 DEF Settle, Answer
  <2>5. CASE Answer(c, Rejected) \/ Answer(c, Accepted(View(c, Self(c)).ver))
    BY <1>4, <2>5 DEF Answer, Set, TypeOK
  <2>6. \/ Op(c).op = "delete" /\ Set(pc, c, "insert") /\ stm' = stm
        \/ Op(c).op = "delete" /\ Perform(c, RuleOf(Self(c)).program)
        \/ Set(pc, c, "parent") /\ UNCHANGED <<stm, res>>
        \/ /\ Op(c).op = "upsert" /\ RuleOf(Self(c)).parent \notin RefName
           /\ Settle(c, View(c, Self(c)))
        \/ Answer(c, Rejected) \/ Answer(c, Accepted(View(c, Self(c)).ver))
    BY <1>8 DEF Fetch
  <2> QED
    BY <2>1, <2>2, <2>3, <2>4, <2>5, <2>6
<1>9. CASE FetchParent(c)
  <2> DEFINE p   == Op(c).refs[RuleOf(Self(c)).parent]
             row == IF p \in Ent THEN View(c, p) ELSE NoRow
  <2>1. CASE Answer(c, Rejected)
    BY <1>5, <2>1
  <2>2. CASE row.ver > 0 /\ ~row.dead /\ Settle(c, seen[c])
    <3>1. Op(c).op = "upsert"
      BY <1>9 DEF FetchParent, LedgerInv, LedgerOf, StageOf
    <3>2. p \in Ent /\ Live(View(c, p))
      BY <2>2 DEF Live, NoRow
    <3>3. Self(c) \in Bound => p = Op(c).refs["session"]
      BY BoundRule
    <3>4. PICK q : q = p
      OBVIOUS
    <3>5. /\ q \in Ent /\ Live(View(c, q)) /\ View(c, q)' = View(c, q)
          /\ Self(c) \in Bound => q = Op(c).refs["session"]
      BY <1>1, <3>2, <3>3, <3>4 DEF View
    <3>6. Live(View(c, q))'
      BY <3>5 DEF Live
    <3> HIDE DEF p
    <3>7. Admitted(c)'
      BY <1>3, <3>5, <3>6 DEF Admitted, Bound
    <3> QED
      BY <1>6, <2>2, <3>1, <3>7 DEF Settle, Answer
  <2> QED
    BY <1>9, <2>1, <2>2 DEF FetchParent
<1> QED
  BY <1>7, <1>8, <1>9

LEMMA InsertSession ==
    ASSUME HistoryInv, LedgerInv, SessionInv, NEW c \in Conn, Insert(c)
    PROVE  SoundOf(c)'
<1> USE DEF HistoryInv, EngineInv
<1>1. /\ pc[c] = "insert" /\ batch[c] # <<>> /\ stm[c] = <<>> /\ wr[c][Self(c)].ver = 0
      /\ Op(c).op \in {"upsert", "delete"}
  BY DEF Insert, ControlOK, ControlOf, Busy
<1>2. /\ Self(c) \in Ent /\ Op(c) \in Operation /\ Op(c) = content[Cur(c)] /\ Cur(c) \in OpId
      /\ SoundOf(c) /\ Referred
  BY <1>1, OpType DEF SessionInv, Op
<1>3. PICK new : new = FreshRow(c)
  OBVIOUS
<1>4. /\ pc'[c] = "stmt" /\ stm'[c] = <<>>
      /\ wr'[c] = [wr[c] EXCEPT ![Self(c)] = new] /\ rows' = rows
  BY <1>1, <1>3 DEF Insert, Set, db, TypeOK
<1>5. /\ new.ver = 1
      /\ Op(c).op = "delete" => new.dead
      /\ Op(c).op = "upsert" => new.ref = RefsOnInsert(Op(c), RuleOf(Self(c)), parent[c])
  BY <1>1, <1>3 DEF FreshRow
<1>6. View(c, Self(c)).ver = 0
  BY <1>1, <1>2 DEF Insert, InsertRefused, TypeOK, Row, View
<1>7. ASSUME NEW e \in Ent
      PROVE  /\ e = Self(c) => View(c, e)' = new
             /\ e # Self(c) => View(c, e)' = View(c, e)
  <2>1. wr[c] \in [Ent -> Row]
    BY DEF TypeOK
  <2>2. /\ e = Self(c) => wr'[c][e] = new
        /\ e # Self(c) => wr'[c][e] = wr[c][e]
    BY <1>4, <2>1
  <2>3. new.ver > 0
    BY <1>5
  <2> QED
    BY <1>4, <2>2, <2>3 DEF View
<1>8. ASSUME NEW e \in Bound, NEW p, Live(View(c, e)'), p = View(c, e)'.ref["session"]
      PROVE  p \in Ent \ {Self(c)} /\ KindOf[p] = "session" /\ Live(View(c, p))
  <2>1. e \in Ent
    BY DEF Bound
  <2>2. CASE e = Self(c)
    <3>0. View(c, e)' = new
      BY <1>7, <2>1, <2>2
    <3>1. /\ Op(c).op = "upsert" /\ new.ref = RefsOnInsert(Op(c), RuleOf(e), parent[c])
          /\ p = new.ref["session"]
      <4>1. p = new.ref["session"] /\ ~new.dead
        BY <1>8, <3>0 DEF Live
      <4> QED
        BY <1>1, <1>5, <2>2, <4>1
    <3>2. Op(c).refs["session"] \in Ent /\ Live(View(c, Op(c).refs["session"]))
      BY <1>1, <1>2, <2>2, <3>1 DEF SoundOf, Admitted
    <3>3. p = Op(c).refs["session"]
      BY <3>1, <3>2, BoundRule, RuleAssumption DEF RefsOnInsert, OrNil, Absent
    <3>4. KindOf[p] = "session"
      BY <1>2, <3>2, <3>3, BoundRule DEF Referred
    <3> QED
      BY <1>6, <3>2, <3>3, <3>4 DEF Live
  <2>3. CASE e # Self(c)
    <3>1. Live(View(c, e)) /\ p = View(c, e).ref["session"]
      BY <1>7, <1>8, <2>1, <2>3
    <3>2. p \in Ent /\ KindOf[p] = "session" /\ Live(View(c, p))
      BY <1>1, <1>2, <3>1, RestingHeld
    <3> QED
      BY <1>6, <3>2 DEF Live
  <2> QED
    BY <2>2, <2>3
<1>9. Admitted(c)'
  BY <1>4 DEF Admitted
<1>10. ASSUME NEW e \in Bound, Live(View(c, e))'
       PROVE  Held(c, View(c, e).ref["session"], e)'
  <2>1. PICK p : p = View(c, e)'.ref["session"]
    OBVIOUS
  <2>2. p \in Ent \ {Self(c)} /\ KindOf[p] = "session" /\ Live(View(c, p))
    BY <1>8, <1>10, <2>1 DEF Live
  <2>3. View(c, p)' = View(c, p) /\ ~Dying(c, p)'
    BY <1>4, <1>7, <2>2 DEF Dying
  <2>4. Held(c, p, e)'
    BY <2>2, <2>3 DEF Held, Live
  <2> QED
    BY <2>1, <2>4
<1> QED
  BY <1>4, <1>9, <1>10, EmptySeq DEF SoundOf

\* A step between two statements: what was to be reached still is.
LEMMA KeptSession ==
    ASSUME TypeOK, NEW c \in Conn, SoundOf(c), pc[c] = "stmt", pc'[c] = "stmt", stm[c] # <<>>,
           \A e \in Ent : View(c, e)' = View(c, e),
           Self(c)' = Self(c), Op(c)' = Op(c),
           \A i \in DOMAIN stm'[c] : Tame(stm'[c][i]),
           \A e \in Bound, p \in Ent :
              Live(View(c, e)) /\ p = View(c, e).ref["session"] /\ Reached(c, p, e)
                 => Reached(c, p, e)'
    PROVE  SoundOf(c)'
<1>1. ASSUME NEW e \in Bound, Live(View(c, e))' PROVE Held(c, View(c, e).ref["session"], e)'
  <2>1. e \in Ent /\ Live(View(c, e))
    BY <1>1 DEF Bound, Live
  <2>2. PICK p : p = View(c, e).ref["session"]
    OBVIOUS
  <2>3. Held(c, p, e) /\ p \in Ent
    BY <2>1, <2>2 DEF SoundOf, Held
  <2>4. p = View(c, e)'.ref["session"] /\ View(c, p)' = View(c, p)
    BY <2>1, <2>2, <2>3
  <2>5. Dying(c, p)' => Dying(c, p)
    BY DEF Dying
  <2>6. Held(c, p, e)'
    BY <2>1, <2>2, <2>3, <2>4, <2>5 DEF Held
  <2> QED
    BY <2>4, <2>6
<1> QED
  BY <1>1 DEF SoundOf, Admitted

LEMMA ScanSession ==
    ASSUME HistoryInv, LedgerInv, SessionInv, NEW c \in Conn, NEW a \in Ent, Scan(c, a)
    PROVE  SoundOf(c)'
<1> USE DEF HistoryInv, EngineInv
<1> DEFINE s == Head(stm[c])
<1>1. /\ pc[c] = "stmt" /\ stm[c] # <<>> /\ run[c].left = {} /\ a \in s.at
      /\ UNCHANGED <<content, rows, wr, batch, pc>>
  BY DEF Scan, db, own
<1>2. /\ \A e \in Ent : View(c, e)' = View(c, e)
      /\ Self(c)' = Self(c) /\ Op(c)' = Op(c)
  BY <1>1 DEF View, Self, Op, Cur
<1>3. SoundOf(c) /\ s = stm[c][1] /\ 1 \in DOMAIN stm[c]
  BY <1>1, HeadFacts DEF SessionInv
<1>4. PICK hit \in SUBSET Ent : hit = Hits(c, s, a)
  BY <1>1 DEF Hits
<1>5. ASSUME NEW e \in Bound, NEW p \in Ent, Live(View(c, e)), p = View(c, e).ref["session"],
             Reaches(c, 1, p, e), p = a
      PROVE  s.act # "select" /\ e \in hit
  BY <1>3, <1>4, <1>5, BoundRule DEF Reaches, Hits, Match, Live
<1>6. CASE stm' = stm /\ run'[c] = [at |-> a, left |-> hit]
  <2>1. \A i \in DOMAIN stm'[c] : Tame(stm'[c][i])
    BY <1>3, <1>6 DEF SoundOf
  <2>2. ASSUME NEW e \in Bound, NEW p \in Ent, Live(View(c, e)), p = View(c, e).ref["session"],
               Reached(c, p, e)
        PROVE  Reached(c, p, e)'
    <3>1. PICK i \in DOMAIN stm[c] : Reaches(c, i, p, e)
      BY <2>2 DEF Reached
    <3>2. i = 1 /\ p = a => e \in hit
      BY <1>5, <2>2, <3>1
    <3>3. Reaches(c, i, p, e)' /\ i \in DOMAIN stm'[c]
      BY <1>6, <3>1, <3>2 DEF Reaches
    <3> QED
      BY <3>3 DEF Reached
  <2> QED
    BY <1>1, <1>2, <1>3, <2>1, <2>2, KeptSession
<1>7. CASE (s.act = "select" \/ hit = {}) /\ Set(stm, c, Rest(c, a, hit)) /\ run' = run
  <2>1. PICK Q : Q = Rest(c, a, hit)
    OBVIOUS
  <2>2. stm'[c] = Q
    BY <1>7, <2>1 DEF Set, TypeOK
  <2>3. /\ \A j \in DOMAIN Q : Tame(Q[j])
        /\ \A i \in DOMAIN stm[c], p \in Ent :
              p \in stm[c][i].at /\ (i # 1 \/ p # a) =>
                 \E j \in DOMAIN Q : /\ Q[j].act = stm[c][i].act /\ Q[j].kind = stm[c][i].kind
                                     /\ Q[j].ref = stm[c][i].ref /\ p \in Q[j].at
    BY <1>1, <1>3, <2>1, RestKeeps DEF SoundOf
  <2>4. ASSUME NEW e \in Bound, NEW p \in Ent, Live(View(c, e)), p = View(c, e).ref["session"],
               Reached(c, p, e)
        PROVE  Reached(c, p, e)'
    <3>1. PICK i \in DOMAIN stm[c] : Reaches(c, i, p, e)
      BY <2>4 DEF Reached
    <3>2. i # 1 \/ p # a
      BY <1>5, <1>7, <2>4, <3>1
    <3>3. PICK j \in DOMAIN Q : /\ Q[j].act = stm[c][i].act /\ Q[j].kind = stm[c][i].kind
                                /\ Q[j].ref = stm[c][i].ref /\ p \in Q[j].at
      BY <2>3, <3>1, <3>2 DEF Reaches
    <3>4. Reaches(c, j, p, e)'
      BY <1>1, <1>7, <2>2, <3>1, <3>3 DEF Reaches
    <3> QED
      BY <2>2, <3>3, <3>4 DEF Reached
  <2> QED
    BY <1>1, <1>2, <1>3, <2>2, <2>3, <2>4, KeptSession
<1>8. \/ stm' = stm /\ run'[c] = [at |-> a, left |-> hit]
      \/ (s.act = "select" \/ hit = {}) /\ Set(stm, c, Rest(c, a, hit)) /\ run' = run
  BY <1>4 DEF Scan, Set, TypeOK
<1> QED
  BY <1>6, <1>7, <1>8

LEMMA TouchSession ==
    ASSUME HistoryInv, LedgerInv, OnceInv, SerialInv, SessionInv, NEW c \in Conn, NEW x \in Ent,
           Touch(c, x)
    PROVE  SoundOf(c)'
<1> USE DEF HistoryInv, EngineInv
<1> DEFINE s    == Head(stm[c])
           row  == View(c, x)
           new  == Written(c, s, row)
           hit  == s.act \in OwnRow \/ Match(s, run[c].at, x, row)
<1>1. /\ pc[c] = "stmt" /\ batch[c] # <<>> /\ stm[c] # <<>> /\ x \in run[c].left
      /\ run[c].at \in s.at /\ run[c].at \in Ent
      /\ UNCHANGED <<content, rows, batch, pc>>
  BY DEF Touch, db, ControlOK, ControlOf, Busy, OnceInv, OnceOf
<1>2. /\ SoundOf(c) /\ StageOf(c) /\ SerialOf(c)
      /\ Self(c)' = Self(c) /\ Op(c)' = Op(c)
  BY <1>1 DEF SessionInv, LedgerInv, LedgerOf, SerialInv, Self, Op, Cur
<1>3. s \in Stmt /\ s = stm[c][1] /\ 1 \in DOMAIN stm[c] /\ Tame(s)
  BY <1>1, <1>2, HeadFacts DEF SoundOf
<1>4. row \in Row /\ new \in Row /\ new.ver = row.ver + 1
  BY <1>1, <1>3, ViewType, WrittenType
<1>5. s.act \in OwnRow => x = Self(c)
  BY <1>1, <1>2, <1>3 DEF StageOf
<1>6. Op(c).op = "upsert" =>
         /\ s.act = "merge" /\ Live(View(c, Self(c)))
         /\ seen[c] = View(c, Self(c))
  BY <1>1, <1>2 DEF SerialOf, OnlyMerge, Live
<1>7. s.act = "merge" => Op(c).op = "upsert"
  BY <1>2, <1>3 DEF StageOf, OwnRow
<1>8. /\ hit => wr' = [wr EXCEPT ![c][x] = new]
      /\ ~hit => wr' = wr
  BY DEF Touch, OwnRow
<1> HIDE DEF row, new, hit
<1>9. \A e \in Ent : /\ e = x /\ hit => View(c, e)' = new
                     /\ e # x \/ ~hit => View(c, e)' = View(c, e)
  <2>1. wr \in [Conn -> [Ent -> Row]] /\ new.ver > 0
    BY <1>4 DEF TypeOK, Row
  <2> QED
    BY <1>1, <1>8, <2>1 DEF View
\* A live row was live, in the same session.
<1>10. ASSUME NEW e \in Bound, Live(View(c, e)')
       PROVE  Live(View(c, e)) /\ View(c, e)'.ref["session"] = View(c, e).ref["session"]
  <2>1. e \in Ent /\ "session" \in RefName
    BY BoundRule
  <2>2. CASE e = x /\ hit
    <3>1. ~new.dead
      BY <1>9, <1>10, <2>1, <2>2 DEF Live
    <3>2. s.act \notin {"bury", "tombstone"}
      BY <3>1 DEF new, Written
    <3>3. CASE s.act = "merge"
      <4>1. x = Self(c) /\ Live(View(c, x)) /\ seen[c] = View(c, x)
        BY <1>5, <1>6, <1>7, <3>3 DEF OwnRow
      <4>2. new.ref["session"] = seen[c].ref["session"]
        BY <2>1, <2>2, <3>3, <4>1, BoundRule DEF new, Written, RefsOnUpdate
      <4> QED
        BY <1>9, <2>1, <2>2, <4>1, <4>2
    <3>4. CASE s.act # "merge"
      <4>1. Match(s, run[c].at, x, row)
        BY <2>2, <3>2, <3>4 DEF hit, OwnRow
      <4>2. Live(row) /\ KindOf[x] = s.kind
        BY <4>1 DEF Match, Live
      <4>3. ~(s.act = "detach" /\ s.ref = "session")
        BY <1>3, <2>2, <4>2 DEF Tame, Bound
      <4>4. new.ref["session"] = row.ref["session"]
        BY <2>1, <3>4, <4>3 DEF new, Written
      <4> QED
        BY <1>9, <2>1, <2>2, <4>2, <4>4 DEF row
    <3> QED
      BY <3>3, <3>4
  <2> QED
    BY <1>9, <1>10, <2>1, <2>2
\* A session goes by the delete at hand only.
<1>11. ASSUME NEW p \in Ent, KindOf[p] = "session", View(c, p).ver > 0
       PROVE  /\ View(c, p)'.ver > 0
              /\ View(c, p)'.dead => View(c, p).dead \/ Dying(c, p)
  <2>1. CASE p = x /\ hit
    <3>1. View(c, p)' = new /\ row = View(c, p)
      BY <1>9, <2>1 DEF row
    <3>2. ASSUME new.dead, ~row.dead PROVE Dying(c, p)
      <4>1. s.act \in {"bury", "tombstone"}
        BY <3>2 DEF new, Written
      <4>2. s.act # "tombstone"
        BY <1>3, <1>11, <2>1 DEF hit, Match, OwnRow, Tame
      <4> QED
        BY <1>1, <1>5, <1>6, <2>1, <4>1, <4>2 DEF Dying, OwnRow
    <3> QED
      BY <1>4, <1>11, <3>1, <3>2 DEF Row
  <2> QED
    BY <1>9, <1>11, <2>1
<1>12. ASSUME NEW e \in Bound, NEW p \in Ent, Live(View(c, e)), p = View(c, e).ref["session"],
              Live(View(c, e)'), Reaches(c, 1, p, e), run[c].at = p
       PROVE  e # x
  <2>1. SUFFICES ASSUME e = x PROVE FALSE
    OBVIOUS
  <2>2. Match(s, run[c].at, x, row) /\ s.act = "tombstone"
    BY <1>3, <1>12, <2>1, BoundRule DEF Reaches, Match, Live, row
  <2>3. hit /\ new.dead
    BY <2>2 DEF hit, new, Written
  <2> QED
    BY <1>9, <1>12, <2>1, <2>3 DEF Live
<1>13. (\A i \in DOMAIN stm'[c] : Tame(stm'[c][i]))
       /\ \A e \in Bound, p \in Ent :
             Live(View(c, e)) /\ p = View(c, e).ref["session"] /\ Live(View(c, e)')
                /\ Reached(c, p, e) => Reached(c, p, e)'
  <2> DEFINE left == run[c].left \ {x}
  <2>1. CASE left # {}
    <3>1. stm' = stm /\ run'[c] = [at |-> run[c].at, left |-> left]
      BY <2>1 DEF Touch, Set, TypeOK
    <3>2. ASSUME NEW e \in Bound, NEW p \in Ent, Live(View(c, e)), p = View(c, e).ref["session"],
                 Live(View(c, e)'), Reached(c, p, e)
          PROVE  Reached(c, p, e)'
      <4>1. PICK i \in DOMAIN stm[c] : Reaches(c, i, p, e)
        BY <3>2 DEF Reached
      <4>2. i = 1 /\ p = run[c].at => e \in left
        BY <1>1, <1>12, <3>2, <4>1 DEF Reaches
      <4>3. Reaches(c, i, p, e)' /\ i \in DOMAIN stm'[c]
        BY <3>1, <4>1, <4>2 DEF Reaches
      <4> QED
        BY <4>3 DEF Reached
    <3> QED
      BY <1>2, <3>1, <3>2 DEF SoundOf
  <2>2. CASE left = {}
    <3>0. rets'[c] \subseteq Change
      BY TypeStep DEF TypeOK, Next, Proceed
    <3>1. PICK R, a : /\ R \in SUBSET Ent
                      /\ R = {r.ent : r \in rets'[c]} /\ a = run[c].at
      BY <3>0 DEF Change
    <3>2. PICK Q : Q = Rest(c, a, R)
      OBVIOUS
    <3>3. stm'[c] = Q /\ run'[c].left = {}
      BY <2>2, <3>1, <3>2 DEF Touch, Set, TypeOK, Idle
    <3>4. /\ \A j \in DOMAIN Q : Tame(Q[j])
          /\ \A i \in DOMAIN stm[c], p \in Ent :
                p \in stm[c][i].at /\ (i # 1 \/ p # a) =>
                   \E j \in DOMAIN Q : /\ Q[j].act = stm[c][i].act /\ Q[j].kind = stm[c][i].kind
                                       /\ Q[j].ref = stm[c][i].ref /\ p \in Q[j].at
      <4>1. R \in SUBSET Ent /\ stm[c] # <<>> /\ \A i \in DOMAIN stm[c] : Tame(stm[c][i])
        BY <1>1, <1>2, <3>1 DEF SoundOf
      <4> QED
        BY <3>2, <4>1, RestKeeps
    <3>5. ASSUME NEW e \in Bound, NEW p \in Ent, Live(View(c, e)), p = View(c, e).ref["session"],
                 Live(View(c, e)'), Reached(c, p, e)
          PROVE  Reached(c, p, e)'
      <4>1. PICK i \in DOMAIN stm[c] : Reaches(c, i, p, e)
        BY <3>5 DEF Reached
      <4>2. i # 1 \/ p # a
        BY <1>1, <1>12, <2>2, <3>1, <3>5, <4>1 DEF Reaches
      <4>3. PICK j \in DOMAIN Q : /\ Q[j].act = stm[c][i].act /\ Q[j].kind = stm[c][i].kind
                                  /\ Q[j].ref = stm[c][i].ref /\ p \in Q[j].at
        BY <3>4, <4>1, <4>2 DEF Reaches
      <4>4. Reaches(c, j, p, e)'
        BY <3>3, <4>1, <4>3 DEF Reaches
      <4> QED
        BY <3>3, <4>3, <4>4 DEF Reached
    <3> QED
      BY <3>3, <3>4, <3>5
  <2> QED
    BY <2>1, <2>2
<1>14. ASSUME NEW e \in Bound, Live(View(c, e))' PROVE Held(c, View(c, e).ref["session"], e)'
  <2>1. Live(View(c, e)) /\ Live(View(c, e)')
    BY <1>10, <1>14 DEF Live
  <2>2. PICK p : p = View(c, e).ref["session"]
    OBVIOUS
  <2>3. p = View(c, e)'.ref["session"] /\ Held(c, p, e)
    BY <1>2, <1>10, <2>1, <2>2 DEF SoundOf
  <2>4. p \in Ent /\ KindOf[p] = "session" /\ View(c, p).ver > 0
    BY <2>3 DEF Held
  <2>5. Dying(c, p)' => Dying(c, p)
    BY <1>1, <1>2 DEF Dying
  <2>6. ASSUME View(c, p)'.dead \/ Dying(c, p)' PROVE Reached(c, p, e)'
    <3>1. Reached(c, p, e)
      BY <1>11, <2>3, <2>4, <2>5, <2>6 DEF Held
    <3> QED
      BY <1>13, <2>1, <2>2, <2>4, <3>1
  <2>7. Held(c, p, e)'
    BY <1>11, <2>4, <2>6 DEF Held
  <2> QED
    BY <2>3, <2>7
<1> QED
  BY <1>1, <1>13, <1>14 DEF SoundOf, Admitted

\* A connection without a request sees the committed rows.
LEMMA RestedSession ==
    ASSUME NEW c \in Conn, Sheltered', pc'[c] = "idle", stm'[c] = <<>>,
           \A e \in Ent : wr'[c][e].ver = 0
    PROVE  SoundOf(c)'
<1>1. \A e \in Ent : View(c, e)' = rows'[e]
  BY DEF View
<1>2. ASSUME NEW e \in Bound, Live(View(c, e))' PROVE Held(c, View(c, e).ref["session"], e)'
  <2>1. e \in Ent /\ Live(rows'[e])
    BY <1>1, <1>2 DEF Bound, Live
  <2>2. PICK p : p = rows'[e].ref["session"]
    OBVIOUS
  <2>3. p \in Ent /\ KindOf[p] = "session" /\ Live(rows'[p]) /\ Live(rows[p])'
    BY <2>1, <2>2 DEF Sheltered, Live
  <2>4. p = View(c, e)'.ref["session"] /\ View(c, p)' = rows'[p]
    BY <1>1, <2>1, <2>2, <2>3
  <2>5. Held(c, p, e)'
    BY <2>3, <2>4 DEF Held, Live, Dying
  <2> QED
    BY <2>4, <2>5
<1> QED
  BY <1>2, EmptySeq DEF SoundOf, Admitted

LEMMA ReleasedSession ==
    ASSUME TypeOK, NEW c \in Conn, Released(c), Sheltered'
    PROVE  SoundOf(c)'
<1>1. /\ pc'[c] = "idle" /\ stm'[c] = <<>> /\ \A e \in Ent : wr'[c][e] = NoRow
  BY DEF Released, Set, TypeOK
<1>2. NoRow.ver = 0
  BY DEF NoRow
<1> QED
  BY <1>1, <1>2, RestedSession

\* A step of the only request under way, or the one that starts it.
LEMMA SessionOwn ==
    ASSUME HistoryInv, LedgerInv, OnceInv, SerialInv, SessionInv, NEW c \in Conn, Step(c)
    PROVE  Sheltered' /\ SoundOf(c)'
<1> USE DEF HistoryInv, EngineInv
<1>1. SoundOf(c) /\ Sheltered
  BY DEF SessionInv
<1>2. CASE Commit(c)
  <2>1. /\ pc[c] = "commit" /\ stm[c] = <<>> /\ rows' = [e \in Ent |-> View(c, e)] /\ Released(c)
    BY <1>2 DEF Commit, ControlOK, ControlOf
  <2>2. ASSUME NEW e \in Bound, Live(rows'[e]), NEW p, p = rows'[e].ref["session"]
        PROVE  p \in Ent /\ KindOf[p] = "session" /\ Live(rows'[p])
    <3>1. e \in Ent /\ rows'[e] = View(c, e)
      BY <2>1 DEF Bound
    <3>2. p \in Ent /\ KindOf[p] = "session" /\ Live(View(c, p))
      BY <1>1, <2>1, <2>2, <3>1, RestingHeld
    <3> QED
      BY <2>1, <3>2
  <2>3. Sheltered'
    BY <2>2 DEF Sheltered, Live
  <2> QED
    BY <2>1, <2>3, ReleasedSession
<1>3. ASSUME ~Commit(c) PROVE Sheltered' /\ SoundOf(c)'
  <2>1. rows' = rows
    BY <1>3, NoCommit
  <2>2. Sheltered'
    BY <1>1, <2>1 DEF Sheltered, Live
  <2>3. CASE (\E b \in Batch : Begin(c, b)) \/ Replay(c) \/ StoreLedger(c)
    <3>1. /\ stm[c] = <<>> /\ stm' = stm /\ wr' = wr /\ pc'[c] \in {"lookup", "commit"}
      BY <2>3 DEF Begin, Replay, StoreLedger, Applied, NextOp, Set, own, TypeOK, ControlOK, ControlOf
    <3> QED
      BY <2>1, <2>2, <3>1, RestingSession DEF Admitted
  <2>4. CASE Lookup(c) \/ Fetch(c) \/ FetchParent(c)
    BY <2>2, <2>4, FetchSession
  <2>5. CASE Insert(c) \/ (\E a \in Ent : Scan(c, a)) \/ (\E e \in Ent : Touch(c, e))
    BY <2>2, <2>5, InsertSession, ScanSession, TouchSession
  <2>6. CASE \E r \in rets[c] : LogChange(c, r)
    <3>1. /\ pc[c] = "stmt" /\ pc' = pc /\ UNCHANGED <<content, rows, wr, batch, stm, run>>
      BY <2>6 DEF LogChange, db
    <3>2. /\ \A e \in Ent : View(c, e)' = View(c, e)
          /\ Self(c)' = Self(c) /\ Op(c)' = Op(c)
      BY <3>1 DEF View, Self, Op, Cur
    <3>3. \A e \in Bound, p \in Ent : Reached(c, p, e)' <=> Reached(c, p, e)
      BY <3>1 DEF Reached, Reaches
    <3>4. \A i \in DOMAIN stm'[c] : Tame(stm'[c][i])
      BY <1>1, <3>1 DEF SoundOf
    <3>5. CASE stm[c] = <<>>
      BY <2>1, <2>2, <3>1, <3>5, RestingSession DEF Admitted
    <3>6. CASE stm[c] # <<>>
      BY <1>1, <2>2, <3>1, <3>2, <3>3, <3>4, <3>6, KeptSession
    <3> QED
      BY <3>5, <3>6
  <2>7. CASE Fail(c) \/ Victim(c) \/ Crash(c)
    BY <2>2, <2>7, ReleasedSession DEF Fail, Victim, Crash
  <2> QED
    BY <1>3, <2>3, <2>4, <2>5, <2>6, <2>7 DEF Step, Proceed
<1> QED
  BY <1>2, <1>3

LEMMA SessionStep ==
    ASSUME HistoryInv, LedgerInv, OnceInv, OneAtATime, OneAtATime', SerialInv, SessionInv, [Next]_vars
    PROVE  SessionInv'
<1>1. CASE UNCHANGED vars
  <2>1. UNCHANGED <<content, rows, pc, batch, stm, run, wr>>
    BY <1>1 DEF vars
  <2>2. \A c \in Conn : /\ Self(c)' = Self(c) /\ Op(c)' = Op(c)
                        /\ \A e \in Ent : View(c, e)' = View(c, e)
    BY <2>1 DEF Self, Op, Cur, View
  <2>3. Referred' /\ Sheltered'
    BY <2>1 DEF SessionInv, Referred, Sheltered, Live
  <2>4. ASSUME NEW c \in Conn PROVE SoundOf(c)'
    <3>1. /\ SoundOf(c) /\ pc'[c] = pc[c] /\ stm'[c] = stm[c] /\ wr'[c] = wr[c]
      BY <2>1 DEF SessionInv
    <3>2. \A e \in Bound, p \in Ent :
             (Reached(c, p, e)' <=> Reached(c, p, e)) /\ (Dying(c, p)' <=> Dying(c, p))
      BY <2>1, <2>2 DEF Reached, Reaches, Dying
    <3>3. \A e \in Bound : \A p : Held(c, p, e) => Held(c, p, e)'
      BY <2>2, <3>2 DEF Held
    <3>4. ASSUME NEW e \in Bound, Live(View(c, e))' PROVE Held(c, View(c, e).ref["session"], e)'
      <4>1. e \in Ent /\ Live(View(c, e))
        BY <2>2, <3>4 DEF Bound, Live
      <4>2. PICK p : p = View(c, e).ref["session"]
        OBVIOUS
      <4>3. Held(c, p, e)' /\ p = View(c, e)'.ref["session"]
        BY <2>2, <3>1, <3>3, <4>1, <4>2 DEF SoundOf
      <4> QED
        BY <4>3
    <3>5. Admitted(c)'
      BY <2>2, <3>1 DEF SoundOf, Admitted, Live
    <3> QED
      BY <3>1, <3>4, <3>5 DEF SoundOf
  <2> QED
    BY <2>3, <2>4 DEF SessionInv
<1>2. ASSUME NEW c \in Conn, Step(c) PROVE SessionInv'
  <2>1. Sheltered' /\ SoundOf(c)'
    BY <1>2, SessionOwn
  <2>2. pc[c] # "idle" \/ pc'[c] # "idle"
    BY <1>2, Underway DEF HistoryInv, EngineInv
  <2>3. Frame(c)
    BY <1>2, StepFrame DEF HistoryInv, EngineInv
  <2>4. Referred'
    BY <2>3 DEF SessionInv, Referred, Frame
  <2>5. ASSUME NEW d \in Conn \ {c} PROVE SoundOf(d)'
    <3>1. pc[d] = "idle" /\ pc'[d] = "idle" /\ stm'[d] = stm[d] /\ wr'[d] = wr[d]
      BY <2>2, <2>3 DEF Frame, OneAtATime
    <3>2. stm'[d] = <<>> /\ \A e \in Ent : wr'[d][e].ver = 0
      BY <3>1 DEF HistoryInv, EngineInv, ControlOK, ControlOf, SessionInv, SoundOf
    <3>3. \A e \in Ent : View(d, e)' = rows'[e]
      BY <3>2 DEF View
    <3> QED
      BY <2>1, <3>1, <3>2, <3>3, RestedSession
  <2> QED
    BY <2>1, <2>4, <2>5 DEF SessionInv
<1> QED
  BY <1>1, <1>2 DEF Next, Step

LEMMA SessionInvariant == Spec /\ []OneAtATime => []SessionInv
<1>1. Init => SessionInv
  <2>1. SUFFICES ASSUME Init PROVE SessionInv
    OBVIOUS
  <2>2. Referred
    BY <2>1, ReferenceAssumption DEF Init, Referred
  <2>3. /\ NoRow.ver = 0
        /\ \A e \in Ent : rows[e] = NoRow /\ \A c \in Conn : wr[c][e] = NoRow
        /\ \A c \in Conn : stm[c] = <<>> /\ pc[c] = "idle"
    BY <2>1 DEF Init, NoRow
  <2>4. ~Live(NoRow) /\ \A e \in Ent, c \in Conn : View(c, e) = NoRow
    BY <2>3 DEF Live, View
  <2>5. Sheltered
    BY <2>3, <2>4 DEF Sheltered, Bound
  <2> QED
    BY <2>2, <2>3, <2>4, <2>5, EmptySeq DEF SessionInv, SoundOf, Admitted, Bound
<1>2. HistoryInv /\ LedgerInv /\ OnceInv /\ OneAtATime /\ OneAtATime' /\ SerialInv /\ SessionInv
         /\ [Next]_vars => SessionInv'
  BY SessionStep
<1> QED
  BY <1>1, <1>2, LedgerInvariant, OnceInvariant, SerialInvariant, PTL DEF Spec

\* NoOrphan: as long as the requests of a user do not overlap, nothing that
\* demands a live session outlives it: the delete of a session comes to every
\* row that passed the check before it.
THEOREM SerialOrphans == Spec /\ []OneAtATime => []NoOrphan
<1>1. SessionInv => NoOrphan
  BY DEF SessionInv, Sheltered, NoOrphan, Live, Bound
<1> QED
  BY <1>1, SessionInvariant, PTL
===============================================================================
