--------------------------- MODULE RetentionProofs ---------------------------
(***************************************************************************)
(* What a device that pulls may rely on while pushes and the retention     *)
(* cleanup run: proofs about SyncPull and SyncRetention, for any number of *)
(* connections, rows, operations and windows.                              *)
(*                                                                         *)
(* The argument has two parts.  Whatever the order of commits, a change    *)
(* the device has not passed is not old, and its row is neither behind it  *)
(* nor about to be purged; so records are fresh and copies honest.  When   *)
(* numbers are committed in the order they were drawn, a reply holds all   *)
(* there is up to its last change; so the cursor hides nothing and the     *)
(* device knows every tombstone before it is old.                          *)
(***************************************************************************)
EXTENDS SyncRetention, LedgerProofs, FiniteSetTheorems, WellFoundedInduction

\* Changes not older than the window.
Fresh == log \ old.log

\* The changes of the reply, those whose record is still to be loaded included.
Items == page \cup {x.change : x \in reply}

Copied == [ver : Nat, dead : BOOLEAN]

PullTypes ==
    /\ asking \in BOOLEAN
    /\ cursor \in Nat /\ cursor <= seq
    /\ page \subseteq Logged
    /\ reply \subseteq [change : Logged, record : Copied] /\ IsFiniteSet(reply)
    /\ copy \in [Ent -> Copied]
    /\ old \in [rows : SUBSET Ent, log : SUBSET Logged, ops : SUBSET OpId]
    /\ job \in Seq(Kind \cup {"sync_changes", "processed_operations"})
    /\ ages \in Nat
    /\ purged \subseteq Ent

\* A connection between requests holds nothing.
IdleOK ==
    \A c \in Conn : pc[c] = "idle" => \A e \in Ent : wr[c][e].ver = 0

\* A row a delete is pending of is a tombstone already in its transaction.
ToldOf(c) ==
    /\ \A r \in wlog[c] \cup rets[c] : r.op = "delete" => wr[c][r.ent].dead
    /\ run[c].left # {} => Head(stm[c]).act # "select"

ToldOK == \A c \in Conn : ToldOf(c)

\* No request is about to write e, a tombstone.
Resting(c, e) ==
    /\ wr[c][e].ver = 0
    /\ \A i \in DOMAIN stm[c] : stm[c][i].act \in OwnRow => e \notin stm[c][i].at
    /\ run[c].left # {} /\ Head(stm[c]).act \in OwnRow => e \notin run[c].left
    /\ pc[c] = "parent" /\ Self(c) = e => seen[c].ver > 0 /\ seen[c].dead

\* What is to be purged is a tombstone and stays as it is.
OldOK ==
    \A e \in old.rows :
        /\ rows[e].ver > 0 /\ rows[e].dead
        /\ \A c \in Conn : Resting(c, e)

\* The row of a change that is not old is no older than it, and not about to go.
FreshOK ==
    \A l \in Fresh :
        /\ l.ent \notin old.rows
        /\ l.ver <= rows[l.ent].ver
        /\ l.op = "delete" => rows[l.ent].dead

\* What the device has asked for lies ahead of it; what is old lies behind.
AheadOK ==
    /\ ~asking => page = {} /\ reply = {}
    /\ Items \subseteq Fresh
    /\ \A l \in Items : l.seq > cursor
    /\ \A l \in old.log : l.seq <= cursor

\* record is, or was, the row of e.
HonestOf(e, record) ==
    /\ record.ver <= rows[e].ver
    /\ record.ver = rows[e].ver => record.dead = rows[e].dead

ReplyHonest == \A x \in reply : x.change.ent \notin purged => HonestOf(x.change.ent, x.record)

RetentionInv ==
    /\ EngineInv /\ PullTypes
    /\ IdleOK /\ ToldOK /\ OldOK /\ FreshOK /\ AheadOK
    /\ FreshRecord /\ ReplyHonest /\ CopyHonest

\* Numbers are committed in the order they were drawn.
CommitsInOrder == \A c \in Conn : \A l \in log, m \in wlog[c] : l.seq < m.seq

\* A reply leaves out nothing on its way.
Gapless ==
    \A l \in log : l.seq > cursor /\ (\E m \in Items : l.seq <= m.seq) => l \in Items

\* What is still to be committed lies ahead of the device.
PendingAhead == \A c \in Conn : \A m \in wlog[c] : m.seq > cursor

\* The device has, or will be told of, the version of every row.
TopKnown ==
    \A e \in Ent \ purged :
        \/ rows[e].ver <= copy[e].ver
        \/ \E l \in log : l.ent = e /\ l.ver = rows[e].ver

OldKnown == \A e \in old.rows \ purged : copy[e].dead

KnownInv == CursorComplete /\ Gapless /\ PendingAhead /\ TopKnown /\ OldKnown

-----------------------------------------------------------------------------
(* Facts about finite sets and about a step of the engine.                  *)

\* A finite set has an element of the greatest measure.
LEMMA GreatestOf ==
    ASSUME NEW S, IsFiniteSet(S), S # {}, NEW f \in [S -> Nat]
    PROVE  \E x \in S : \A y \in S : f[y] <= f[x]
<1> DEFINE Without(A) == ~ \E x \in A : \A y \in A : f[y] <= f[x]
           T == {k \in Nat : \E A \in SUBSET S : A # {} /\ Cardinality(A) = k /\ Without(A)}
<1> SUFFICES ASSUME Without(S) PROVE FALSE
  OBVIOUS
<1>1. T \subseteq Nat /\ T # {}
  BY FS_CardinalityType
<1>2. PICK k \in T : \A j \in T : ~ (<<j, k>> \in OpToRel(<, Nat))
  <2> HIDE DEF T
  <2> QED
    BY <1>1, NatLessThanWellFounded, WFMin
<1>3. \A j \in T : ~ (j < k)
  BY <1>1, <1>2 DEF OpToRel
<1>4. PICK A \in SUBSET S : A # {} /\ Cardinality(A) = k /\ Without(A)
  BY <1>2
<1>5. PICK a \in A : TRUE
  BY <1>4
<1> DEFINE B == A \ {a}
<1>6. /\ IsFiniteSet(A) /\ IsFiniteSet(B)
      /\ Cardinality(B) = k - 1 /\ Cardinality(B) \in Nat
  BY <1>4, <1>5, FS_Subset, FS_RemoveElement, FS_CardinalityType
<1>7. B = {} \/ ~Without(B)
  <2> SUFFICES ASSUME B # {}, Without(B) PROVE FALSE
    OBVIOUS
  <2>1. PICK j : j = Cardinality(B) /\ j \in Nat /\ j = k - 1 /\ k \in Nat
    BY <1>1, <1>6
  <2>2. j \in T
    BY <2>1
  <2>3. j < k
    BY <2>1
  <2> HIDE DEF T
  <2> QED
    BY <1>3, <2>2, <2>3
<1>8. \A x \in A : f[x] \in Nat
  OBVIOUS
<1>9. CASE B = {}
  BY <1>4, <1>5, <1>8, <1>9
<1>10. CASE ~Without(B)
  <2>1. PICK b \in B : \A y \in B : f[y] <= f[b]
    BY <1>10
  <2>2. CASE f[a] <= f[b]
    BY <1>4, <1>5, <2>1, <2>2
  <2>3. CASE ~(f[a] <= f[b])
    <3>1. \A y \in A : f[y] <= f[a]
      BY <1>5, <1>8, <2>1, <2>3
    <3> QED
      BY <1>4, <1>5, <3>1
  <2> QED
    BY <2>2, <2>3
<1> QED
  BY <1>7, <1>9, <1>10

\* What is not a step of a connection: rows nobody is writing may go, changes
\* and answers too.
LEMMA PurgeKeeps ==
    ASSUME EngineInv, NEW gone \in SUBSET Ent,
           \A c \in Conn, e \in gone : wr[c][e].ver = 0,
           rows' = [e \in Ent |-> IF e \in gone THEN NoRow ELSE rows[e]],
           log' \subseteq log,
           ledger' \in [OpId -> Result],
           \A o \in OpId : ledger'[o] = ledger[o] \/ ledger'[o] = NoRes,
           crashes' \in Nat,
           UNCHANGED <<content, seq, tx, own>>
    PROVE  EngineInv'
<1> USE DEF EngineInv, TxInv
<1>0. UNCHANGED <<pc, batch, seen, parent, stm, run, rets, res, wr, wlog, wled>>
  BY DEF tx, own
<1>1. TypeOK'
  <2>1. rows' \in [Ent -> Row]
    BY NoRowType DEF TypeOK
  <2> QED
    BY <1>0, <2>1 DEF TypeOK
<1>2. ControlOK'
  BY <1>0 DEF ControlOK, ControlOf, Op, Cur, Self
<1>3. \A e \in Ent : \/ e \in gone /\ rows'[e] = NoRow
                     \/ e \notin gone /\ rows'[e] = rows[e]
  OBVIOUS
<1>4. NoRow.ver = 0 /\ NoRow.dead = FALSE
  BY DEF NoRow
<1>5. LockOK'
  BY <1>0, <1>3, <1>4 DEF LockOK
<1>6. ASSUME NEW c \in Conn PROVE PendingOf(c)'
  <2>1. PendingOf(c)
    BY DEF PendingOK
  <2>2. /\ \A l \in wlog[c] : l.ent \in Ent \ gone
        /\ \A r \in rets[c] : r.ent \in Ent \ gone
    BY Untold
  <2>3. \A e \in Ent \ gone : View(c, e)' = View(c, e) /\ rows'[e] = rows[e]
    BY <1>0, <1>3 DEF View
  <2>4. \A e \in gone : View(c, e)'.ver = 0 /\ rows'[e].ver = 0
    BY <1>0, <1>3, <1>4 DEF View
  <2>5. ASSUME NEW e \in Ent, NEW v \in rows'[e].ver + 1 .. View(c, e)'.ver
        PROVE  \/ \E l \in wlog[c] : l.ent = e /\ l.ver = v
               \/ \E r \in rets[c] : r.ent = e /\ r.ver = v
    <3>1. e \notin gone
      BY <2>4
    <3> QED
      BY <2>1, <2>3, <3>1 DEF PendingOf
  <2>6. \A l \in wlog[c] : rows'[l.ent].ver < l.ver /\ l.ver <= View(c, l.ent)'.ver
    BY <2>1, <2>2, <2>3 DEF PendingOf
  <2>7. \A r \in rets[c] : /\ rows'[r.ent].ver < r.ver
                           /\ r.ver = View(c, r.ent)'.ver
                           /\ r.ent \notin run[c].left
    BY <2>1, <2>2, <2>3 DEF PendingOf
  <2> QED
    BY <1>0, <2>1, <2>5, <2>6, <2>7 DEF PendingOf
<1>7. SeqOK'
  BY <1>0 DEF SeqOK, SeqOf
<1>8. BookOK'
  BY <1>0 DEF BookOK
<1> QED
  BY <1>1, <1>2, <1>5, <1>6, <1>7, <1>8 DEF PendingOK

\* A request that comes to rest lets go of everything.
LEMMA ToRest ==
    ASSUME TypeOK, NEW c \in Conn, Step(c)
    PROVE  pc'[c] # "idle" \/ Released(c)
<1>1. CASE \E b \in Batch : Begin(c, b)
  BY <1>1 DEF Begin, Set, TypeOK
<1>2. CASE Replay(c) \/ StoreLedger(c)
  BY <1>2 DEF Replay, StoreLedger, NextOp, Set, TypeOK
<1>3. CASE Lookup(c) \/ Fetch(c) \/ FetchParent(c)
  BY <1>3 DEF Lookup, Fetch, FetchParent, Settle, Answer, Perform, Set, TypeOK
<1>4. CASE Insert(c)
  BY <1>4 DEF Insert, Set, TypeOK
<1>5. CASE \/ \E a \in Ent : Scan(c, a)
           \/ \E e \in Ent : Touch(c, e)
           \/ \E r \in rets[c] : LogChange(c, r)
  BY <1>5 DEF Scan, Touch, LogChange
<1>6. CASE Commit(c) \/ Fail(c) \/ Victim(c) \/ Crash(c)
  BY <1>6 DEF Commit, Fail, Victim, Crash
<1> QED
  BY <1>1, <1>2, <1>3, <1>4, <1>5, <1>6 DEF Step, Proceed

\* What a commit or any other step makes of a row: nothing, or a later version.
LEMMA RowMoves ==
    ASSUME EngineInv, NEW c \in Conn, Step(c), NEW e \in Ent
    PROVE  \/ rows'[e] = rows[e]
           \/ Commit(c) /\ wr[c][e].ver > 0 /\ rows'[e] = wr[c][e] /\ rows[e].ver < rows'[e].ver
<1>1. CASE Commit(c)
  BY <1>1, CommitFacts DEF EngineInv, TxInv, LockOK
<1> QED
  BY <1>1, NoCommit

-----------------------------------------------------------------------------
(* What a step of the engine leaves of the invariant.                       *)

\* A delete is told only of a row the transaction has made a tombstone.
LEMMA ToldStep ==
    ASSUME EngineInv, ToldOK, NEW c \in Conn, Step(c)
    PROVE  ToldOK'
<1> USE DEF EngineInv
<1>0. Frame(c) /\ ToldOf(c) /\ ControlOf(c)
  BY StepFrame DEF ToldOK, ControlOK
<1>1. \A d \in Conn \ {c} : ToldOf(d)'
  BY <1>0 DEF ToldOK, ToldOf, Frame
<1> SUFFICES ToldOf(c)'
  BY <1>1 DEF ToldOK
<1>2. CASE \/ \E b \in Batch : Begin(c, b)
           \/ Replay(c) \/ Lookup(c) \/ Fetch(c) \/ FetchParent(c) \/ StoreLedger(c)
  <2>1. UNCHANGED <<wr, wlog, rets, run>> /\ run[c].left = {}
    BY <1>0, <1>2 DEF Begin, Replay, Lookup, Fetch, FetchParent, StoreLedger, Applied,
       ControlOf, own
  <2> QED
    BY <1>0, <2>1 DEF ToldOf
<1>3. CASE Insert(c)
  <2>1. /\ batch[c] # <<>> /\ rets[c] = {} /\ run[c].left = {}
        /\ wr[c][Self(c)].ver = 0 /\ Self(c) \in Ent
    BY <1>0, <1>3, OpType DEF Insert, ControlOf, Busy
  <2>2. /\ wr'[c][Self(c)] = FreshRow(c)
        /\ \A x \in Ent : x # Self(c) => wr'[c][x] = wr[c][x]
        /\ wlog'[c] = wlog[c] /\ run' = run
        /\ rets'[c] = {[ent |-> Self(c), op |-> Op(c).op, ver |-> 1, by |-> Cur(c)]}
    BY <1>3, <2>1 DEF Insert, Set, TypeOK
  <2>3. \A l \in wlog[c] : l.ent \in Ent /\ l.ent # Self(c)
    BY <2>1, Untold
  <2>4. Op(c).op = "delete" => FreshRow(c).dead
    BY DEF FreshRow
  <2> QED
    BY <1>0, <2>1, <2>2, <2>3, <2>4 DEF ToldOf
<1>4. ASSUME NEW a \in Ent, Scan(c, a)
      PROVE  ToldOf(c)'
  <2>1. UNCHANGED <<wr, wlog, rets>> /\ run[c].left = {}
    BY <1>4 DEF Scan, own
  <2>2. run'[c].left = {} \/ (stm' = stm /\ Head(stm[c]).act # "select")
    <3>1. CASE run' = run
      BY <2>1, <3>1
    <3>2. CASE stm' = stm /\ Head(stm[c]).act # "select"
      BY <3>2
    <3> QED
      BY <1>4, <3>1, <3>2 DEF Scan
  <2> QED
    BY <1>0, <2>1, <2>2 DEF ToldOf
<1>5. ASSUME NEW e \in Ent, Touch(c, e)
      PROVE  ToldOf(c)'
  <2> DEFINE s   == Head(stm[c])
             new == Written(c, s, View(c, e))
             hit == s.act \in {"merge", "bury"} \/ Match(s, run[c].at, e, View(c, e))
             chg == [ent |-> e, ver |-> new.ver, by |-> Cur(c),
                     op  |-> IF s.act \in {"merge", "detach"} THEN "upsert" ELSE "delete"]
  <2>1. /\ batch[c] # <<>> /\ stm[c] # <<>> /\ e \in run[c].left
        /\ wlog' = wlog
    BY <1>0, <1>5 DEF Touch, ControlOf, Busy
  <2>2. s \in Stmt /\ s.act # "select" /\ View(c, e) \in Row
    BY <1>0, <2>1, HeadFacts, ViewType DEF ToldOf
  <2>3. /\ View(c, e).dead => new.dead
        /\ s.act \in {"bury", "tombstone"} => new.dead
    BY <2>2 DEF Written
  <2>4. s.act \in {"merge", "bury", "tombstone", "detach"}
    BY <2>2 DEF Stmt
  <2>5. run'[c].left = {} \/ stm'[c] = stm[c]
    BY <1>5 DEF Touch, Set, Idle, TypeOK
  <2>6. CASE ~hit
    <3>1. wr' = wr /\ rets'[c] = rets[c]
      BY <1>5, <2>6 DEF Touch, Set, TypeOK
    <3> QED
      BY <1>0, <2>1, <2>2, <2>5, <3>1 DEF ToldOf
  <2>7. CASE hit
    <3>1. /\ wr'[c][e] = new
          /\ \A x \in Ent : x # e => wr'[c][x] = wr[c][x]
          /\ rets'[c] = rets[c] \cup {chg}
      BY <1>5, <2>7 DEF Touch, Set, TypeOK
    <3>2. chg.ent = e /\ (chg.op = "delete" => new.dead)
      BY <2>3, <2>4
    <3>3. \A r \in wlog[c] \cup rets[c] : r.ent \in Ent /\ wr[c][r.ent].ver > 0
      BY Untold
    <3>4. wr[c][e].ver > 0 /\ wr[c][e].dead => new.dead
      BY <2>3 DEF View
    <3> HIDE DEF chg, new
    <3>5. ASSUME NEW r \in wlog'[c] \cup rets'[c], r.op = "delete"
          PROVE  wr'[c][r.ent].dead
      <4>1. CASE r = chg
        BY <3>1, <3>2, <3>5, <4>1
      <4>2. CASE r \in wlog[c] \cup rets[c]
        BY <1>0, <3>1, <3>3, <3>4, <3>5, <4>2 DEF ToldOf
      <4> QED
        BY <2>1, <3>1, <4>1, <4>2
    <3> QED
      BY <2>2, <2>5, <3>5 DEF ToldOf
  <2> QED
    BY <2>6, <2>7
<1>6. ASSUME NEW r \in rets[c], LogChange(c, r)
      PROVE  ToldOf(c)'
  <2> DEFINE new == [seq |-> seq + 1, ent |-> r.ent, op |-> r.op, ver |-> r.ver, by |-> r.by]
  <2>1. /\ UNCHANGED <<wr, run, stm>>
        /\ wlog'[c] = wlog[c] \cup {new} /\ rets'[c] = rets[c] \ {r}
    BY <1>6 DEF LogChange, Set, TypeOK
  <2>2. new.ent = r.ent /\ new.op = r.op
    OBVIOUS
  <2> HIDE DEF new
  <2> QED
    BY <1>0, <2>1, <2>2 DEF ToldOf
<1>7. CASE Commit(c) \/ Fail(c) \/ Victim(c) \/ Crash(c)
  <2>1. Released(c)
    BY <1>7 DEF Commit, Fail, Victim, Crash
  <2>2. wlog'[c] = {} /\ rets'[c] = {} /\ run'[c].left = {}
    BY <2>1 DEF Released, Set, Idle, TypeOK
  <2> QED
    BY <2>2 DEF ToldOf
<1> QED
  BY <1>2, <1>3, <1>4, <1>5, <1>6, <1>7 DEF Step, Proceed

\* A connection that does not step is as much at rest about e as it was.
LEMMA RestingFrame ==
    ASSUME NEW c \in Conn, Frame(c), NEW d \in Conn \ {c}, NEW e, Resting(d, e)
    PROVE  Resting(d, e)'
BY DEF Resting, Frame, Self, Op, Cur

\* Deciding an upsert from a tombstone, or of another row, starts nothing on e.
LEMMA SettleRests ==
    ASSUME TypeOK, NEW c \in Conn, NEW e, NEW row, Settle(c, row), stm[c] = <<>>,
           Self(c) = e => row.ver > 0 /\ row.dead
    PROVE  \A i \in DOMAIN stm'[c] : stm'[c][i].act \in OwnRow => e \notin stm'[c][i].at
<1>1. CASE stm' = stm
  BY <1>1
<1>2. CASE Verdict(Op(c), row, RuleOf(Self(c))) = "update" /\ Perform(c, MergeProgram)
  <2>1. Self(c) # e
    BY <1>2 DEF Verdict
  <2>2. stm'[c] = [i \in DOMAIN MergeProgram |-> [MergeProgram[i] EXCEPT !.at = {Self(c)}]]
    BY <1>2 DEF Perform, Set, TypeOK
  <2>3. \A i \in DOMAIN MergeProgram : MergeProgram[i] \in Stmt
    <3>1. PICK s \in Stmt : MergeProgram = <<s>>
      BY DEF MergeProgram, Stmt, Name
    <3>2. MergeProgram \in Seq(Stmt)
      BY <3>1
    <3> QED
      BY <3>2, ElementOfSeq, LenProperties
  <2>4. \A i \in DOMAIN stm'[c] : stm'[c][i].at = {Self(c)}
    BY <2>2, <2>3 DEF Stmt
  <2> QED
    BY <2>1, <2>4
<1> QED
  BY <1>1, <1>2 DEF Settle, Answer

\* A request never starts on a row that is a tombstone.
LEMMA RestingStep ==
    ASSUME EngineInv, NEW c \in Conn, Step(c),
           NEW e \in Ent, rows[e].ver > 0, rows[e].dead, Resting(c, e)
    PROVE  Resting(c, e)'
<1> USE DEF EngineInv
<1>0. /\ ControlOf(c) /\ stm[c] \in Seq(Stmt)
      /\ wr[c][e].ver = 0 /\ View(c, e) = rows[e]
  BY DEF ControlOK, Resting, View, TypeOK
<1>1. CASE \/ \E b \in Batch : Begin(c, b)
           \/ Replay(c) \/ Lookup(c) \/ StoreLedger(c)
  <2>1. UNCHANGED <<wr, run, stm>> /\ pc'[c] # "parent"
    BY <1>1 DEF Begin, Replay, Lookup, StoreLedger, NextOp, Answer, Set, own, TypeOK
  <2> QED
    BY <2>1 DEF Resting
<1>2. CASE Fetch(c)
  <2> DEFINE row == View(c, Self(c))
  <2>1. /\ stm[c] = <<>> /\ run[c].left = {} /\ batch[c] # <<>>
        /\ UNCHANGED <<wr, run, content, batch>> /\ seen'[c] = row
    BY <1>0, <1>2 DEF Fetch, ControlOf, Busy, Set, own, TypeOK
  <2>2. Self(c)' = Self(c) /\ Self(c) \in Ent
    BY <2>1, OpType DEF Self, Op, Cur
  <2>3. Self(c) = e => row.ver > 0 /\ row.dead
    BY <1>0
  <2>4. \A i \in DOMAIN stm'[c] : stm'[c][i].act \in OwnRow => e \notin stm'[c][i].at
    <3>1. CASE stm' = stm
      BY <2>1, <3>1
    <3>2. CASE ~row.dead /\ Perform(c, RuleOf(Self(c)).program)
      <4> DEFINE P == RuleOf(Self(c)).program
      <4>1. P \in Seq(Stmt) /\ Self(c) # e
        BY <2>2, <2>3, <3>2, RuleAssumption DEF RuleOf
      <4>2. stm'[c] = [i \in DOMAIN P |-> [P[i] EXCEPT !.at = {Self(c)}]]
        BY <3>2 DEF Perform, Set, TypeOK
      <4>3. \A i \in DOMAIN P : P[i] \in Stmt
        BY <4>1, ElementOfSeq, LenProperties
      <4> HIDE DEF P
      <4>4. \A i \in DOMAIN stm'[c] : stm'[c][i].at = {Self(c)}
        BY <4>2, <4>3 DEF Stmt
      <4> QED
        BY <4>1, <4>4
    <3>3. CASE Settle(c, row)
      BY <2>1, <2>3, <3>3, SettleRests
    <3> QED
      BY <1>2, <3>1, <3>2, <3>3 DEF Fetch, Answer
  <2> QED
    BY <1>0, <2>1, <2>2, <2>3, <2>4 DEF Resting
<1>3. CASE FetchParent(c)
  <2>1. /\ stm[c] = <<>> /\ run[c].left = {} /\ UNCHANGED <<wr, run>>
        /\ Self(c) = e => seen[c].ver > 0 /\ seen[c].dead
    BY <1>0, <1>3 DEF FetchParent, ControlOf, own, Resting
  <2>2. pc'[c] # "parent"
    BY <1>3 DEF FetchParent, Settle, Answer, Perform, Set, TypeOK
  <2>3. \A i \in DOMAIN stm'[c] : stm'[c][i].act \in OwnRow => e \notin stm'[c][i].at
    <3>1. CASE Answer(c, Rejected)
      BY <2>1, <3>1 DEF Answer
    <3>2. CASE Settle(c, seen[c])
      BY <2>1, <3>2, SettleRests
    <3> QED
      BY <1>3, <3>1, <3>2 DEF FetchParent
  <2> QED
    BY <1>0, <2>1, <2>2, <2>3 DEF Resting
<1>4. CASE Insert(c)
  <2>1. stm[c] = <<>> /\ run[c].left = {} /\ Self(c) # e
    BY <1>0, <1>4 DEF Insert, InsertRefused, ControlOf
  <2>2. wr'[c][e] = wr[c][e] /\ UNCHANGED <<stm, run>> /\ pc'[c] # "parent"
    BY <1>4, <2>1 DEF Insert, Set, TypeOK
  <2> QED
    BY <1>0, <2>1, <2>2 DEF Resting
<1>5. ASSUME NEW a \in Ent, Scan(c, a)
      PROVE  Resting(c, e)'
  <2>1. /\ stm[c] # <<>> /\ run[c].left = {} /\ a \in Head(stm[c]).at
        /\ wr' = wr /\ pc'[c] # "parent"
    BY <1>5 DEF Scan, own
  <2>2. PICK R \in SUBSET Ent : R = Hits(c, Head(stm[c]), a)
    BY DEF Hits
  <2>3. CASE stm' = [stm EXCEPT ![c] = Rest(c, a, R)] /\ run' = run
    <3>1. stm'[c] = Rest(c, a, R)
      BY <2>3 DEF TypeOK
    <3>2. Fewer(stm'[c], c)
      BY <2>1, <3>1, RestFacts DEF Fewer
    <3>3. \A i \in DOMAIN stm'[c] : stm'[c][i].act \in OwnRow => e \notin stm'[c][i].at
      BY <3>2 DEF Fewer, Resting
    <3> QED
      BY <1>0, <2>1, <2>3, <3>3 DEF Resting
  <2>4. CASE stm' = stm /\ run'[c].left = R
    <3>1. Head(stm[c]).act \in OwnRow => R = {a} /\ a # e
      BY <2>1, <2>2, HeadFacts DEF Hits, OwnRow, Resting
    <3> QED
      BY <1>0, <2>1, <2>4, <3>1 DEF Resting
  <2> QED
    BY <1>5, <2>2, <2>3, <2>4 DEF Scan, Set, TypeOK
<1>6. ASSUME NEW x \in Ent, Touch(c, x)
      PROVE  Resting(c, e)'
  <2>1. /\ stm[c] # <<>> /\ x \in run[c].left /\ pc'[c] # "parent"
    BY <1>0, <1>6 DEF Touch, ControlOf
  <2>2. wr'[c][e].ver = 0
    <3>1. CASE x # e
      BY <1>0, <1>6, <3>1 DEF Touch, TypeOK
    <3>2. CASE x = e
      <4>1. ~ (Head(stm[c]).act \in {"merge", "bury"} \/ Match(Head(stm[c]), run[c].at, x, View(c, x)))
        BY <1>0, <2>1, <3>2 DEF Resting, OwnRow, Match
      <4>2. wr' = wr
        BY <1>6, <4>1 DEF Touch
      <4> QED
        BY <1>0, <4>2
    <3> QED
      BY <3>1, <3>2
  <2>3. PICK R, a : /\ R \in SUBSET Ent
                    /\ R = {r.ent : r \in rets'[c]} /\ a = run[c].at
    <3>1. rets'[c] \subseteq Change
      BY <1>6, TypeStep DEF TypeOK, Next, Proceed
    <3> QED
      BY <3>1 DEF Change
  <2>4. \/ run'[c] = Idle /\ stm'[c] = Rest(c, a, R)
        \/ run'[c].left = run[c].left \ {x} /\ stm'[c] = stm[c]
    <3>1. CASE run[c].left \ {x} = {}
      BY <1>6, <2>3, <3>1 DEF Touch, Set, TypeOK
    <3>2. CASE run[c].left \ {x} # {}
      BY <1>6, <3>2 DEF Touch, Set, TypeOK
    <3> QED
      BY <3>1, <3>2
  <2>5. Fewer(Rest(c, a, R), c)
    BY <2>1, <2>3, RestFacts DEF Fewer
  <2>6. \A i \in DOMAIN stm'[c] : stm'[c][i].act \in OwnRow => e \notin stm'[c][i].at
    BY <2>4, <2>5 DEF Fewer, Resting
  <2> QED
    BY <2>1, <2>2, <2>4, <2>6 DEF Resting, Idle
<1>7. CASE \E r \in rets[c] : LogChange(c, r)
  BY <1>7 DEF LogChange, Resting
<1>8. CASE Commit(c) \/ Fail(c) \/ Victim(c) \/ Crash(c)
  <2>1. Released(c)
    BY <1>8 DEF Commit, Fail, Victim, Crash
  <2>2. wr'[c][e] = NoRow /\ stm'[c] = <<>> /\ run'[c].left = {} /\ pc'[c] = "idle"
    BY <2>1 DEF Released, Set, Idle, TypeOK
  <2> QED
    BY <2>2 DEF Resting, NoRow
<1> QED
  BY <1>1, <1>2, <1>3, <1>4, <1>5, <1>6, <1>7, <1>8 DEF Step, Proceed

\* A step of a connection, the device and the cleanup at rest.
LEMMA RetentionEngine ==
    ASSUME RetentionInv, NEW c \in Conn, Step(c), UNCHANGED <<pull, gc>>
    PROVE  RetentionInv'
<1> USE DEF RetentionInv
<1>0. UNCHANGED <<asking, cursor, page, reply, copy, old, job, ages, purged>>
  BY DEF pull, gc
<1>1. EngineInv' /\ Frame(c) /\ TypeOK /\ TypeOK'
  BY EngineStep, StepFrame DEF EngineInv, Next, Step
<1>2. /\ \A e \in Ent : rows[e].ver \in Nat /\ rows'[e].ver \in Nat
      /\ log \subseteq log' /\ seq <= seq' /\ seq \in Nat
  <2>1. \A e \in Ent : rows[e].ver \in Nat /\ rows'[e].ver \in Nat
    BY RowsForward
  <2>2. log \subseteq log'
    BY NoCommit DEF Commit
  <2>3. seq' = seq \/ seq' = seq + 1
    BY DEF Step, Proceed, Begin, Replay, Lookup, Fetch, FetchParent, Insert, Scan,
       Touch, LogChange, StoreLedger, Commit, Fail, Victim, Crash
  <2> QED
    BY <1>1, <2>1, <2>2, <2>3 DEF TypeOK
<1>3. PullTypes'
  BY <1>0, <1>1, <1>2 DEF PullTypes, TypeOK
<1>4. IdleOK'
  <2>1. ASSUME pc'[c] = "idle", NEW e \in Ent PROVE wr'[c][e].ver = 0
    <3>1. Released(c)
      BY <1>1, <2>1, ToRest
    <3> QED
      BY <1>1, <3>1 DEF Released, Set, NoRow, TypeOK
  <2> QED
    BY <1>1, <2>1 DEF IdleOK, Frame
<1>5. ToldOK'
  BY ToldStep
<1>6. OldOK'
  <2> SUFFICES ASSUME NEW e \in old.rows
               PROVE  /\ rows'[e].ver > 0 /\ rows'[e].dead
                      /\ \A d \in Conn : Resting(d, e)'
    BY <1>0 DEF OldOK
  <2>1. e \in Ent /\ rows[e].ver > 0 /\ rows[e].dead /\ \A d \in Conn : Resting(d, e)
    BY DEF OldOK, PullTypes
  <2>2. rows'[e].ver > 0 /\ rows'[e].dead
    BY <1>2, <2>1, RowsForward
  <2>3. Resting(c, e)'
    BY <2>1, RestingStep
  <2>4. \A d \in Conn \ {c} : Resting(d, e)'
    BY <1>1, <2>1, RestingFrame
  <2> QED
    BY <2>2, <2>3, <2>4
<1>7. FreshOK'
  <2> SUFFICES ASSUME NEW l \in Fresh'
               PROVE  /\ l.ent \notin old.rows
                      /\ l.ver <= rows'[l.ent].ver
                      /\ l.op = "delete" => rows'[l.ent].dead
    BY <1>0 DEF FreshOK
  <2>1. CASE l \in log
    <3>1. l \in Fresh /\ l.ent \in Ent /\ l.ver \in Nat
      BY <1>0, <1>1, <2>1 DEF Fresh, TypeOK, Logged
    <3> QED
      BY <1>2, <3>1, RowsForward DEF FreshOK
  <2>2. CASE l \notin log
    <3>1. Commit(c) /\ l \in wlog[c]
      BY <2>2, NoCommit, CommitFacts DEF Fresh
    <3>2. /\ l.ent \in Ent /\ wr[c][l.ent].ver > 0 /\ l.ver <= rows'[l.ent].ver
          /\ rows'[l.ent] = wr[c][l.ent]
      BY <3>1, CommitFacts
    <3>3. l.op = "delete" => wr[c][l.ent].dead
      BY <3>1 DEF ToldOK, ToldOf
    <3>4. l.ent \notin old.rows
      BY <3>2 DEF OldOK, Resting
    <3> QED
      BY <3>2, <3>3, <3>4
  <2> QED
    BY <2>1, <2>2
<1>8. AheadOK' /\ FreshRecord'
  BY <1>0, <1>2 DEF AheadOK, FreshRecord, Items, Fresh
<1>9. ASSUME NEW e \in Ent, NEW record \in Copied, HonestOf(e, record)
      PROVE  HonestOf(e, record)'
  BY <1>2, <1>9, RowMoves DEF HonestOf, Copied
<1>10. ReplyHonest' /\ CopyHonest'
  <2>1. /\ \A x \in reply : x.change.ent \in Ent /\ x.record \in Copied
        /\ \A e \in Ent : copy[e] \in Copied
    BY DEF PullTypes, Logged
  <2> QED
    BY <1>0, <1>9, <2>1 DEF ReplyHonest, CopyHonest, HonestOf
<1> QED
  BY <1>1, <1>3, <1>4, <1>5, <1>6, <1>7, <1>8, <1>10

-----------------------------------------------------------------------------
(* The device.                                                              *)

\* What the device does leaves the engine as it is.
LEMMA DeviceFrame ==
    ASSUME RetentionInv, UNCHANGED <<content, rows, log, ledger, seq, tx, own, gc>>,
           crashes' \in Nat
    PROVE  /\ EngineInv' /\ IdleOK' /\ ToldOK' /\ OldOK' /\ FreshOK'
           /\ Fresh' = Fresh
<1>0. /\ UNCHANGED <<old, job, ages, purged>>
      /\ UNCHANGED <<pc, batch, seen, parent, stm, run, rets, res, wr, wlog, wled>>
  BY DEF gc, tx, own
<1>1. EngineInv'
  <2>1. \A o \in OpId : ledger'[o] = ledger[o]
    OBVIOUS
  <2>2. ledger' \in [OpId -> Result] /\ rows \in [Ent -> Row]
    BY DEF RetentionInv, EngineInv, TypeOK
  <2>3. PICK gone \in SUBSET Ent : gone = {}
    OBVIOUS
  <2>4. rows' = [e \in Ent |-> IF e \in gone THEN NoRow ELSE rows[e]]
    BY <2>2, <2>3
  <2>5. \A c \in Conn, e \in gone : wr[c][e].ver = 0
    BY <2>3
  <2>6. EngineInv /\ log' \subseteq log /\ UNCHANGED <<content, seq, tx, own>>
    BY DEF RetentionInv
  <2> QED
    BY <2>1, <2>2, <2>4, <2>5, <2>6, PurgeKeeps
<1>2. IdleOK' /\ ToldOK'
  BY <1>0 DEF RetentionInv, IdleOK, ToldOK, ToldOf
<1>3. OldOK'
  BY <1>0 DEF RetentionInv, OldOK, Resting, Self, Op, Cur
<1>4. FreshOK' /\ Fresh' = Fresh
  BY <1>0 DEF RetentionInv, FreshOK, Fresh
<1> QED
  BY <1>1, <1>2, <1>3, <1>4

LEMMA VarsFrame ==
    UNCHANGED vars => UNCHANGED <<content, rows, log, ledger, seq, crashes, tx, own>>
BY DEF vars, tx, own

LEMMA RetentionRead ==
    ASSUME RetentionInv, ReadPage, UNCHANGED gc
    PROVE  RetentionInv'
<1> USE DEF RetentionInv
<1>1. /\ page = {} /\ reply = {} /\ asking' = TRUE
      /\ UNCHANGED <<cursor, reply, copy, old, job, ages, purged, rows, seq>>
  BY DEF ReadPage, AheadOK, gc, vars
<1>2. page' \subseteq Ahead
  BY DEF ReadPage, Pages
<1>3. crashes' \in Nat
  BY DEF ReadPage, vars, EngineInv, TypeOK
<1>4. EngineInv' /\ IdleOK' /\ ToldOK' /\ OldOK' /\ FreshOK' /\ Fresh' = Fresh
  BY <1>3, VarsFrame, DeviceFrame DEF ReadPage
<1>5. PullTypes'
  <2>1. Ahead \subseteq Logged
    BY DEF Ahead, EngineInv, TypeOK
  <2> QED
    BY <1>1, <1>2, <2>1 DEF PullTypes
<1>6. Items' = page'
  BY <1>1 DEF Items
<1>7. AheadOK'
  <2>1. \A l \in Ahead : l \in log /\ l.seq > cursor /\ l.seq \in Nat
    BY DEF Ahead, EngineInv, TypeOK, Logged
  <2>2. Ahead \subseteq Fresh
    <3>1. ASSUME NEW l \in old.log PROVE ~(l.seq > cursor)
      BY DEF AheadOK, PullTypes, Logged
    <3> QED
      BY <2>1, <3>1 DEF Fresh
  <2> QED
    BY <1>1, <1>2, <1>4, <1>6, <2>1, <2>2 DEF AheadOK
<1>8. FreshRecord' /\ ReplyHonest' /\ CopyHonest'
  BY <1>1 DEF FreshRecord, ReplyHonest, CopyHonest, HonestOf
<1> QED
  BY <1>4, <1>5, <1>7, <1>8

\* The record sent for a change that is not old is its row, or says of it what
\* the row says.
LEMMA RecordHonest ==
    ASSUME RetentionInv, NEW l \in Fresh
    PROVE  /\ Record(l) \in Copied /\ Record(l).ver >= l.ver
           /\ HonestOf(l.ent, Record(l))
<1> USE DEF RetentionInv
<1>1. l \in Logged /\ l.ent \in Ent /\ l.ver \in Nat /\ l.op \in {"upsert", "delete"}
  BY DEF Fresh, EngineInv, TypeOK, Logged
<1>2. rows[l.ent].ver \in Nat /\ rows[l.ent].dead \in BOOLEAN
  BY <1>1 DEF EngineInv, TypeOK, Row
<1>3. l.ver <= rows[l.ent].ver /\ (l.op = "delete" => rows[l.ent].dead)
  BY DEF FreshOK
<1>4. CASE l.op = "upsert"
  BY <1>1, <1>2, <1>3, <1>4 DEF Record, HonestOf, Copied
<1>5. CASE l.op = "delete"
  <2>1. Record(l).ver = l.ver /\ Record(l).dead = TRUE /\ Record(l) \in Copied
    BY <1>1, <1>5 DEF Record, Copied
  <2>2. rows[l.ent].dead = TRUE
    BY <1>2, <1>3, <1>5
  <2>3. Record(l).dead = rows[l.ent].dead
    BY <2>1, <2>2
  <2>4. Record(l).ver <= rows[l.ent].ver /\ Record(l).ver >= l.ver
    BY <1>1, <1>2, <1>3, <2>1
  <2> QED
    BY <2>1, <2>3, <2>4 DEF HonestOf
<1> QED
  BY <1>1, <1>4, <1>5

LEMMA RetentionLoad ==
    ASSUME RetentionInv, LoadRecord, UNCHANGED gc
    PROVE  RetentionInv' /\ Items' = Items
<1> USE DEF RetentionInv
<1>1. PICK l \in page : /\ reply' = reply \cup {[change |-> l, record |-> Record(l)]}
                        /\ page' = page \ {l}
  BY DEF LoadRecord
<1>2. UNCHANGED <<asking, cursor, copy, old, job, ages, purged, rows, seq>>
  BY DEF LoadRecord, gc, vars
<1>3. EngineInv' /\ IdleOK' /\ ToldOK' /\ OldOK' /\ FreshOK' /\ Fresh' = Fresh
  <2>1. UNCHANGED vars
    BY DEF LoadRecord
  <2>2. crashes' \in Nat
    BY <2>1 DEF vars, EngineInv, TypeOK
  <2> QED
    BY <2>1, <2>2, VarsFrame, DeviceFrame
<1>4. PICK new : new = [change |-> l, record |-> Record(l)]
  OBVIOUS
<1>5. new.change = l /\ new.record = Record(l) /\ reply' = reply \cup {new}
  BY <1>1, <1>4
<1>6. l \in Fresh /\ l \in Logged
  BY DEF AheadOK, Items, PullTypes
<1>7. /\ Record(l) \in Copied /\ Record(l).ver >= l.ver
      /\ HonestOf(l.ent, Record(l))
  BY <1>6, RecordHonest
<1>8. PullTypes'
  <2>1. new \in [change : Logged, record : Copied]
    BY <1>4, <1>6, <1>7
  <2>2. IsFiniteSet(reply')
    BY <1>5, FS_AddElement DEF PullTypes
  <2> QED
    BY <1>1, <1>2, <1>5, <2>1, <2>2 DEF PullTypes
<1>9. Items' = Items
  BY <1>1, <1>5 DEF Items
<1>10. AheadOK'
  <2>1. asking
    BY DEF AheadOK
  <2> QED
    BY <1>2, <1>3, <1>9, <2>1 DEF AheadOK
<1>11. FreshRecord' /\ ReplyHonest' /\ CopyHonest'
  BY <1>2, <1>5, <1>7 DEF FreshRecord, ReplyHonest, CopyHonest, HonestOf
<1> QED
  BY <1>3, <1>8, <1>9, <1>10, <1>11

\* The newest record on offer is one of them.
LEMMA NewestOffered ==
    ASSUME PullTypes, NEW e \in Ent
    PROVE  /\ Newest(Offered(e)) \in Offered(e)
           /\ \A q \in Offered(e) : q.ver <= Newest(Offered(e)).ver
           /\ Offered(e) \subseteq Copied
<1> DEFINE R == {y \in reply : y.change.ent = e}
           f == [y \in R |-> y.record.ver]
<1>0. /\ copy[e] \in Copied /\ \A y \in R : y.record \in Copied
      /\ IsFiniteSet(R) /\ f \in [R -> Nat]
  <2>1. IsFiniteSet(R)
    BY FS_Subset DEF PullTypes
  <2> QED
    BY <2>1 DEF PullTypes, Copied
<1>1. Offered(e) \subseteq Copied
  BY <1>0 DEF Offered
<1>2. \E r \in Offered(e) : \A q \in Offered(e) : q.ver <= r.ver
  <2>1. CASE R = {}
    <3>1. Offered(e) = {copy[e]}
      BY <2>1 DEF Offered
    <3> QED
      BY <1>0, <3>1 DEF Copied
  <2>2. CASE R # {}
    <3>1. PICK x \in R : \A y \in R : f[y] <= f[x]
      <4> HIDE DEF R, f
      <4> QED
        BY <1>0, <2>2, GreatestOf
    <3>2. \A y \in R : y.record.ver <= x.record.ver
      BY <3>1
    <3>3. x.record \in Offered(e) /\ copy[e] \in Offered(e)
      BY DEF Offered
    <3>4. \A q \in Offered(e) : q = copy[e] \/ q.ver <= x.record.ver
      BY <3>2 DEF Offered
    <3>5. CASE copy[e].ver <= x.record.ver
      BY <3>3, <3>4, <3>5
    <3>6. CASE ~(copy[e].ver <= x.record.ver)
      <4>1. x.record.ver \in Nat /\ copy[e].ver \in Nat /\ \A q \in Offered(e) : q.ver \in Nat
        BY <1>0, <1>1 DEF Copied
      <4> QED
        BY <3>3, <3>4, <3>6, <4>1
    <3> QED
      BY <3>5, <3>6
  <2> QED
    BY <2>1, <2>2
<1> QED
  BY <1>1, <1>2 DEF Newest

\* The cursor moves to the last change of the reply, if there is one.
LEMMA CursorMoves ==
    ASSUME PullTypes
    PROVE  /\ reply = {} => NextCursor = cursor
           /\ reply # {} => /\ \E x \in reply : NextCursor = x.change.seq
                            /\ \A x \in reply : x.change.seq <= NextCursor
<1> DEFINE f == [x \in reply |-> x.change.seq]
           numbers == {x.change.seq : x \in reply}
<1>1. CASE reply # {}
  <2>1. f \in [reply -> Nat] /\ IsFiniteSet(reply)
    BY DEF PullTypes, Logged
  <2>2. PICK x \in reply : \A y \in reply : f[y] <= f[x]
    <3> HIDE DEF f
    <3> QED
      BY <1>1, <2>1, GreatestOf
  <2>3. \E n \in numbers : \A m \in numbers : m <= n
    BY <2>2
  <2>4. NextCursor = CHOOSE n \in numbers : \A m \in numbers : m <= n
    BY <1>1 DEF NextCursor
  <2>5. NextCursor \in numbers /\ \A m \in numbers : m <= NextCursor
    <3> HIDE DEF numbers
    <3> QED
      BY <2>3, <2>4
  <2> QED
    BY <1>1, <2>5
<1>2. CASE reply = {}
  BY <1>2 DEF NextCursor
<1> QED
  BY <1>1, <1>2

LEMMA RetentionDeliver ==
    ASSUME RetentionInv, Deliver, UNCHANGED gc
    PROVE  RetentionInv' /\ cursor <= cursor' /\ cursor \in Nat /\ cursor' \in Nat
<1> USE DEF RetentionInv
<1>1. /\ page = {} /\ page' = {} /\ reply' = {} /\ asking' = FALSE
      /\ cursor' = NextCursor
      /\ copy' = [e \in Ent |-> Newest(Offered(e))]
      /\ UNCHANGED <<old, job, ages, purged, rows, seq>>
  BY DEF Deliver, gc, vars
<1>2. EngineInv' /\ IdleOK' /\ ToldOK' /\ OldOK' /\ FreshOK' /\ Fresh' = Fresh
  <2>1. UNCHANGED vars
    BY DEF Deliver
  <2>2. crashes' \in Nat
    BY <2>1 DEF vars, EngineInv, TypeOK
  <2> QED
    BY <2>1, <2>2, VarsFrame, DeviceFrame
<1>3. cursor \in Nat /\ seq \in Nat
  BY DEF PullTypes, EngineInv, TypeOK
<1>4. cursor' \in Nat /\ cursor <= cursor' /\ cursor' <= seq
  <2>1. CASE reply = {}
    BY <1>1, <2>1, CursorMoves DEF PullTypes
  <2>2. CASE reply # {}
    <3>1. PICK x \in reply : cursor' = x.change.seq
      BY <1>1, <2>2, CursorMoves
    <3>2. x.change \in Items /\ x.change \in log
      BY DEF Items, AheadOK, Fresh
    <3>3. x.change.seq > cursor /\ x.change.seq <= seq /\ x.change.seq \in Nat
      BY <3>2 DEF AheadOK, EngineInv, TxInv, SeqOK, PullTypes, Logged
    <3> QED
      BY <1>3, <3>1, <3>3
  <2> QED
    BY <2>1, <2>2
<1>5. \A e \in Ent : copy'[e] \in Offered(e) /\ copy'[e] \in Copied
  BY <1>1, NewestOffered
<1>6. PullTypes'
  <2>1. copy' \in [Ent -> Copied]
    BY <1>1, <1>5
  <2>2. IsFiniteSet(reply')
    BY <1>1, FS_EmptySet
  <2> QED
    BY <1>1, <1>4, <2>1, <2>2 DEF PullTypes
<1>7. AheadOK'
  <2>1. Items' = {}
    BY <1>1 DEF Items
  <2>2. \A l \in old.log : l.seq <= cursor'
    <3>1. \A l \in old.log : l.seq <= cursor /\ l.seq \in Nat
      BY DEF AheadOK, PullTypes, Logged
    <3> QED
      BY <1>3, <1>4, <3>1
  <2> QED
    BY <1>1, <2>1, <2>2 DEF AheadOK
<1>8. FreshRecord' /\ ReplyHonest'
  BY <1>1 DEF FreshRecord, ReplyHonest
<1>9. CopyHonest'
  <2> SUFFICES ASSUME NEW e \in Ent \ purged PROVE HonestOf(e, copy'[e])
    BY <1>1 DEF CopyHonest, HonestOf
  <2>1. \A q \in Offered(e) : HonestOf(e, q)
    BY DEF Offered, CopyHonest, ReplyHonest, HonestOf
  <2> QED
    BY <1>5, <2>1
<1> QED
  BY <1>2, <1>3, <1>4, <1>6, <1>7, <1>8, <1>9

LEMMA RetentionLose ==
    ASSUME RetentionInv, Lose, UNCHANGED gc
    PROVE  RetentionInv'
<1> USE DEF RetentionInv
<1>1. /\ page' = {} /\ reply' = {} /\ asking' = FALSE
      /\ UNCHANGED <<cursor, copy, old, job, ages, purged, rows, seq>>
  BY DEF Lose, gc, db
<1>2. EngineInv' /\ IdleOK' /\ ToldOK' /\ OldOK' /\ FreshOK' /\ Fresh' = Fresh
  <2>1. UNCHANGED <<content, rows, log, ledger, seq, tx, own>>
    BY DEF Lose, db
  <2>2. crashes' \in Nat
    BY DEF Lose, EngineInv, TypeOK
  <2> QED
    BY <2>1, <2>2, DeviceFrame
<1>3. PullTypes'
  BY <1>1, FS_EmptySet DEF PullTypes
<1>4. AheadOK'
  BY <1>1 DEF AheadOK, Items
<1>5. FreshRecord' /\ ReplyHonest' /\ CopyHonest'
  BY <1>1 DEF FreshRecord, ReplyHonest, CopyHonest, HonestOf
<1> QED
  BY <1>2, <1>3, <1>4, <1>5

-----------------------------------------------------------------------------
(* The cleanup.                                                             *)

Targets == Kind \cup {"sync_changes", "processed_operations"}

LEMMA JobTypes == Jobs \in Seq(Targets)
<1>1. PICK t : t = Tables
  OBVIOUS
<1>2. t \in Seq(Targets)
  <2>1. PICK n \in Nat : t \in [1 .. n -> Kind]
    BY <1>1, TablesAssumption, SeqDef
  <2>2. t \in [1 .. n -> Targets]
    BY <2>1 DEF Targets
  <2> QED
    BY <2>2, SeqDef
<1>3. <<"sync_changes", "processed_operations">> \in Seq(Targets)
  BY DEF Targets
<1> QED
  BY <1>1, <1>2, <1>3, ConcatProperties DEF Jobs

\* Between requests, and with the device up to date, what is committed grows
\* old together.
LEMMA RetentionAge ==
    ASSUME RetentionInv, Age
    PROVE  RetentionInv'
<1> USE DEF RetentionInv
<1>1. /\ ~asking /\ Ahead = {} /\ page = {} /\ reply = {}
      /\ old'.rows = Tombstones /\ old'.log = log
      /\ old'.ops = {o \in OpId : ledger[o] # NoRes}
      /\ old' = [rows |-> old'.rows, log |-> old'.log, ops |-> old'.ops]
      /\ UNCHANGED <<vars, asking, cursor, page, reply, copy, job, purged>>
      /\ ages' = ages + 1
  BY DEF Age, pull, AheadOK
<1>2. UNCHANGED <<content, rows, log, seq, ledger, crashes, pc, batch, seen, parent,
                  stm, run, rets, res, wr, wlog, wled>>
  BY <1>1 DEF vars
<1>3. EngineInv'
  BY <1>1, EngineStep
<1>4. PullTypes'
  <2>1. Tombstones \subseteq Ent /\ log \subseteq Logged
    BY DEF Tombstones, EngineInv, TypeOK
  <2>2. old' \in [rows : SUBSET Ent, log : SUBSET Logged, ops : SUBSET OpId]
    <3>1. /\ old'.rows \in SUBSET Ent /\ old'.log \in SUBSET Logged
          /\ old'.ops \in SUBSET OpId
      BY <1>1, <2>1
    <3> QED
      BY <1>1, <3>1
  <2> QED
    BY <1>1, <1>2, <2>2 DEF PullTypes
<1>5. IdleOK' /\ ToldOK' /\ FreshRecord' /\ ReplyHonest' /\ CopyHonest'
  BY <1>1, <1>2 DEF IdleOK, ToldOK, ToldOf, FreshRecord, ReplyHonest, CopyHonest, HonestOf
<1>6. OldOK'
  <2> SUFFICES ASSUME NEW e \in Tombstones, NEW c \in Conn
               PROVE  rows[e].ver > 0 /\ rows[e].dead /\ Resting(c, e)'
    BY <1>1, <1>2 DEF OldOK, Tombstones
  <2>1. e \in Ent /\ rows[e].ver > 0 /\ rows[e].dead
    BY DEF Tombstones
  <2>2. pc[c] = "idle" /\ stm[c] = <<>> /\ run[c].left = {} /\ wr[c][e].ver = 0
    BY <2>1 DEF Age, EngineInv, ControlOK, ControlOf, IdleOK
  <2> QED
    BY <1>2, <2>1, <2>2 DEF Resting
<1>7. Fresh' = {}
  BY <1>1, <1>2 DEF Fresh
<1>8. FreshOK' /\ AheadOK'
  <2>1. \A l \in log : l.seq <= cursor
    BY <1>1 DEF Ahead, EngineInv, TypeOK, PullTypes, Logged
  <2> QED
    BY <1>1, <1>2, <1>7, <2>1 DEF FreshOK, AheadOK, Items
<1> QED
  BY <1>3, <1>4, <1>5, <1>6, <1>8

\* A statement of the cleanup: rows that are old, and that nobody is writing,
\* may go, and changes that are old.
LEMMA PurgeRetains ==
    ASSUME RetentionInv, NEW gone \in SUBSET old.rows,
           rows' = [e \in Ent |-> IF e \in gone THEN NoRow ELSE rows[e]],
           log' \subseteq log, log \ old.log \subseteq log',
           old' \in [rows : SUBSET Ent, log : SUBSET Logged, ops : SUBSET OpId],
           old'.rows = old.rows \ gone,
           old'.log = old.log \/ (old'.log = {} /\ log' = log \ old.log),
           purged' = purged \cup gone,
           ledger' \in [OpId -> Result],
           \A o \in OpId : ledger'[o] = ledger[o] \/ ledger'[o] = NoRes,
           crashes' \in Nat, job' \in Seq(Targets),
           UNCHANGED <<content, seq, tx, own, pull, ages>>
    PROVE  RetentionInv'
<1> USE DEF RetentionInv
<1>0. /\ gone \subseteq Ent
      /\ UNCHANGED <<pc, batch, seen, parent, stm, run, rets, res, wr, wlog, wled>>
      /\ UNCHANGED <<asking, cursor, page, reply, copy>>
      /\ \A e \in Ent \ gone : rows'[e] = rows[e]
  BY DEF tx, own, pull, PullTypes
<1>1. EngineInv'
  <2>1. \A c \in Conn, e \in gone : wr[c][e].ver = 0
    BY DEF OldOK, Resting
  <2>2. UNCHANGED <<content, seq, tx, own>>
    OBVIOUS
  <2> QED
    BY <1>0, <2>1, <2>2, PurgeKeeps
<1>2. PullTypes'
  BY <1>0 DEF PullTypes, Targets
<1>3. IdleOK' /\ ToldOK'
  BY <1>0 DEF IdleOK, ToldOK, ToldOf
<1>4. OldOK'
  <2>1. \A e \in old'.rows : e \in Ent \ gone /\ e \in old.rows
    BY DEF PullTypes
  <2> QED
    BY <1>0, <2>1 DEF OldOK, Resting, Self, Op, Cur
<1>5. Fresh' = Fresh
  BY DEF Fresh
<1>6. FreshOK'
  <2>1. \A l \in Fresh : l.ent \in Ent /\ l.ent \notin old.rows
    BY DEF FreshOK, Fresh, EngineInv, TypeOK, Logged
  <2> QED
    BY <1>0, <1>5, <2>1 DEF FreshOK
<1>7. AheadOK' /\ FreshRecord'
  BY <1>0, <1>5 DEF AheadOK, Items, FreshRecord
<1>8. ReplyHonest' /\ CopyHonest'
  <2>1. \A x \in reply : x.change.ent \in Ent
    BY DEF PullTypes, Logged
  <2> QED
    BY <1>0, <2>1 DEF ReplyHonest, CopyHonest, HonestOf
<1> QED
  BY <1>1, <1>2, <1>3, <1>4, <1>6, <1>7, <1>8

LEMMA RetentionCleanup ==
    ASSUME RetentionInv, Cleanup \/ CleanupFails
    PROVE  RetentionInv'
<1> USE DEF RetentionInv
<1>0. /\ old \in [rows : SUBSET Ent, log : SUBSET Logged, ops : SUBSET OpId]
      /\ rows \in [Ent -> Row] /\ ledger \in [OpId -> Result] /\ crashes \in Nat
      /\ job \in Seq(Targets)
  BY DEF PullTypes, EngineInv, TypeOK, Targets
<1>1. PICK none \in SUBSET old.rows : none = {}
  OBVIOUS
<1>2. rows = [e \in Ent |-> IF e \in none THEN NoRow ELSE rows[e]] /\ old.rows = old.rows \ none
  BY <1>0, <1>1
<1>3. job # <<>> => Tail(job) \in Seq(Targets)
  BY <1>0, HeadTailProperties
<1>4. CASE StartCleanup
  <2>1. /\ UNCHANGED <<content, rows, log, seq, ledger, crashes, tx, own, pull, old, ages, purged>>
        /\ job' \in Seq(Targets)
    BY <1>4, JobTypes, VarsFrame DEF StartCleanup
  <2> QED
    BY <1>0, <1>1, <1>2, <2>1, PurgeRetains
<1>5. CASE PurgeTable
  <2>1. PICK gone \in SUBSET old.rows : gone = {e \in old.rows : KindOf[e] = Head(job)}
    OBVIOUS
  <2>2. /\ rows' = [e \in Ent |-> IF e \in gone THEN NoRow ELSE rows[e]]
        /\ purged' = purged \cup gone
        /\ old' = [old EXCEPT !.rows = @ \ gone]
        /\ job # <<>> /\ job' = Tail(job)
        /\ UNCHANGED <<content, log, seq, ledger, crashes, tx, own, pull, ages>>
    BY <1>5, <2>1 DEF PurgeTable
  <2>3. /\ old' \in [rows : SUBSET Ent, log : SUBSET Logged, ops : SUBSET OpId]
        /\ old'.rows = old.rows \ gone /\ old'.log = old.log
    BY <1>0, <2>2
  <2> QED
    BY <1>0, <1>3, <2>2, <2>3, PurgeRetains
<1>6. CASE PurgeLog
  <2>1. /\ log' = log \ old.log
        /\ old' = [old EXCEPT !.log = {}]
        /\ job # <<>> /\ job' = Tail(job)
        /\ UNCHANGED <<content, rows, seq, ledger, crashes, tx, own, pull, ages, purged>>
    BY <1>6 DEF PurgeLog
  <2>2. /\ old' \in [rows : SUBSET Ent, log : SUBSET Logged, ops : SUBSET OpId]
        /\ old'.rows = old.rows /\ old'.log = {}
    BY <1>0, <2>1
  <2> QED
    BY <1>0, <1>1, <1>2, <1>3, <2>1, <2>2, PurgeRetains
<1>7. CASE PurgeLedger
  <2>1. /\ ledger' = [o \in OpId |-> IF o \in old.ops THEN NoRes ELSE ledger[o]]
        /\ old' = [old EXCEPT !.ops = {}]
        /\ job # <<>> /\ job' = Tail(job)
        /\ UNCHANGED <<content, rows, log, seq, crashes, tx, own, pull, ages, purged>>
    BY <1>7 DEF PurgeLedger
  <2>2. /\ old' \in [rows : SUBSET Ent, log : SUBSET Logged, ops : SUBSET OpId]
        /\ old'.rows = old.rows /\ old'.log = old.log
    BY <1>0, <2>1
  <2>3. /\ ledger' \in [OpId -> Result]
        /\ \A o \in OpId : ledger'[o] = ledger[o] \/ ledger'[o] = NoRes
    BY <1>0, <2>1, NoResType
  <2> QED
    BY <1>0, <1>1, <1>2, <1>3, <2>1, <2>2, <2>3, PurgeRetains
<1>8. CASE CleanupFails
  <2>1. /\ UNCHANGED <<content, rows, log, seq, ledger, tx, own, pull, old, ages, purged>>
        /\ crashes' \in Nat /\ job' \in Seq(Targets)
    BY <1>0, <1>8, EmptySeq DEF CleanupFails, db
  <2> QED
    BY <1>0, <1>1, <1>2, <2>1, PurgeRetains
<1> QED
  BY <1>4, <1>5, <1>6, <1>7, <1>8 DEF Cleanup

-----------------------------------------------------------------------------
(* The theorems, whatever the order of commits.                             *)

LEMMA RetentionInitInv == RetentionInit => RetentionInv
<1> SUFFICES ASSUME RetentionInit PROVE RetentionInv
  OBVIOUS
<1>1. Init /\ EngineInv
  BY HistoryInit DEF RetentionInit, PullInit, HistoryInv
<1>2. NoCopy \in Copied /\ NoCopy.ver = 0 /\ NoCopy.dead = FALSE
      /\ NoRow.ver = 0 /\ NoRow.dead = FALSE
  BY DEF NoCopy, Copied, NoRow
<1>3. PullTypes
  <2>1. /\ asking = FALSE /\ cursor = 0 /\ seq = 0 /\ page = {} /\ reply = {} /\ ages = 0
        /\ copy = [e \in Ent |-> NoCopy] /\ job = <<>> /\ purged = {}
        /\ old = [rows |-> {}, log |-> {}, ops |-> {}]
    BY <1>1 DEF RetentionInit, PullInit, Init
  <2>2. copy \in [Ent -> Copied]
    BY <1>2, <2>1
  <2>3. job \in Seq(Kind \cup {"sync_changes", "processed_operations"})
    BY <2>1, EmptySeq
  <2>4. old \in [rows : SUBSET Ent, log : SUBSET Logged, ops : SUBSET OpId]
    BY <2>1
  <2>5. asking \in BOOLEAN
    BY <1>1, Zenon DEF RetentionInit, PullInit
  <2>6. page \subseteq Logged /\ IsFiniteSet(reply)
        /\ reply \subseteq [change : Logged, record : Copied]
    BY <2>1, FS_EmptySet
  <2> QED
    BY <2>1, <2>2, <2>3, <2>4, <2>5, <2>6 DEF PullTypes
<1>4. IdleOK /\ ToldOK
  BY <1>1, <1>2 DEF Init, IdleOK, ToldOK, ToldOf, Idle
<1>5. OldOK /\ FreshOK /\ AheadOK
  BY <1>1 DEF RetentionInit, PullInit, Init, OldOK, FreshOK, AheadOK, Fresh, Items
<1>6. FreshRecord /\ ReplyHonest /\ CopyHonest
  <2>1. \A e \in Ent : copy[e] = NoCopy /\ rows[e] = NoRow
    BY <1>1 DEF RetentionInit, PullInit, Init
  <2>2. NoCopy.dead = NoRow.dead
    BY DEF NoCopy, NoRow
  <2>3. CopyHonest
    BY <1>2, <2>1, <2>2 DEF CopyHonest
  <2> QED
    BY <2>3 DEF RetentionInit, PullInit, FreshRecord, ReplyHonest
<1> QED
  BY <1>1, <1>3, <1>4, <1>5, <1>6 DEF RetentionInv

LEMMA RetentionStutter == RetentionInv /\ UNCHANGED allVars => RetentionInv'
<1> SUFFICES ASSUME RetentionInv, UNCHANGED allVars PROVE RetentionInv'
  OBVIOUS
<1> USE DEF RetentionInv
<1>0. /\ UNCHANGED <<asking, cursor, page, reply, copy, old, job, ages, purged>>
      /\ UNCHANGED vars
  BY DEF allVars, pull, gc
<1>1. UNCHANGED <<content, rows, log, ledger, seq, tx, own, gc>> /\ crashes' \in Nat
  BY <1>0, VarsFrame DEF allVars, vars, EngineInv, TypeOK
<1>2. EngineInv' /\ IdleOK' /\ ToldOK' /\ OldOK' /\ FreshOK' /\ Fresh' = Fresh
  BY <1>1, DeviceFrame
<1>3. PullTypes' /\ AheadOK' /\ FreshRecord' /\ ReplyHonest' /\ CopyHonest'
  BY <1>0, <1>1, <1>2 DEF PullTypes, AheadOK, Items, FreshRecord, ReplyHonest, CopyHonest, HonestOf
<1> QED
  BY <1>2, <1>3

LEMMA RetentionStep == RetentionInv /\ [RetentionNext]_allVars => RetentionInv'
<1>1. ASSUME RetentionInv, NEW c \in Conn, Step(c), UNCHANGED <<pull, gc>>
      PROVE  RetentionInv'
  BY <1>1, RetentionEngine
<1> QED
  BY <1>1, RetentionStutter, RetentionRead, RetentionLoad, RetentionDeliver, RetentionLose,
     RetentionAge, RetentionCleanup
  DEF RetentionNext, PullNext, Asking, Next, Step

LEMMA RetentionInvariant == RetentionSpec => []RetentionInv
BY RetentionInitInv, RetentionStep, PTL DEF RetentionSpec

\* FreshRecord: Pull reads the record after the change it is sent for, outside
\* any transaction; the record is still never older than the change, whatever
\* is pushed, rolled back or cleaned up in between.
THEOREM RecordsFresh == RetentionSpec => []FreshRecord
<1>1. RetentionInv => FreshRecord
  BY DEF RetentionInv
<1> QED
  BY <1>1, RetentionInvariant, PTL

\* CopyHonest: what a device has taken from Pull's replies is what the server
\* committed, in a version it had and with the tombstone of that version, until
\* the cleanup deletes the row.
THEOREM CopiesHonest == RetentionSpec => []CopyHonest
<1>1. RetentionInv => CopyHonest
  BY DEF RetentionInv
<1> QED
  BY <1>1, RetentionInvariant, PTL

-----------------------------------------------------------------------------
(* What the device knows when numbers are committed in order.               *)

\* Numbers are drawn past the device's cursor.
LEMMA PendingNumbers ==
    ASSUME RetentionInv, NEW c \in Conn, Step(c), NEW d \in Conn, NEW m \in wlog'[d]
    PROVE  m \in wlog[d] \/ m.seq > cursor
<1> USE DEF RetentionInv, EngineInv
<1>1. seq \in Nat /\ cursor \in Nat /\ cursor <= seq
  BY DEF TypeOK, PullTypes
<1>2. CASE \E r \in rets[c] : LogChange(c, r)
  <2>1. PICK r \in rets[c] : LogChange(c, r)
    BY <1>2
  <2> DEFINE new == [seq |-> seq + 1, ent |-> r.ent, op |-> r.op, ver |-> r.ver, by |-> r.by]
  <2>2. wlog'[d] = wlog[d] \/ wlog'[d] = wlog[d] \cup {new}
    BY <2>1 DEF LogChange, TypeOK
  <2>3. new.seq > cursor
    BY <1>1
  <2> QED
    BY <2>2, <2>3
<1>3. CASE wlog' = wlog \/ Released(c)
  BY <1>3 DEF Released, Set, TypeOK
<1> QED
  BY <1>2, <1>3 DEF Step, Proceed, Begin, Replay, Lookup, Fetch, FetchParent, Insert, Scan,
     Touch, StoreLedger, Commit, Fail, Victim, Crash, own

LEMMA KnownEngine ==
    ASSUME RetentionInv, CommitsInOrder, KnownInv,
           NEW c \in Conn, Step(c), UNCHANGED <<pull, gc>>
    PROVE  KnownInv'
<1> USE DEF RetentionInv, KnownInv
<1>0. UNCHANGED <<asking, cursor, page, reply, copy, old, job, ages, purged>>
  BY DEF pull, gc
<1>1. \/ log' = log /\ rows' = rows
      \/ /\ Commit(c) /\ log' = log \cup wlog[c]
         /\ \A e \in Ent : \A v \in rows[e].ver + 1 .. rows'[e].ver :
               \E l \in wlog[c] : l.ent = e /\ l.ver = v
  BY NoCommit, CommitFacts
<1>2. /\ \A l \in log : l.seq \in Nat
      /\ \A l \in wlog[c] : l.seq \in Nat /\ l.seq > cursor
      /\ cursor \in Nat
  BY DEF EngineInv, TypeOK, Logged, PullTypes, PendingAhead
<1>3. CursorComplete'
  BY <1>0, <1>1, <1>2 DEF CursorComplete
<1>4. Gapless'
  <2>1. Items \subseteq log
    BY DEF AheadOK, Fresh
  <2>2. \A l \in wlog[c], m \in Items : ~(l.seq <= m.seq)
    BY <1>2, <2>1 DEF CommitsInOrder
  <2>3. Items' = Items
    BY <1>0 DEF Items
  <2> QED
    BY <1>0, <1>1, <2>2, <2>3 DEF Gapless
<1>5. PendingAhead'
  BY <1>0, PendingNumbers DEF PendingAhead
<1>6. TopKnown'
  <2> SUFFICES ASSUME NEW e \in Ent \ purged
               PROVE  \/ rows'[e].ver <= copy[e].ver
                      \/ \E l \in log' : l.ent = e /\ l.ver = rows'[e].ver
    BY <1>0 DEF TopKnown
  <2>1. CASE rows'[e] = rows[e]
    BY <1>1, <2>1 DEF TopKnown
  <2>2. CASE rows'[e] # rows[e]
    <3>1. Commit(c) /\ rows[e].ver < rows'[e].ver
      BY <2>2, RowMoves
    <3>2. rows[e].ver \in Nat /\ rows'[e].ver \in Nat
      BY RowsForward
    <3>3. rows'[e].ver \in rows[e].ver + 1 .. rows'[e].ver
      BY <3>1, <3>2
    <3> QED
      BY <1>1, <2>2, <3>3
  <2> QED
    BY <2>1, <2>2
<1>7. OldKnown'
  BY <1>0 DEF OldKnown
<1> QED
  BY <1>3, <1>4, <1>5, <1>6, <1>7

\* What the device does with its requests.
LEMMA KnownRead ==
    ASSUME RetentionInv, KnownInv, ReadPage, UNCHANGED gc
    PROVE  KnownInv'
<1> USE DEF RetentionInv, KnownInv
<1>1. /\ page = {} /\ reply = {} /\ reply' = {} /\ page' \in Pages
      /\ UNCHANGED <<cursor, copy, old, purged, rows, log, wlog>>
  BY DEF ReadPage, AheadOK, gc, vars
<1>2. CursorComplete' /\ PendingAhead' /\ TopKnown' /\ OldKnown'
  BY <1>1 DEF CursorComplete, PendingAhead, TopKnown, OldKnown
<1>3. Gapless'
  <2>1. Items' = page'
    BY <1>1 DEF Items
  <2>2. page' \subseteq Ahead /\ \A l \in page', m \in Ahead \ page' : l.seq < m.seq
    BY <1>1 DEF Pages
  <2>3. \A l \in Ahead : l.seq \in Nat
    BY DEF Ahead, EngineInv, TypeOK, Logged
  <2> QED
    BY <1>1, <2>1, <2>2, <2>3 DEF Gapless, Ahead
<1> QED
  BY <1>2, <1>3

LEMMA KnownLoad ==
    ASSUME RetentionInv, KnownInv, LoadRecord, UNCHANGED gc
    PROVE  KnownInv'
<1>1. /\ Items' = Items
      /\ UNCHANGED <<cursor, copy, old, purged, rows, log, wlog>>
  BY RetentionLoad DEF LoadRecord, gc, vars
<1> QED
  BY <1>1 DEF KnownInv, CursorComplete, Gapless, PendingAhead, TopKnown, OldKnown

\* The reply leaves out nothing up to its last change, so the device may move
\* its cursor there.
LEMMA KnownDeliver ==
    ASSUME RetentionInv, CommitsInOrder, KnownInv, Deliver, UNCHANGED gc
    PROVE  KnownInv'
<1> USE DEF RetentionInv, KnownInv
<1>1. /\ page = {} /\ page' = {} /\ reply' = {} /\ cursor' = NextCursor
      /\ copy' = [e \in Ent |-> Newest(Offered(e))]
      /\ UNCHANGED <<old, purged, rows, log, wlog>>
  BY DEF Deliver, gc, vars
<1>2. cursor \in Nat /\ cursor' \in Nat /\ cursor <= cursor'
  BY RetentionDeliver
<1>3. /\ \A l \in log : l.seq \in Nat /\ l.ver \in Nat /\ l.ent \in Ent
      /\ \A d \in Conn : \A m \in wlog[d] : m.seq \in Nat
      /\ \A e \in Ent : rows[e].ver \in Nat
  BY DEF EngineInv, TypeOK, Logged, Row
<1>4. \A e \in Ent : /\ \A q \in Offered(e) : q.ver \in Nat /\ q.ver <= copy'[e].ver
                     /\ copy'[e].ver \in Nat /\ copy'[e] \in Offered(e)
  BY <1>1, NewestOffered DEF Copied
<1>5. \A e \in Ent : copy[e].ver \in Nat /\ copy[e].ver <= copy'[e].ver
  BY <1>4 DEF Offered
<1>6. Items = {x.change : x \in reply} /\ Items \subseteq log /\ Items \subseteq Fresh
  BY <1>1 DEF Items, AheadOK, Fresh
<1>7. \/ cursor' = cursor
      \/ \E m \in Items : cursor' = m.seq
  BY <1>1, <1>6, CursorMoves
<1>8. CursorComplete'
  <2> SUFFICES ASSUME NEW l \in log, l.seq <= cursor'
               PROVE  l.ver <= copy'[l.ent].ver
    BY <1>1, <1>3, <1>4 DEF CursorComplete
  <2>1. CASE l.seq <= cursor
    <3>1. copy[l.ent].ver >= l.ver
      BY <2>1 DEF CursorComplete
    <3> QED
      BY <1>3, <1>4, <1>5, <3>1
  <2>2. CASE ~(l.seq <= cursor)
    <3>1. l \in Items
      BY <1>2, <1>3, <1>7, <2>2 DEF Gapless
    <3>2. PICK x \in reply : x.change = l
      BY <1>6, <3>1
    <3>3. x.record.ver >= l.ver /\ x.record \in Offered(l.ent)
      BY <3>2 DEF FreshRecord, Offered
    <3> QED
      BY <1>3, <1>4, <3>3
  <2> QED
    BY <2>1, <2>2
<1>9. Gapless'
  BY <1>1 DEF Gapless, Items
<1>10. PendingAhead'
  <2> SUFFICES ASSUME NEW d \in Conn, NEW m \in wlog[d] PROVE m.seq > cursor'
    BY <1>1 DEF PendingAhead
  <2>1. m.seq > cursor /\ \A l \in log : l.seq < m.seq
    BY DEF PendingAhead, CommitsInOrder
  <2> QED
    BY <1>2, <1>3, <1>6, <1>7, <2>1
<1>11. TopKnown'
  <2> SUFFICES ASSUME NEW e \in Ent \ purged
               PROVE  \/ rows[e].ver <= copy'[e].ver
                      \/ \E l \in log : l.ent = e /\ l.ver = rows[e].ver
    BY <1>1 DEF TopKnown
  <2>1. CASE rows[e].ver <= copy[e].ver
    BY <1>3, <1>4, <1>5, <2>1
  <2> QED
    BY <2>1 DEF TopKnown
<1>12. OldKnown'
  <2> SUFFICES ASSUME NEW e \in old.rows \ purged PROVE copy'[e].dead
    BY <1>1 DEF OldKnown
  <2>1. e \in Ent /\ copy[e].dead
    BY DEF OldKnown, PullTypes
  <2>2. \A x \in reply : x.change.ent # e
    BY <1>6 DEF FreshOK
  <2>3. Offered(e) = {copy[e]}
    BY <2>2 DEF Offered
  <2> QED
    BY <1>4, <2>1, <2>3
<1> QED
  BY <1>8, <1>9, <1>10, <1>11, <1>12

LEMMA KnownLose ==
    ASSUME KnownInv, Lose, UNCHANGED gc
    PROVE  KnownInv'
<1>1. /\ page' = {} /\ reply' = {}
      /\ UNCHANGED <<cursor, copy, old, purged, rows, log, wlog>>
  BY DEF Lose, gc, db, own
<1> QED
  BY <1>1 DEF KnownInv, CursorComplete, Gapless, Items, PendingAhead, TopKnown, OldKnown

\* A tombstone grows old when the device has it.
LEMMA KnownAge ==
    ASSUME RetentionInv, KnownInv, Age
    PROVE  KnownInv'
<1> USE DEF RetentionInv, KnownInv
<1>1. /\ Ahead = {} /\ old'.rows = Tombstones
      /\ UNCHANGED <<cursor, page, reply, copy, purged, rows, log, wlog>>
  BY DEF Age, pull, vars
<1>2. CursorComplete' /\ Gapless' /\ PendingAhead' /\ TopKnown'
  BY <1>1 DEF CursorComplete, Gapless, Items, PendingAhead, TopKnown
<1>3. OldKnown'
  <2> SUFFICES ASSUME NEW e \in Tombstones \ purged PROVE copy[e].dead
    BY <1>1 DEF OldKnown
  <2>1. e \in Ent /\ rows[e].dead /\ rows[e].ver \in Nat /\ copy[e].ver \in Nat
    BY DEF Tombstones, EngineInv, TypeOK, Row, PullTypes, Copied
  <2>2. rows[e].ver <= copy[e].ver
    <3>1. CASE \E l \in log : l.ent = e /\ l.ver = rows[e].ver
      <4>1. PICK l \in log : l.ent = e /\ l.ver = rows[e].ver
        BY <3>1
      <4>2. l.seq <= cursor
        BY <1>1 DEF Ahead, EngineInv, TypeOK, Logged, PullTypes
      <4> QED
        BY <2>1, <4>1, <4>2 DEF CursorComplete
    <3> QED
      BY <2>1, <3>1 DEF TopKnown
  <2>3. copy[e].ver = rows[e].ver => copy[e].dead = rows[e].dead
    BY <2>1 DEF CopyHonest
  <2>4. copy[e].ver = rows[e].ver
    BY <2>1, <2>2 DEF CopyHonest
  <2> QED
    BY <2>1, <2>3, <2>4
<1> QED
  BY <1>2, <1>3

LEMMA KnownCleanup ==
    ASSUME RetentionInv, KnownInv, Cleanup \/ CleanupFails
    PROVE  KnownInv'
<1> USE DEF RetentionInv, KnownInv
<1>1. /\ UNCHANGED <<cursor, page, reply, copy, wlog>>
      /\ log' = log \/ log' = log \ old.log
      /\ purged \subseteq purged'
  BY DEF Cleanup, StartCleanup, PurgeTable, PurgeLog, PurgeLedger, CleanupFails, pull, own, vars, db
<1>2. /\ old'.rows \subseteq old.rows
      /\ \A e \in Ent \ purged' : rows'[e] = rows[e]
  <2>1. CASE PurgeTable
    BY <2>1 DEF PurgeTable, PullTypes
  <2>2. CASE PurgeLog \/ PurgeLedger
    BY <2>2 DEF PurgeLog, PurgeLedger, PullTypes
  <2>3. CASE StartCleanup \/ CleanupFails
    BY <2>3 DEF StartCleanup, CleanupFails, vars, db
  <2> QED
    BY <2>1, <2>2, <2>3 DEF Cleanup
<1>3. CursorComplete' /\ Gapless' /\ PendingAhead'
  BY <1>1 DEF CursorComplete, Gapless, Items, PendingAhead
<1>4. TopKnown'
  <2> SUFFICES ASSUME NEW e \in Ent \ purged',
                      ~\E l \in log' : l.ent = e /\ l.ver = rows[e].ver
               PROVE  rows[e].ver <= copy[e].ver
    BY <1>1, <1>2 DEF TopKnown
  <2>1. CASE \E l \in log : l.ent = e /\ l.ver = rows[e].ver
    <3>1. PICK l \in old.log : l \in log /\ l.ent = e /\ l.ver = rows[e].ver
      BY <1>1, <2>1
    <3>2. copy[e].ver >= rows[e].ver
      BY <3>1 DEF AheadOK, CursorComplete
    <3>3. copy[e].ver \in Nat /\ rows[e].ver \in Nat
      BY DEF EngineInv, TypeOK, Row, PullTypes, Copied
    <3> QED
      BY <3>2, <3>3
  <2> QED
    BY <1>1, <2>1 DEF TopKnown
<1>5. OldKnown'
  BY <1>1, <1>2 DEF OldKnown
<1> QED
  BY <1>3, <1>4, <1>5

LEMMA KnownInit == RetentionInit => KnownInv
<1> SUFFICES ASSUME RetentionInit PROVE KnownInv
  OBVIOUS
<1>1. /\ log = {} /\ page = {} /\ reply = {} /\ old.rows = {}
      /\ \A c \in Conn : wlog[c] = {}
      /\ \A e \in Ent : rows[e] = NoRow /\ copy[e] = NoCopy
  BY DEF RetentionInit, PullInit, Init
<1>2. NoRow.ver <= NoCopy.ver
  BY DEF NoRow, NoCopy
<1> QED
  BY <1>1, <1>2 DEF KnownInv, CursorComplete, Gapless, PendingAhead, TopKnown, OldKnown

LEMMA KnownStep ==
    RetentionInv /\ CommitsInOrder /\ KnownInv /\ [RetentionNext]_allVars => KnownInv'
<1> SUFFICES ASSUME RetentionInv, CommitsInOrder, KnownInv, [RetentionNext]_allVars
             PROVE  KnownInv'
  OBVIOUS
<1>1. CASE UNCHANGED allVars
  <2>1. UNCHANGED <<cursor, page, reply, copy, old, purged, rows, log, wlog>>
    BY <1>1 DEF allVars, vars, pull, gc
  <2> QED
    BY <2>1 DEF KnownInv, CursorComplete, Gapless, Items, PendingAhead, TopKnown, OldKnown
<1>2. ASSUME NEW c \in Conn, Step(c), UNCHANGED <<pull, gc>>
      PROVE  KnownInv'
  BY <1>2, KnownEngine
<1> QED
  BY <1>1, <1>2, KnownRead, KnownLoad, KnownDeliver, KnownLose, KnownAge, KnownCleanup
  DEF RetentionNext, PullNext, Asking, Next, Step

LEMMA KnownInvariant == RetentionSpec /\ []CommitsInOrder => []KnownInv
BY RetentionInvariant, KnownInit, KnownStep, PTL DEF RetentionSpec

\* CursorComplete: as long as sequence numbers become visible in the order
\* they were drawn, a device that keeps the cursor Pull returned has missed
\* nothing up to it, whatever page or reply got lost. (Run pull_skip shows
\* that two transactions may commit in the other order, and what follows.)
THEOREM CursorHidesNothing == RetentionSpec /\ []CommitsInOrder => []CursorComplete
<1>1. KnownInv => CursorComplete
  BY DEF KnownInv
<1> QED
  BY <1>1, KnownInvariant, PTL

\* PurgeIsKnown: as long as numbers become visible in order, the cleanup
\* deletes no tombstone a device that pulls in every window has not been told.
THEOREM PurgesKnown == RetentionSpec /\ []CommitsInOrder => PurgeIsKnown
<1>1. ASSUME RetentionInv, KnownInv, [RetentionNext]_allVars
      PROVE  [\A e \in purged' \ purged : copy[e].dead]_allVars
  <2>1. CASE PurgeTable
    <3>1. ASSUME NEW e \in purged' \ purged PROVE copy[e].dead
      BY <1>1, <2>1 DEF PurgeTable, KnownInv, OldKnown
    <3> QED
      BY <3>1
  <2>2. CASE UNCHANGED allVars
    BY <2>2
  <2>3. CASE purged' = purged
    BY <2>3
  <2> QED
    BY <1>1, <2>1, <2>2, <2>3 DEF RetentionNext, Age, Cleanup, StartCleanup, PurgeLog, PurgeLedger,
       CleanupFails, gc
<1> QED
  BY <1>1, RetentionInvariant, KnownInvariant, PTL DEF RetentionSpec, PurgeIsKnown

\* With one connection at work numbers are committed in order: the two theorems
\* above hold of a server that serves one push at a time.
THEOREM SerialInOrder ==
    ASSUME \A c, d \in Conn : c = d
    PROVE  RetentionSpec => []CommitsInOrder
<1>1. RetentionInit => CommitsInOrder
  BY DEF RetentionInit, PullInit, Init, CommitsInOrder
<1>2. RetentionInv /\ CommitsInOrder /\ [RetentionNext]_allVars => CommitsInOrder'
  <2> SUFFICES ASSUME RetentionInv, CommitsInOrder, [RetentionNext]_allVars
               PROVE  CommitsInOrder'
    OBVIOUS
  <2> USE DEF RetentionInv
  <2>1. ASSUME NEW c \in Conn, Step(c)
        PROVE  CommitsInOrder'
    <3>0. TypeOK
      BY DEF EngineInv
    <3>1. CASE Released(c)
      <4>1. wlog'[c] = {}
        BY <3>0, <3>1 DEF Released, Set, TypeOK
      <4> QED
        BY <4>1 DEF CommitsInOrder
    <3>2. CASE wlog' = wlog /\ ~Commit(c)
      BY <2>1, <3>2, NoCommit DEF CommitsInOrder
    <3>3. ASSUME NEW r \in rets[c], LogChange(c, r)
          PROVE  CommitsInOrder'
      <4> DEFINE new == [seq |-> seq + 1, ent |-> r.ent, op |-> r.op, ver |-> r.ver, by |-> r.by]
      <4>1. wlog'[c] = wlog[c] \cup {new} /\ log' = log
        BY <3>0, <3>3 DEF LogChange, TypeOK, db
      <4>2. \A l \in log : l.seq < new.seq
        BY <3>0 DEF TypeOK, Logged, EngineInv, TxInv, SeqOK
      <4> QED
        BY <4>1, <4>2 DEF CommitsInOrder
    <3> QED
      BY <2>1, <3>1, <3>2, <3>3 DEF Step, Proceed, Begin, Replay, Lookup, Fetch, FetchParent,
         Insert, Scan, Touch, StoreLedger, Commit, Fail, Victim, Crash, own
  <2>2. CASE wlog' = wlog /\ log' \subseteq log
    BY <2>2 DEF CommitsInOrder
  <2>3. CASE Age \/ Cleanup \/ CleanupFails \/ Asking \/ Lose \/ UNCHANGED allVars
    <3>1. wlog' = wlog /\ log' \subseteq log
      BY <2>3 DEF Age, Cleanup, StartCleanup, PurgeTable, PurgeLog, PurgeLedger, CleanupFails,
         Asking, ReadPage, LoadRecord, Deliver, Lose, allVars, vars, db, own
    <3> QED
      BY <2>2, <3>1
  <2> QED
    BY <2>1, <2>3 DEF RetentionNext, PullNext, Next, Step
<1> QED
  BY <1>1, <1>2, RetentionInvariant, PTL DEF RetentionSpec
=============================================================================
