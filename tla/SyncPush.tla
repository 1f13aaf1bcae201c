------------------------------- MODULE SyncPush -------------------------------
(***************************************************************************)
(* The push side of the sync engine (internal/sync), one user's data.      *)
(*                                                                         *)
(* A device pushes a batch of operations; ApplyPush applies the batch in   *)
(* one READ COMMITTED transaction.  Every SQL statement of applyOne and of *)
(* the apply function it dispatches to is one action, so the statements of *)
(* two connections interleave as PostgreSQL lets them: a SELECT sees the   *)
(* rows committed when it starts and the transaction's own writes; an      *)
(* UPDATE picks its rows from such a snapshot, waits for the lock of each, *)
(* then evaluates its predicate again; an INSERT waits for an uncommitted  *)
(* row with the same key.                                                  *)
(*                                                                         *)
(* Left out: payload columns no rule looks at, more than one user, and     *)
(* the retention cleanup.                                                  *)
(***************************************************************************)
EXTENDS Integers, Sequences, FiniteSets

CONSTANTS
    Conn,       \* server connections, each serving one request at a time
    Ent,        \* entity ids
    Kind,       \* entity types
    KindOf,     \* [Ent -> Kind]
    RefName,    \* reference columns the cascades follow
    Rule,       \* [Kind -> rule], the table of SyncSchema
    OpId,       \* operation ids (the idempotency keys)
    Script,     \* what the operations may say: functions on OpId
    Batch,      \* the batches devices push: sequences of operation ids
    Nil,        \* a NULL reference
    Keep,       \* a reference field the payload leaves out
    MaxSeq,     \* bound on change_sequence
    MaxCrash    \* bound on lost connections and crashes

VARIABLES
    content,    \* what each operation says, the same on every retry
    rows,       \* the entity tables, committed
    log,        \* sync_changes, committed
    seq,        \* the change_sequence counter: never rolled back
    ledger,     \* processed_operations, committed
    crashes,    \* lost connections so far
    pc,         \* next statement of the connection
    batch,      \* operations of the request still to be applied
    seen,       \* the row the apply function fetched
    parent,     \* the parent row it fetched
    stm,        \* UPDATE statements still to run
    run,        \* the running one: its parent row and the rows left to visit
    rets,       \* rows it returned that are not logged yet
    res,        \* the result to be booked
    wr,         \* uncommitted row versions: the row locks held
    wlog,       \* uncommitted sync_changes rows
    wled        \* uncommitted processed_operations rows

db   == <<rows, log, ledger>>
tx   == <<pc, batch, seen, parent, stm, run, rets, res>>
own  == <<wr, wlog, wled>>
vars == <<content, rows, log, seq, ledger, crashes, pc, batch, seen, parent,
          stm, run, rets, res, wr, wlog, wled>>

-----------------------------------------------------------------------------
Absent == "none"

NoRef == [r \in RefName |-> Nil]
NoRow == [ver |-> 0, dead |-> FALSE, ref |-> NoRef]
NoRes == [status |-> Absent, ver |-> 0]
Idle  == [at |-> Nil, left |-> {}]

Row == [ver : Nat, dead : BOOLEAN, ref : [RefName -> Ent \cup {Nil}]]

\* by, the operation that wrote the change, is kept for the properties only.
Change == [ent : Ent, op : {"upsert", "delete"}, ver : Nat, by : OpId]
Logged == [seq : Nat, ent : Ent, op : {"upsert", "delete"}, ver : Nat, by : OpId]

\* ok: the payload passes the checks made on every upsert; full: those made
\* before an INSERT; same: its text equals the stored one.
Operation == [ent : Ent, op : {"upsert", "delete", "other"}, base : Nat,
              ok : BOOLEAN, full : BOOLEAN, same : BOOLEAN,
              refs : [RefName -> Ent \cup {Nil, Keep}]]

Result == [status : {Absent, "accepted", "conflict", "rejected"}, ver : Nat]
Name   == Kind \cup RefName \cup {Absent}
Stmt   == [act  : {"merge", "bury", "tombstone", "detach", "select"},
           kind : Name, ref : Name, kids : Name, at : SUBSET Ent]

Accepted(v) == [status |-> "accepted", ver |-> v]
Conflict(v) == [status |-> "conflict", ver |-> v]
Rejected_NoVersion == [status |-> "rejected", ver |-> -1]   \* mutant
Rejected    == [status |-> "rejected", ver |-> 0]

ASSUME RuleAssumption ==
    /\ KindOf \in [Ent -> Kind]
    /\ \A k \in Kind : Rule[k].program \in Seq(Stmt)
    /\ Nil \notin Ent /\ Keep \notin Ent /\ Keep # Nil
    /\ Batch \subseteq Seq(OpId) /\ <<>> \notin Batch
    /\ Script \subseteq [OpId -> Operation]

\* A delete writes the tombstone of its own row, somewhere among its statements.
ASSUME ProgramAssumption ==
    \A k \in Kind :
        /\ \A i \in DOMAIN Rule[k].program : Rule[k].program[i].act # "merge"
        /\ \E i \in DOMAIN Rule[k].program : Rule[k].program[i].act = "bury"

\* The tables a statement of a delete of a row of kind k writes, and those it
\* writes below the rows it returns.
Direct(k, s) == CASE s.act \in {"merge", "bury"} -> {k}
                  [] s.act = "select"            -> {}
                  [] OTHER                       -> {s.kind}
Below(s)     == {s.kids} \ {Absent}

\* No two statements of a delete write the same table.
ASSUME OnceAssumption ==
    \A k \in Kind : LET program == Rule[k].program IN
        /\ \A i \in DOMAIN program : Direct(k, program[i]) \cap Below(program[i]) = {}
        /\ \A i, j \in DOMAIN program : i # j =>
              (Direct(k, program[i]) \cup Below(program[i]))
                  \cap (Direct(k, program[j]) \cup Below(program[j])) = {}

-----------------------------------------------------------------------------
(* What a connection sees and what stops it.                                *)

View(c, e)   == IF wr[c][e].ver > 0 THEN wr[c][e] ELSE rows[e]
Locked(c, e) == \E d \in Conn \ {c} : wr[d][e].ver > 0

Cur(c)  == Head(batch[c])
Op(c)   == content[Cur(c)]
Self(c) == Op(c).ent
RuleOf(e) == Rule[KindOf[e]]

\* The rows a statement of a delete applies to: live children of row a.
Match(s, a, e, row) ==
    /\ KindOf[e] = s.kind
    /\ row.ver > 0
    /\ ~row.dead
    /\ s.ref \in RefName
    /\ row.ref[s.ref] = a

Hits(c, s, a) ==
    IF s.act \in {"merge", "bury"}
        THEN {a}
        ELSE {e \in Ent : Match(s, a, e, View(c, e))}

-----------------------------------------------------------------------------
(* The decision of an upsert, from the row as it was fetched.               *)

\* Mutant: the base version is not compared.
Verdict_NoBase(o, row, rule) ==
    CASE row.ver = 0             -> IF o.full THEN "insert" ELSE "reject"
      [] row.ver > 0 /\ row.dead -> "conflict"
      [] OTHER                   -> "update"

\* Mutant: a tombstone is not looked for.
Verdict_NoDead(o, row, rule) ==
    CASE row.ver = 0 -> IF o.full THEN "insert" ELSE "reject"
      [] row.ver > 0 /\ o.base < row.ver -> "conflict"
      [] row.ver > 0 /\ o.base > row.ver -> "reject"
      [] OTHER -> "update"

Verdict(o, row, rule) ==
    CASE row.ver = 0 /\ (~o.full \/ (rule.baseZero /\ o.base # 0)) -> "reject"
      [] row.ver = 0 /\ o.full /\ ~(rule.baseZero /\ o.base # 0)   -> "insert"
      [] row.ver > 0 /\ (row.dead \/ o.base < row.ver)             -> "conflict"
      [] row.ver > 0 /\ ~row.dead /\ o.base > row.ver              -> "reject"
      [] row.ver > 0 /\ ~row.dead /\ o.base = row.ver
                     /\ rule.fixed /\ ~o.same                      -> "conflict"
      [] OTHER                                                     -> "update"

Mode(rule, r) == IF r \in DOMAIN rule.refs THEN rule.refs[r] ELSE Absent

OrNil(x) == IF x = Keep THEN Nil ELSE x

RefsOnInsert(o, rule, par) ==
    [r \in RefName |->
        CASE Mode(rule, r) = Absent      -> Nil
          [] Mode(rule, r) = "inherit" -> par.ref[r]
          [] OTHER                     -> OrNil(o.refs[r])]

RefsOnUpdate(o, rule, old) ==
    [r \in RefName |->
        IF Mode(rule, r) \in {"merge", "assign"} /\ o.refs[r] # Keep
            THEN o.refs[r]
            ELSE old.ref[r]]

\* Mutant: the stub of a delete is written without deleted_at.
FreshRow_LiveStub(c) == [ver |-> 1, dead |-> FALSE, ref |-> NoRef]

\* The row an INSERT writes: the upsert's, or the tombstone of a delete for a
\* row the server has never seen.  The references of such a tombstone are nil
\* or left out where a key is on them; no rule reads the others.
FreshRow(c) ==
    IF Op(c).op = "delete"
        THEN [ver |-> 1, dead |-> TRUE, ref |-> NoRef]
        ELSE [ver |-> 1, dead |-> FALSE,
              ref |-> RefsOnInsert(Op(c), RuleOf(Self(c)), parent[c])]

\* x, of the same table, holds the key that row of e is about to take.
Clash(e, row, x, other) ==
    /\ x # e
    /\ KindOf[x] = KindOf[e]
    /\ other.ver > 0
    /\ RuleOf(e).unique \in RefName
    /\ other.ref[RuleOf(e).unique] = row.ref[RuleOf(e).unique]

\* Another transaction holds the key uncommitted: the INSERT waits for it.
InsertWaits(c) ==
    \E d \in Conn \ {c} : \E x \in Ent :
        /\ wr[d][x].ver > 0
        /\ x = Self(c) \/ Clash(Self(c), FreshRow(c), x, wr[d][x])

\* The database refuses the INSERT: a key is taken, or the stub of a delete
\* lacks a NOT NULL column.
InsertRefused(c) ==
    \/ rows[Self(c)].ver > 0
    \/ \E x \in Ent : Clash(Self(c), FreshRow(c), x, View(c, x))
    \/ Op(c).op = "delete" /\ ~RuleOf(Self(c)).stub

-----------------------------------------------------------------------------
(* The transaction's control, by helper.                                    *)

Set(f, c, v) == f' = [f EXCEPT ![c] = v]

\* Everything the transaction holds, as it is between requests.
Released(c) ==
    /\ Set(pc, c, "idle")
    /\ Set(batch, c, <<>>)
    /\ Set(seen, c, NoRow)
    /\ Set(parent, c, NoRow)
    /\ Set(stm, c, <<>>)
    /\ Set(run, c, Idle)
    /\ Set(rets, c, {})
    /\ Set(res, c, NoRes)
    /\ Set(wr, c, [e \in Ent |-> NoRow])
    /\ Set(wlog, c, {})
    /\ Set(wled, c, [o \in OpId |-> NoRes])

\* The next operation of the batch, or the commit after the last.
NextOp(c) ==
    /\ Set(batch, c, Tail(batch[c]))
    /\ Set(pc, c, IF Tail(batch[c]) = <<>> THEN "commit" ELSE "lookup")
    /\ Set(seen, c, NoRow)
    /\ Set(parent, c, NoRow)
    /\ Set(res, c, NoRes)

\* The apply function ends without writing: only the ledger row remains.
Answer(c, result) ==
    /\ Set(pc, c, "stmt")
    /\ Set(res, c, result)
    /\ UNCHANGED stm

\* It goes on with these statements, each on the operation's own row.
Perform(c, program) ==
    /\ Set(pc, c, "stmt")
    /\ Set(stm, c, [i \in DOMAIN program |-> [program[i] EXCEPT !.at = {Self(c)}]])
    /\ UNCHANGED res

MergeProgram ==
    <<[act |-> "merge", kind |-> Absent, ref |-> Absent, kids |-> Absent, at |-> {}]>>

Settle(c, row) ==
    LET verdict == Verdict(Op(c), row, RuleOf(Self(c))) IN
    \/ verdict = "reject"   /\ Answer(c, Rejected)
    \/ verdict = "conflict" /\ Answer(c, Conflict(row.ver))
    \/ verdict = "insert"   /\ Set(pc, c, "insert") /\ UNCHANGED <<stm, res>>
    \/ verdict = "update"   /\ Perform(c, MergeProgram)

-----------------------------------------------------------------------------
(* Actions: one per SQL statement.                                          *)

\* A device pushes a batch, for the first time or again after it got no
\* answer.
Begin(c, b) ==
    /\ pc[c] = "idle"
    /\ Set(batch, c, b)
    /\ Set(pc, c, "lookup")
    /\ UNCHANGED <<content, db, seq, crashes, seen, parent, stm, run, rets, res, own>>

\* SELECT from the ledger: an operation already booked is answered from it.
Replay(c) ==
    /\ pc[c] = "lookup"
    /\ \/ ledger[Cur(c)] # NoRes
       \/ wled[c][Cur(c)] # NoRes
    /\ NextOp(c)
    /\ UNCHANGED <<content, db, seq, crashes, stm, run, rets, own>>

\* The ledger has no row; an unknown entity type or operation is refused.
Lookup(c) ==
    /\ pc[c] = "lookup"
    /\ ledger[Cur(c)] = NoRes
    /\ wled[c][Cur(c)] = NoRes
    /\ \/ Op(c).op \in {"upsert", "delete"} /\ Set(pc, c, "fetch") /\ UNCHANGED <<stm, res>>
       \/ Op(c).op \notin {"upsert", "delete"} /\ Answer(c, Rejected)
    /\ UNCHANGED <<content, db, seq, crashes, batch, seen, parent, run, rets, own>>

\* SELECT of the row, and what follows from it alone.
Fetch(c) ==
    LET row == View(c, Self(c)) IN
    /\ pc[c] = "fetch"
    /\ Set(seen, c, row)
    /\ \/ /\ Op(c).op = "delete"
          /\ \/ row.ver = 0 /\ Set(pc, c, "insert") /\ UNCHANGED <<stm, res>>
             \/ row.ver > 0 /\ row.dead  /\ Answer(c, Accepted(row.ver))
             \/ row.ver > 0 /\ ~row.dead /\ Perform(c, RuleOf(Self(c)).program)
       \/ /\ Op(c).op = "upsert"
          /\ \/ ~Op(c).ok /\ Answer(c, Rejected)
             \/ /\ Op(c).ok /\ RuleOf(Self(c)).parent \in RefName
                /\ Set(pc, c, "parent")
                /\ UNCHANGED <<stm, res>>
             \/ /\ Op(c).ok /\ RuleOf(Self(c)).parent \notin RefName
                /\ Settle(c, row)
    /\ UNCHANGED <<content, db, seq, crashes, batch, parent, run, rets, own>>

\* Mutant: a deleted parent is good enough.
FetchParent_Lax(c) ==
    LET p   == Op(c).refs[RuleOf(Self(c)).parent]
        row == IF p \in Ent THEN View(c, p) ELSE NoRow IN
    /\ pc[c] = "parent"
    /\ Set(parent, c, row)
    /\ \/ row.ver = 0 /\ Answer(c, Rejected)
       \/ row.ver > 0 /\ Settle(c, seen[c])
    /\ UNCHANGED <<content, db, seq, crashes, batch, seen, run, rets, own>>

\* SELECT of the parent row: it must be there and live.
FetchParent(c) ==
    LET p   == Op(c).refs[RuleOf(Self(c)).parent]
        row == IF p \in Ent THEN View(c, p) ELSE NoRow IN
    /\ pc[c] = "parent"
    /\ Set(parent, c, row)
    /\ \/ (row.ver = 0 \/ row.dead) /\ Answer(c, Rejected)
       \/ row.ver > 0 /\ ~row.dead /\ Settle(c, seen[c])
    /\ UNCHANGED <<content, db, seq, crashes, batch, seen, run, rets, own>>

\* INSERT of the row, upserted or phantom-deleted, at version 1.
Insert(c) ==
    /\ pc[c] = "insert"
    /\ ~InsertWaits(c)
    /\ ~InsertRefused(c)
    /\ wr' = [wr EXCEPT ![c][Self(c)] = FreshRow(c)]
    /\ Set(rets, c, {[ent |-> Self(c), op |-> Op(c).op, ver |-> 1, by |-> Cur(c)]})
    /\ Set(res, c, Accepted(1))
    /\ Set(pc, c, "stmt")
    /\ UNCHANGED <<content, db, seq, crashes, batch, seen, parent, stm, run, wlog, wled>>

\* What is left to run once the first statement is done for row a, having
\* returned the rows R.
Rest(c, a, R) ==
    LET s    == Head(stm[c])
        kids == [act |-> "tombstone", kind |-> s.kids, ref |-> s.kind,
                 kids |-> Absent, at |-> R]
    IN (IF s.kids = Absent \/ R = {} THEN <<>> ELSE <<kids>>)
       \o (IF s.at = {a} THEN <<>> ELSE <<[s EXCEPT !.at = @ \ {a}]>>)
       \o Tail(stm[c])

\* An UPDATE (or the SELECT before a cascade) starts for parent row a: its
\* snapshot picks the rows.
Scan(c, a) ==
    LET s   == Head(stm[c])
        hit == Hits(c, s, a) IN
    /\ pc[c] = "stmt" /\ stm[c] # <<>> /\ run[c].left = {} /\ rets[c] = {}
    /\ a \in s.at
    /\ IF s.act = "select" \/ hit = {}
          THEN Set(stm, c, Rest(c, a, hit)) /\ UNCHANGED run
          ELSE Set(run, c, [at |-> a, left |-> hit]) /\ UNCHANGED stm
    /\ UNCHANGED <<content, db, seq, crashes, pc, batch, seen, parent, rets, res, own>>

\* Mutant: a cascade counts the version up without setting deleted_at.
Written_Shallow(c, s, row) ==
    [ver |-> row.ver + 1, dead |-> row.dead \/ s.act = "bury", ref |-> row.ref]

\* Mutant: an upsert clears deleted_at.
Written_Revives(c, s, row) ==
    [ver |-> row.ver + 1, dead |-> s.act \in {"bury", "tombstone"}, ref |-> row.ref]

\* The row as the statement leaves it.
Written(c, s, row) ==
    [ver  |-> row.ver + 1,
     dead |-> row.dead \/ s.act \in {"bury", "tombstone"},
     ref  |-> IF s.act = "merge"
                THEN RefsOnUpdate(Op(c), RuleOf(Self(c)), seen[c])
                ELSE [r \in RefName |->
                         IF s.act = "detach" /\ r = s.ref THEN Nil ELSE row.ref[r]]]

\* The UPDATE comes to row e: once no other transaction holds it, the
\* predicate is evaluated on its latest version (on the id alone for the
\* operation's own row) and the row is written.
Touch(c, e) ==
    LET s    == Head(stm[c])
        row  == View(c, e)
        new  == Written(c, s, row)
        hit  == s.act \in {"merge", "bury"} \/ Match(s, run[c].at, e, row)
        left == run[c].left \ {e}
        ret  == IF hit
                  THEN rets[c] \cup
                       {[ent |-> e, ver |-> new.ver, by |-> Cur(c),
                         op  |-> IF s.act \in {"merge", "detach"}
                                   THEN "upsert" ELSE "delete"]}
                  ELSE rets[c]
    IN
    /\ pc[c] = "stmt"
    /\ e \in run[c].left
    /\ ~Locked(c, e)
    /\ IF hit THEN wr' = [wr EXCEPT ![c][e] = new] ELSE UNCHANGED wr
    /\ Set(rets, c, ret)
    /\ IF s.act \in {"merge", "bury"}
          THEN Set(res, c, Accepted(new.ver)) ELSE UNCHANGED res
    /\ IF left = {}
          THEN /\ Set(run, c, Idle)
               /\ Set(stm, c, Rest(c, run[c].at, {r.ent : r \in ret}))
          ELSE /\ Set(run, c, [at |-> run[c].at, left |-> left])
               /\ UNCHANGED stm
    /\ UNCHANGED <<content, db, seq, crashes, pc, batch, seen, parent, wlog, wled>>

\* Mutant: the sequence is read, not drawn.
LogChange_NoDraw(c, r) ==
    /\ pc[c] = "stmt" /\ run[c].left = {} /\ r \in rets[c]
    /\ wlog' = [wlog EXCEPT ![c] = @ \cup
                   {[seq |-> seq, ent |-> r.ent, op |-> r.op,
                     ver |-> r.ver, by |-> r.by]}]
    /\ Set(rets, c, rets[c] \ {r})
    /\ UNCHANGED <<content, db, seq, crashes, pc, batch, seen, parent, stm, run, res, wr, wled>>

\* logChange: the sequence number is drawn now, whenever the commit comes.
LogChange(c, r) ==
    /\ pc[c] = "stmt"
    /\ run[c].left = {}
    /\ r \in rets[c]
    /\ seq < MaxSeq
    /\ seq' = seq + 1
    /\ wlog' = [wlog EXCEPT ![c] = @ \cup
                   {[seq |-> seq + 1, ent |-> r.ent, op |-> r.op,
                     ver |-> r.ver, by |-> r.by]}]
    /\ Set(rets, c, rets[c] \ {r})
    /\ UNCHANGED <<content, db, crashes, pc, batch, seen, parent, stm, run, res, wr, wled>>

\* Mutant: the rows the last statement returned are not logged.
Applied_Early(c) == pc[c] = "stmt" /\ stm[c] = <<>> /\ run[c].left = {}

Applied(c) == pc[c] = "stmt" /\ stm[c] = <<>> /\ run[c].left = {} /\ rets[c] = {}

BookWaits(c) == \E d \in Conn \ {c} : wled[d][Cur(c)] # NoRes

\* Mutant: a second booking replaces the first.
StoreLedger_Upsert(c) ==
    /\ Applied(c)
    /\ ~BookWaits(c)
    /\ wled' = [wled EXCEPT ![c][Cur(c)] = res[c]]
    /\ NextOp(c)
    /\ UNCHANGED <<content, db, seq, crashes, stm, run, rets, wr, wlog>>

\* Mutant: only the last operation of a batch is booked.
StoreLedger_Last(c) ==
    /\ Applied(c)
    /\ ~BookWaits(c)
    /\ ledger[Cur(c)] = NoRes
    /\ wled' = IF Tail(batch[c]) = <<>> THEN [wled EXCEPT ![c][Cur(c)] = res[c]] ELSE wled
    /\ NextOp(c)
    /\ UNCHANGED <<content, db, seq, crashes, stm, run, rets, wr, wlog>>

\* Mutant: only accepted operations are booked.
StoreLedger_Accepted(c) ==
    /\ Applied(c)
    /\ ~BookWaits(c)
    /\ ledger[Cur(c)] = NoRes
    /\ wled' = IF res[c].status = "accepted" THEN [wled EXCEPT ![c][Cur(c)] = res[c]] ELSE wled
    /\ NextOp(c)
    /\ UNCHANGED <<content, db, seq, crashes, stm, run, rets, wr, wlog>>

\* storeLedger: UNIQUE (user_id, operation_id) lets one transaction book.
StoreLedger(c) ==
    /\ Applied(c)
    /\ ~BookWaits(c)
    /\ ledger[Cur(c)] = NoRes
    /\ wled' = [wled EXCEPT ![c][Cur(c)] = res[c]]
    /\ NextOp(c)
    /\ UNCHANGED <<content, db, seq, crashes, stm, run, rets, wr, wlog>>

Commit(c) ==
    /\ pc[c] = "commit"
    /\ rows' = [e \in Ent |-> View(c, e)]
    /\ log' = log \cup wlog[c]
    /\ ledger' = [o \in OpId |-> IF wled[c][o] # NoRes THEN wled[c][o] ELSE ledger[o]]
    /\ Released(c)
    /\ UNCHANGED <<content, seq, crashes>>

\* Mutant: an operation the database refuses is skipped, the rest committed.
Fail_Skips(c) ==
    /\ \/ pc[c] = "insert" /\ ~InsertWaits(c) /\ InsertRefused(c)
       \/ Applied(c) /\ ~BookWaits(c) /\ ledger[Cur(c)] # NoRes
    /\ NextOp(c)
    /\ UNCHANGED <<content, db, seq, crashes, stm, run, rets, own>>

\* The database refuses a statement: ApplyPush rolls the whole batch back.
Fail(c) ==
    /\ \/ pc[c] = "insert" /\ ~InsertWaits(c) /\ InsertRefused(c)
       \/ Applied(c) /\ ~BookWaits(c) /\ ledger[Cur(c)] # NoRes
    /\ Released(c)
    /\ UNCHANGED <<content, db, seq, crashes>>

\* The connections c's next step waits for.
Awaits(c) ==
    {d \in Conn \ {c} :
        \/ /\ pc[c] = "stmt" /\ run[c].left # {}
           /\ \A e \in run[c].left : Locked(c, e)
           /\ \E e \in run[c].left : wr[d][e].ver > 0
        \/ /\ pc[c] = "insert"
           /\ \E x \in Ent : /\ wr[d][x].ver > 0
                             /\ \/ x = Self(c)
                                \/ Clash(Self(c), FreshRow(c), x, wr[d][x])
        \/ Applied(c) /\ wled[d][Cur(c)] # NoRes}

\* PostgreSQL's deadlock detector picks c as the victim of a wait cycle.
Victim(c) ==
    /\ \E S \in SUBSET Conn : c \in S /\ \A d \in S : Awaits(d) \cap S # {}
    /\ Released(c)
    /\ UNCHANGED <<content, db, seq, crashes>>

\* The request is cancelled, the connection is lost or the server dies.
Crash(c) ==
    /\ pc[c] # "idle"
    /\ crashes < MaxCrash
    /\ crashes' = crashes + 1
    /\ Released(c)
    /\ UNCHANGED <<content, db, seq>>

-----------------------------------------------------------------------------
Init ==
    /\ content \in Script
    /\ rows = [e \in Ent |-> NoRow]
    /\ log = {}
    /\ seq = 0
    /\ ledger = [o \in OpId |-> NoRes]
    /\ crashes = 0
    /\ pc = [c \in Conn |-> "idle"]
    /\ batch = [c \in Conn |-> <<>>]
    /\ seen = [c \in Conn |-> NoRow]
    /\ parent = [c \in Conn |-> NoRow]
    /\ stm = [c \in Conn |-> <<>>]
    /\ run = [c \in Conn |-> Idle]
    /\ rets = [c \in Conn |-> {}]
    /\ res = [c \in Conn |-> NoRes]
    /\ wr = [c \in Conn |-> [e \in Ent |-> NoRow]]
    /\ wlog = [c \in Conn |-> {}]
    /\ wled = [c \in Conn |-> [o \in OpId |-> NoRes]]

\* The steps of a request in progress that do not need a failure.
Proceed(c) ==
    \/ Replay(c) \/ Lookup(c) \/ Fetch(c) \/ FetchParent(c) \/ Insert(c)
    \/ \E a \in Ent : Scan(c, a)
    \/ \E e \in Ent : Touch(c, e)
    \/ \E r \in rets[c] : LogChange(c, r)
    \/ StoreLedger(c) \/ Commit(c) \/ Fail(c) \/ Victim(c)

Next ==
    \E c \in Conn :
        \/ \E b \in Batch : Begin(c, b)
        \/ Proceed(c)
        \/ Crash(c)

Spec == Init /\ [][Next]_vars

\* Requests in progress run on, and devices push again what has no answer.
FairSpec ==
    /\ Spec
    /\ \A c \in Conn : WF_vars(Proceed(c))
    /\ \A b \in Batch : SF_vars(\E c \in Conn : Begin(c, b))
-----------------------------------------------------------------------------
(* Properties.                                                              *)

TypeOK ==
    /\ content \in [OpId -> Operation]
    /\ rows \in [Ent -> Row]
    /\ log \in SUBSET Logged
    /\ seq \in Nat
    /\ ledger \in [OpId -> Result]
    /\ crashes \in Nat
    /\ pc \in [Conn -> {"idle", "lookup", "fetch", "parent", "insert", "stmt", "commit"}]
    /\ batch \in [Conn -> Seq(OpId)]
    /\ seen \in [Conn -> Row]
    /\ parent \in [Conn -> Row]
    /\ stm \in [Conn -> Seq(Stmt)]
    /\ run \in [Conn -> [at : Ent \cup {Nil}, left : SUBSET Ent]]
    /\ rets \in [Conn -> SUBSET Change]
    /\ res \in [Conn -> Result]
    /\ wr \in [Conn -> [Ent -> Row]]
    /\ wlog \in [Conn -> SUBSET Logged]
    /\ wled \in [Conn -> [OpId -> Result]]

\* sync_changes is a complete history: every version a row ever had is there
\* exactly once, and nothing else (logChange after every write, cascades
\* included, whatever interleaves or rolls back).
VersionsLogged ==
    /\ \A l \in log : l.ver \in 1 .. rows[l.ent].ver
    /\ \A e \in Ent : \A v \in 1 .. rows[e].ver :
          \E l \in log : l.ent = e /\ l.ver = v
    /\ \A l, m \in log : l.ent = m.ent /\ l.ver = m.ver => l = m

\* change_sequence orders the changes of a row as its versions: a device that
\* applies a feed in order never goes back to an older version (the number is
\* drawn while the row lock is held).
SeqFollowsVersion ==
    \A l, m \in log : l.ent = m.ent /\ l.ver < m.ver => l.seq < m.seq

\* A row is a tombstone exactly when some change told the devices to delete it.
DeleteLogged ==
    \A e \in Ent : rows[e].dead <=> \E l \in log : l.ent = e /\ l.op = "delete"

\* What the ledger promises happened: the version an accepted operation
\* reports is in the feed, and for a delete the row is gone.
LedgerTruth ==
    \A o \in OpId : ledger[o].status = "accepted" =>
        /\ \E l \in log : l.ent = content[o].ent /\ l.ver = ledger[o].ver
        /\ content[o].op = "delete" => rows[content[o].ent].dead

\* A change is committed only with the ledger row of the operation that made
\* it: a batch takes effect whole or not at all, and a refused operation has
\* no effect.
EffectsBooked == \A l \in log : ledger[l.by].status = "accepted"

\* However often an operation is sent, it changes a row once: one version of
\* its own entity, and at most one of every row its cascades reach.
AppliedOnce ==
    \A l, m \in log : l.by = m.by /\ l.ent = m.ent => l = m

\* No step, of any connection, brings a tombstone back or loses a version.
TombstoneFinal ==
    [][\A e \in Ent : /\ rows[e].dead => rows'[e].dead
                      /\ rows[e].ver <= rows'[e].ver]_vars

\* The answer to an operation never changes once booked.
LedgerFinal ==
    [][\A o \in OpId : ledger[o] # NoRes => ledger'[o] = ledger[o]]_vars

\* baseVersion: an accepted upsert created the row or followed directly on the
\* version the device had seen.
NoLostUpdate ==
    \A o \in OpId :
        ledger[o].status = "accepted" /\ content[o].op = "upsert"
            => ledger[o].ver \in {1, content[o].base + 1}

\* Delete wins: no upsert is accepted on a row after its tombstone.
DeletedRowsConflict ==
    \A l, m \in log : l.ent = m.ent /\ l.op = "delete" /\ m.op = "upsert"
        => m.ver < l.ver

\* An operation a device keeps sending is answered in the end.
PushSettles == \A o \in OpId : <>(ledger[o] # NoRes)

\* Push implements the change feed: seen from outside, a commit is the only
\* step, and it moves records, feed and answers together.
Feed == INSTANCE ChangeFeed WITH
            NoAnswer <- NoRes,
            ver      <- [e \in Ent |-> rows[e].ver],
            dead     <- [e \in Ent |-> rows[e].dead],
            feed     <- log,
            answer   <- ledger

FeedSpec == Feed!FeedSpec
=============================================================================
