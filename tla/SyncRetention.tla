---------------------------- MODULE SyncRetention ----------------------------
(***************************************************************************)
(* SyncPull with the retention cleanup (internal/sync/cleanup.go).  Once a *)
(* day a loop deletes what is older than the retention window: tombstones, *)
(* table by table, then the change log, then the ledger, each statement    *)
(* committed by itself, so that an error or a restart leaves the rest for  *)
(* the next day.  Everything one transaction wrote carries the time the    *)
(* transaction began and so grows old together.                            *)
(*                                                                         *)
(* The device here pulls at least once in every window; it may push again  *)
(* what it pushed before the window.                                       *)
(***************************************************************************)
EXTENDS SyncPull

CONSTANTS
    Tables,     \* the entity types in the order their tables are cleaned
    MaxAge      \* bound on the windows that pass

ASSUME TablesAssumption ==
    /\ Tables \in Seq(Kind)
    /\ Kind = {Tables[i] : i \in DOMAIN Tables}
    /\ Kind \cap {"sync_changes", "processed_operations"} = {}
    /\ MaxAge \in Nat

VARIABLES
    old,        \* tombstones, changes and ledger rows older than the window
    job,        \* tables the running cleanup still has to clean
    ages,       \* windows passed so far
    purged      \* entities whose tombstone has been deleted

gc == <<old, job, ages, purged>>

-----------------------------------------------------------------------------
\* Mutant: rows are deleted by age alone.
Tombstones_Any == {e \in Ent : rows[e].ver > 0}

\* Rows with deleted_at set.
Tombstones == {e \in Ent : rows[e].ver > 0 /\ rows[e].dead}

\* The window passes for everything committed so far.  No request and no
\* cleanup takes that long (a cleanup is cancelled after five minutes), and
\* the device has pulled in the meantime.
Age ==
    /\ ages < MaxAge
    /\ ages' = ages + 1
    /\ job = <<>>
    /\ \A c \in Conn : pc[c] = "idle"
    /\ ~asking /\ Ahead = {}
    /\ old' = [rows |-> Tombstones, log |-> log,
               ops  |-> {o \in OpId : ledger[o] # NoRes}]
    /\ UNCHANGED <<vars, pull, job, purged>>

\* Mutant: the ledger is cleaned before the change log.
Jobs_LedgerFirst == Tables \o <<"processed_operations", "sync_changes">>

Jobs == Tables \o <<"sync_changes", "processed_operations">>

\* Mutant: the cleanup returns when it finds no tombstone.
StartCleanup_RowsOnly ==
    /\ job = <<>>
    /\ old.rows # {}
    /\ job' = Jobs
    /\ UNCHANGED <<vars, pull, old, ages, purged>>

\* RunTombstoneCleanup fixes the cutoff and the order of the tables.
StartCleanup ==
    /\ job = <<>>
    /\ \/ old.rows # {}
       \/ old.log # {}
       \/ old.ops # {}
    /\ job' = Jobs
    /\ UNCHANGED <<vars, pull, old, ages, purged>>

\* DELETE of the old tombstones of a table, waiting for their row locks.
PurgeTable ==
    LET gone == {e \in old.rows : KindOf[e] = Head(job)} IN
    /\ job # <<>> /\ Head(job) \in Kind
    /\ \A e \in gone : \A c \in Conn : wr[c][e].ver = 0
    /\ rows' = [e \in Ent |-> IF e \in gone THEN NoRow ELSE rows[e]]
    /\ purged' = purged \cup gone
    /\ old' = [old EXCEPT !.rows = @ \ gone]
    /\ job' = Tail(job)
    /\ UNCHANGED <<content, log, seq, ledger, crashes, tx, own, pull, ages>>

\* Mutant: the whole change log is deleted.
PurgeLog_All ==
    /\ job # <<>> /\ Head(job) = "sync_changes"
    /\ log' = {}
    /\ old' = [old EXCEPT !.log = {}]
    /\ job' = Tail(job)
    /\ UNCHANGED <<content, rows, seq, ledger, crashes, tx, own, pull, ages, purged>>

PurgeLog ==
    /\ job # <<>> /\ Head(job) = "sync_changes"
    /\ log' = log \ old.log
    /\ old' = [old EXCEPT !.log = {}]
    /\ job' = Tail(job)
    /\ UNCHANGED <<content, rows, seq, ledger, crashes, tx, own, pull, ages, purged>>

PurgeLedger ==
    /\ job # <<>> /\ Head(job) = "processed_operations"
    /\ ledger' = [o \in OpId |-> IF o \in old.ops THEN NoRes ELSE ledger[o]]
    /\ old' = [old EXCEPT !.ops = {}]
    /\ job' = Tail(job)
    /\ UNCHANGED <<content, rows, log, seq, crashes, tx, own, pull, ages, purged>>

\* A statement fails, the five minutes are over or the server restarts.
CleanupFails ==
    /\ job # <<>>
    /\ crashes < MaxCrash
    /\ crashes' = crashes + 1
    /\ job' = <<>>
    /\ UNCHANGED <<content, db, seq, tx, own, pull, old, ages, purged>>

-----------------------------------------------------------------------------
RetentionInit ==
    /\ PullInit
    /\ old = [rows |-> {}, log |-> {}, ops |-> {}]
    /\ job = <<>>
    /\ ages = 0
    /\ purged = {}

Cleanup == StartCleanup \/ PurgeTable \/ PurgeLog \/ PurgeLedger

RetentionNext ==
    \/ PullNext /\ UNCHANGED gc
    \/ Age
    \/ Cleanup
    \/ CleanupFails

allVars == <<vars, pull, gc>>

RetentionSpec == RetentionInit /\ [][RetentionNext]_allVars

\* The device pulls again and again, requests run on, and the loop comes round
\* every day.
FairRetentionSpec ==
    /\ RetentionSpec
    /\ WF_allVars(Asking /\ UNCHANGED gc)
    /\ WF_allVars(Cleanup)
    /\ \A c \in Conn : WF_allVars(Proceed(c) /\ UNCHANGED <<pull, gc>>)

-----------------------------------------------------------------------------
(* Properties.                                                              *)

\* The device never shows a version the server has not committed, nor as live
\* a record the server has deleted once it has been told so.
CopyHonest ==
    \A e \in Ent \ purged :
        /\ copy[e].ver <= rows[e].ver
        /\ copy[e].ver = rows[e].ver => copy[e].dead = rows[e].dead

\* A row leaves its table only when the device has been told of its deletion.
PurgeIsKnown == [][\A e \in purged' \ purged : copy[e].dead]_allVars

\* A device that keeps pulling ends with the server's records, cleanup or not.
PullConverges ==
    <>[](\A e \in Ent \ purged :
            copy[e] = [ver |-> rows[e].ver, dead |-> rows[e].dead])

\* What is older than the window is deleted in the end, although a cleanup may
\* break off between two tables.
OldIsPurged == (old.log # {}) ~> (old = [rows |-> {}, log |-> {}, ops |-> {}])
=============================================================================
