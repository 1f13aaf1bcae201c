------------------------------- MODULE SyncPull -------------------------------
(***************************************************************************)
(* SyncPush with a device that pulls.  Pull reads a page of sync_changes   *)
(* past the device's cursor, then the record of every upserted entity, each*)
(* by a statement of its own outside any transaction, so that pushes come  *)
(* between.  The device keeps of every row the newest record it was sent,  *)
(* and the cursor of the last reply; a reply may get lost, and the device  *)
(* asks again.                                                             *)
(***************************************************************************)
EXTENDS SyncPush

CONSTANT Limit          \* changes in a page

VARIABLES
    asking,     \* the device has a request under way
    cursor,     \* the cursor the device keeps
    page,       \* changes read whose records are still to be loaded
    reply,      \* changes with their records
    copy        \* the device's records: version and tombstone

pull == <<asking, cursor, page, reply, copy>>

NoCopy == [ver |-> 0, dead |-> FALSE]

-----------------------------------------------------------------------------
Ahead == {l \in log : l.seq > cursor}

\* A page: the first changes past the cursor in sequence order, Limit of them or
\* all there are.
Pages ==
    {p \in SUBSET Ahead :
        /\ Cardinality(p) <= Limit
        /\ p # Ahead => Cardinality(p) = Limit
        /\ \A l \in p, m \in Ahead \ p : l.seq < m.seq}

\* SELECT ... WHERE change_sequence > cursor ORDER BY change_sequence LIMIT n
ReadPage ==
    /\ ~asking
    /\ asking' = TRUE
    /\ page' \in Pages
    /\ UNCHANGED <<vars, cursor, reply, copy>>

\* Mutant: the record of a row deleted meanwhile is not found.
Record_LiveOnly(l) ==
    IF l.op = "upsert"
        THEN IF rows[l.ent].dead THEN NoCopy ELSE [ver |-> rows[l.ent].ver, dead |-> FALSE]
        ELSE [ver |-> l.ver, dead |-> TRUE]

\* Mutant: the record does not say that the row is deleted.
Record_Blind(l) ==
    IF l.op = "upsert"
        THEN [ver |-> rows[l.ent].ver, dead |-> FALSE]
        ELSE [ver |-> l.ver, dead |-> TRUE]

\* The record is the row as committed by now; a delete carries none, the
\* device marks its record as deleted at the version of the change.
Record(l) ==
    IF l.op = "upsert"
        THEN [ver |-> rows[l.ent].ver, dead |-> rows[l.ent].dead]
        ELSE [ver |-> l.ver, dead |-> TRUE]

\* The record of the next change of the page.
LoadRecord ==
    \E l \in page :
        /\ \A m \in page : l.seq <= m.seq
        /\ reply' = reply \cup {[change |-> l, record |-> Record(l)]}
        /\ page' = page \ {l}
        /\ UNCHANGED <<vars, asking, cursor, copy>>

Newest(records) == CHOOSE r \in records : \A q \in records : q.ver <= r.ver

\* What the device has of e once it holds the reply.
Offered(e) == {copy[e]} \cup {x.record : x \in {y \in reply : y.change.ent = e}}

NextCursor_Latest == seq    \* mutant: the newest number, not the page's last

NextCursor ==
    LET numbers == {x.change.seq : x \in reply}
    IN IF reply = {} THEN cursor ELSE CHOOSE n \in numbers : \A m \in numbers : m <= n

\* The reply arrives: of every row the device keeps the newest record, and it
\* moves its cursor.
Deliver ==
    /\ asking /\ page = {}
    /\ copy' = [e \in Ent |-> Newest(Offered(e))]
    /\ cursor' = NextCursor
    /\ reply' = {}
    /\ asking' = FALSE
    /\ UNCHANGED <<vars, page>>

\* The request fails or its reply is lost: the device keeps its cursor.
Lose ==
    /\ asking
    /\ crashes < MaxCrash
    /\ crashes' = crashes + 1
    /\ asking' = FALSE
    /\ page' = {}
    /\ reply' = {}
    /\ UNCHANGED <<content, db, seq, tx, own, cursor, copy>>

-----------------------------------------------------------------------------
PullInit ==
    /\ Init
    /\ asking = FALSE
    /\ cursor = 0
    /\ page = {}
    /\ reply = {}
    /\ copy = [e \in Ent |-> NoCopy]

Asking == ReadPage \/ LoadRecord \/ Deliver

PullNext == (Next /\ UNCHANGED pull) \/ Asking \/ Lose

PullSpec == PullInit /\ [][PullNext]_<<vars, pull>>

-----------------------------------------------------------------------------
(* Properties.                                                              *)

\* A record sent is never older than the change it is sent for: the change and
\* the row are committed together, and the row is read after the change.
FreshRecord ==
    \A x \in reply : x.record.ver >= x.change.ver

\* The cursor hides nothing: what was committed at or before the device's
\* cursor, the device has applied, in that version or a later one.
CursorComplete ==
    \A l \in log : l.seq <= cursor => copy[l.ent].ver >= l.ver
=============================================================================
