--------------------------- MODULE AttachmentFiles ---------------------------
(***************************************************************************)
(* The file of an attachment and the row it belongs to                     *)
(* (internal/storage/store.go, internal/httpapi/attachmentapi and          *)
(* materialapi, the file hooks of internal/sync/service.go, the file part  *)
(* of internal/sync/cleanup.go, the purge of internal/httpapi/accountapi). *)
(*                                                                         *)
(* Row and file are in two places that no transaction spans: a push        *)
(* tombstones the row and removes the files after it has committed, the    *)
(* retention cleanup and the purge of an account delete the row and then   *)
(* the files, an upload looks at the row and then writes.  One attachment, *)
(* one variant and the content hash its row carries: the file is good when *)
(* its bytes have that hash.  A course material that owns a file is the    *)
(* same, by the same store and the same hooks.                             *)
(***************************************************************************)
EXTENDS Naturals

CONSTANTS
    Upload,     \* uploads served at once
    MaxRow,     \* times the row is created
    MaxCrash    \* restarts of the server

ASSUME BoundsAssumption == MaxRow \in Nat /\ MaxCrash \in Nat

VARIABLES
    row,        \* the committed row: "none", "live" or "tomb"
    file,       \* what the directory holds under the name of the hash
    temp,       \* per upload, its temporary file there
    stale,      \* temporary files of uploads that died are there
    up,         \* per upload, [at, body]: what it does next, with what bytes
    del,        \* a push that deletes the row is under way
    hooks,      \* committed deletes whose files are still to be removed
    gc,         \* the retention cleanup: "idle", "rows" or "files"
    purge,      \* the purge of the account: "idle" or "files"
    discard,    \* a client removes the file of a row that was live
    made,       \* times the row was created
    crashes,    \* restarts so far
    acked,      \* an upload was answered, and the client has not discarded it
    late,       \* the row was created while files of an earlier one of its id
                \*   were still to be removed
    leaked      \* files may have been left that nobody will look for

rows  == <<row, del, made, late>>
disk  == <<file, temp, stale>>
sweep == <<hooks, gc, purge, discard>>
vars  == <<rows, disk, up, sweep, crashes, acked, leaked>>

Idle == [at |-> "idle", body |-> "none"]

Dirty == file # "none" \/ stale \/ \E u \in Upload : temp[u] # "none"

-----------------------------------------------------------------------------
(* The row.                                                                 *)

\* A push creates the row; the client keeps the id of an attachment the server
\* has forgotten.
CreateRow ==
    /\ row = "none"
    /\ made < MaxRow
    /\ row' = "live"
    /\ made' = made + 1
    /\ acked' = FALSE
    /\ late' = (hooks > 0 \/ gc # "idle" \/ purge # "idle" \/ discard)
    /\ UNCHANGED <<del, disk, up, sweep, crashes, leaked>>

\* A push that deletes the row has registered its hook, but not committed.
DeleteRow ==
    /\ row = "live" /\ ~del
    /\ del' = TRUE
    /\ UNCHANGED <<row, made, late, disk, up, sweep, crashes, acked, leaked>>

CommitDelete ==
    /\ del
    /\ row' = "tomb"
    /\ del' = FALSE
    /\ hooks' = hooks + 1
    /\ UNCHANGED <<made, late, disk, up, gc, purge, discard, crashes, acked, leaked>>

\* Mutant: the hooks run although the transaction rolled back.
RollbackDelete_Hook ==
    /\ del
    /\ del' = FALSE
    /\ hooks' = hooks + 1
    /\ UNCHANGED <<row, made, late, disk, up, gc, purge, discard, crashes, acked, leaked>>

\* The transaction fails, and its hook is dropped.
RollbackDelete ==
    /\ del
    /\ del' = FALSE
    /\ UNCHANGED <<row, made, late, disk, up, sweep, crashes, acked, leaked>>

\* The row is tombstoned with its session: no hook is registered.
CascadeRow ==
    /\ row = "live" /\ ~del
    /\ row' = "tomb"
    /\ UNCHANGED <<del, made, late, disk, up, sweep, crashes, acked, leaked>>

-----------------------------------------------------------------------------
(* Removing files.                                                          *)

\* RemoveAll of the directory.  It is no single step: the temporary file of an
\* upload that is still running may be missed.
RemoveFiles ==
    /\ file' = "none"
    /\ stale' = FALSE
    /\ \E missed \in SUBSET {u \in Upload : up[u].at \in {"copy", "rename"}} :
          temp' = [u \in Upload |-> IF u \in missed THEN temp[u] ELSE "none"]

RunHook ==
    /\ hooks > 0
    /\ RemoveFiles
    /\ hooks' = hooks - 1
    /\ UNCHANGED <<rows, up, gc, purge, discard, crashes, acked, leaked>>

\* The SELECT of the retention cleanup finds a tombstone older than the window;
\* whatever was under way when the row was deleted has long ended.
CleanupSelect ==
    /\ gc = "idle"
    /\ row = "tomb"
    /\ hooks = 0 /\ ~discard
    /\ \A u \in Upload : up[u] = Idle
    /\ gc' = "rows"
    /\ UNCHANGED <<rows, disk, up, hooks, purge, discard, crashes, acked, leaked>>

\* Mutant: the ids are collected after the rows have been deleted.
CleanupRows_NoIds ==
    /\ gc = "rows"
    /\ row' = IF row = "tomb" THEN "none" ELSE row
    /\ gc' = "idle"
    /\ UNCHANGED <<del, made, late, disk, up, hooks, purge, discard, crashes, acked, leaked>>

CleanupRows ==
    /\ gc = "rows"
    /\ row' = IF row = "tomb" THEN "none" ELSE row
    /\ gc' = "files"
    /\ UNCHANGED <<del, made, late, disk, up, hooks, purge, discard, crashes, acked, leaked>>

CleanupFiles ==
    /\ gc = "files"
    /\ RemoveFiles
    /\ gc' = "idle"
    /\ UNCHANGED <<rows, up, hooks, purge, discard, crashes, acked, leaked>>

\* The user deletes the cloud data, or the account: rows first.
PurgeRows ==
    /\ purge = "idle"
    /\ row # "none" /\ ~del
    /\ row' = "none"
    /\ purge' = "files"
    /\ UNCHANGED <<del, made, late, disk, up, hooks, gc, discard, crashes, acked, leaked>>

PurgeFiles ==
    /\ purge = "files"
    /\ RemoveFiles
    /\ purge' = "idle"
    /\ UNCHANGED <<rows, up, hooks, gc, discard, crashes, acked, leaked>>

\* DELETE of the files of a live row, by the client.
DiscardBegin ==
    /\ ~discard
    /\ row = "live"
    /\ discard' = TRUE
    /\ UNCHANGED <<rows, disk, up, hooks, gc, purge, crashes, acked, leaked>>

DiscardFiles ==
    /\ discard
    /\ RemoveFiles
    /\ discard' = FALSE
    /\ acked' = FALSE
    /\ UNCHANGED <<rows, up, hooks, gc, purge, crashes, leaked>>

-----------------------------------------------------------------------------
(* Uploads.                                                                 *)

\* The row is live and carries the hash the client declares.
UploadBegin(u) ==
    /\ up[u] = Idle
    /\ row = "live"
    /\ \E body \in {"good", "bad"} : up' = [up EXCEPT ![u] = [at |-> "look", body |-> body]]
    /\ UNCHANGED <<rows, disk, sweep, crashes, acked, leaked>>

\* The file is there with the right bytes: nothing to do.
UploadThere(u) ==
    /\ up[u].at = "look"
    /\ file = "good"
    /\ up' = [up EXCEPT ![u] = Idle]
    /\ acked' = TRUE
    /\ UNCHANGED <<rows, disk, sweep, crashes, leaked>>

UploadTemp(u) ==
    /\ up[u].at = "look"
    /\ file # "good"
    /\ temp' = [temp EXCEPT ![u] = "bad"]
    /\ up' = [up EXCEPT ![u].at = "copy"]
    /\ UNCHANGED <<rows, file, stale, sweep, crashes, acked, leaked>>

\* The body is copied into a temporary file of the upload's own and its hash
\* computed on the way; bytes of a file unlinked meanwhile are lost.
UploadCopy(u) ==
    /\ up[u].at = "copy"
    /\ temp' = IF temp[u] = "none" THEN temp
               ELSE [temp EXCEPT ![u] = up[u].body]
    /\ up' = [up EXCEPT ![u].at = "rename"]
    /\ UNCHANGED <<rows, file, stale, sweep, crashes, acked, leaked>>

\* Mutant: the file is renamed before the hash is compared.
UploadRename_First(u) ==
    /\ up[u].at = "rename"
    /\ temp[u] # "none"
    /\ file' = temp[u]
    /\ temp' = [temp EXCEPT ![u] = "none"]
    /\ up' = [up EXCEPT ![u] = Idle]
    /\ acked' = (acked \/ up[u].body = "good")
    /\ leaked' = (leaked \/ row = "none")
    /\ UNCHANGED <<rows, stale, sweep, crashes>>

\* The hash is right and the temporary file still there: it takes its name.
UploadRename(u) ==
    /\ up[u].at = "rename"
    /\ up[u].body = "good"
    /\ temp[u] # "none"
    /\ file' = temp[u]
    /\ temp' = [temp EXCEPT ![u] = "none"]
    /\ up' = [up EXCEPT ![u] = Idle]
    /\ acked' = TRUE
    /\ leaked' = (leaked \/ row = "none")
    /\ UNCHANGED <<rows, stale, sweep, crashes>>

\* The hash is wrong, the body breaks off or the disk refuses: the temporary
\* file is removed.
UploadFails(u) ==
    /\ up[u] # Idle
    /\ temp' = IF up[u].at = "look" THEN temp ELSE [temp EXCEPT ![u] = "none"]
    /\ up' = [up EXCEPT ![u] = Idle]
    /\ UNCHANGED <<rows, file, stale, sweep, crashes, acked, leaked>>

\* The server restarts.  Hooks, cleanups and purges are forgotten, temporary
\* files stay.
Crash ==
    /\ crashes < MaxCrash
    /\ crashes' = crashes + 1
    /\ up' = [u \in Upload |-> Idle]
    /\ stale' = (stale \/ \E u \in Upload : temp[u] # "none")
    /\ temp' = [u \in Upload |-> "none"]
    /\ del' = FALSE
    /\ hooks' = 0 /\ gc' = "idle" /\ purge' = "idle" /\ discard' = FALSE
    /\ leaked' = (leaked \/ (row = "none" /\ Dirty))
    /\ UNCHANGED <<row, made, late, file, acked>>

-----------------------------------------------------------------------------
Init ==
    /\ row = "none" /\ made = 0 /\ late = FALSE
    /\ file = "none" /\ stale = FALSE
    /\ temp = [u \in Upload |-> "none"]
    /\ up = [u \in Upload |-> Idle]
    /\ del = FALSE
    /\ hooks = 0 /\ gc = "idle" /\ purge = "idle" /\ discard = FALSE
    /\ crashes = 0
    /\ acked = FALSE /\ leaked = FALSE

Serve(u) ==
    \/ UploadThere(u) \/ UploadTemp(u) \/ UploadCopy(u)
    \/ UploadRename(u) \/ UploadFails(u)

Cleanup == CleanupSelect \/ CleanupRows \/ CleanupFiles

Next ==
    \/ CreateRow \/ DeleteRow \/ CommitDelete \/ RollbackDelete \/ CascadeRow
    \/ RunHook \/ Cleanup \/ PurgeRows \/ PurgeFiles
    \/ DiscardBegin \/ DiscardFiles
    \/ \E u \in Upload : UploadBegin(u) \/ Serve(u)
    \/ Crash

Spec == Init /\ [][Next]_vars

\* Requests end, hooks run, and the cleanup comes once a day.
FairSpec ==
    /\ Spec
    /\ WF_vars(CommitDelete \/ RollbackDelete)
    /\ WF_vars(RunHook) /\ WF_vars(Cleanup)
    /\ WF_vars(PurgeFiles) /\ WF_vars(DiscardFiles)
    /\ \A u \in Upload : WF_vars(Serve(u))

-----------------------------------------------------------------------------
(* Properties.                                                              *)

TypeOK ==
    /\ row \in {"none", "live", "tomb"}
    /\ file \in {"none", "good", "bad"}
    /\ temp \in [Upload -> {"none", "good", "bad"}]
    /\ up \in [Upload -> [at   : {"idle", "look", "copy", "rename"},
                          body : {"none", "good", "bad"}]]
    /\ stale \in BOOLEAN
    /\ del \in BOOLEAN /\ hooks \in Nat
    /\ gc \in {"idle", "rows", "files"} /\ purge \in {"idle", "files"}
    /\ discard \in BOOLEAN
    /\ made \in 0 .. MaxRow /\ crashes \in 0 .. MaxCrash
    /\ acked \in BOOLEAN /\ late \in BOOLEAN /\ leaked \in BOOLEAN

\* "The server never persists mislabeled content": whatever uploads overlap, fail
\* or die, the name of a hash stands for bytes of that hash.
VerifiedBytes == file # "bad"

\* A client that has been told its file is stored finds it there as long as the
\* row lives: hooks of transactions that rolled back, failed uploads and restarts
\* take nothing away.  Only a row created anew while the files of an earlier one
\* are being removed loses what was uploaded for it.
AckedServed == acked /\ row = "live" /\ ~late => file = "good"

\* The same without the exception: "the rows no longer reference the files
\* either way".
AlwaysServed == acked /\ row = "live" => file = "good"

\* What lies below a tombstone is removed in the end, by the hook or, if a restart
\* has lost it or there was none, by the retention cleanup; unless the row comes
\* back, or a restart or an upload that was still running has left files whose
\* row is gone.
StrayReaped == (row = "tomb" /\ Dirty) ~> (~Dirty \/ row = "live" \/ leaked)
=============================================================================
