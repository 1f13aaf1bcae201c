------------------------ MODULE AttachmentFilesProofs ------------------------
(***************************************************************************)
(* What AttachmentFiles promises, for every number of uploads, creations   *)
(* and restarts.                                                           *)
(***************************************************************************)
EXTENDS AttachmentFiles, TLAPS

\* An upload that is about to rename has put its own body into its own file.
OwnBytes ==
    \A u \in Upload : up[u].at = "rename" /\ temp[u] # "none" => temp[u] = up[u].body

\* Nobody is about to remove the files of a row that lives and was not created too
\* early, except the client itself.
Quiet == row = "live" /\ ~late => hooks = 0 /\ gc = "idle" /\ purge = "idle"

IInv == TypeOK /\ VerifiedBytes /\ OwnBytes /\ Quiet /\ AckedServed

-----------------------------------------------------------------------------
LEMMA InitHolds == Init => IInv
<1> SUFFICES ASSUME Init PROVE IInv
  OBVIOUS
<1>1. hooks \in Nat /\ made \in 0 .. MaxRow /\ crashes \in 0 .. MaxCrash
  BY BoundsAssumption DEF Init
<1>2. del \in BOOLEAN /\ discard \in BOOLEAN /\ stale \in BOOLEAN
      /\ acked \in BOOLEAN /\ late \in BOOLEAN /\ leaked \in BOOLEAN
  BY Zenon DEF Init
<1>3. up \in [Upload -> [at   : {"idle", "look", "copy", "rename"},
                        body : {"none", "good", "bad"}]]
  BY DEF Init, Idle
<1>4. TypeOK
  BY <1>1, <1>2, <1>3 DEF Init, TypeOK
<1> QED
  BY <1>4 DEF Init, IInv, VerifiedBytes, OwnBytes, Quiet, AckedServed, Idle

\* Removing files leaves no bytes but those that were there.
LEMMA Removed ==
  ASSUME TypeOK, RemoveFiles
  PROVE  /\ file' = "none" /\ stale' = FALSE
         /\ temp' \in [Upload -> {"none", "good", "bad"}]
         /\ \A u \in Upload : temp'[u] # "none" => temp'[u] = temp[u]
  BY DEF TypeOK, RemoveFiles

LEMMA TypeStep == TypeOK /\ [Next]_vars => TypeOK'
<1> SUFFICES ASSUME TypeOK, [Next]_vars PROVE TypeOK'
  OBVIOUS
<1> USE BoundsAssumption DEF TypeOK
<1>1. CASE CreateRow
  <2>1. made' \in 0 .. MaxRow
    BY <1>1 DEF CreateRow
  <2>2. late' \in BOOLEAN
    BY <1>1, Zenon DEF CreateRow
  <2> QED
    BY <1>1, <2>1, <2>2 DEF CreateRow, disk, sweep
<1>2. CASE DeleteRow
  BY <1>2 DEF DeleteRow, disk, sweep
<1>3. CASE CommitDelete
  <2>1. hooks' \in Nat
    BY <1>3 DEF CommitDelete
  <2> QED
    BY <1>3, <2>1 DEF CommitDelete, disk
<1>4. CASE RollbackDelete
  BY <1>4 DEF RollbackDelete, disk, sweep
<1>5. CASE CascadeRow
  BY <1>5 DEF CascadeRow, disk, sweep
<1>6. CASE RunHook
  <2>1. hooks' \in Nat
    BY <1>6 DEF RunHook
  <2> QED
    BY <1>6, <2>1, Removed DEF RunHook, rows
<1>7. CASE Cleanup
  <2>1. CASE CleanupSelect
    BY <2>1 DEF CleanupSelect, rows, disk
  <2>2. CASE CleanupRows
    BY <2>2 DEF CleanupRows, disk
  <2>3. CASE CleanupFiles
    BY <2>3, Removed DEF CleanupFiles, rows
  <2> QED
    BY <1>7, <2>1, <2>2, <2>3 DEF Cleanup
<1>8. CASE PurgeRows
  BY <1>8 DEF PurgeRows, disk
<1>9. CASE PurgeFiles
  BY <1>9, Removed DEF PurgeFiles, rows
<1>10. CASE DiscardBegin
  BY <1>10 DEF DiscardBegin, rows, disk
<1>11. CASE DiscardFiles
  BY <1>11, Removed DEF DiscardFiles, rows
<1>12. ASSUME NEW u \in Upload, UploadBegin(u) PROVE TypeOK'
  BY <1>12 DEF UploadBegin, rows, disk, sweep
<1>13. ASSUME NEW u \in Upload, Serve(u) PROVE TypeOK'
  <2>1. CASE UploadThere(u)
    BY <2>1 DEF UploadThere, rows, disk, sweep, Idle
  <2>2. CASE UploadTemp(u)
    BY <2>2 DEF UploadTemp, rows, sweep
  <2>3. CASE UploadCopy(u)
    BY <2>3 DEF UploadCopy, rows, sweep
  <2>4. CASE UploadRename(u)
    BY <2>4 DEF UploadRename, rows, sweep, Idle
  <2>5. CASE UploadFails(u)
    BY <2>5 DEF UploadFails, rows, sweep, Idle
  <2> QED
    BY <1>13, <2>1, <2>2, <2>3, <2>4, <2>5 DEF Serve
<1>14. CASE Crash
  <2>1. crashes' \in 0 .. MaxCrash
    BY <1>14 DEF Crash
  <2>2. stale' \in BOOLEAN /\ leaked' \in BOOLEAN
    BY <1>14, Zenon DEF Crash
  <2>3. temp' \in [Upload -> {"none", "good", "bad"}]
    BY <1>14 DEF Crash
  <2>4. up' \in [Upload -> [at   : {"idle", "look", "copy", "rename"},
                          body : {"none", "good", "bad"}]]
    BY <1>14 DEF Crash, Idle
  <2> QED
    BY <1>14, <2>1, <2>2, <2>3, <2>4 DEF Crash
<1>15. CASE UNCHANGED vars
  BY <1>15 DEF vars, rows, disk, sweep
<1> QED
  BY <1>1, <1>2, <1>3, <1>4, <1>5, <1>6, <1>7, <1>8, <1>9, <1>10, <1>11, <1>12,
     <1>13, <1>14, <1>15 DEF Next

\* THEOREM Spec => []TypeOK: every variable keeps its type.
THEOREM FilesTypeCorrect == Spec => []TypeOK
<1>1. Init => TypeOK
  BY InitHolds DEF IInv
<1> QED
  BY <1>1, TypeStep, PTL DEF Spec

-----------------------------------------------------------------------------
LEMMA BytesStep ==
  ASSUME TypeOK, VerifiedBytes, OwnBytes, [Next]_vars
  PROVE  VerifiedBytes' /\ OwnBytes'
<1> USE DEF TypeOK, VerifiedBytes, OwnBytes
<1>1. CASE /\ UNCHANGED <<file, temp, up>>
  BY <1>1
<1>2. CASE RemoveFiles /\ UNCHANGED up
  BY <1>2, Removed
<1>3. ASSUME NEW u \in Upload, UploadBegin(u) PROVE VerifiedBytes' /\ OwnBytes'
  BY <1>3 DEF UploadBegin, disk
<1>4. ASSUME NEW u \in Upload, Serve(u) PROVE VerifiedBytes' /\ OwnBytes'
  <2>1. CASE UploadThere(u)
    BY <2>1 DEF UploadThere, disk, Idle
  <2>2. CASE UploadTemp(u)
    BY <2>2 DEF UploadTemp
  <2>3. CASE UploadCopy(u)
    BY <2>3 DEF UploadCopy
  <2>4. CASE UploadRename(u)
    BY <2>4 DEF UploadRename, Idle
  <2>5. CASE UploadFails(u)
    BY <2>5 DEF UploadFails, Idle
  <2> QED
    BY <1>4, <2>1, <2>2, <2>3, <2>4, <2>5 DEF Serve
<1>5. CASE Crash
  BY <1>5 DEF Crash, Idle
<1>6. CASE CreateRow \/ DeleteRow \/ CommitDelete \/ RollbackDelete \/ CascadeRow
  BY <1>1, <1>6 DEF CreateRow, DeleteRow, CommitDelete, RollbackDelete, CascadeRow, disk
<1>7. CASE Cleanup
  BY <1>1, <1>2, <1>7 DEF Cleanup, CleanupSelect, CleanupRows, CleanupFiles, disk
<1>8. CASE RunHook \/ PurgeRows \/ PurgeFiles \/ DiscardBegin \/ DiscardFiles
  BY <1>1, <1>2, <1>8 DEF RunHook, PurgeRows, PurgeFiles, DiscardBegin, DiscardFiles, disk
<1>9. CASE UNCHANGED vars
  BY <1>1, <1>9 DEF vars, disk
<1> QED
  BY <1>3, <1>4, <1>5, <1>6, <1>7, <1>8, <1>9 DEF Next

LEMMA QuietStep == TypeOK /\ Quiet /\ [Next]_vars => Quiet'
<1> SUFFICES ASSUME TypeOK, Quiet, [Next]_vars PROVE Quiet'
  OBVIOUS
<1> USE DEF TypeOK, Quiet
<1>1. CASE UNCHANGED <<rows, sweep>>
  BY <1>1 DEF rows, sweep
<1>2. CASE CreateRow
  <2>1. ~late' => ~(hooks > 0) /\ gc = "idle" /\ purge = "idle"
    BY <1>2, Zenon DEF CreateRow
  <2>2. ~(hooks > 0) => hooks = 0
    OBVIOUS
  <2> QED
    BY <1>2, <2>1, <2>2, Zenon DEF CreateRow, sweep
<1>3. CASE DeleteRow \/ CommitDelete \/ RollbackDelete \/ CascadeRow
  BY <1>3 DEF DeleteRow, CommitDelete, RollbackDelete, CascadeRow, sweep
<1>4. CASE Cleanup
  BY <1>4 DEF Cleanup, CleanupSelect, CleanupRows, CleanupFiles, rows
<1>5. CASE RunHook \/ PurgeRows \/ PurgeFiles \/ DiscardBegin \/ DiscardFiles
  BY <1>5 DEF RunHook, PurgeRows, PurgeFiles, DiscardBegin, DiscardFiles, rows
<1>6. CASE Crash
  BY <1>6 DEF Crash
<1>7. ASSUME NEW u \in Upload, UploadBegin(u) \/ Serve(u) PROVE Quiet'
  BY <1>1, <1>7 DEF UploadBegin, Serve, UploadThere, UploadTemp, UploadCopy,
                    UploadRename, UploadFails
<1> QED
  BY <1>1, <1>2, <1>3, <1>4, <1>5, <1>6, <1>7 DEF Next, vars

LEMMA AckedStep == IInv /\ [Next]_vars => AckedServed'
<1> SUFFICES ASSUME IInv, [Next]_vars PROVE AckedServed'
  OBVIOUS
<1> USE DEF IInv, TypeOK, VerifiedBytes, Quiet, AckedServed
<1>1. CASE UNCHANGED <<row, late, file, acked>>
  BY <1>1
<1>2. CASE CreateRow
  BY <1>2 DEF CreateRow
<1>3. CASE DeleteRow \/ CommitDelete \/ RollbackDelete \/ CascadeRow
  <2>1. CASE DeleteRow \/ RollbackDelete
    BY <1>1, <2>1 DEF DeleteRow, RollbackDelete, disk
  <2>2. CASE CommitDelete \/ CascadeRow
    BY <2>2 DEF CommitDelete, CascadeRow
  <2> QED
    BY <1>3, <2>1, <2>2
<1>4. CASE Cleanup
  BY <1>4 DEF Cleanup, CleanupSelect, CleanupRows, CleanupFiles, rows, disk
<1>5. CASE RunHook \/ PurgeRows \/ PurgeFiles \/ DiscardBegin \/ DiscardFiles
  <2>1. CASE RunHook
    BY <2>1 DEF RunHook, rows
  <2>2. CASE PurgeRows
    BY <2>2 DEF PurgeRows
  <2>3. CASE PurgeFiles
    BY <2>3 DEF PurgeFiles, rows
  <2>4. CASE DiscardBegin
    BY <1>1, <2>4 DEF DiscardBegin, rows, disk
  <2>5. CASE DiscardFiles
    BY <2>5 DEF DiscardFiles
  <2> QED
    BY <1>5, <2>1, <2>2, <2>3, <2>4, <2>5
<1>6. CASE Crash
  BY <1>1, <1>6 DEF Crash
<1>7. ASSUME NEW u \in Upload, UploadBegin(u) \/ Serve(u) PROVE AckedServed'
  <2>1. CASE UploadThere(u)
    BY <2>1 DEF UploadThere, disk
  <2>2. CASE UploadRename(u)
    BY <2>2, BytesStep DEF UploadRename, OwnBytes
  <2> QED
    BY <1>1, <1>7, <2>1, <2>2 DEF UploadBegin, Serve, UploadTemp, UploadCopy,
                                  UploadFails, rows, disk
<1> QED
  BY <1>1, <1>2, <1>3, <1>4, <1>5, <1>6, <1>7 DEF Next, vars, rows, disk

LEMMA Inductive == Spec => []IInv
<1>1. IInv /\ [Next]_vars => IInv'
  BY TypeStep, BytesStep, QuietStep, AckedStep DEF IInv
<1> QED
  BY InitHolds, <1>1, PTL DEF Spec

\* THEOREM Spec => []VerifiedBytes: "the server never persists mislabeled content",
\* with any number of uploads of one name, cut off anywhere.
THEOREM NeverMislabeled == Spec => []VerifiedBytes
<1>1. IInv => VerifiedBytes
  BY DEF IInv
<1> QED
  BY Inductive, <1>1, PTL

\* THEOREM Spec => []AckedServed: hooks, cleanups, purges, failed uploads and
\* restarts take no acknowledged file from a live row, unless the row was created
\* while the files of its predecessor were still to be removed.
THEOREM AckedStays == Spec => []AckedServed
<1>1. IInv => AckedServed
  BY DEF IInv
<1> QED
  BY Inductive, <1>1, PTL
=============================================================================
