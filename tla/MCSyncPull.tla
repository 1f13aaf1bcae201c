------------------------------ MODULE MCSyncPull ------------------------------
(***************************************************************************)
(* Instances of SyncPull and SyncRetention for TLC: a course and a session *)
(* in it.                                                                  *)
(***************************************************************************)
EXTENDS SyncRetention, SyncSchema, TLC

PullEnt    == {"course1", "session1"}
PullKind   == {"course", "session"}
PullKindOf == ("course1" :> "course" @@ "session1" :> "session")
PullRef    == {"course"}
PullRule   == RuleFor(PullKind)
PullOp     == {"course", "session", "edit", "drop"}

Push(op, e, base, ref) ==
    [ent |-> e, op |-> op, base |-> base, ok |-> TRUE, full |-> TRUE, same |-> TRUE,
     refs |-> [r \in RefName |-> ref]]

\* The drop of the course also changes the session, which it detaches.
PullScript ==
    {("course" :> Push("upsert", "course1", 0, Keep)
      @@ "session" :> Push("upsert", "session1", 0, "course1")
      @@ "edit" :> Push("upsert", "session1", 1, Keep)
      @@ "drop" :> Push("delete", e, 0, Keep)) : e \in PullEnt}
PullTables == <<"session", "course">>
PullBatch == {<<"course">>, <<"session", "edit">>, <<"drop">>}
=============================================================================
