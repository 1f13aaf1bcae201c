------------------------------ MODULE MCSyncPush ------------------------------
(***************************************************************************)
(* Instances of SyncPush for TLC.  An entity id starts with its type; the  *)
(* rules are those of SyncSchema for the types an instance has rows of.    *)
(***************************************************************************)
EXTENDS SyncCascade, TLC

\* Operations.  Unless a definition says otherwise the payload is complete
\* and its text is the stored one.
Push(op, e, base, refs) ==
    [ent |-> e, op |-> op, base |-> base, ok |-> TRUE, full |-> TRUE, same |-> TRUE,
     refs |-> [r \in RefName |-> IF r \in DOMAIN refs THEN refs[r] ELSE Keep]]

Upsert(e, base, refs) == Push("upsert", e, base, refs)
Delete(e)             == Push("delete", e, 0, NoRefs)
Garbage(e)            == Push("other", e, 0, NoRefs)

-----------------------------------------------------------------------------
(* Two requests at once over a session and a note in it.                    *)

PairEnt    == {"session1", "note1"}
PairKind   == {"session", "note"}
PairKindOf == ("session1" :> "session" @@ "note1" :> "note")
PairRef    == {"session"}
PairOp     == {"create", "note", "other", "change"}

InSession(e, base) == Upsert(e, base, [session |-> "session1"])

\* A device creates a session and a note in it, in one batch; the note is then
\* edited or deleted and the session edited or deleted, by two batches; one
\* comes to the note first, a delete of the session to the session first.
PairScript ==
    {("create" :> Upsert("session1", 0, NoRefs) @@ "note" :> InSession("note1", 0)
      @@ "other" :> x @@ "change" :> y) :
        x \in {InSession("note1", 1), Delete("note1"), Garbage("note1")},
        y \in {Upsert("session1", 0, NoRefs), Upsert("session1", 1, NoRefs),
               Delete("session1")}}
PairBatch == {<<"create", "note">>, <<"other", "change">>, <<"change">>}

PairRule == RuleFor(PairKind)
PairConn == Permutations(Conn)

\* A session is edited, or a note created in it, while another device deletes it.
RaceOp     == {"create", "edit", "delete"}
RaceScript ==
    {("create" :> Upsert("session1", 0, NoRefs) @@ "edit" :> x
      @@ "delete" :> Delete("session1")) :
        x \in {Upsert("session1", 1, NoRefs), InSession("note1", 0)}}
RaceBatch  == {<<"create">>, <<"edit">>, <<"delete">>}

-----------------------------------------------------------------------------
(* One request at a time: every mix of four operations from a menu.         *)

SerialEnt    == {"session1", "course1", "note1", "entry1"}
SerialKind   == {"session", "course", "note", "entry"}
SerialKindOf == ("session1" :> "session" @@ "course1" :> "course"
                 @@ "note1" :> "note" @@ "entry1" :> "entry")
SerialRef    == {"session", "course"}
SerialOp     == {1, 2, 3, 4}
SerialMenu   ==
    {Upsert("session1", 0, [course |-> "course1"]), Upsert("session1", 1, [course |-> Nil]),
     Upsert("session1", 2, NoRefs), Delete("session1"),
     [Upsert("session1", 0, NoRefs) EXCEPT !.ok = FALSE],
     InSession("entry1", 0), [InSession("entry1", 1) EXCEPT !.same = FALSE],
     [InSession("entry1", 0) EXCEPT !.full = FALSE], Delete("entry1"),
     InSession("note1", 1),
     Upsert("course1", 0, NoRefs), Delete("course1")}
SerialScript == [SerialOp -> SerialMenu]
SerialBatch  == {<<1, 2>>, <<3, 4>>}
SerialRule   == RuleFor(SerialKind)

-----------------------------------------------------------------------------
(* One row of every type, each referring to all it can; then deletes.       *)

TreeKind   == DOMAIN ServerRule
TreeKindOf == [k \in TreeKind |-> k]            \* the row is named as its type
TreeRef    == UNION {DOMAIN ServerRule[k].refs : k \in TreeKind}

\* Parents are pushed before their children.
TreeOrder ==
    <<"course", "session", "entry", "transcript_correction", "bookmark", "favorite",
      "note", "study_review", "attachment", "term", "study_card", "study_task",
      "course_schedule", "schedule_exception", "material", "material_page",
      "material_annotation", "assistant_thread", "assistant_message", "exam",
      "exam_topic", "study_plan", "study_plan_item", "study_activity",
      "interpreter_conversation", "interpreter_turn", "errand_case",
      "errand_case_item">>
TreeOp    == TreeKind \cup {"drop", "drop too"}
TreeBatch == {TreeOrder, <<"drop">>, <<"drop too">>}
TreeRule  == RuleFor(TreeKind)

\* An activity refers to a plan item only when linked says so.
TreeRow(k, linked) ==
    Upsert(k, 0, [r \in DOMAIN ServerRule[k].refs |->
                     IF r = "study_plan_item" /\ ~linked THEN Nil ELSE r])

Tree(k1, k2, linked) ==
    [o \in TreeOp |-> CASE o = "drop"     -> Delete(k1)
                        [] o = "drop too" -> Delete(k2)
                        [] OTHER          -> TreeRow(o, linked)]

\* Plans and exams are deleted when no activity is linked to their items.
PlanKind == {"exam", "study_plan"}
TreeScript ==
    {Tree(k1, k2, TRUE)  : k1 \in TreeKind \ PlanKind, k2 \in {"note", "material"}}
    \cup {Tree(k1, k2, FALSE) : k1 \in PlanKind, k2 \in {"study_plan_item", "course"}}

PlanScript == {Tree("study_plan", "note", TRUE)}

-----------------------------------------------------------------------------
(* Operations pushed until they are answered.                               *)

SettleOp     == {"create", "other", "change"}
SettleScript ==
    {("create" :> Upsert("session1", 0, NoRefs) @@ "other" :> x @@ "change" :> y) :
        x \in {InSession("note1", 0), Delete("note1")},
        y \in {Upsert("session1", 1, NoRefs), Delete("session1")}}
SettleBatch == {<<"create", "other">>, <<"change">>}

\* The delete of an exam the server has never seen.
StrayKind   == {"exam"}
StrayKindOf == ("exam1" :> "exam")
StrayEnt    == {"exam1"}
StrayOp     == {"drop"}
StrayScript == {("drop" :> Delete("exam1"))}
StrayBatch  == {<<"drop">>}
StrayRef    == {"exam"}
StrayRule   == RuleFor(StrayKind)
=============================================================================
