----------------------------- MODULE SyncCascade -----------------------------
(***************************************************************************)
(* SyncPush with the rule table of SyncSchema: what a delete promises      *)
(* about the rows that referred to the deleted one.                        *)
(***************************************************************************)
EXTENDS SyncPush, SyncSchema

\* Pairs <<parent type, child type>>: once the parent is deleted no live child
\* refers to it, being deleted with it or detached from it.
Followed ==
    ({"session"} \X {"entry", "bookmark", "favorite", "note", "study_review",
                     "attachment", "transcript_correction", "material"})
    \cup ({"course"} \X {"session", "term", "study_card", "study_task", "material",
                         "assistant_thread", "exam", "study_activity",
                         "course_schedule"})
    \cup ({"exam"} \X {"exam_topic", "study_plan", "study_activity"})
    \cup {<<"course_schedule", "schedule_exception">>,
          <<"material", "material_page">>, <<"material", "material_annotation">>,
          <<"assistant_thread", "assistant_message">>,
          <<"study_plan", "study_plan_item">>,
          <<"interpreter_conversation", "interpreter_turn">>,
          <<"errand_case", "errand_case_item">>}

Dies(p) == ~rows[p].dead /\ rows'[p].dead

LeftBehind(p, e) ==
    /\ rows'[e].ver > 0
    /\ ~rows'[e].dead
    /\ rows'[e].ref[KindOf[p]] = p

\* A delete reaches everything below the row, through every level: nothing
\* live still refers to a row that is deleted, directly or by a cascade.
CascadeComplete ==
    [][\A p, e \in Ent :
          Dies(p) /\ <<KindOf[p], KindOf[e]>> \in Followed => ~LeftBehind(p, e)]_vars

\* When a plan item is deleted, by itself or with its plan or its exam, the
\* study activities that pointed to it are detached.
ActivitiesDetached ==
    [][\A p, e \in Ent :
          Dies(p) /\ <<KindOf[p], KindOf[e]>> = <<"study_plan_item", "study_activity">>
             => ~LeftBehind(p, e)]_vars

\* Entity types whose upsert demands a live session.
SessionBound == {"entry", "note", "study_review", "attachment"}

\* A row that demands a live session names it on the INSERT only and goes when
\* it is deleted; a session goes by a delete of its own only.
ASSUME SessionAssumption ==
    /\ \A k \in Kind \cap SessionBound :
          /\ Rule[k].parent = "session" /\ "session" \in RefName
          /\ Mode(Rule[k], "session") = "insert"
          /\ "session" \in Kind =>
                \E i \in DOMAIN Rule["session"].program :
                   /\ Rule["session"].program[i].act = "tombstone"
                   /\ Rule["session"].program[i].kind = k
                   /\ Rule["session"].program[i].ref = "session"
    /\ \A k \in Kind : \A i \in DOMAIN Rule[k].program :
          LET s == Rule[k].program[i] IN
          /\ s.kids # "session"
          /\ s.act = "tombstone" => s.kind # "session"
          /\ s.act = "detach" /\ s.kind \in SessionBound => s.ref # "session"

\* An operation names in a reference column a row of the type the column is for.
ASSUME ReferenceAssumption ==
    \A f \in Script, o \in OpId, r \in RefName :
        f[o].refs[r] \in Ent => KindOf[f[o].refs[r]] = r

\* Nothing that demands a live session lives below a deleted one: a child that
\* passed the check has been deleted with its session.
NoOrphan ==
    \A e \in Ent :
        KindOf[e] \in SessionBound /\ rows[e].ver > 0 /\ ~rows[e].dead
            => ~rows[rows[e].ref["session"]].dead
=============================================================================
