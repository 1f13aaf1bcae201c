------------------------------ MODULE SyncSchema ------------------------------
(***************************************************************************)
(* The rule table of the sync engine: what each entity type's apply       *)
(* function does differently from the common skeleton of SyncPush.        *)
(*                                                                         *)
(* A rule has                                                              *)
(*   parent   the reference that must name a live row on every upsert,    *)
(*            None when the function makes no such check;                 *)
(*   baseZero an upsert of an absent row is refused unless it was based   *)
(*            on version 0;                                               *)
(*   fixed    a payload whose text differs from the stored row is a       *)
(*            conflict even at the right base version;                    *)
(*   refs     the reference columns the cascades follow, with what an     *)
(*            upsert does to each: "merge" (absent keeps, nil clears,     *)
(*            a value assigns), "assign" (required and always written),   *)
(*            "insert" (written by the INSERT only) or "inherit" (copied  *)
(*            from the parent row by the INSERT);                         *)
(*   unique   the reference under a UNIQUE constraint, or None;           *)
(*   stub     whether the stub INSERT of a delete for an absent row       *)
(*            satisfies the table's NOT NULL columns;                     *)
(*   program  the UPDATE statements of a delete of a live row, in order.  *)
(* A reference column is named after the entity type it points to.        *)
(***************************************************************************)
EXTENDS Naturals, Sequences

None == "none"

\* One UPDATE ... RETURNING statement of a delete. at is the set of parent
\* rows it is still to be run for, filled in when the delete starts; kids is
\* the entity type tombstoned below every row the statement returns.
Stm(act, kind, ref, kids) ==
    [act |-> act, kind |-> kind, ref |-> ref, kids |-> kids, at |-> {}]

Bury(kind)           == Stm("bury", kind, None, None)
Tombstone(kind, ref) == Stm("tombstone", kind, ref, None)
Detach(kind, ref)    == Stm("detach", kind, ref, None)

Entity(parent, refs, program) ==
    [parent  |-> parent, baseZero |-> FALSE, fixed |-> FALSE, refs |-> refs,
     unique  |-> None,   stub |-> TRUE,      program |-> program]

\* A table whose NOT NULL columns the stub INSERT leaves out.
NoStub(rule) == [rule EXCEPT !.stub = FALSE]

NoRefs == [r \in {} |-> None]

-----------------------------------------------------------------------------
(* Classroom sessions and what hangs below them (service.go).              *)

\* Mutant: favorites are forgotten.
SessionCascade_Favorites ==
    <<Tombstone("entry", "session"), Tombstone("bookmark", "session"),
      Tombstone("note", "session"), Tombstone("study_review", "session"),
      Tombstone("attachment", "session"),
      Tombstone("transcript_correction", "session"), Detach("material", "session")>>

\* cascadeDeleteChildren
SessionCascade ==
    <<Tombstone("entry", "session"),
      Tombstone("bookmark", "session"),
      Tombstone("favorite", "session"),
      Tombstone("note", "session"),
      Tombstone("study_review", "session"),
      Tombstone("attachment", "session"),
      Tombstone("transcript_correction", "session"),
      Detach("material", "session")>>

SessionRule ==
    Entity(None, [course |-> "merge"], <<Bury("session")>> \o SessionCascade)

EntryRule ==
    [Entity("session", [session |-> "insert"], <<Bury("entry")>>)
        EXCEPT !.fixed = TRUE]

\* The correction of an entry carries the entry's own id: its parent is that
\* entry, and its session is read from the entry's row.
CorrectionRule ==
    Entity("entry", [entry |-> "insert", session |-> "inherit"],
           <<Bury("transcript_correction")>>)

BookmarkRule ==
    [Entity(None, [session |-> "insert", entry |-> "insert"], <<Bury("bookmark")>>)
        EXCEPT !.baseZero = TRUE, !.unique = "entry"]

FavoriteRule ==
    [Entity(None, [session |-> "insert"], <<Bury("favorite")>>)
        EXCEPT !.baseZero = TRUE, !.unique = "session"]

NoteRule == Entity("session", [session |-> "insert"], <<Bury("note")>>)

\* The review of a session carries the session's own id.
StudyReviewRule ==
    Entity("session", [session |-> "insert"], <<Bury("study_review")>>)

AttachmentRule ==
    Entity("session", [session |-> "insert", course |-> "merge"], <<Bury("attachment")>>)

-----------------------------------------------------------------------------
(* Courses, and the study data that survives them (service.go).            *)

\* detachCourseFromSessions
SessionDetach == <<Detach("session", "course")>>

\* detachCourseFromStudyData
StudyDataDetach ==
    <<Detach("term", "course"), Detach("study_card", "course"),
      Detach("study_task", "course")>>

\* cascadeDeleteSchedulesForCourse
ScheduleCascade ==
    <<Stm("tombstone", "course_schedule", "course", "schedule_exception")>>

\* detachCourseFromExams
ExamDetach == <<Detach("exam", "course"), Detach("study_activity", "course")>>

\* detachCourseFromMaterials, detachCourseFromAssistantThreads
MaterialDetach == <<Detach("material", "course"), Detach("assistant_thread", "course")>>

CourseRule ==
    Entity(None, NoRefs,
           <<Bury("course")>> \o SessionDetach
           \o StudyDataDetach \o MaterialDetach \o ExamDetach \o ScheduleCascade)

TermRule      == Entity(None, [course |-> "merge"], <<Bury("term")>>)
StudyCardRule == Entity(None, [course |-> "merge"], <<Bury("study_card")>>)
StudyTaskRule == Entity(None, [course |-> "merge"], <<Bury("study_task")>>)

\* The exceptions go first: the schedule's own tombstone is written last.
CourseScheduleRule ==
    NoStub(Entity(None, [course |-> "merge"],
                  <<Tombstone("schedule_exception", "course_schedule"),
                    Bury("course_schedule")>>))

ScheduleExceptionRule ==
    NoStub(Entity(None, [course_schedule |-> "assign", course |-> "merge"],
                  <<Bury("schedule_exception")>>))

-----------------------------------------------------------------------------
(* Course materials and assistant threads (materials.go).                  *)

\* cascadeDeleteMaterialChildren
MaterialCascade ==
    <<Tombstone("material_page", "material"),
      Tombstone("material_annotation", "material")>>

MaterialRule ==
    Entity(None, [course |-> "merge", session |-> "merge"],
           MaterialCascade \o <<Bury("material")>>)

MaterialPageRule ==
    NoStub(Entity(None, [material |-> "insert"], <<Bury("material_page")>>))

MaterialAnnotationRule ==
    NoStub(Entity(None, [material |-> "assign"], <<Bury("material_annotation")>>))

\* cascadeDeleteAssistantMessages
ThreadCascade == <<Tombstone("assistant_message", "assistant_thread")>>

AssistantThreadRule ==
    Entity(None, [course |-> "merge"], ThreadCascade \o <<Bury("assistant_thread")>>)

AssistantMessageRule ==
    NoStub(Entity(None, [assistant_thread |-> "assign"], <<Bury("assistant_message")>>))

-----------------------------------------------------------------------------
(* Exams, plans and study activities (exams.go).                           *)

\* cascadeDeleteExamChildren: topics; the items below every live plan, found
\* by a SELECT; then the plans themselves.
ExamCascade ==
    <<Tombstone("exam_topic", "exam"),
      Stm("select", "study_plan", "exam", "study_plan_item"),
      Tombstone("study_plan", "exam")>>

ExamRule ==
    NoStub(Entity(None, [course |-> "merge"],
                  ExamCascade \o <<Detach("study_activity", "exam"), Bury("exam")>>))

ExamTopicRule ==
    NoStub(Entity(None, [exam |-> "assign"], <<Bury("exam_topic")>>))

StudyPlanRule ==
    NoStub(Entity(None, [exam |-> "assign"],
                  <<Tombstone("study_plan_item", "study_plan"), Bury("study_plan")>>))

\* Mutant: the activities of a deleted item keep pointing to it.
StudyPlanItemRule_NoDetach ==
    NoStub(Entity(None, [study_plan |-> "assign", exam |-> "merge"],
                  <<Bury("study_plan_item")>>))

StudyPlanItemRule ==
    NoStub(Entity(None, [study_plan |-> "assign", exam |-> "merge"],
                  <<Detach("study_activity", "study_plan_item"),
                    Bury("study_plan_item")>>))

StudyActivityRule ==
    NoStub(Entity(None, [study_plan_item |-> "merge", exam |-> "merge",
                         course |-> "merge"],
                  <<Bury("study_activity")>>))

-----------------------------------------------------------------------------
(* Interpreter conversations (interpreter.go) and errands (errands.go).    *)

ConversationRule ==
    NoStub(Entity(None, NoRefs,
                  <<Tombstone("interpreter_turn", "interpreter_conversation"),
                    Bury("interpreter_conversation")>>))

TurnRule ==
    NoStub(Entity(None, [interpreter_conversation |-> "insert"],
                  <<Bury("interpreter_turn")>>))

ErrandCaseRule ==
    Entity(None, NoRefs,
           <<Tombstone("errand_case_item", "errand_case"), Bury("errand_case")>>)

ErrandCaseItemRule ==
    NoStub(Entity(None, [errand_case |-> "insert"], <<Bury("errand_case_item")>>))

-----------------------------------------------------------------------------
\* The dispatch of applyOne.
ServerRule ==
    [session |-> SessionRule,               entry |-> EntryRule,
     bookmark |-> BookmarkRule,             favorite |-> FavoriteRule,
     course |-> CourseRule,                 note |-> NoteRule,
     study_review |-> StudyReviewRule,      attachment |-> AttachmentRule,
     term |-> TermRule,                     study_card |-> StudyCardRule,
     study_task |-> StudyTaskRule,
     transcript_correction |-> CorrectionRule,
     course_schedule |-> CourseScheduleRule,
     schedule_exception |-> ScheduleExceptionRule,
     material |-> MaterialRule,             material_page |-> MaterialPageRule,
     material_annotation |-> MaterialAnnotationRule,
     assistant_thread |-> AssistantThreadRule,
     assistant_message |-> AssistantMessageRule,
     exam |-> ExamRule,                     exam_topic |-> ExamTopicRule,
     study_plan |-> StudyPlanRule,          study_plan_item |-> StudyPlanItemRule,
     study_activity |-> StudyActivityRule,
     interpreter_conversation |-> ConversationRule,
     interpreter_turn |-> TurnRule,
     errand_case |-> ErrandCaseRule,        errand_case_item |-> ErrandCaseItemRule]

\* The table for an instance that holds rows of these kinds only: a statement
\* over a table without rows changes nothing and is left out.
RuleFor(kinds) ==
    LET Held(s)     == s.kind \in kinds
        Trimmed(s)  == [s EXCEPT !.kids = IF @ \in kinds THEN @ ELSE None]
        Program(k)  == SelectSeq(ServerRule[k].program, Held)
    IN [k \in kinds |->
           [ServerRule[k] EXCEPT
               !.program = [i \in DOMAIN Program(k) |-> Trimmed(Program(k)[i])]]]
=============================================================================
