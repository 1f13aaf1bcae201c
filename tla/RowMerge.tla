------------------------------- MODULE RowMerge -------------------------------
(***************************************************************************)
(* How an accepted upsert merges into the stored row (internal/sync).      *)
(*                                                                         *)
(* Several devices edit one row offline and push later, each after having  *)
(* caught up with the row's version: the base version then matches and the *)
(* edits reach the server in any order, which the merge rules have to      *)
(* untangle by the times the edits were made.  The row here has the fields *)
(* those rules look at:                                                    *)
(*   text      the text of a correction, turn or errand item; the review   *)
(*             stage of a study card; the status of a plan item            *)
(*   at        the time kept beside it, 0 for NULL                         *)
(*   state     the completion state of a task, activity or errand item     *)
(*   amount    minutes spent, in a plan item or an activity                *)
(* and the kind of row says which rule applies.  A push carries the same   *)
(* fields.                                                                 *)
(***************************************************************************)
EXTENDS Integers, FiniteSets

CONSTANTS
    Kind,       \* kinds of row to look at
    Text,       \* texts an edit may leave
    Time,       \* the times edits carry; 0 for an edit without a time
    MaxAmount,  \* bound on minutes
    MaxPush     \* bound on pushes

MergedKind ==
    {"transcript_correction", "study_card", "study_task", "study_activity",
     "study_plan_item", "interpreter_turn", "errand_case_item"}

ASSUME MergeAssumption ==
    /\ Kind \subseteq MergedKind
    /\ Time \subseteq Nat
    /\ MaxAmount \in Nat /\ MaxPush \in Nat

VARIABLES
    kind,       \* the kind of the row
    row,        \* the stored row
    best,       \* the latest edit pushed so far
    spent,      \* the largest amount pushed so far
    pushes      \* pushes so far

vars == <<kind, row, best, spent, pushes>>

NoTime == 0
State  == {"open", "closed"}    \* in_progress, pending / done, skipped, completed

Edit == [text : Text, at : Time, state : State, amount : 0 .. MaxAmount]

Later_Sum(a, b) == a + b                \* mutant
Later(a, b) == IF a >= b THEN a ELSE b

-----------------------------------------------------------------------------
(* The merge rules: r is the stored row, p the push.                        *)

\* Mutant: the last to arrive wins.
MergeCorrection_Last(r, p) == [r EXCEPT !.text = p.text, !.at = Later(r.at, p.at)]

\* Correction: an edit not older than the stored one takes the text.
MergeCorrection(r, p) ==
    [r EXCEPT !.text = IF p.at >= r.at THEN p.text ELSE @,
              !.at   = Later(r.at, p.at)]

\* Study card: a review not older than the stored one replaces it; a push
\* without a review leaves it.
MergeCard(r, p) ==
    IF p.at # NoTime /\ p.at >= r.at
        THEN [r EXCEPT !.text = p.text, !.at = p.at]
        ELSE r

\* Mutant: the status pushed replaces the stored one.
MergeTask_Assign(r, p) == [r EXCEPT !.state = p.state]

\* Study task: a done task stays done.
MergeTask(r, p) ==
    [r EXCEPT !.state = IF r.state = "closed" THEN @ ELSE p.state]

\* Mutant: the minutes pushed replace the stored ones.
MergeActivity_Assign(r, p) ==
    [r EXCEPT !.state = IF p.state = "open" THEN @ ELSE p.state, !.amount = p.amount]

\* Study activity: a finished one stays finished, minutes never shrink.
MergeActivity(r, p) ==
    [r EXCEPT !.state  = IF p.state = "open" THEN @ ELSE p.state,
              !.amount = Later(r.amount, p.amount)]

\* Study plan item: another status wins unless it was set before the stored
\* one (a push without the time counts as set now); the time pushed is kept.
MergePlanItem(r, p) ==
    LET loses == p.at # NoTime /\ r.at # NoTime /\ p.at < r.at IN
    [r EXCEPT !.text   = IF loses THEN @ ELSE p.text,
              !.at     = IF p.at = NoTime THEN @ ELSE p.at,
              !.amount = Later(r.amount, p.amount)]

\* Mutant: of two edits made at the same time the first to arrive stays.
MergeTurn_First(r, p) ==
    [r EXCEPT !.text = IF r.at >= p.at THEN @ ELSE p.text,
              !.at   = IF p.at = NoTime THEN @ ELSE p.at]

\* Interpreter turn: a text older than the stored one loses; the time pushed
\* is kept.
MergeTurn(r, p) ==
    [r EXCEPT !.text = IF r.at > p.at THEN @ ELSE p.text,
              !.at   = IF p.at = NoTime THEN @ ELSE p.at]

\* Errand item: the same for its detail; a closed item is opened again only by
\* an edit newer than the stored time.
MergeErrandItem(r, p) ==
    [r EXCEPT !.text  = IF r.at > p.at THEN @ ELSE p.text,
              !.at    = IF p.at = NoTime THEN @ ELSE p.at,
              !.state = IF @ = "closed" /\ p.state = "open" /\ ~(p.at > r.at)
                          THEN @ ELSE p.state]

Merge(r, p) ==
    CASE kind = "transcript_correction" -> MergeCorrection(r, p)
      [] kind = "study_card"            -> MergeCard(r, p)
      [] kind = "study_task"            -> MergeTask(r, p)
      [] kind = "study_activity"        -> MergeActivity(r, p)
      [] kind = "study_plan_item"       -> MergePlanItem(r, p)
      [] kind = "interpreter_turn"      -> MergeTurn(r, p)
      [] kind = "errand_case_item"      -> MergeErrandItem(r, p)

-----------------------------------------------------------------------------
\* The row is inserted by the first push as it is.
Init ==
    /\ kind \in Kind
    /\ row \in Edit
    /\ best = row
    /\ spent = row.amount
    /\ pushes = 0

\* An edit arrives: one made before or after those the row has seen, or one
\* that was pushed already, under another operation id.
Push(p) ==
    /\ pushes < MaxPush
    /\ pushes' = pushes + 1
    /\ row' = Merge(row, p)
    /\ best' = IF p.at >= best.at THEN p ELSE best
    /\ spent' = Later(spent, p.amount)
    /\ UNCHANGED kind

Next == \E p \in Edit : Push(p)

Spec == Init /\ [][Next]_vars
-----------------------------------------------------------------------------
(* Properties.                                                              *)

TypeOK ==
    /\ kind \in Kind
    /\ row \in Edit
    /\ best \in Edit
    /\ spent \in 0 .. MaxAmount
    /\ pushes \in 0 .. MaxPush

\* Newer wins, in whatever order the edits arrive: once an edit with a time is
\* known, a correction or a card shows the latest one (of two made at the same
\* time, the one pushed later).
NewestWins ==
    kind \in {"transcript_correction", "study_card"} /\ best.at # NoTime
        => row.text = best.text

\* The same promise, made for the status of a study plan item.
NewestStatusWins ==
    kind = "study_plan_item" /\ best.at # NoTime => row.text = best.text

\* A turn or an errand item keeps the time of the last edit pushed, so that
\* less holds: whenever the stored time is that of the latest edit, so is the
\* text shown.
ShownWithItsTime ==
    kind \in {"interpreter_turn", "errand_case_item"} /\ row.at = best.at
        => row.text = best.text

\* What one device has finished no other device opens again: a task, an activity
\* or any other row but an errand item, which a newer edit opens.
StaysClosed ==
    [][kind # "errand_case_item" /\ row.state = "closed" => row'.state = "closed"]_vars

\* Minutes reported by any device are never lost.
MinutesKept == kind \in {"study_plan_item", "study_activity"} => row.amount = spent
=============================================================================
