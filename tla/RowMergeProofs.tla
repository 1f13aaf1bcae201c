---------------------------- MODULE RowMergeProofs ----------------------------
(***************************************************************************)
(* Proofs about RowMerge, for any texts, times and bounds.                 *)
(***************************************************************************)
EXTENDS RowMerge, TLAPS

\* The time kept with a correction or a card is that of the latest edit.
TimeKept == kind \in {"transcript_correction", "study_card"} => row.at = best.at

-----------------------------------------------------------------------------
\* A merge yields a row.
LEMMA MergeType ==
    ASSUME NEW r \in Edit, NEW p \in Edit, kind \in MergedKind
    PROVE  Merge(r, p) \in Edit
<1> USE MergeAssumption DEF Edit
<1>1. Later(r.amount, p.amount) \in 0 .. MaxAmount /\ Later(r.at, p.at) \in Time
  BY DEF Later
<1>2. MergeCorrection(r, p) \in Edit
  BY <1>1 DEF MergeCorrection
<1>3. MergeCard(r, p) \in Edit
  BY DEF MergeCard
<1>4. MergeTask(r, p) \in Edit
  BY DEF MergeTask
<1>5. MergeActivity(r, p) \in Edit
  BY <1>1 DEF MergeActivity
<1>6. MergePlanItem(r, p) \in Edit
  BY <1>1 DEF MergePlanItem
<1>7. MergeTurn(r, p) \in Edit
  BY DEF MergeTurn
<1>8. MergeErrandItem(r, p) \in Edit
  BY DEF MergeErrandItem
<1> HIDE DEF Edit
<1> QED
  BY <1>2, <1>3, <1>4, <1>5, <1>6, <1>7, <1>8 DEF Merge, MergedKind

\* TypeOK: whatever arrives, the row stays a row.
THEOREM MergeTypeCorrect == Spec => []TypeOK
<1>1. Init => TypeOK
  BY MergeAssumption DEF Init, TypeOK, Edit
<1>2. TypeOK /\ [Next]_vars => TypeOK'
  <2> SUFFICES ASSUME TypeOK, [Next]_vars PROVE TypeOK'
    OBVIOUS
  <2>1. CASE UNCHANGED vars
    BY <2>1 DEF vars, TypeOK
  <2>2. ASSUME NEW p \in Edit, Push(p) PROVE TypeOK'
    <3>1. row' \in Edit
      BY <2>2, MergeType, MergeAssumption DEF Push, TypeOK
    <3>2. best' \in Edit /\ kind' \in Kind
      BY <2>2 DEF Push, TypeOK
    <3>3. spent' \in 0 .. MaxAmount /\ pushes' \in 0 .. MaxPush
      BY <2>2, MergeAssumption DEF Push, TypeOK, Edit, Later
    <3> QED
      BY <3>1, <3>2, <3>3 DEF TypeOK
  <2> QED
    BY <2>1, <2>2 DEF Next
<1> QED
  BY <1>1, <1>2, PTL DEF Spec

\* NewestWins: corrections and study cards show the latest edit, in whatever
\* order the edits arrive.
THEOREM NewestEditWins == Spec => []NewestWins
<1>1. Init => TimeKept /\ NewestWins
  BY DEF Init, TimeKept, NewestWins
<1>2. TypeOK /\ TimeKept /\ NewestWins /\ [Next]_vars => TimeKept' /\ NewestWins'
  <2> SUFFICES ASSUME TypeOK, TimeKept, NewestWins, [Next]_vars
               PROVE  TimeKept' /\ NewestWins'
    OBVIOUS
  <2>1. CASE UNCHANGED vars
    BY <2>1 DEF vars, TimeKept, NewestWins
  <2>2. ASSUME NEW p \in Edit, Push(p) PROVE TimeKept' /\ NewestWins'
    <3>1. /\ row \in Edit /\ best \in Edit
          /\ row' = Merge(row, p) /\ kind' = kind
          /\ best' = IF p.at >= best.at THEN p ELSE best
      BY <2>2 DEF Push, TypeOK
    <3>2. row.at \in Nat /\ p.at \in Nat
      BY <3>1, MergeAssumption DEF Edit
    <3>3. CASE kind = "transcript_correction"
      <4>1. row' = MergeCorrection(row, p) /\ best.at = row.at
        BY <3>1, <3>3 DEF Merge, TimeKept
      <4> QED
        BY <3>1, <3>2, <4>1
        DEF MergeCorrection, Later, Edit, NoTime, TimeKept, NewestWins
    <3>4. CASE kind = "study_card"
      <4>1. row' = MergeCard(row, p) /\ best.at = row.at
        BY <3>1, <3>4 DEF Merge, TimeKept
      <4> QED
        BY <3>1, <3>2, <4>1 DEF MergeCard, Edit, NoTime, TimeKept, NewestWins
    <3>5. CASE kind \notin {"transcript_correction", "study_card"}
      BY <3>1, <3>5 DEF TimeKept, NewestWins
    <3> QED
      BY <3>3, <3>4, <3>5
  <2> QED
    BY <2>1, <2>2 DEF Next
<1> QED
  BY <1>1, <1>2, MergeTypeCorrect, PTL DEF Spec

\* ShownWithItsTime: the text of a turn or an errand item is the latest one
\* whenever the time kept with it is.
THEOREM LatestTimeShowsLatestText == Spec => []ShownWithItsTime
<1> DEFINE Known == kind \in {"interpreter_turn", "errand_case_item"} => row.at <= best.at
<1>1. Init => Known /\ ShownWithItsTime
  <2> SUFFICES ASSUME Init PROVE Known /\ ShownWithItsTime
    OBVIOUS
  <2>1. row \in Edit /\ best = row
    BY DEF Init
  <2>2. row.at \in Nat
    BY <2>1, MergeAssumption DEF Edit
  <2>3. row.at <= best.at
    BY <2>1, <2>2
  <2> QED
    BY <2>1, <2>3 DEF ShownWithItsTime
<1>2. TypeOK /\ Known /\ ShownWithItsTime /\ [Next]_vars => Known' /\ ShownWithItsTime'
  <2> SUFFICES ASSUME TypeOK, Known, ShownWithItsTime, [Next]_vars
               PROVE  Known' /\ ShownWithItsTime'
    OBVIOUS
  <2>1. CASE UNCHANGED vars
    BY <2>1 DEF vars, ShownWithItsTime
  <2>2. ASSUME NEW p \in Edit, Push(p) PROVE Known' /\ ShownWithItsTime'
    <3>1. /\ row \in Edit /\ best \in Edit
          /\ row' = Merge(row, p) /\ kind' = kind
          /\ best' = IF p.at >= best.at THEN p ELSE best
      BY <2>2 DEF Push, TypeOK
    <3>2. row.at \in Nat /\ p.at \in Nat /\ best.at \in Nat
      BY <3>1, MergeAssumption DEF Edit
    <3>3. CASE kind = "interpreter_turn"
      <4>1. row' = MergeTurn(row, p)
        BY <3>1, <3>3 DEF Merge
      <4>2. /\ row'.text = IF row.at > p.at THEN row.text ELSE p.text
            /\ row'.at   = IF p.at = NoTime THEN row.at ELSE p.at
        BY <3>1, <4>1 DEF MergeTurn, Edit
      <4> QED
        BY <3>1, <3>2, <3>3, <4>2 DEF NoTime, ShownWithItsTime
    <3>4. CASE kind = "errand_case_item"
      <4>1. row' = MergeErrandItem(row, p)
        BY <3>1, <3>4 DEF Merge
      <4>2. /\ row'.text = IF row.at > p.at THEN row.text ELSE p.text
            /\ row'.at   = IF p.at = NoTime THEN row.at ELSE p.at
        BY <3>1, <4>1 DEF MergeErrandItem, Edit
      <4> QED
        BY <3>1, <3>2, <3>4, <4>2 DEF NoTime, ShownWithItsTime
    <3>5. CASE kind \notin {"interpreter_turn", "errand_case_item"}
      BY <3>1, <3>5 DEF ShownWithItsTime
    <3> QED
      BY <3>3, <3>4, <3>5
  <2> QED
    BY <2>1, <2>2 DEF Next
<1> QED
  BY <1>1, <1>2, MergeTypeCorrect, PTL DEF Spec

\* StaysClosed: of all kinds but the errand items, a finished row is never
\* opened again, whatever arrives.
THEOREM FinishedStaysFinished == Spec => StaysClosed
<1> DEFINE Step ==
        kind # "errand_case_item" /\ row.state = "closed" => row'.state = "closed"
<1>1. TypeOK /\ [Next]_vars => [Step]_vars
  <2> SUFFICES ASSUME TypeOK, NEW p \in Edit, Push(p),
                      kind # "errand_case_item", row.state = "closed"
               PROVE  row'.state = "closed"
    BY DEF Next
  <2>1. row \in Edit /\ row' = Merge(row, p)
    BY DEF Push, TypeOK
  <2>2. kind \in MergedKind
    BY MergeAssumption DEF TypeOK
  <2>3. p.state \in State
    BY DEF Edit
  <2>4. CASE kind \in {"study_task", "study_activity"}
    BY <2>1, <2>3, <2>4 DEF Merge, MergeTask, MergeActivity, Edit, State
  <2>5. CASE kind \in {"transcript_correction", "study_card"}
    BY <2>1, <2>5 DEF Merge, MergeCorrection, MergeCard, Edit
  <2>6. CASE kind \in {"study_plan_item", "interpreter_turn"}
    BY <2>1, <2>6 DEF Merge, MergePlanItem, MergeTurn, Edit
  <2> QED
    BY <2>2, <2>4, <2>5, <2>6 DEF MergedKind
<1> QED
  BY <1>1, MergeTypeCorrect, PTL DEF Spec, StaysClosed

\* MinutesKept: the largest number of minutes any device reported is kept.
THEOREM MinutesNeverLost == Spec => []MinutesKept
<1>1. Init => MinutesKept
  BY DEF Init, MinutesKept
<1>2. TypeOK /\ MinutesKept /\ [Next]_vars => MinutesKept'
  <2> SUFFICES ASSUME TypeOK, MinutesKept, [Next]_vars PROVE MinutesKept'
    OBVIOUS
  <2>1. CASE UNCHANGED vars
    BY <2>1 DEF vars, MinutesKept
  <2>2. ASSUME NEW p \in Edit, Push(p) PROVE MinutesKept'
    <3>1. /\ row \in Edit /\ row' = Merge(row, p) /\ kind' = kind
          /\ spent' = Later(spent, p.amount)
      BY <2>2 DEF Push, TypeOK
    <3>2. CASE kind = "study_plan_item"
      <4>1. row' = MergePlanItem(row, p)
        BY <3>1, <3>2 DEF Merge
      <4> QED
        BY <3>1, <3>2, <4>1 DEF MergePlanItem, Edit, MinutesKept
    <3>3. CASE kind = "study_activity"
      <4>1. row' = MergeActivity(row, p)
        BY <3>1, <3>3 DEF Merge
      <4> QED
        BY <3>1, <3>3, <4>1 DEF MergeActivity, Edit, MinutesKept
    <3> QED
      BY <3>1, <3>2, <3>3 DEF MinutesKept
  <2> QED
    BY <2>1, <2>2 DEF Next
<1> QED
  BY <1>1, <1>2, MergeTypeCorrect, PTL DEF Spec
=============================================================================
