------------------------------ MODULE MCRowMerge ------------------------------
(***************************************************************************)
(* Instances of RowMerge for TLC: all kinds of row, or one.                *)
(***************************************************************************)
EXTENDS RowMerge

ItemKind == {"study_plan_item"}
===============================================================================
