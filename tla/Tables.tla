------------------------------- MODULE Tables -------------------------------
(***************************************************************************)
(* What every module that keeps database rows shares: the value of a row   *)
(* that is not there (or of an optional column left empty), and sums over  *)
(* columns.                                                                *)
(***************************************************************************)
EXTENDS Integers, FiniteSets, Folds

CONSTANT None

\* The sum of column[row] over a finite set of rows.
Total(column, rows) ==
    MapThenFoldSet(LAMBDA a, b : a + b, 0, LAMBDA r : column[r],
                   LAMBDA s : CHOOSE r \in s : TRUE, rows)
=============================================================================
