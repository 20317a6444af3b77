----------------------------- MODULE MatrixTasks -----------------------------
(***************************************************************************)
(* The tasks of a multiplication and of a transposition, one per cell, as  *)
(* every pool of threads or processes runs them: where a task stores its   *)
(* result and what it stores.                                              *)
(***************************************************************************)
EXTENDS Chunks, Matrices

CONSTANTS
  Rows, Inner, Columns, \* A is Rows x Inner and B is Inner x Columns, or
                        \* A is Rows x Columns to be transposed
  A, B                  \* the words of the matrices, row by row

ASSUME TasksAssumption ==
  /\ Rows \in Nat /\ Inner \in Nat /\ Columns \in Nat
  /\ Total = Rows * Columns

Operations == {"multiplication", "transposition"}

\* Mutant: each operation stores by the other's layout.
outputIndexSwapped(op, i) ==
  IF op = "multiplication" THEN (i % Columns) * Rows + (i \div Columns)
  ELSE (i % Rows) * Columns + (i \div Rows)

\* Where task i of operation op stores its cell, and what it stores there.
outputIndex(op, i) ==
  IF op = "multiplication" THEN i
  ELSE (i % Columns) * Rows + (i \div Columns)

value(op, i) ==
  IF op = "multiplication"
    THEN Cell(Inner, Columns, A, B, i \div Columns, i % Columns)
    ELSE A[i + 1]

\* The product, or the transposed matrix, and its words by their index from 0.
Right(op) ==
  IF op = "multiplication" THEN Product(Rows, Inner, Columns, A, B)
  ELSE Transposed(Rows, Columns, A)

RightWord(op, c) == Right(op)[c + 1]

IsRight(op, result) == [i \in 1 .. Total |-> result[i - 1]] = Right(op)

=============================================================================
