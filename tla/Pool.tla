-------------------------------- MODULE Pool --------------------------------
(***************************************************************************)
(* What a pool promises the function that calls it, with no thread,        *)
(* process, mutex or pipe in sight: the cells of the result come in one by *)
(* one or many at a time, in any order, each with its own value and each   *)
(* to stay; then the call returns, and nobody touches the result any more. *)
(***************************************************************************)
CONSTANTS
  Operations, Cells,
  Right(_, _), \* the word an operation should have in a cell
  Partial      \* a matrix may be returned without the cells of some workers

VARIABLES operation, result, returned

promise == <<operation, result, returned>>

Init ==
  /\ operation \in Operations
  /\ result = [c \in Cells |-> 0]
  /\ returned = "nothing"

Deliver ==
  /\ returned = "nothing"
  /\ \E some \in SUBSET Cells :
       result' = [c \in Cells |-> IF c \in some THEN Right(operation, c) ELSE result[c]]
  /\ UNCHANGED <<operation, returned>>

ReturnMatrix ==
  /\ returned = "nothing" /\ returned' = "matrix"
  /\ Partial \/ \A c \in Cells : result[c] = Right(operation, c)
  /\ UNCHANGED <<operation, result>>

\* The empty matrix: a thread, the mutex or a pipe could not be had.
GiveUp ==
  /\ returned = "nothing" /\ returned' = "zero"
  /\ UNCHANGED <<operation, result>>

Next == Deliver \/ ReturnMatrix \/ GiveUp

Spec == Init /\ [][Next]_promise

\* The caller gets its matrix or none in the end.
FairSpec == Spec /\ WF_promise(ReturnMatrix \/ GiveUp)

=============================================================================
