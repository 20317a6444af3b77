------------------------------- MODULE Chunks -------------------------------
(***************************************************************************)
(* How every pool of the system cuts the tasks 0 .. Total - 1 of an        *)
(* operation (one task per cell of a matrix) into chunks, one per thread   *)
(* or process: worker w gets firstTask .. lastTask - 1.                    *)
(***************************************************************************)
EXTENDS Integers

CONSTANTS
  Total,          \* totalTasks: cells of the matrix
  TasksPerWorker  \* TASKS_PER_WORKER, 100 in the code

ASSUME ChunksAssumption == Total \in Nat /\ TasksPerWorker \in Nat \ {0}

Tasks == 0 .. (Total - 1)

\* A pool of no tasks still gets one worker, with an empty chunk.
workerCount ==
  IF Total > 0 THEN (Total + TasksPerWorker - 1) \div TasksPerWorker ELSE 1

Workers == 0 .. (workerCount - 1)

firstTask(w) == w * TasksPerWorker

\* Mutant: the last chunk ends one task early.
lastTaskShort(w) ==
  IF firstTask(w) + TasksPerWorker >= Total THEN Total - 1
  ELSE firstTask(w) + TasksPerWorker

lastTask(w) ==
  IF firstTask(w) + TasksPerWorker > Total THEN Total
  ELSE firstTask(w) + TasksPerWorker

=============================================================================
