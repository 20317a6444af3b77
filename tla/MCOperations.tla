---------------------------- MODULE MCOperations ----------------------------
(***************************************************************************)
(* Small instances of the programs that run the three operations side by   *)
(* side: as threads (OperationThreads), as processes with pipes            *)
(* (OperationProcesses, and OperationProcessesB for part B), and as        *)
(* processes that tell each other nothing (ProcessTree).  The programs     *)
(* never meet: each behaviour is one of one of them, chosen in the initial *)
(* state, and the variables of the others, whose names begin with their    *)
(* program, keep their first values.                                       *)
(***************************************************************************)
EXTENDS OperationThreads, Sequences

CONSTANTS
  Words, PipeCap,                                     \* OperationProcesses
  rowsA, columnsA, columnsB, A, B, tasksPerWorker,    \* OperationProcessesB
  Chunks                                              \* ProcessTree

ASSUME ProcessesAssumption ==
  /\ Words \in [1 .. 2 -> Nat] /\ PipeCap \in Nat \ {0}

ASSUME PartBAssumption ==
  /\ rowsA \in Nat \ {0} /\ columnsA \in Nat \ {0} /\ columnsB \in Nat \ {0}
  /\ tasksPerWorker \in Nat \ {0}

ASSUME TreeAssumption == Chunks \in [1 .. 3 -> Nat]

VARIABLES
  program,
  mainPc, at, part, got, short, waits, child, sent, pipe,
  bPc, bAt, bPart, dims, printed, bChild, bPlace, written, bPipe, matrix, block, faults,
  terminal, chunked, treePc, treeAt, place, count, worker, buffer, inherited, output, killed

Ps == INSTANCE OperationProcesses WITH pc <- mainPc

PartB ==
  INSTANCE OperationProcessesB
    WITH pc <- bPc, at <- bAt, part <- bPart, child <- bChild, place <- bPlace, pipe <- bPipe

Tree == INSTANCE ProcessTree WITH pc <- treePc, at <- treeAt, printed <- output

psVars == <<mainPc, at, part, got, short, waits, child, sent, pipe>>
bVars == <<bPc, bAt, bPart, dims, printed, bChild, bPlace, written, bPipe, matrix, block, faults>>
treeVars ==
  <<terminal, chunked, treePc, treeAt, place, count, worker, buffer, inherited, output, killed>>
allVars == <<program, vars, psVars, bVars, treeVars>>

\* Results of 5 and of 7 words with their dimensions: one fits a pipe of 5.
TwoSizes == <<3, 5>>

\* A column by a row, for part B.
TwoWords == <<1, 2>>
TwoMore == <<3, 5>>

\* Two workers for the average, one for the others.
OneOneTwo == <<1, 1, 2>>

MCInit ==
  /\ program \in {"threads", "processes", "partB", "tree"}
  /\ Init /\ Ps!Init /\ PartB!Init /\ Tree!Init
  /\ program # "threads" => pools
  /\ program # "tree" => terminal /\ chunked

\* What each program does of itself, and what may happen to its processes.
ThreadsRun == Main \/ \E o \in Operations : Operation(o) \/ \E w \in Workers : End(o, w)
ProcessesRun == Ps!Main \/ \E o \in Ps!Operations : Ps!Child(o)
PartBRuns == PartB!Main \/ \E c \in PartB!Children : PartB!Run(c)
TreeRuns ==
  \/ Tree!Main
  \/ \E o \in Tree!Operations : Tree!Operation(o) \/ \E w \in Tree!Workers(o) : Tree!Worker(o, w)

MCNext ==
  \/ /\ program = "threads" /\ UNCHANGED <<program, psVars, bVars, treeVars>>
     /\ ThreadsRun
  \/ /\ program = "processes" /\ UNCHANGED <<program, vars, bVars, treeVars>>
     /\ ProcessesRun \/ \E o \in Ps!Operations : Ps!Die(o)
  \/ /\ program = "partB" /\ UNCHANGED <<program, vars, psVars, treeVars>>
     /\ PartBRuns \/ \E c \in PartB!Children : PartB!Die(c)
  \/ /\ program = "tree" /\ UNCHANGED <<program, vars, psVars, bVars>>
     /\ TreeRuns \/ \E o \in Tree!Operations : Tree!Die(o)

MCSpec == MCInit /\ [][MCNext]_allVars

\* Fairness, weaker than the modules' own: as long as a thread or a process of
\* the program can go on, one of them does.  No step can be taken twice, so that
\* this is enough for an end, unless all wait for each other.
MCFairSpec ==
  /\ MCSpec
  /\ WF_vars(program = "threads" /\ ThreadsRun)
  /\ WF_psVars(program = "processes" /\ ProcessesRun)
  /\ WF_bVars(program = "partB" /\ PartBRuns)
  /\ WF_treeVars(program = "tree" /\ TreeRuns)

-----------------------------------------------------------------------------

\* Every result written whole by a child of the program with pipes, and small
\* enough for a pipe, is read whole by its main.
EveryResultArrives == Ps!EveryResultArrives

\* What main of part B prints of the second and of the third matrix.
PrintedIsRight == PartB!PrintedIsRight

\* Part B frees a block twice only when its matrix is empty, and late enough.
FreedTwiceIfEmpty == PartB!FreedTwiceIfEmpty

\* main of part B crashes only when its first child sent no dimensions.
MainSurvives == PartB!MainSurvives

\* What the programs without pipes print, and when.
OutputIsRight == Tree!OutputIsRight

\* Whichever program runs, its main ends, or in part B crashes: no join, no wait()
\* and no read() of a pipe whose writer died waits for ever, although the other
\* children hold the ends of the pipe, and wait for main or for a pipe in turn.
Ends ==
  <>(pc = "exited" \/ mainPc = "exited" \/ bPc \in {"exited", "crashed"} \/ treePc = "exited")

=============================================================================
