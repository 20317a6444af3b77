------------------------------ MODULE UserInput ------------------------------
(***************************************************************************)
(* The three programs of user_input_versions, one sequential, one with     *)
(* threads and one with processes, side by side with the same arguments    *)
(* and the same words: what each answers to any three numbers, zero and    *)
(* negative ones too, for which createMatrix asks calloc for no memory, or *)
(* for far too much, and every loop and every pool has its own limits.     *)
(*                                                                         *)
(* An operation is one step here, with what it touches and what it leaves; *)
(* how pools interleave and fail is in TaskPool, ProcessPool and the       *)
(* others.  sequential.c draws its dimensions and sequential_testing.c has *)
(* 3, 2 and 3: both are the sequential program.                            *)
(***************************************************************************)
EXTENDS Matrices

CONSTANTS
  Below, Above,   \* bounds of what atoi() returns for an argument
  TasksPerWorker, \* TASKS_PER_WORKER
  MaxInt,         \* INT_MAX
  MaxCells,       \* cells of a matrix that an int counts, calloc gives memory for,
                  \* and for whose workers a stack has room
  Garbage         \* what an uninitialised int may hold

Arguments == -Below .. Above

Programs == {"sequential", "threads", "processes"}
Operations == {"multiplication", "transposition", "average"}

VARIABLES
  arguments, \* the three numbers, or << >> when there are not three
  status,    \* per program: "running" | "usage" | "success" | "killed"
  answer     \* per program and operation: None yet, Killed, Undefined, or Is(v)
             \* with the words by index, or the average as a fraction

vars == <<arguments, status, answer>>

None == <<"none">>
Killed == <<"killed">>
Undefined == <<"undefined">>
Is(v) == <<"is", v>>

rowsA == arguments[1]
columnsA == arguments[2]
columnsB == arguments[3]
rowsB == columnsA

-----------------------------------------------------------------------------
(* C *)

\* Division truncates towards 0.
Quotient(a, b) ==
  LET q == Magnitude(a) \div Magnitude(b) IN IF (a < 0) = (b < 0) THEN q ELSE -q

Remainder(a, b) == a - b * Quotient(a, b)

\* What an int holds of n.
Wrap(n) == ((n + MaxInt + 1) % (2 * (MaxInt + 1))) - (MaxInt + 1)

\* for (i = 0; i < n; i++).
Loop(n) == 0 .. n - 1

\* The indices calloc((size_t)rows * columns) has memory for.  A negative
\* product is a huge size_t and calloc returns NULL: no index at all.
Block(rows, columns) == Loop(rows * columns)

Null(rows, columns) == rows * columns < 0

TooLarge(rows, columns) == Magnitude(rows * columns) > MaxCells

\* The words of sequential_testing.c.  Without rows or columns the loops that
\* fill a matrix do nothing, and it keeps calloc's zeros.
Fill(rows, columns, i, first) == IF rows > 0 /\ columns > 0 THEN first + i ELSE 0

WordA(i) == Fill(rowsA, columnsA, i, 1)
WordB(i) == Fill(rowsB, columnsB, i, 7)

-----------------------------------------------------------------------------
(* What an operation touches *)

Access(block, i) == [block |-> block, index |-> i]

BlockOf ==
  [A |-> Block(rowsA, columnsA), B |-> Block(rowsB, columnsB),
   product |-> Block(rowsA, columnsB), transposed |-> Block(columnsA, rowsA)]

NullBlocks ==
  {b \in DOMAIN BlockOf :
     CASE b = "A" -> Null(rowsA, columnsA)
       [] b = "B" -> Null(rowsB, columnsB)
       [] b = "product" -> Null(rowsA, columnsB)
       [] b = "transposed" -> Null(columnsA, rowsA)}

\* Row and column of a task in a matrix of so many columns.
Row(task, columns) == Quotient(task, columns)
Column(task, columns) == Remainder(task, columns)

\* Mutant: the task stores by its own matrix' columns.
OutputIndexInput(task) == Column(task, columnsA) * columnsA + Row(task, columnsA)

OutputIndex(task) == Column(task, columnsA) * rowsA + Row(task, columnsA)

MultiplicationLoops ==
  UNION {UNION {{Access("product", i * columnsB + j)}
                  \cup {Access("A", i * columnsA + k) : k \in Loop(columnsA)}
                  \cup {Access("B", k * columnsB + j) : k \in Loop(columnsA)}
                : j \in Loop(columnsB)} : i \in Loop(rowsA)}

MultiplicationTasks ==
  UNION {{Access("product", t)}
           \cup {Access("A", Row(t, columnsB) * columnsA + k) : k \in Loop(columnsA)}
           \cup {Access("B", k * columnsB + Column(t, columnsB)) : k \in Loop(columnsA)}
         : t \in Loop(rowsA * columnsB)}

\* Mutant: the loops run over the rows and columns of the matrix itself.
TranspositionLoopsSwapped ==
  UNION {{Access("A", j * columnsA + i), Access("transposed", i * rowsA + j)}
         : i \in Loop(rowsA), j \in Loop(columnsA)}

TranspositionLoops ==
  UNION {{Access("A", j * columnsA + i), Access("transposed", i * rowsA + j)}
         : i \in Loop(columnsA), j \in Loop(rowsA)}

TranspositionTasks ==
  UNION {{Access("A", t), Access("transposed", OutputIndex(t))}
         : t \in Loop(rowsA * columnsA)}

Touched(p, operation) ==
  CASE operation = "multiplication" ->
         IF p = "sequential" THEN MultiplicationLoops ELSE MultiplicationTasks
    [] operation = "transposition" ->
         IF p = "sequential" THEN TranspositionLoops ELSE TranspositionTasks
    [] operation = "average" ->
         IF p = "sequential"
           THEN {Access("A", i * columnsA + j) : i \in Loop(rowsA), j \in Loop(columnsA)}
           ELSE {Access("A", t) : t \in Loop(rowsA * columnsA)}

\* Accesses outside of the block; those to NULL always end the process.
Outside(p, operation) ==
  {a \in Touched(p, operation) : a.index \notin BlockOf[a.block]}

-----------------------------------------------------------------------------
(* What an operation leaves, when it touches only what it may *)

\* A word of a result: of the words that tasks or turns of the loops store there,
\* which are one at most, that, or calloc's zero.
Stored(words) == IF words = {} THEN 0 ELSE CHOOSE word \in words : TRUE

\* A cell of the product.
CellSum(i, j) ==
  MapThenSumSet(LAMBDA k : WordA(i * columnsA + k) * WordB(k * columnsB + j), Loop(columnsA))

ProductByLoops ==
  [x \in Block(rowsA, columnsB) |->
     Stored({CellSum(n[1], n[2]) :
               n \in {m \in Loop(rowsA) \X Loop(columnsB) : m[1] * columnsB + m[2] = x}})]

ProductByTasks ==
  [t \in Block(rowsA, columnsB) |-> CellSum(Row(t, columnsB), Column(t, columnsB))]

TransposedByLoops ==
  [x \in Block(columnsA, rowsA) |->
     Stored({WordA(n[2] * columnsA + n[1]) :
               n \in {m \in Loop(columnsA) \X Loop(rowsA) : m[1] * rowsA + m[2] = x}})]

TransposedByTasks ==
  [x \in Block(columnsA, rowsA) |->
     Stored({WordA(t) : t \in {u \in Loop(rowsA * columnsA) : OutputIndex(u) = x}})]

total == rowsA * columnsA

Sum == MapThenSumSet(WordA, Loop(total))

\* The sum is an int, and divided by another: no cells, SIGFPE.
AverageByLoops ==
  IF total = 0 THEN {Killed} ELSE {Is(<<Quotient(Wrap(Sum), total), 1>>)}

\* Mutant: the sum is divided before it becomes a double.
AverageByTasksCut == IF total = 0 THEN {Is(<<0, 1>>)} ELSE {Is(<<Quotient(Sum, total), 1>>)}

\* The sum is a long long, and divided as a double; nothing is asked of no cells.
AverageByTasks == IF total = 0 THEN {Is(<<0, 1>>)} ELSE {Is(<<Sum, total>>)}

\* workerCount of the program with processes: no more than one for what is left
\* of a division, and one instead of none.
workerCount ==
  LET n == Quotient(total, TasksPerWorker)
             + (IF Remainder(total, TasksPerWorker) # 0 THEN 1 ELSE 0)
  IN  IF n = 0 THEN 1 ELSE n

lastSize == total - (workerCount - 1) * TasksPerWorker

\* The number the last child says it has is that of the words it is short of, or
\* was never assigned; 0 makes its average no number.
AverageByProcesses ==
  {LET words == (workerCount - 1) * TasksPerWorker + n
   IN  IF n = 0 \/ words = 0 THEN Undefined ELSE Is(<<Sum, words>>)
   : n \in IF lastSize \in 1 .. (TasksPerWorker - 1)
             THEN {TasksPerWorker - lastSize} ELSE Garbage}

\* The arrays of pipes and pids have workerCount elements, counted per operation.
NoArray(operation) ==
  LET tasks == IF operation = "multiplication" THEN rowsA * columnsB ELSE total
  IN  Quotient(tasks, TasksPerWorker)
        + (IF Remainder(tasks, TasksPerWorker) # 0 THEN 1 ELSE 0) < 0

Left(p, operation) ==
  CASE operation = "multiplication" ->
         {Is(IF p = "sequential" THEN ProductByLoops ELSE ProductByTasks)}
    [] operation = "transposition" ->
         {Is(IF p = "sequential" THEN TransposedByLoops ELSE TransposedByTasks)}
    [] operation = "average" ->
         CASE p = "sequential" -> AverageByLoops
           [] p = "threads" -> AverageByTasks
           [] p = "processes" -> AverageByProcesses

\* A negative number of cells has a size as well, for the int that counts them.
Oversized ==
  TooLarge(rowsA, columnsA) \/ TooLarge(rowsB, columnsB) \/ TooLarge(rowsA, columnsB)

\* Outcomes of an operation.  A process of a pool that reads outside is ended, and
\* its part of the answer missing, or sends what it found; the results are stored
\* by the process of the operation.  The transposition has no array of pipes.
UsualOutcomes(p, operation) ==
  LET outside == {a.block : a \in Outside(p, operation)} IN
  IF p = "processes" /\ operation # "transposition" /\ NoArray(operation)
    THEN {Killed, Undefined}
  ELSE IF outside = {} THEN Left(p, operation)
  ELSE IF p = "processes" /\ outside \subseteq {"A", "B"} THEN {Undefined}
  ELSE IF outside \cap NullBlocks # {} THEN {Killed}
  ELSE {Killed, Undefined}

\* Of too many cells the int that counts them overflows, calloc returns NULL, or
\* the arrays of threads and pipes are larger than a stack: nothing is known of an
\* answer then, which may also be right.
Outcomes(p, operation) ==
  IF Oversized THEN {Killed, Undefined} ELSE UsualOutcomes(p, operation)

-----------------------------------------------------------------------------

Init ==
  /\ arguments \in {<< >>} \cup (Arguments \X Arguments \X Arguments)
  /\ status = [p \in Programs |-> "running"]
  /\ answer = [p \in Programs |-> [operation \in Operations |-> None]]

\* argc is not 4.
Usage(p) ==
  /\ status[p] = "running" /\ arguments = << >>
  /\ status' = [status EXCEPT ![p] = "usage"]
  /\ UNCHANGED <<arguments, answer>>

\* Only the sequential program has an order.
Ready(p, operation) ==
  p = "sequential" =>
    /\ operation # "multiplication" => answer[p]["multiplication"] # None
    /\ operation = "average" => answer[p]["transposition"] # None

\* A signal ends the whole program, but only one child of that with processes.
Operate(p, operation) ==
  /\ status[p] = "running" /\ arguments # << >>
  /\ answer[p][operation] = None /\ Ready(p, operation)
  /\ \E outcome \in Outcomes(p, operation) :
       /\ answer' = [answer EXCEPT ![p][operation] = outcome]
       /\ status' = IF outcome = Killed /\ p # "processes"
                      THEN [status EXCEPT ![p] = "killed"] ELSE status
  /\ UNCHANGED arguments

\* main frees everything and returns 0, whatever became of its children.
Finish(p) ==
  /\ status[p] = "running"
  /\ \A operation \in Operations : answer[p][operation] # None
  /\ status' = [status EXCEPT ![p] = "success"]
  /\ UNCHANGED <<arguments, answer>>

\* main itself fills A and B, and the program with processes has memory for the
\* results: too many cells may end it at any point.
RunsOut(p) ==
  /\ status[p] = "running" /\ arguments # << >> /\ Oversized
  /\ status' = [status EXCEPT ![p] = "killed"]
  /\ UNCHANGED <<arguments, answer>>

Step(p) == Usage(p) \/ Finish(p) \/ RunsOut(p) \/ \E operation \in Operations : Operate(p, operation)

Next == \E p \in Programs : Step(p)

Spec == Init /\ [][Next]_vars

-----------------------------------------------------------------------------

Answered(p, operation) == answer[p][operation] \notin {None, Killed, Undefined}

\* Programs that answer, answer the same, whatever was typed: the same products
\* and transposed matrices, and the same average, but for what is known of two of
\* them.  That of the sequential program has no fraction, and may be anything
\* when its int overflowed; that of the one with processes is the same when its
\* last chunk is half full.  Of too many cells nothing is promised.
ProgramsAgree ==
  /\ \A p, q \in Programs, operation \in {"multiplication", "transposition"} :
       Answered(p, operation) /\ Answered(q, operation) =>
         answer[p][operation] = answer[q][operation]
  /\ Answered("threads", "average") =>
       LET mean == answer["threads"]["average"][2] IN
       /\ Answered("sequential", "average") /\ Sum <= MaxInt =>
            answer["sequential"]["average"][2][1] = Quotient(mean[1], mean[2])
       /\ Answered("processes", "average") /\ total > 0 /\ 2 * lastSize = TasksPerWorker =>
            answer["processes"]["average"] = Is(mean)

\* Arguments that end an operation are those of the sequential average of a
\* matrix without cells, a negative count of pipes in the program with processes,
\* two negative numbers, and matrices of too many cells; with all others every
\* operation is answered.  A program ends with its operation, but for that with
\* processes, where only a child does.
KilledByItsArguments ==
  \A p \in Programs :
    /\ \A operation \in Operations :
         answer[p][operation] = Killed =>
           \/ p = "sequential" /\ operation = "average" /\ total = 0
           \/ \E i, j \in 1 .. 3 : i < j /\ arguments[i] < 0 /\ arguments[j] < 0
           \/ p = "processes" /\ NoArray(operation)
           \/ Oversized
    /\ status[p] = "killed" =>
         \/ p # "processes" /\ \E operation \in Operations : answer[p][operation] = Killed
         \/ Oversized

=============================================================================
