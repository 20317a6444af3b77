-------------------------- MODULE MatrixTasksProofs --------------------------
(***************************************************************************)
(* The tasks of an operation are each in one chunk, for every number of    *)
(* tasks and every TASKS_PER_WORKER; and they and the cells of its result  *)
(* correspond one to one, for every shape, so that a result in which every *)
(* task has stored its value is the product, or the transposed matrix.     *)
(***************************************************************************)
EXTENDS MatrixTasks, TLAPS

-----------------------------------------------------------------------------
(* Chunks *)

\* Division with remainder, for a positive divisor.
LEMMA Division ==
  ASSUME NEW n \in Nat, NEW d \in Nat \ {0}
  PROVE  /\ n \div d \in Nat /\ n % d \in 0 .. (d - 1)
         /\ n = d * (n \div d) + (n % d)
  OBVIOUS

\* Multiplication by a natural number is monotone.
LEMMA Monotone ==
  ASSUME NEW a \in Int, NEW b \in Int, NEW c \in Nat, a <= b
  PROVE  a * c <= b * c
  OBVIOUS

\* Every pool has at least one worker.
LEMMA WorkerCountPositive == workerCount \in Nat \ {0}
<1> USE ChunksAssumption
<1>1. CASE Total = 0
  BY <1>1 DEF workerCount
<1>2. CASE Total > 0
  <2> DEFINE n == Total + TasksPerWorker - 1
             q == n \div TasksPerWorker
  <2>1. n \in Nat /\ n >= TasksPerWorker
    BY <1>2
  <2>2. q \in Nat /\ n % TasksPerWorker < TasksPerWorker
        /\ n = TasksPerWorker * q + (n % TasksPerWorker) /\ n % TasksPerWorker \in Nat
    BY <2>1, Division
  <2> HIDE DEF n
  <2>3. q # 0
    BY <2>1, <2>2
  <2>4. workerCount = q
    BY <1>2 DEF workerCount, n
  <2> QED
    BY <2>2, <2>3, <2>4
<1> QED
  BY <1>1, <1>2

\* A quotient is below a bound when the number is below the bound's multiple.
LEMMA QuotientBelow ==
  ASSUME NEW n \in Nat, NEW d \in Nat \ {0}, NEW q \in Nat, n < d * q
  PROVE  n \div d < q
  OBVIOUS

\* Every task is in the chunk of some worker: none is left to nobody.
LEMMA EveryTaskInAChunk ==
  ASSUME NEW i \in Tasks
  PROVE  \E w \in Workers : firstTask(w) <= i /\ i < lastTask(w)
<1> USE ChunksAssumption
<1> DEFINE w == i \div TasksPerWorker
<1>1. i \in Nat /\ i < Total /\ Total > 0
  BY DEF Tasks
<1>2. w \in Nat /\ i = TasksPerWorker * w + (i % TasksPerWorker)
      /\ i % TasksPerWorker \in 0 .. (TasksPerWorker - 1)
  BY <1>1, Division
<1>3. firstTask(w) <= i /\ i < lastTask(w)
  <2> HIDE DEF w
  <2> QED
    BY <1>1, <1>2 DEF firstTask, lastTask
<1>4. w \in Workers
  <2> DEFINE n == Total + TasksPerWorker - 1
             q == n \div TasksPerWorker
             r == n % TasksPerWorker
  <2>1. n \in Nat
    BY <1>1
  <2>2. workerCount = q
    BY <1>1 DEF workerCount
  <2>3. q \in Nat /\ r \in 0 .. (TasksPerWorker - 1) /\ n = TasksPerWorker * q + r
    <3> HIDE DEF n
    <3> QED
      BY <2>1, Division
  <2>4. i < TasksPerWorker * q
    <3> HIDE DEF q, r
    <3> QED
      BY <1>1, <2>3 DEF n
  <2>5. w < q
    <3> HIDE DEF q
    <3> QED
      BY <1>1, <2>3, <2>4, QuotientBelow
  <2> QED
    <3> HIDE DEF w, q
    <3> QED
      BY <1>2, <2>2, <2>3, <2>5 DEF Workers
<1> QED
  BY <1>3, <1>4

\* A chunk stays within the tasks, and starts at one unless it is empty.
LEMMA ChunkInTasks ==
  ASSUME NEW w \in Workers
  PROVE  /\ firstTask(w) \in Nat /\ lastTask(w) \in Nat
         /\ lastTask(w) <= Total
         /\ lastTask(w) <= firstTask(w) + TasksPerWorker
<1>1. w \in Nat
  BY WorkerCountPositive DEF Workers
<1> QED
  BY <1>1, ChunksAssumption DEF firstTask, lastTask

\* The chunks of two workers share no task.
LEMMA ChunksDisjoint ==
  ASSUME NEW v \in Workers, NEW w \in Workers, NEW i \in Nat,
         firstTask(v) <= i, i < lastTask(v), firstTask(w) <= i, i < lastTask(w)
  PROVE  v = w
<1> USE ChunksAssumption
<1> SUFFICES ASSUME NEW a \in Workers, NEW b \in Workers, a < b,
                    firstTask(b) <= i, i < lastTask(a)
             PROVE  FALSE
  BY WorkerCountPositive DEF Workers
<1>1. a \in Nat /\ b \in Nat /\ a + 1 <= b
  BY WorkerCountPositive DEF Workers
<1>2. (a + 1) * TasksPerWorker <= b * TasksPerWorker
  BY <1>1, Monotone
<1>3. (a + 1) * TasksPerWorker = a * TasksPerWorker + TasksPerWorker
  BY <1>1
<1>4. lastTask(a) <= a * TasksPerWorker + TasksPerWorker
  BY <1>1 DEF firstTask, lastTask
<1> QED
  BY <1>1, <1>2, <1>3, <1>4 DEF firstTask, lastTask

-----------------------------------------------------------------------------
(* Tasks and cells *)

\* Row and column of a cell are determined by its index, and lie in the matrix.
LEMMA RowAndColumn ==
  ASSUME NEW i \in Tasks
  PROVE  /\ i \div Columns \in 0 .. (Rows - 1)
         /\ i % Columns \in 0 .. (Columns - 1)
         /\ i = Columns * (i \div Columns) + (i % Columns)
<1> USE TasksAssumption
<1>1. i \in Nat /\ i < Rows * Columns /\ Columns \in Nat \ {0}
  BY DEF Tasks
<1>2. i < Columns * Rows
  BY <1>1
<1>3. i \div Columns \in Nat /\ i % Columns \in 0 .. (Columns - 1)
      /\ i = Columns * (i \div Columns) + (i % Columns)
  BY <1>1, Division
<1>4. i \div Columns < Rows
  BY <1>1, <1>2, QuotientBelow
<1> QED
  BY <1>3, <1>4

\* p * d + q with q < d determines p and q.
LEMMA UniqueParts ==
  ASSUME NEW d \in Nat \ {0}, NEW p1 \in Nat, NEW q1 \in 0 .. (d - 1),
         NEW p2 \in Nat, NEW q2 \in 0 .. (d - 1), p1 * d + q1 = p2 * d + q2
  PROVE  p1 = p2 /\ q1 = q2
<1>1. ASSUME NEW a \in Nat, NEW b \in Nat, a < b
      PROVE  a * d + d <= b * d
  <2>1. (a + 1) * d <= b * d
    BY <1>1, Monotone
  <2>2. (a + 1) * d = a * d + d
    OBVIOUS
  <2> QED
    BY <2>1, <2>2
<1>2. ~ (p1 < p2)
  BY <1>1
<1>3. ~ (p2 < p1)
  BY <1>1
<1> QED
  BY <1>2, <1>3

\* Every task stores within the result ...
LEMMA OutputIndexInTasks ==
  ASSUME NEW op \in Operations, NEW i \in Tasks
  PROVE  outputIndex(op, i) \in Tasks
<1> DEFINE row == i \div Columns
           column == i % Columns
<1>1. CASE op = "multiplication"
  BY <1>1 DEF outputIndex
<1>2. CASE op = "transposition"
  <2>1. row \in 0 .. (Rows - 1) /\ column \in 0 .. (Columns - 1)
    BY RowAndColumn
  <2>2. outputIndex(op, i) = column * Rows + row
    BY <1>2 DEF outputIndex
  <2> HIDE DEF row, column
  <2>3. (column + 1) * Rows <= Columns * Rows
    BY <2>1, Monotone, TasksAssumption
  <2>4. (column + 1) * Rows = column * Rows + Rows /\ column * Rows \in Nat
    BY <2>1, TasksAssumption
  <2>5. Columns * Rows = Rows * Columns
    BY TasksAssumption
  <2> QED
    BY <2>1, <2>2, <2>3, <2>4, <2>5, TasksAssumption DEF Tasks
<1> QED
  BY <1>1, <1>2, TasksAssumption DEF Operations

\* ... and no two tasks store in the same cell.
LEMMA OutputIndexInjective ==
  ASSUME NEW op \in Operations, NEW i \in Tasks, NEW j \in Tasks,
         outputIndex(op, i) = outputIndex(op, j)
  PROVE  i = j
<1>1. CASE op = "multiplication"
  BY <1>1 DEF outputIndex
<1>2. CASE op = "transposition"
  <2> DEFINE r1 == i \div Columns
             c1 == i % Columns
             r2 == j \div Columns
             c2 == j % Columns
  <2>1. /\ r1 \in 0 .. (Rows - 1) /\ c1 \in 0 .. (Columns - 1) /\ i = Columns * r1 + c1
        /\ r2 \in 0 .. (Rows - 1) /\ c2 \in 0 .. (Columns - 1) /\ j = Columns * r2 + c2
    BY RowAndColumn
  <2>2. c1 * Rows + r1 = c2 * Rows + r2
    BY <1>2 DEF outputIndex
  <2> HIDE DEF r1, c1, r2, c2
  <2>3. c1 = c2 /\ r1 = r2
    <3>1. Rows \in Nat \ {0} /\ c1 \in Nat /\ c2 \in Nat
      BY <2>1, TasksAssumption
    <3> QED
      BY <2>1, <2>2, <3>1, UniqueParts
  <2> QED
    BY <2>1, <2>3
<1> QED
  BY <1>1, <1>2, TasksAssumption DEF Operations

\* Cell c of the transposed matrix is stored by the task of the cell of A that
\* belongs there.
LEMMA TransposedCell ==
  ASSUME NEW op \in Operations, NEW c \in Tasks, op = "transposition"
  PROVE  LET i == (c % Rows) * Columns + (c \div Rows)
         IN  i \in Tasks /\ outputIndex(op, i) = c
<1> USE TasksAssumption
<1> DEFINE row == c % Rows
           column == c \div Rows
           i == row * Columns + column
<1>1. c \in Nat /\ c < Rows * Columns /\ Rows \in Nat \ {0} /\ Columns \in Nat \ {0}
  BY DEF Tasks
<1>2. row \in 0 .. (Rows - 1) /\ column \in Nat /\ c = Rows * column + row
  BY <1>1, Division
<1>3. column < Columns
  BY <1>1, QuotientBelow
<1> HIDE DEF row, column
<1>4. row * Columns + column < Rows * Columns /\ row * Columns + column \in Nat
  <2>1. (row + 1) * Columns <= Rows * Columns
    BY <1>1, <1>2, Monotone
  <2>2. (row + 1) * Columns = row * Columns + Columns /\ row * Columns \in Nat
    BY <1>1, <1>2
  <2> QED
    BY <1>1, <1>2, <1>3, <2>1, <2>2
<1>5. i \in Tasks
  BY <1>1, <1>4 DEF Tasks
<1>6. i \div Columns = row /\ i % Columns = column
  <2> DEFINE p == i \div Columns
             q == i % Columns
  <2>1. i \in Nat
    BY <1>4
  <2>2. p \in Nat /\ q \in 0 .. (Columns - 1) /\ i = Columns * p + q
    <3> HIDE DEF i
    <3> QED
      BY <1>1, <2>1, Division
  <2> HIDE DEF p, q
  <2>3. p * Columns + q = row * Columns + column
    BY <1>1, <2>2
  <2>4. row \in Nat /\ column \in 0 .. (Columns - 1)
    BY <1>1, <1>2, <1>3
  <2>5. p = row /\ q = column
    <3> HIDE DEF i
    <3> QED
      BY <1>1, <2>2, <2>3, <2>4, UniqueParts
  <2> QED
    BY <2>5 DEF p, q
<1>7. outputIndex(op, i) = column * Rows + row
  <2> HIDE DEF i
  <2> QED
    BY <1>6 DEF outputIndex
<1>8. outputIndex(op, i) = c
  BY <1>1, <1>2, <1>7
<1> QED
  BY <1>5, <1>8 DEF row, column

\* A result in which every task has stored its value is the right matrix: the
\* product or the transposed one, as linear algebra defines them.
LEMMA AllStoredIsRight ==
  ASSUME NEW op \in Operations, NEW r, \A i \in Tasks : r[outputIndex(op, i)] = value(op, i)
  PROVE  IsRight(op, r)
<1>1. Total = Rows * Columns /\ op \in {"multiplication", "transposition"}
  BY TasksAssumption DEF Operations
<1>2. CASE op = "multiplication"
  <2> DEFINE P == Product(Rows, Inner, Columns, A, B)
  <2>1. ASSUME NEW k \in 1 .. Total PROVE r[k - 1] = P[k]
    <3>1. k - 1 \in Tasks /\ Columns \in Nat /\ k \in 1 .. (Rows * Columns)
      BY TasksAssumption, ChunksAssumption DEF Tasks
    <3>2. r[k - 1] = Cell(Inner, Columns, A, B, (k - 1) \div Columns, (k - 1) % Columns)
      BY <1>2, <3>1 DEF outputIndex, value
    <3>3. Magnitude(Columns) = Columns
      BY <3>1 DEF Magnitude
    <3> QED
      BY <3>1, <3>2, <3>3 DEF Product
  <2>2. P = [k \in 1 .. Total |-> P[k]]
    BY <1>1 DEF Product
  <2> HIDE DEF P
  <2>3. [k \in 1 .. Total |-> r[k - 1]] = P
    BY <2>1, <2>2
  <2> QED
    BY <1>2, <2>3 DEF P, IsRight, Right
<1>3. CASE op = "transposition"
  <2> DEFINE T == Transposed(Rows, Columns, A)
  <2>1. ASSUME NEW k \in 1 .. Total PROVE r[k - 1] = T[k]
    <3> DEFINE i == ((k - 1) % Rows) * Columns + ((k - 1) \div Rows)
    <3>1. k - 1 \in Tasks /\ Rows \in Nat /\ Columns \in Nat /\ k \in 1 .. (Rows * Columns)
      BY TasksAssumption, ChunksAssumption DEF Tasks
    <3>2. i \in Tasks /\ outputIndex(op, i) = k - 1
      BY <1>3, <3>1, TransposedCell
    <3>3. r[k - 1] = A[i + 1]
      <4> HIDE DEF i
      <4> QED
        BY <1>3, <3>2 DEF value
    <3>4. Magnitude(Rows) = Rows /\ Magnitude(Columns) = Columns
      BY <3>1 DEF Magnitude
    <3> QED
      BY <3>1, <3>3, <3>4 DEF Transposed
  <2>2. T = [k \in 1 .. Total |-> T[k]]
    BY <1>1 DEF Transposed
  <2> HIDE DEF T
  <2>3. [k \in 1 .. Total |-> r[k - 1]] = T
    BY <2>1, <2>2
  <2> QED
    BY <1>1, <1>3, <2>3 DEF T, IsRight, Right
<1> QED
  BY <1>1, <1>2, <1>3

\* The right matrix, cell by cell.
LEMMA RightCells ==
  ASSUME NEW op \in Operations, NEW r, IsRight(op, r), NEW c \in Tasks
  PROVE  r[c] = RightWord(op, c)
<1>1. c + 1 \in 1 .. Total /\ (c + 1) - 1 = c
  BY ChunksAssumption DEF Tasks
<1>2. [k \in 1 .. Total |-> r[k - 1]][c + 1] = r[c]
  BY <1>1
<1> QED
  BY <1>2 DEF IsRight, RightWord

\* What a task stores is the right matrix's word at its place.
LEMMA ValueIsRight ==
  ASSUME NEW op \in Operations, NEW i \in Tasks
  PROVE  value(op, i) = RightWord(op, outputIndex(op, i))
<1> DEFINE r == [c \in Tasks |-> value(op, CHOOSE j \in Tasks : outputIndex(op, j) = c)]
<1>1. ASSUME NEW k \in Tasks PROVE r[outputIndex(op, k)] = value(op, k)
  <2>1. outputIndex(op, k) \in Tasks
    BY OutputIndexInTasks
  <2>2. (CHOOSE j \in Tasks : outputIndex(op, j) = outputIndex(op, k)) = k
    BY OutputIndexInjective
  <2> QED
    BY <2>1, <2>2
<1> HIDE DEF r
<1>2. IsRight(op, r)
  BY <1>1, AllStoredIsRight
<1>3. outputIndex(op, i) \in Tasks
  BY OutputIndexInTasks
<1> QED
  BY <1>1, <1>2, <1>3, RightCells

=============================================================================
