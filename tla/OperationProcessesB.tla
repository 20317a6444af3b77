------------------------- MODULE OperationProcessesB -------------------------
(***************************************************************************)
(* main of process_based_parallelism_taskLevel_IPC_B.c.  The first child   *)
(* sends the product of A and B, then transposes it, adds a row and sends  *)
(* that too, over a second pipe; the second child sends A transposed; the  *)
(* third computes an average and sends nothing.  main reads the three      *)
(* matrices in that order, the last two into the same struct.              *)
(*                                                                         *)
(* A matrix of this program, at most 101 x 100, fits a pipe: a write()     *)
(* never blocks and arrives whole.  Pools are ProcessPool, by what they    *)
(* return: the chunks of their children that lived, 0 for the others, or   *)
(* a matrix of 0 x 0 when a pipe() failed.                                 *)
(***************************************************************************)
EXTENDS Matrices

CONSTANTS
  rowsA, columnsA, columnsB, \* B has columnsA rows
  A, B,                      \* the words of the matrices
  tasksPerWorker,
  MayFail                    \* forks, pools and realloc may fail, a child may die

Children == 1 .. 3

\* multiplicationPipe, transposedMultiplicationPipe, transpositionPipe.
Pipes == 1 .. 3

Writer(p) == IF p = 3 THEN 2 ELSE 1

Matrix(r, c, words) == [rows |-> r, columns |-> c, words |-> words]
Empty == Matrix(0, 0, <<>>)
Transpose(m) == Matrix(m.columns, m.rows, Transposed(m.rows, m.columns, m.words))

Cells(m) == m.rows * m.columns

\* The words of a matrix without cells are no bytes: read() returns at once and
\* write() succeeds, whoever is at the other end.
NoBytes(rows, columns) == rows = 0 \/ columns = 0

\* What the code prints before it is read, or takes for a dimension.
Garbage == -1

\* A word of rand().
NewWord == 7

VARIABLES
  pc,       \* main: "fork" | "read" | "wait" | "exited" | "crashed"
  at,       \* main: the child it forks, the pipe it reads, or its wait()
  part,     \* main: rows, columns or words, 1 to 3
  dims,     \* multiplicationResult and transposeResult: <<rows, columns>>
  printed,  \* the matrices main has printed
  child,    \* "none" | "running" | "dead" | "reaped", per child
  place,    \* per child, where in its block of main
  written,  \* parts written, per pipe
  pipe,     \* parts in the pipe
  matrix,   \* in its writer's memory, the matrix that goes to a pipe
  block,    \* the words of matrix[2]: "live" | "freed" | "freedTwice"
  faults    \* history: what happened to the first two children

vars == <<pc, at, part, dims, printed, child, place, written, pipe, matrix, block, faults>>

Alive(c) == child[c] = "running"

\* A child ends, wherever it is.
Ends(c) ==
  /\ child' = [child EXCEPT ![c] = "dead"]
  /\ place' = [place EXCEPT ![c] = "exit"]

\* Nothing depends on the third child's faults.
With(c, fault) == IF c = 3 THEN faults ELSE [faults EXCEPT ![c] = @ \cup {fault}]

Fault(c, fault) == MayFail /\ faults' = With(c, fault)

\* The struct main reads pipe p into.
Struct(p) == IF p = 1 THEN 1 ELSE 2

TypeOK ==
  /\ pc \in {"fork", "read", "wait", "exited", "crashed"}
  /\ at \in 1 .. 3 /\ part \in 1 .. 3
  /\ dims \in [1 .. 2 -> (Nat \cup {Garbage}) \X (Nat \cup {Garbage})]
  /\ Len(printed) <= 3
  /\ child \in [Children -> {"none", "running", "dead", "reaped"}]
  /\ \A c \in Children :
       place[c] \in {"start", "compute", "send", "transpose", "add", "sendSecond", "free", "exit"}
  /\ written \in [Pipes -> 0 .. 3]
  /\ block \in {"none", "live", "freed", "freedTwice"}

Init ==
  /\ pc = "fork" /\ at = 1 /\ part = 1
  /\ dims = [s \in 1 .. 2 |-> <<Garbage, Garbage>>]
  /\ printed = <<>>
  /\ child = [c \in Children |-> "none"]
  /\ place = [c \in Children |-> IF c = 1 THEN "compute" ELSE "start"]
  /\ written = [p \in Pipes |-> 0]
  /\ pipe = [p \in Pipes |-> <<>>]
  /\ matrix = [p \in Pipes |-> Empty]
  /\ block = "none"
  /\ faults = [c \in Children |-> {}]

-----------------------------------------------------------------------------
(* Who holds the pipes *)

\* Children close the pipes that are not theirs when they start, the third only
\* one of them, and their own when they have written.
HoldsWriteEnd(c, p) ==
  \/ c = Writer(p) /\ written[p] < 3
  \/ c = 3 /\ (p # 2 \/ place[3] = "start")
  \/ c = 2 /\ place[2] = "start"

AtEnd(p) == \A c \in Children : Alive(c) => ~ HoldsWriteEnd(c, p)

\* main closes its read end of p when it has read it; writers closed theirs.
Readable(p) ==
  \/ pc = "fork" \/ (pc = "read" /\ at <= p)
  \/ Alive(2) /\ place[2] = "start" /\ p # 3
  \/ Alive(3) /\ (p # 2 \/ place[3] = "start")

-----------------------------------------------------------------------------
(* main *)

\* A fork that fails is not looked at: main goes on as the parent.
Fork ==
  /\ pc = "fork"
  /\ \/ child' = [child EXCEPT ![at] = "running"] /\ UNCHANGED faults
     \/ Fault(at, "fork") /\ UNCHANGED child
  /\ IF at = 3 THEN at' = 1 /\ pc' = "read" ELSE at' = at + 1 /\ UNCHANGED pc
  /\ UNCHANGED <<part, dims, printed, place, written, pipe, matrix, block>>

\* Mutant: the pipe was opened with O_NONBLOCK.
ReadDimensionEarly ==
  /\ pc = "read" /\ part < 3
  /\ IF pipe[at] # <<>>
       THEN /\ dims' = [dims EXCEPT ![Struct(at)][part] = Head(pipe[at])]
            /\ pipe' = [pipe EXCEPT ![at] = Tail(@)]
       ELSE UNCHANGED <<dims, pipe>>
  /\ part' = part + 1
  /\ UNCHANGED <<pc, at, printed, child, place, written, matrix, block, faults>>

\* read() of one dimension; at the end of the pipe the struct keeps what it had.
ReadDimension ==
  /\ pc = "read" /\ part < 3
  /\ pipe[at] # <<>> \/ AtEnd(at)
  /\ IF pipe[at] # <<>>
       THEN /\ dims' = [dims EXCEPT ![Struct(at)][part] = Head(pipe[at])]
            /\ pipe' = [pipe EXCEPT ![at] = Tail(@)]
       ELSE UNCHANGED <<dims, pipe>>
  /\ part' = part + 1
  /\ UNCHANGED <<pc, at, printed, child, place, written, matrix, block, faults>>

\* Mutant: the words are read from the pipe that had the struct first.
WordsOfStruct(p, r, c) == IF pipe[Struct(p)] # <<>> THEN Head(pipe[Struct(p)]) ELSE Padded(<<>>, r * c)

\* What a calloc'ed array has after it was read into from p.
ArrayWords(p, r, c) == IF pipe[p] # <<>> THEN Head(pipe[p]) ELSE Padded(<<>>, r * c)

\* The array is made, with the dimensions in the struct, read into, printed and
\* freed.  Dimensions that were never read are anything: main may crash.
ReadWords ==
  LET r == dims[Struct(at)][1]
      c == dims[Struct(at)][2]
      known == r # Garbage /\ c # Garbage
  IN  /\ pc = "read" /\ part = 3
      /\ pipe[at] # <<>> \/ AtEnd(at) \/ NoBytes(r, c)
      /\ \/ /\ printed' = Append(printed, Matrix(r, c, IF known THEN ArrayWords(at, r, c) ELSE <<>>))
            /\ pipe' = [pipe EXCEPT ![at] = <<>>]
            /\ part' = 1
            /\ IF at = 3 THEN at' = 1 /\ pc' = "wait" ELSE at' = at + 1 /\ UNCHANGED pc
         \/ /\ ~ known
            /\ pc' = "crashed"
            /\ UNCHANGED <<at, part, printed, pipe>>
      /\ UNCHANGED <<dims, child, place, written, matrix, block, faults>>

\* wait(NULL), three times: any child that is dead, or an error when none is left.
Wait ==
  /\ pc = "wait"
  /\ \/ \E c \in Children : child[c] = "dead" /\ child' = [child EXCEPT ![c] = "reaped"]
     \/ (\A c \in Children : child[c] \in {"none", "reaped"}) /\ UNCHANGED child
  /\ IF at = 3 THEN pc' = "exited" /\ UNCHANGED at ELSE at' = at + 1 /\ UNCHANGED pc
  /\ UNCHANGED <<part, dims, printed, place, written, pipe, matrix, block, faults>>

Main == Fork \/ ReadDimension \/ ReadWords \/ Wait

-----------------------------------------------------------------------------
(* The children *)

\* Child c is at place from and goes to place to.
At(c, from, to) ==
  /\ Alive(c) /\ place[c] = from
  /\ place' = [place EXCEPT ![c] = to]

\* What a pool whose task t stores cell index[t] leaves of m when children die.
Pool(c, p, m, index, lost) ==
  LET workers == (Cells(m) + tasksPerWorker - 1) \div tasksPerWorker
  IN  \/ matrix' = [matrix EXCEPT ![p] = m] /\ UNCHANGED faults
      \/ matrix' = [matrix EXCEPT ![p] = Empty] /\ Fault(c, lost)
      \/ \E dead \in SUBSET (0 .. (workers - 1)) \ {{}} :
           /\ matrix' = [matrix EXCEPT ![p].rows = m.rows, ![p].columns = m.columns,
                ![p].words = [i \in 1 .. Cells(m) |->
                   IF \E t \in 0 .. (Cells(m) - 1) : index[t] = i /\ t \div tasksPerWorker \in dead
                   THEN 0 ELSE m.words[i]]]
           /\ Fault(c, lost)

ByRow(m) == [t \in 0 .. (Cells(m) - 1) |-> t + 1]

\* Task t of the transposition of m stores at column * rows + row.
ByColumn(m) == [t \in 0 .. (Cells(m) - 1) |-> (t % m.columns) * m.rows + (t \div m.columns) + 1]

Start(c) ==
  /\ At(c, "start", "compute")
  /\ UNCHANGED <<pc, at, part, dims, printed, child, written, pipe, matrix, block, faults>>

Multiply ==
  /\ At(1, "compute", "send")
  /\ LET product == Matrix(rowsA, columnsB, Product(rowsA, columnsA, columnsB, A, B))
     IN  Pool(1, 1, product, ByRow(product), "product")
  /\ UNCHANGED <<pc, at, part, dims, printed, child, written, pipe, block>>

\* The second child's transposition of A.
TransposeA ==
  LET m == Matrix(rowsA, columnsA, A)
  IN  /\ At(2, "compute", "send")
      /\ Pool(2, 3, Transpose(m), ByColumn(m), "transposed")
      /\ UNCHANGED <<pc, at, part, dims, printed, child, written, pipe, block>>

\* The third child's average goes nowhere.
Average3 ==
  /\ At(3, "compute", "exit")
  /\ UNCHANGED <<pc, at, part, dims, printed, child, written, pipe, matrix, block, faults>>

\* The next part of the matrix for pipe p; after the last the pipe is closed.
\* SIGPIPE when nobody can read it.  No bytes are a part that nobody misses.
Send(c, p, from, to) ==
  LET m == matrix[p]
  IN  /\ Alive(c) /\ place[c] = from
      /\ IF Readable(p) \/ (written[p] = 2 /\ NoBytes(m.rows, m.columns))
           THEN /\ pipe' = [pipe EXCEPT ![p] = Append(@, <<m.rows, m.columns, m.words>>[written[p] + 1])]
                /\ written' = [written EXCEPT ![p] = @ + 1]
                /\ place' = IF written[p] = 2 THEN [place EXCEPT ![c] = to] ELSE place
                /\ UNCHANGED <<child, faults>>
           ELSE /\ Ends(c)
                /\ faults' = With(c, "pipe")
                /\ UNCHANGED <<pipe, written>>
      /\ UNCHANGED <<pc, at, part, dims, printed, matrix, block>>

\* The product is transposed in turn.
TransposeProduct ==
  /\ At(1, "transpose", "add")
  /\ Pool(1, 2, Transpose(matrix[1]), ByColumn(matrix[1]), "second")
  /\ block' = "live"
  /\ UNCHANGED <<pc, at, part, dims, printed, child, written, pipe>>

\* Mutant: a row is added for every row.
AddNewRowTwice ==
  LET m == matrix[2]
  IN  /\ At(1, "add", "sendSecond")
      /\ matrix' = [matrix EXCEPT ![2].rows = 2 * m.rows,
                    ![2].words = Padded(m.words, 2 * Cells(m))]
      /\ UNCHANGED <<pc, at, part, dims, printed, child, written, pipe, block, faults>>

\* Mutant: the array that realloc() gave up is kept.
AddNewRowKeepsOld ==
  LET m == matrix[2]
  IN  /\ At(1, "add", "sendSecond")
      /\ matrix' = [matrix EXCEPT ![2].rows = m.rows + 1,
                    ![2].words = m.words \o [i \in 1 .. m.columns |-> NewWord]]
      /\ block' = "freed"
      /\ UNCHANGED <<pc, at, part, dims, printed, child, written, pipe, faults>>

\* realloc() and a row of new words.  Of a matrix without columns realloc() to
\* size 0 frees the array and returns NULL; the matrix is returned as it was.
addNewRow ==
  LET m == matrix[2]
  IN  /\ At(1, "add", "sendSecond")
      /\ \/ /\ m.columns > 0
            /\ matrix' = [matrix EXCEPT ![2].rows = m.rows + 1,
                          ![2].words = m.words \o [i \in 1 .. m.columns |-> NewWord]]
            /\ UNCHANGED <<block, faults>>
         \/ /\ m.columns > 0 /\ Fault(1, "realloc")
            /\ UNCHANGED <<matrix, block>>
         \/ /\ m.columns = 0 /\ block' = "freed"
            /\ UNCHANGED <<matrix, faults>>
      /\ UNCHANGED <<pc, at, part, dims, printed, child, written, pipe>>

\* Both matrices are freed; a second free() of one block aborts, or is not seen.
Free ==
  /\ Alive(1) /\ place[1] = "free"
  /\ IF block = "live"
       THEN block' = "freed" /\ place' = [place EXCEPT ![1] = "exit"] /\ UNCHANGED child
       ELSE /\ block' = "freedTwice"
            /\ \/ place' = [place EXCEPT ![1] = "exit"] /\ UNCHANGED child
               \/ Ends(1)
  /\ UNCHANGED <<pc, at, part, dims, printed, written, pipe, matrix, faults>>

\* exit(0).
Exit(c) ==
  /\ Alive(c) /\ place[c] = "exit"
  /\ Ends(c)
  /\ UNCHANGED <<pc, at, part, dims, printed, written, pipe, matrix, block, faults>>

\* A death before that.
Die(c) ==
  /\ Alive(c) /\ place[c] # "exit" /\ Fault(c, "died")
  /\ Ends(c)
  /\ UNCHANGED <<pc, at, part, dims, printed, written, pipe, matrix, block>>

First ==
  \/ Multiply \/ TransposeProduct \/ addNewRow \/ Free \/ Exit(1)
  \/ Send(1, 1, "send", "transpose") \/ Send(1, 2, "sendSecond", "free")

Second == Start(2) \/ TransposeA \/ Send(2, 3, "send", "exit") \/ Exit(2)

Third == Start(3) \/ Average3 \/ Exit(3)

Run(c) == (c = 1 /\ First) \/ (c = 2 /\ Second) \/ (c = 3 /\ Third)

Next == Main \/ \E c \in Children : Run(c) \/ Die(c)

Spec == Init /\ [][Next]_vars

\* The scheduler runs every process; a child need not die of itself.
FairSpec == Spec /\ WF_vars(Main) /\ \A c \in Children : WF_vars(Run(c))

-----------------------------------------------------------------------------

\* Of a matrix transposed, with a row added to it.
WithRow(m) ==
  Matrix(m.rows + 1, m.columns, m.words \o [i \in 1 .. m.columns |-> NewWord])

\* What main prints.  The second matrix is the first one transposed, chunks its
\* pool lost included, with one more row; unless the first child did not get
\* that far, the pool of its transposition failed it, realloc() found no room
\* for the row, or the product was empty.
\* The third is A transposed if all went well with the second child, whatever
\* became of the first, and although main reads it into the struct of the second.
PrintedIsRight ==
  /\ Len(printed) >= 2 /\ faults[1] \subseteq {"product"} /\ printed[1] # Empty =>
       printed[2] = WithRow(Transpose(printed[1]))
  /\ Len(printed) = 3 /\ faults[2] = {} =>
       printed[3] = Transpose(Matrix(rowsA, columnsA, A))

\* The added row's block is freed twice only when the matrix is empty, and by
\* then all of it has been written: main prints what it would have printed.
FreedTwiceIfEmpty ==
  block = "freedTwice" =>
    /\ matrix[2] = Empty /\ written[2] = 3
    /\ Len(printed) >= 2 => printed[2] = Empty

\* main crashes only when the first child was never forked or died before it had
\* told its dimensions: no failure of a pool, of realloc() or of the other
\* children takes main with it.
MainSurvives ==
  pc = "crashed" => faults[1] \cap {"fork", "died"} # {} /\ written[2] < 2

=============================================================================
