---------------------------- MODULE ProcessAverage ----------------------------
(***************************************************************************)
(* matrixAverage of process_based_parallelism_taskLevel_IPC.c: one forked  *)
(* child per chunk sends the average of its chunk through a pipe of its    *)
(* own; the last child also sends how many words it says its chunk has, in *)
(* a second pipe, and the parent puts the averages together again.         *)
(*                                                                         *)
(* A sum is known by the workers whose words are in it.  The averages are  *)
(* doubles, taken as exact: a child's average times the divisor it used is *)
(* its sum again, unless that divisor is 0.                                *)
(***************************************************************************)
EXTENDS Chunks, FiniteSets

CONSTANTS
  Garbage,  \* what an uninitialised numberOfTasksForTheLastProcess may hold
  MayFail   \* pipe and fork may fail, a child may die before it writes

VARIABLES
  pc,       \* the parent: "fork" | "read" | "count" | "return"
  at,       \* the parent: worker
  child,    \* "none" | "running" | "counted" | "written" | "dead", per worker
  average,  \* resultPipes: "empty" | "average" | "taken", per worker
  divisor,  \* the last child: what it divided its sum by
  lastPipe, \* pipeLastProcess: << >> or the one number in it
  added,    \* the parent: the workers whose words are in totalAvg
  words,    \* the parent: what it divides totalAvg by
  returned  \* "nothing" | "average" | "zero"

vars == <<pc, at, child, average, divisor, lastPipe, added, words, returned>>

last == workerCount - 1

TypeOK ==
  /\ pc \in {"fork", "read", "count", "return"}
  /\ at \in Workers
  /\ child \in [Workers -> {"none", "running", "counted", "written", "dead"}]
  /\ average \in [Workers -> {"empty", "average", "taken"}]
  /\ divisor \in Int /\ words \in Int
  /\ lastPipe \in {<< >>} \cup {<<n>> : n \in Garbage \cup 0 .. TasksPerWorker}
  /\ added \subseteq Workers
  /\ returned \in {"nothing", "average", "zero"}

Init ==
  /\ pc = "fork" /\ at = 0
  /\ child = [w \in Workers |-> "none"]
  /\ average = [w \in Workers |-> "empty"]
  /\ divisor = 1 /\ lastPipe = << >>
  /\ added = {} /\ words = 0
  /\ returned = "nothing"

-----------------------------------------------------------------------------
(* The parent *)

NextFork == IF at < last THEN at' = at + 1 /\ pc' = "fork" ELSE at' = 0 /\ pc' = "read"

\* A pid of -1 is not looked at: the worker counts as forked.
Fork ==
  /\ pc = "fork"
  /\ \/ child' = [child EXCEPT ![at] = "running"]
     \/ MayFail /\ child' = child
  /\ NextFork
  /\ UNCHANGED <<average, divisor, lastPipe, added, words, returned>>

PipeFails ==
  /\ pc = "fork" /\ MayFail
  /\ pc' = "return" /\ returned' = "zero"
  /\ UNCHANGED <<at, child, average, divisor, lastPipe, added, words>>

Gone(w) == child[w] \in {"none", "dead"}

\* Mutant: the parent still holds the write end when it reads.
ReadWithoutEof ==
  /\ pc = "read"
  /\ average[at] = "average"
  /\ added' = added \cup {at}
  /\ average' = [average EXCEPT ![at] = "taken"]
  /\ IF at = last THEN pc' = "count" /\ UNCHANGED at ELSE pc' = "read" /\ at' = at + 1
  /\ UNCHANGED <<child, divisor, lastPipe, words, returned>>

\* Mutant: the parent does not wait for the child.
ReadTooEarly ==
  /\ pc = "read"
  /\ IF average[at] = "average"
       THEN added' = added \cup {at} /\ average' = [average EXCEPT ![at] = "taken"]
       ELSE UNCHANGED <<added, average>>
  /\ IF at = last THEN pc' = "count" /\ UNCHANGED at ELSE pc' = "read" /\ at' = at + 1
  /\ UNCHANGED <<child, divisor, lastPipe, words, returned>>

\* One average, multiplied by the divisor of its child: the words of its chunk
\* are in the sum again.  A child that is gone without writing adds 0.0.
Read ==
  /\ pc = "read"
  /\ average[at] = "average" \/ Gone(at)
  /\ IF average[at] = "average"
       THEN added' = added \cup {at} /\ average' = [average EXCEPT ![at] = "taken"]
       ELSE UNCHANGED <<added, average>>
  /\ IF at = last THEN pc' = "count" /\ UNCHANGED at ELSE pc' = "read" /\ at' = at + 1
  /\ UNCHANGED <<child, divisor, lastPipe, words, returned>>

\* The number of the last child, and the average of all.  Every child holds the
\* write end of pipeLastProcess, so it is at its end when all are gone; then
\* the parent's own uninitialised number is used.
Count ==
  /\ pc = "count"
  /\ lastPipe # << >> \/ \A w \in Workers : Gone(w)
  /\ \E n \in IF lastPipe # << >> THEN {lastPipe[1]} ELSE Garbage :
       words' = last * TasksPerWorker + n
  /\ pc' = "return" /\ returned' = "average"
  /\ UNCHANGED <<at, child, average, divisor, lastPipe, added>>

-----------------------------------------------------------------------------
(* A child *)

Size(w) == lastTask(w) - firstTask(w)

\* Mutant: the loop still subtracts the chunk size of the other program.
LastCountOther ==
  IF Size(last) \in 1 .. (TasksPerWorker - 1) THEN {100 - Size(last)} ELSE Garbage

\* What the last child takes for the number of its words: the number of words
\* its chunk is short of TasksPerWorker, and what is in memory when it is full
\* (avgTaskLevelIPC_testing.c initialises it, but its last chunk is half full).
LastCount ==
  IF Size(last) \in 1 .. (TasksPerWorker - 1) THEN {TasksPerWorker - Size(last)} ELSE Garbage

WriteCount ==
  /\ child[last] = "running"
  /\ divisor' \in LastCount
  /\ lastPipe' = <<divisor'>>
  /\ child' = [child EXCEPT ![last] = "counted"]
  /\ UNCHANGED <<pc, at, average, added, words, returned>>

WriteAverage(w) ==
  /\ child[w] = IF w = last THEN "counted" ELSE "running"
  /\ average' = [average EXCEPT ![w] = "average"]
  /\ child' = [child EXCEPT ![w] = "written"]
  /\ UNCHANGED <<pc, at, divisor, lastPipe, added, words, returned>>

\* _exit(0).
Exit(w) ==
  /\ child[w] = "written"
  /\ child' = [child EXCEPT ![w] = "dead"]
  /\ UNCHANGED <<pc, at, average, divisor, lastPipe, added, words, returned>>

\* A death before that.
Die(w) ==
  /\ MayFail /\ child[w] \in {"running", "counted"}
  /\ child' = [child EXCEPT ![w] = "dead"]
  /\ UNCHANGED <<pc, at, average, divisor, lastPipe, added, words, returned>>

Parent == Fork \/ PipeFails \/ Read \/ Count

Child(w) == (w = last /\ WriteCount) \/ WriteAverage(w) \/ Exit(w)

Next == Parent \/ \E w \in Workers : Child(w) \/ Die(w)

Spec == Init /\ [][Next]_vars

\* The scheduler runs the parent and every child, which need not die.
FairSpec ==
  Spec /\ WF_vars(Parent) /\ \A w \in Workers : WF_vars(Child(w))

-----------------------------------------------------------------------------

\* The average returned is the sum of all the words over their number.
AverageIsRight ==
  returned = "average" => added = Workers /\ words = Total /\ divisor # 0

\* Whatever fails, the words of every child that sends its average, early or
\* late, are in the sum, and those left out belong to children that never will.
\* A sum with the words of the last child is divided by a count that is wrong by
\* just what the last chunk has more, or less, than half of TasksPerWorker: right
\* when it is half full, as in avgTaskLevelIPC_testing.c.  Nothing is known of the
\* count when the last chunk is full.
AverageAddsUp ==
  returned = "average" =>
    /\ \A w \in Workers : w \in added \/ (Gone(w) /\ average[w] = "empty")
    /\ last \in added /\ Size(last) \in 1 .. (TasksPerWorker - 1) =>
         /\ words = Total + TasksPerWorker - 2 * Size(last)
         /\ divisor = TasksPerWorker - Size(last)

\* Every call returns: no read() waits for a child that is gone.
Returns == <>(pc = "return")

=============================================================================
