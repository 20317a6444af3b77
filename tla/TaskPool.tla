------------------------------ MODULE TaskPool ------------------------------
(***************************************************************************)
(* The thread pool of the multiplication and the transposition worker:     *)
(* matrixMultipication and matrixTransposition create one thread per chunk *)
(* and join them; each thread stores one cell of the result at a time,     *)
(* under the mutex of the result.  When a thread cannot be created, those  *)
(* already running are joined and the result is given up.                  *)
(***************************************************************************)
EXTENDS MatrixTasks

CONSTANT MayFail  \* pthread_mutex_init and pthread_create may fail

ASSUME PoolAssumption == MayFail \in BOOLEAN

VARIABLES
  operation, \* which of the two functions this is; never changes
  pc,       \* the caller: "init" | "create" | "join" | "return"
  created,  \* createdWorkers
  joined,   \* threads joined so far
  tpc,      \* thread: "none" | "ready" | "locked" | "stored" | "ended"
  next,     \* thread: the task it is at
  mutex,    \* the thread that holds resultMutex, or Free
  result,   \* matrixC.arr
  returned  \* "nothing" | "matrix" | "zero", the struct Matrix returned

vars == <<operation, pc, created, joined, tpc, next, mutex, result, returned>>

Free == -1

TypeOK ==
  /\ operation \in Operations
  /\ pc \in {"init", "create", "join", "return"}
  /\ created \in 0 .. workerCount
  /\ joined \in 0 .. workerCount
  /\ tpc \in [Workers -> {"none", "ready", "locked", "stored", "ended"}]
  /\ next \in [Workers -> Nat]
  /\ mutex \in Workers \cup {Free}
  /\ DOMAIN result = Tasks
  /\ returned \in {"nothing", "matrix", "zero"}

Init ==
  /\ operation \in Operations
  /\ pc = "init" /\ created = 0 /\ joined = 0
  /\ tpc = [w \in Workers |-> "none"]
  /\ next = [w \in Workers |-> firstTask(w)]
  /\ mutex = Free
  /\ result = [i \in Tasks |-> 0]
  /\ returned = "nothing"

-----------------------------------------------------------------------------
(* The caller *)

MutexInit ==
  /\ pc = "init"
  /\ \/ pc' = "create" /\ returned' = returned
     \/ MayFail /\ pc' = "return" /\ returned' = "zero"
  /\ UNCHANGED <<operation, created, joined, tpc, next, mutex, result>>

Create ==
  /\ pc = "create" /\ created < workerCount
  /\ tpc' = [tpc EXCEPT ![created] = "ready"]
  /\ created' = created + 1
  /\ UNCHANGED <<operation, pc, joined, next, mutex, result, returned>>

\* The loop ends with the last worker, or with the first that fails.
CreateEnds ==
  /\ pc = "create"
  /\ created = workerCount \/ MayFail
  /\ pc' = "join"
  /\ UNCHANGED <<operation, created, joined, tpc, next, mutex, result, returned>>

Join ==
  /\ pc = "join" /\ joined < created
  /\ tpc[joined] = "ended"
  /\ joined' = joined + 1
  /\ UNCHANGED <<operation, pc, created, tpc, next, mutex, result, returned>>

\* Mutant: the call returns without joining the threads.
ReturnUnjoined ==
  /\ pc = "join"
  /\ pc' = "return"
  /\ returned' = IF created = workerCount THEN "matrix" ELSE "zero"
  /\ UNCHANGED <<operation, created, joined, tpc, next, mutex, result>>

Return ==
  /\ pc = "join" /\ joined = created
  /\ pc' = "return"
  /\ returned' = IF created = workerCount THEN "matrix" ELSE "zero"
  /\ UNCHANGED <<operation, created, joined, tpc, next, mutex, result>>

-----------------------------------------------------------------------------
(* A thread of the pool *)

Lock(w) ==
  /\ tpc[w] = "ready" /\ next[w] < lastTask(w)
  /\ mutex = Free
  /\ mutex' = w
  /\ tpc' = [tpc EXCEPT ![w] = "locked"]
  /\ UNCHANGED <<operation, pc, created, joined, next, result, returned>>

Store(w) ==
  /\ tpc[w] = "locked"
  /\ result' = [result EXCEPT ![outputIndex(operation, next[w])] = value(operation, next[w])]
  /\ tpc' = [tpc EXCEPT ![w] = "stored"]
  /\ UNCHANGED <<operation, pc, created, joined, next, mutex, returned>>

\* Mutant: the mutex is never released.
UnlockForgotten(w) ==
  /\ tpc[w] = "stored"
  /\ next' = [next EXCEPT ![w] = next[w] + 1]
  /\ tpc' = [tpc EXCEPT ![w] = "ready"]
  /\ UNCHANGED <<operation, pc, created, joined, mutex, result, returned>>

Unlock(w) ==
  /\ tpc[w] = "stored"
  /\ mutex' = Free
  /\ next' = [next EXCEPT ![w] = next[w] + 1]
  /\ tpc' = [tpc EXCEPT ![w] = "ready"]
  /\ UNCHANGED <<operation, pc, created, joined, result, returned>>

End(w) ==
  /\ tpc[w] = "ready" /\ next[w] >= lastTask(w)
  /\ tpc' = [tpc EXCEPT ![w] = "ended"]
  /\ UNCHANGED <<operation, pc, created, joined, next, mutex, result, returned>>

Caller == MutexInit \/ Create \/ CreateEnds \/ Join \/ Return

Thread(w) == Lock(w) \/ Store(w) \/ Unlock(w) \/ End(w)

Next == Caller \/ \E w \in Workers : Thread(w)

Spec == Init /\ [][Next]_vars

\* The scheduler runs the caller and every thread.  The mutex need not be fair:
\* every thread takes it a bounded number of times.
FairSpec ==
  Spec /\ WF_vars(Caller) /\ \A w \in Workers : WF_vars(Thread(w))

-----------------------------------------------------------------------------

\* The matrix returned holds, at every cell, the value of the task of that
\* cell, whatever the interleaving of the threads was.
EveryTaskStored ==
  returned = "matrix" =>
    \A i \in Tasks : result[outputIndex(operation, i)] = value(operation, i)

\* The matrix returned is the product, or the transposed matrix.
ResultIsRight == returned = "matrix" => IsRight(operation, result)

\* No thread is left running when the call returns: the arguments, the mutex
\* and the result the threads point to are on the caller's stack or freed.
NoThreadLeft ==
  pc = "return" => \A w \in Workers : tpc[w] \in {"none", "ended"}

Promise == INSTANCE Pool WITH Cells <- Tasks, Right <- RightWord, Partial <- FALSE

\* The threads together do what a pool promises: cells come in with their own
\* values and stay, a matrix is returned when all are there, and nothing stores
\* into a result that was returned.  Every call returns.
ImplementsPool == Promise!FairSpec

-----------------------------------------------------------------------------
(* The inductive invariant behind them *)

\* Threads are created and joined in order; a joined thread has ended.
Started ==
  /\ pc = "init" => created = 0
  /\ joined <= created
  /\ \A w \in Workers : tpc[w] = "none" <=> w >= created
  /\ \A w \in Workers : w < joined => tpc[w] = "ended"

\* The call returns when every thread created was joined, and with the matrix
\* only when every worker got its thread.
Returned ==
  /\ pc = "return" => joined = created
  /\ returned # "nothing" <=> pc = "return"
  /\ returned = "matrix" => created = workerCount

\* A thread works through its own chunk, and ends at the end of it.
Position ==
  \A w \in Workers :
    /\ firstTask(w) <= next[w]
    /\ tpc[w] \in {"locked", "stored"} => next[w] < lastTask(w)
    /\ tpc[w] = "ended" => next[w] >= lastTask(w)

\* What a thread has been through is in the result, to stay.
Stored ==
  \A w \in Workers : \A i \in Tasks :
    /\ firstTask(w) <= i /\ i < lastTask(w)
    /\ i < next[w] \/ (tpc[w] = "stored" /\ i = next[w])
    => result[outputIndex(operation, i)] = value(operation, i)

Inductive == TypeOK /\ Started /\ Returned /\ Position /\ Stored

=============================================================================
