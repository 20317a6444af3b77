--------------------------- MODULE TaskPoolProofs ---------------------------
(***************************************************************************)
(* The thread pool stores every task's value whatever the interleaving,    *)
(* for every matrix, every chunk size and every number of threads.         *)
(***************************************************************************)
EXTENDS TaskPool, MatrixTasksProofs

-----------------------------------------------------------------------------
(* The inductive invariant *)

\* The invariant holds before the first thread is created.
LEMMA InitInvariant == Init => Inductive
<1> SUFFICES ASSUME Init PROVE Inductive
  OBVIOUS
<1> USE DEF Init
<1>1. TypeOK
  BY WorkerCountPositive, ChunkInTasks DEF TypeOK, Workers, Free
<1>2. Started /\ Returned
  BY WorkerCountPositive DEF Started, Returned, Workers, Free
<1>3. Position /\ Stored
  BY ChunkInTasks, ChunksAssumption DEF Position, Stored, Tasks
<1> QED
  BY <1>1, <1>2, <1>3 DEF Inductive

\* Whatever a thread stores in a cell is the value of the only task of that cell.
LEMMA StoreKeepsStored ==
  ASSUME Inductive, NEW w \in Workers, Store(w)
  PROVE  Stored'
<1> USE DEF Inductive, Store
<1> DEFINE n == next[w]
<1>1. n \in Tasks /\ operation \in Operations
  BY ChunkInTasks, ChunksAssumption DEF Position, TypeOK, Tasks
<1>2. DOMAIN result = Tasks /\ outputIndex(operation, n) \in Tasks
  BY <1>1, OutputIndexInTasks DEF TypeOK
<1>3. ASSUME NEW i \in Tasks,
             i = n \/ result[outputIndex(operation, i)] = value(operation, i)
      PROVE  result'[outputIndex(operation, i)] = value(operation, i)
  <2>1. CASE i = n
    BY <1>2, <2>1
  <2>2. CASE i # n
    <3>1. /\ outputIndex(operation, i) # outputIndex(operation, n)
          /\ outputIndex(operation, i) \in Tasks
      BY <1>1, <2>2, OutputIndexInjective, OutputIndexInTasks
    <3> QED
      BY <1>2, <1>3, <2>2, <3>1
  <2> QED
    BY <2>1, <2>2
<1>4. ASSUME NEW v \in Workers, NEW i \in Tasks,
             firstTask(v) <= i, i < lastTask(v),
             i < next[v] \/ (tpc'[v] = "stored" /\ i = next[v])
      PROVE  result'[outputIndex(operation, i)] = value(operation, i)
  <2>1. CASE v = w
    BY <1>3, <1>4, <2>1 DEF Stored, TypeOK
  <2>2. CASE v # w
    BY <1>3, <1>4, <2>2 DEF Stored, TypeOK
  <2> QED
    BY <2>1, <2>2
<1> QED
  BY <1>4 DEF Stored

\* Every step of the caller and of each thread keeps the invariant.
LEMMA NextInvariant == Inductive /\ [Next]_vars => Inductive'
<1> SUFFICES ASSUME Inductive, [Next]_vars PROVE Inductive'
  OBVIOUS
<1> USE DEF Inductive
<1>1. CASE MutexInit
  BY <1>1 DEF MutexInit, TypeOK, Started, Returned, Position, Stored
<1>2. CASE Create
  <2> USE <1>2 DEF Create
  <2>1. created \in Workers /\ created + 1 \in 0 .. workerCount
    BY WorkerCountPositive DEF TypeOK, Workers
  <2>2. TypeOK'
    BY <2>1 DEF TypeOK, Started
  <2>3. Started' /\ Returned'
    BY <2>1 DEF TypeOK, Started, Returned, Workers
  <2>4. Position' /\ Stored'
    BY <2>1 DEF TypeOK, Position, Stored
  <2> QED
    BY <2>2, <2>3, <2>4
<1>3. CASE CreateEnds
  BY <1>3 DEF CreateEnds, TypeOK, Started, Returned, Position, Stored
<1>4. CASE Join
  <2> USE <1>4 DEF Join
  <2>1. joined \in Workers /\ joined + 1 \in 0 .. workerCount
    BY WorkerCountPositive DEF TypeOK, Workers
  <2>2. TypeOK' /\ Started' /\ Returned'
    BY <2>1 DEF TypeOK, Started, Returned, Workers
  <2>3. Position' /\ Stored'
    BY DEF Position, Stored
  <2> QED
    BY <2>2, <2>3
<1>5. CASE Return
  BY <1>5 DEF Return, TypeOK, Started, Returned, Position, Stored
<1>6. ASSUME NEW w \in Workers, Thread(w)
      PROVE  Inductive'
  <2>1. CASE Lock(w)
    BY <2>1 DEF Lock, TypeOK, Started, Returned, Position, Stored, Free, Workers
  <2>2. CASE Store(w)
    <3>1. TypeOK' /\ Started' /\ Returned' /\ Position'
      BY <2>2 DEF Store, TypeOK, Started, Returned, Position
    <3> QED
      BY <2>2, <3>1, StoreKeepsStored
  <2>3. CASE Unlock(w)
    <3> USE <2>3 DEF Unlock
    <3>1. next[w] \in Nat /\ next' = [next EXCEPT ![w] = next[w] + 1]
      BY DEF TypeOK
    <3>2. TypeOK' /\ Started' /\ Returned'
      BY <3>1 DEF TypeOK, Started, Returned, Free, Workers
    <3>3. Position'
      BY <3>1, ChunkInTasks DEF TypeOK, Position
    <3>4. Stored'
      BY <3>1 DEF TypeOK, Stored, Tasks
    <3> QED
      BY <3>2, <3>3, <3>4
  <2>4. CASE End(w)
    BY <2>4 DEF End, TypeOK, Started, Returned, Position, Stored
  <2> QED
    BY <1>6, <2>1, <2>2, <2>3, <2>4 DEF Thread
<1>7. CASE UNCHANGED vars
  BY <1>7 DEF vars, TypeOK, Started, Returned, Position, Stored
<1> QED
  BY <1>1, <1>2, <1>3, <1>4, <1>5, <1>6, <1>7 DEF Next, Caller

\* The invariant the theorems below follow from.
LEMMA InductiveInvariant == Spec => []Inductive
<1> QED
  BY InitInvariant, NextInvariant, PTL DEF Spec

-----------------------------------------------------------------------------
(* What it shows *)

\* The pool's variables have their types.
THEOREM TypeCorrect == Spec => []TypeOK
<1> QED
  BY InductiveInvariant, PTL DEF Inductive

\* matrixMultipication and matrixTransposition never return with a thread of
\* theirs still running.
THEOREM NoThreadOutlivesCall == Spec => []NoThreadLeft
<1>1. Inductive => NoThreadLeft
  BY DEF Inductive, TypeOK, Started, Returned, NoThreadLeft, Workers
<1> QED
  BY <1>1, InductiveInvariant, PTL

\* When every thread has ended, each at the end of its chunk, nothing is missing.
LEMMA AllEndedIsComplete ==
  ASSUME Inductive, \A w \in Workers : tpc[w] = "ended", NEW i \in Tasks
  PROVE  result[outputIndex(operation, i)] = value(operation, i)
<1>1. PICK w \in Workers : firstTask(w) <= i /\ i < lastTask(w)
  BY EveryTaskInAChunk
<1>2. next[w] >= lastTask(w) /\ next[w] \in Nat /\ lastTask(w) \in Nat
  BY ChunkInTasks DEF Inductive, TypeOK, Position
<1>3. i < next[w]
  BY <1>1, <1>2 DEF Tasks
<1> QED
  BY <1>1, <1>3 DEF Inductive, Stored

\* When the matrix is returned every thread was joined.
LEMMA ReturnedIsComplete ==
  ASSUME Inductive, returned = "matrix", NEW i \in Tasks
  PROVE  result[outputIndex(operation, i)] = value(operation, i)
<1>1. \A w \in Workers : tpc[w] = "ended"
  BY DEF Inductive, TypeOK, Started, Returned, Workers
<1> QED
  BY <1>1, AllEndedIsComplete

\* The returned matrix holds the value of every task in the cell of that task.
THEOREM EveryTaskIsStored == Spec => []EveryTaskStored
<1>1. Inductive => EveryTaskStored
  BY ReturnedIsComplete DEF EveryTaskStored
<1> QED
  BY <1>1, InductiveInvariant, PTL

\* The matrix returned is the product, or the transposed matrix, as linear
\* algebra defines them.
THEOREM ResultIsTheMatrix == Spec => []ResultIsRight
<1>1. Inductive => ResultIsRight
  BY ReturnedIsComplete, AllStoredIsRight DEF ResultIsRight, Inductive, TypeOK
<1> QED
  BY <1>1, InductiveInvariant, PTL

-----------------------------------------------------------------------------
(* That it implements Pool *)

\* The cell a thread stores into gets the word a pool promises for it.
LEMMA StoreDelivers ==
  ASSUME Inductive, NEW w \in Workers, Store(w)
  PROVE  Promise!Deliver
<1> DEFINE c == outputIndex(operation, next[w])
<1>1. next[w] \in Tasks /\ operation \in Operations /\ DOMAIN result = Tasks
  BY ChunkInTasks, ChunksAssumption DEF Inductive, Store, Position, TypeOK, Tasks
<1>2. c \in Tasks /\ value(operation, next[w]) = RightWord(operation, c)
  BY <1>1, OutputIndexInTasks, ValueIsRight
<1>3. returned = "nothing"
  BY DEF Inductive, TypeOK, Started, Returned, Store, Workers
<1>4. result' = [d \in Tasks |-> IF d \in {c} THEN RightWord(operation, d) ELSE result[d]]
  BY <1>1, <1>2 DEF Store
<1> QED
  BY <1>2, <1>3, <1>4 DEF Promise!Deliver, Store

\* The caller's return is one of the two a pool may make.
LEMMA ReturnAnswers ==
  ASSUME Inductive, Return
  PROVE  Promise!ReturnMatrix \/ Promise!GiveUp
<1>1. returned = "nothing"
  BY DEF Inductive, TypeOK, Returned, Return
<1>2. CASE created = workerCount
  <2>1. \A w \in Workers : tpc[w] = "ended"
    BY <1>2 DEF Inductive, TypeOK, Started, Return, Workers
  <2>2. \A i \in Tasks : result[outputIndex(operation, i)] = value(operation, i)
    BY <2>1, AllEndedIsComplete
  <2>3. operation \in Operations
    BY DEF Inductive, TypeOK
  <2>4. IsRight(operation, result)
    BY <2>2, <2>3, AllStoredIsRight
  <2>5. \A c \in Tasks : result[c] = RightWord(operation, c)
    BY <2>3, <2>4, RightCells
  <2> QED
    BY <1>1, <1>2, <2>5 DEF Return, Promise!ReturnMatrix
<1>3. CASE created # workerCount
  BY <1>1, <1>3 DEF Return, Promise!GiveUp
<1> QED
  BY <1>2, <1>3

\* The safety of the promise of a pool, for every matrix and every chunk size:
\* threads deliver right cells only, none after the return, and the matrix
\* returned lacks none.
THEOREM ImplementsPromise == Spec => Promise!Spec
<1>1. Init => Promise!Init
  BY DEF Init, Promise!Init
<1>2. Inductive /\ [Next]_vars => [Promise!Next]_(Promise!promise)
  <2> SUFFICES ASSUME Inductive, [Next]_vars
               PROVE  Promise!Next \/ UNCHANGED Promise!promise
    OBVIOUS
  <2> USE DEF Promise!Next, Promise!promise
  <2>1. CASE MutexInit
    BY <2>1 DEF MutexInit, Promise!GiveUp, Inductive, TypeOK, Returned
  <2>2. CASE Create \/ CreateEnds \/ Join
    BY <2>2 DEF Create, CreateEnds, Join
  <2>3. CASE Return
    BY <2>3, ReturnAnswers
  <2>4. ASSUME NEW w \in Workers, Thread(w)
        PROVE  Promise!Next \/ UNCHANGED Promise!promise
    BY <2>4, StoreDelivers DEF Thread, Lock, Unlock, End
  <2>5. CASE UNCHANGED vars
    BY <2>5 DEF vars
  <2> QED
    BY <2>1, <2>2, <2>3, <2>4, <2>5 DEF Next, Caller
<1> QED
  BY <1>1, <1>2, InductiveInvariant, PTL DEF Spec, Promise!Spec

=============================================================================
