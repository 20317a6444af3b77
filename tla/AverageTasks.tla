---------------------------- MODULE AverageTasks ----------------------------
(***************************************************************************)
(* matrixAverage of the average worker: one thread per chunk adds the      *)
(* words of its chunk in a local sum, then adds that to the shared         *)
(* totalSum under its mutex.  A sum is known by which words are in it and  *)
(* how often: partialSum and totalSum are functions from the tasks to the  *)
(* number of times the word of that task has been added.                   *)
(***************************************************************************)
EXTENDS Chunks

CONSTANT MayFail  \* pthread_mutex_init and pthread_create may fail

ASSUME AverageAssumption == MayFail \in BOOLEAN

VARIABLES
  pc,         \* the caller: "init" | "create" | "join" | "return"
  created,    \* createdWorkers
  joined,     \* threads joined so far
  tpc,        \* thread: "none" | "sum" | "locked" | "loaded" | "stored" | "ended"
  next,       \* thread: inputIndex
  partialSum, \* thread: its local sum
  register,   \* thread: totalSum + partialSum, computed and not yet stored
  mutex,      \* the thread that holds sumMutex, or Free
  totalSum,   \* the shared sum
  returned    \* "nothing" | "average" | "zero"

vars == <<pc, created, joined, tpc, next, partialSum, register, mutex, totalSum, returned>>

Free == -1

Sums == [Tasks -> Nat]
NoWords == [i \in Tasks |-> 0]

TypeOK ==
  /\ pc \in {"init", "create", "join", "return"}
  /\ created \in 0 .. workerCount
  /\ joined \in 0 .. workerCount
  /\ tpc \in [Workers -> {"none", "sum", "locked", "loaded", "stored", "ended"}]
  /\ next \in [Workers -> Nat]
  /\ partialSum \in [Workers -> Sums]
  /\ register \in [Workers -> Sums]
  /\ mutex \in Workers \cup {Free}
  /\ totalSum \in Sums
  /\ returned \in {"nothing", "average", "zero"}

Init ==
  /\ pc = "init" /\ created = 0 /\ joined = 0
  /\ tpc = [w \in Workers |-> "none"]
  /\ next = [w \in Workers |-> firstTask(w)]
  /\ partialSum = [w \in Workers |-> NoWords]
  /\ register = [w \in Workers |-> NoWords]
  /\ mutex = Free
  /\ totalSum = NoWords
  /\ returned = "nothing"

-----------------------------------------------------------------------------
(* The caller *)

\* A matrix of no words has the average 0.0 without any thread.
Start ==
  /\ pc = "init"
  /\ \/ Total > 0 /\ pc' = "create" /\ returned' = returned
     \/ Total = 0 /\ pc' = "return" /\ returned' = "zero"
     \/ MayFail /\ pc' = "return" /\ returned' = "zero"
  /\ UNCHANGED <<created, joined, tpc, next, partialSum, register, mutex, totalSum>>

Create ==
  /\ pc = "create" /\ created < workerCount
  /\ tpc' = [tpc EXCEPT ![created] = "sum"]
  /\ created' = created + 1
  /\ UNCHANGED <<pc, joined, next, partialSum, register, mutex, totalSum, returned>>

CreateEnds ==
  /\ pc = "create"
  /\ created = workerCount \/ MayFail
  /\ pc' = "join"
  /\ UNCHANGED <<created, joined, tpc, next, partialSum, register, mutex, totalSum,
                 returned>>

Join ==
  /\ pc = "join" /\ joined < created
  /\ tpc[joined] = "ended"
  /\ joined' = joined + 1
  /\ UNCHANGED <<pc, created, tpc, next, partialSum, register, mutex, totalSum, returned>>

\* The average is totalSum / totalTasks, or 0.0 when a thread is missing.
Return ==
  /\ pc = "join" /\ joined = created
  /\ pc' = "return"
  /\ returned' = IF created = workerCount THEN "average" ELSE "zero"
  /\ UNCHANGED <<created, joined, tpc, next, partialSum, register, mutex, totalSum>>

-----------------------------------------------------------------------------
(* A thread: matrixAverageTask *)

\* partialSum += arr[inputIndex], private to the thread.
AddWord(w) ==
  /\ tpc[w] = "sum" /\ next[w] < lastTask(w)
  /\ partialSum' = [partialSum EXCEPT ![w][next[w]] = partialSum[w][next[w]] + 1]
  /\ next' = [next EXCEPT ![w] = next[w] + 1]
  /\ UNCHANGED <<pc, created, joined, tpc, register, mutex, totalSum, returned>>

\* Mutant: the mutex is not waited for.
LockIgnored(w) ==
  /\ tpc[w] = "sum" /\ next[w] >= lastTask(w)
  /\ mutex' = w
  /\ tpc' = [tpc EXCEPT ![w] = "locked"]
  /\ UNCHANGED <<pc, created, joined, next, partialSum, register, totalSum, returned>>

Lock(w) ==
  /\ tpc[w] = "sum" /\ next[w] >= lastTask(w)
  /\ mutex = Free
  /\ mutex' = w
  /\ tpc' = [tpc EXCEPT ![w] = "locked"]
  /\ UNCHANGED <<pc, created, joined, next, partialSum, register, totalSum, returned>>

\* totalSum += partialSum is a load, an addition and a store.
Load(w) ==
  /\ tpc[w] = "locked"
  /\ register' = [register EXCEPT ![w] = [i \in Tasks |-> totalSum[i] + partialSum[w][i]]]
  /\ tpc' = [tpc EXCEPT ![w] = "loaded"]
  /\ UNCHANGED <<pc, created, joined, next, partialSum, mutex, totalSum, returned>>

Store(w) ==
  /\ tpc[w] = "loaded"
  /\ totalSum' = register[w]
  /\ tpc' = [tpc EXCEPT ![w] = "stored"]
  /\ UNCHANGED <<pc, created, joined, next, partialSum, register, mutex, returned>>

\* Mutant: the mutex is never released.
UnlockForgotten(w) ==
  /\ tpc[w] = "stored"
  /\ tpc' = [tpc EXCEPT ![w] = "ended"]
  /\ UNCHANGED <<pc, created, joined, next, partialSum, register, mutex, totalSum,
                 returned>>

Unlock(w) ==
  /\ tpc[w] = "stored"
  /\ mutex' = Free
  /\ tpc' = [tpc EXCEPT ![w] = "ended"]
  /\ UNCHANGED <<pc, created, joined, next, partialSum, register, totalSum, returned>>

Caller == Start \/ Create \/ CreateEnds \/ Join \/ Return

Thread(w) == AddWord(w) \/ Lock(w) \/ Load(w) \/ Store(w) \/ Unlock(w)

Next == Caller \/ \E w \in Workers : Thread(w)

Spec == Init /\ [][Next]_vars

\* The scheduler runs the caller and every thread; each takes the mutex once.
FairSpec ==
  Spec /\ WF_vars(Caller) /\ \A w \in Workers : WF_vars(Thread(w))

-----------------------------------------------------------------------------

\* The average returned counts every word of the matrix once: no update of
\* totalSum is lost to another thread, no chunk overlaps the next and the last,
\* shorter chunk stops at the end of the matrix.
EveryWordOnce ==
  returned = "average" => \A i \in Tasks : totalSum[i] = 1

\* No thread is left running when the call returns: totalSum, the mutex and the
\* arguments the threads point to are on the caller's stack.
NoThreadLeft ==
  pc = "return" => \A w \in Workers : tpc[w] \in {"none", "ended"}

\* A word once counted in the shared sum is never lost or counted again.
NoWordLost == [][\A i \in Tasks : totalSum[i] \in {0, totalSum'[i]}]_vars

\* Every call returns.
Returns == <>(pc = "return")

-----------------------------------------------------------------------------
(* The inductive invariant behind them *)

\* Threads are created and joined in order; a joined thread has ended; the call
\* returns an average only when every worker got its thread.
Started ==
  /\ pc = "init" => created = 0
  /\ joined <= created
  /\ \A w \in Workers : tpc[w] = "none" <=> w >= created
  /\ \A w \in Workers : w < joined => tpc[w] = "ended"
  /\ pc = "return" => joined = created
  /\ returned = "average" => pc = "return" /\ created = workerCount

\* The mutex is held by the one thread between Lock and Unlock.
Holder == \A w \in Workers : tpc[w] \in {"locked", "loaded", "stored"} <=> mutex = w

\* A thread has added the words of its chunk up to inputIndex, and all of them
\* when it goes for the mutex.
Partial ==
  \A w \in Workers :
    /\ firstTask(w) <= next[w]
    /\ next[w] > firstTask(w) => next[w] <= lastTask(w)
    /\ tpc[w] \in {"locked", "loaded", "stored", "ended"} => next[w] >= lastTask(w)
    /\ \A i \in Tasks :
         partialSum[w][i] = IF firstTask(w) <= i /\ i < next[w] THEN 1 ELSE 0

\* What a thread has computed and not stored is still current.
Current ==
  \A w \in Workers : tpc[w] = "loaded" =>
    register[w] = [i \in Tasks |-> totalSum[i] + partialSum[w][i]]

\* The shared sum holds the chunks of the threads that stored, each once.
Counted ==
  \A w \in Workers : \A i \in Tasks : firstTask(w) <= i /\ i < lastTask(w) =>
    totalSum[i] = IF tpc[w] \in {"stored", "ended"} THEN 1 ELSE 0

Inductive == TypeOK /\ Started /\ Holder /\ Partial /\ Current /\ Counted

=============================================================================
