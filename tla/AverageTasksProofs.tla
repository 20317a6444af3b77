------------------------- MODULE AverageTasksProofs -------------------------
(***************************************************************************)
(* The threads of the average worker count every word of the matrix once,  *)
(* for every matrix, every chunk size and every interleaving; the pool of  *)
(* processes adds the words of every child that sends its average.  The    *)
(* tasks are the cells of a matrix of Rows x Columns here too, in chunks   *)
(* like those of the other operations.                                     *)
(***************************************************************************)
EXTENDS MCAverage, MatrixTasksProofs, FiniteSetTheorems, WellFoundedInduction

\* The invariant holds before the first thread is created.
LEMMA InitInvariant == Init => Inductive
<1> SUFFICES ASSUME Init PROVE Inductive
  OBVIOUS
<1> USE DEF Init
<1>1. TypeOK
  BY WorkerCountPositive, ChunkInTasks DEF TypeOK, Workers, Free, Sums, NoWords
<1>2. Started /\ Holder /\ Current
  BY WorkerCountPositive DEF Started, Holder, Current, Workers, Free
<1>3. Partial /\ Counted
  BY ChunkInTasks, ChunksAssumption DEF Partial, Counted, Tasks, NoWords
<1> QED
  BY <1>1, <1>2, <1>3 DEF Inductive

\* A store adds the words of the thread's chunk, and those only.
LEMMA StoreAddsChunk ==
  ASSUME Inductive, NEW w \in Workers, Store(w), NEW v \in Workers, NEW i \in Tasks,
         firstTask(v) <= i, i < lastTask(v)
  PROVE  totalSum'[i] = IF v = w THEN 1 ELSE totalSum[i]
<1> USE DEF Inductive
<1>1. totalSum'[i] = totalSum[i] + partialSum[w][i]
  BY DEF Store, Current
<1>2. /\ next[w] >= lastTask(w) /\ next[w] \in Nat /\ totalSum[i] \in Nat /\ i \in Nat
      /\ firstTask(w) \in Nat /\ lastTask(w) \in Nat
  BY ChunkInTasks, ChunksAssumption DEF Store, Partial, TypeOK, Sums, Tasks
<1>3. CASE v = w
  BY <1>1, <1>2, <1>3 DEF Store, Partial, Counted
<1>4. CASE v # w
  <2>1. ~ (firstTask(w) <= i /\ i < next[w])
    BY <1>2, <1>4, ChunksDisjoint DEF Partial
  <2>2. partialSum[w][i] = 0
    BY <2>1 DEF Partial
  <2> QED
    BY <1>1, <1>2, <1>4, <2>2
<1> QED
  BY <1>3, <1>4

\* Every step of the caller and of each thread keeps the invariant.
LEMMA NextInvariant == Inductive /\ [Next]_vars => Inductive'
<1> SUFFICES ASSUME Inductive, [Next]_vars PROVE Inductive'
  OBVIOUS
<1> USE DEF Inductive
<1>1. CASE Start
  <2>1. TypeOK' /\ Started' /\ Holder'
    BY <1>1 DEF Start, TypeOK, Started, Holder
  <2>2. Partial' /\ Current' /\ Counted'
    BY <1>1 DEF Start, Partial, Current, Counted
  <2> QED
    BY <2>1, <2>2
<1>2. CASE Create
  <2> USE <1>2 DEF Create
  <2>1. created \in Workers /\ created + 1 \in 0 .. workerCount /\ tpc[created] = "none"
    BY WorkerCountPositive DEF TypeOK, Workers, Started
  <2>2. TypeOK' /\ Holder'
    BY <2>1 DEF TypeOK, Holder
  <2>3. Started'
    BY <2>1 DEF TypeOK, Started, Workers
  <2>4. Partial' /\ Current' /\ Counted'
    BY <2>1 DEF TypeOK, Partial, Current, Counted
  <2> QED
    BY <2>2, <2>3, <2>4
<1>3. CASE CreateEnds
  <2>1. TypeOK' /\ Started' /\ Holder'
    BY <1>3 DEF CreateEnds, TypeOK, Started, Holder
  <2>2. Partial' /\ Current' /\ Counted'
    BY <1>3 DEF CreateEnds, Partial, Current, Counted
  <2> QED
    BY <2>1, <2>2
<1>4. CASE Join
  <2> USE <1>4 DEF Join
  <2>1. joined \in Workers /\ joined + 1 \in 0 .. workerCount
    BY WorkerCountPositive DEF TypeOK, Workers
  <2>2. TypeOK' /\ Started'
    BY <2>1 DEF TypeOK, Started, Workers
  <2>3. Holder' /\ Partial' /\ Current' /\ Counted'
    BY DEF Holder, Partial, Current, Counted
  <2> QED
    BY <2>2, <2>3
<1>5. CASE Return
  <2>1. TypeOK' /\ Started'
    BY <1>5 DEF Return, TypeOK, Started
  <2>2. Holder' /\ Partial' /\ Current' /\ Counted'
    BY <1>5 DEF Return, Holder, Partial, Current, Counted
  <2> QED
    BY <2>1, <2>2
<1>6. ASSUME NEW w \in Workers, AddWord(w)
      PROVE  Inductive'
  <2> USE <1>6 DEF AddWord
  <2>1. /\ next[w] \in Nat /\ next[w] \in Tasks
        /\ firstTask(w) <= next[w] /\ next[w] < lastTask(w)
    BY ChunkInTasks, ChunksAssumption DEF TypeOK, Partial, Tasks
  <2>2. partialSum' = [partialSum EXCEPT ![w] =
                         [partialSum[w] EXCEPT ![next[w]] = partialSum[w][next[w]] + 1]]
    OBVIOUS
  <2>3. TypeOK'
    BY <2>1, <2>2 DEF TypeOK, Sums
  <2>4. Started' /\ Holder' /\ Counted'
    BY DEF Started, Holder, Counted
  <2>5. Current'
    BY <2>2 DEF Current, TypeOK
  <2>6. \A i \in Tasks :
          partialSum'[w][i] = IF i = next[w] THEN partialSum[w][i] + 1 ELSE partialSum[w][i]
    BY <2>1, <2>2 DEF TypeOK, Sums
  <2>7. \A v \in Workers : v # w => partialSum'[v] = partialSum[v] /\ next'[v] = next[v]
    BY <2>2 DEF TypeOK
  <2>8. next'[w] = next[w] + 1 /\ lastTask(w) \in Nat /\ firstTask(w) \in Nat
    BY ChunkInTasks DEF TypeOK
  <2>9. Partial'
    <3>1. ASSUME NEW v \in Workers, v # w
          PROVE  /\ firstTask(v) <= next'[v]
                 /\ next'[v] > firstTask(v) => next'[v] <= lastTask(v)
                 /\ tpc'[v] \in {"locked", "loaded", "stored", "ended"}
                      => next'[v] >= lastTask(v)
                 /\ \A i \in Tasks : partialSum'[v][i] =
                      IF firstTask(v) <= i /\ i < next'[v] THEN 1 ELSE 0
      BY <2>7, <3>1 DEF Partial
    <3>2. \A i \in Tasks : partialSum'[w][i] =
            IF firstTask(w) <= i /\ i < next'[w] THEN 1 ELSE 0
      BY <2>1, <2>6, <2>8 DEF Partial, Tasks
    <3>3. firstTask(w) <= next'[w] /\ next'[w] <= lastTask(w)
      BY <2>1, <2>8
    <3> QED
      BY <3>1, <3>2, <3>3 DEF Partial
  <2> QED
    BY <2>3, <2>4, <2>5, <2>9
<1>7. ASSUME NEW w \in Workers, Lock(w)
      PROVE  Inductive'
  <2> USE <1>7 DEF Lock
  <2>1. TypeOK' /\ Started'
    BY DEF TypeOK, Started
  <2>2. Holder'
    BY DEF TypeOK, Holder, Free, Workers
  <2>3. Partial' /\ Current' /\ Counted'
    BY DEF TypeOK, Partial, Current, Counted
  <2> QED
    BY <2>1, <2>2, <2>3
<1>8. ASSUME NEW w \in Workers, Load(w)
      PROVE  Inductive'
  <2> USE <1>8 DEF Load
  <2>1. [i \in Tasks |-> totalSum[i] + partialSum[w][i]] \in Sums
    BY DEF TypeOK, Sums
  <2>2. TypeOK' /\ Started' /\ Holder'
    BY <2>1 DEF TypeOK, Started, Holder
  <2>3. Partial' /\ Current' /\ Counted'
    BY DEF TypeOK, Partial, Current, Counted
  <2> QED
    BY <2>2, <2>3
<1>9. ASSUME NEW w \in Workers, Store(w)
      PROVE  Inductive'
  <2>1. TypeOK' /\ Started' /\ Holder' /\ Partial'
    BY <1>9 DEF Store, TypeOK, Started, Holder, Partial
  <2>2. Current'
    BY <1>9 DEF Store, TypeOK, Holder, Current
  <2>3. Counted'
    <3>1. \A v \in Workers : tpc'[v] = IF v = w THEN "stored" ELSE tpc[v]
      BY <1>9 DEF Store, TypeOK
    <3> QED
      BY <1>9, <3>1, StoreAddsChunk DEF Counted
  <2> QED
    BY <2>1, <2>2, <2>3
<1>10. ASSUME NEW w \in Workers, Unlock(w)
       PROVE  Inductive'
  <2> USE <1>10 DEF Unlock
  <2>1. TypeOK' /\ Started' /\ Holder'
    BY DEF TypeOK, Started, Holder, Free, Workers
  <2>2. Partial' /\ Current' /\ Counted'
    BY DEF TypeOK, Partial, Current, Counted
  <2> QED
    BY <2>1, <2>2
<1>11. CASE UNCHANGED vars
  BY <1>11 DEF vars, TypeOK, Started, Holder, Partial, Current, Counted
<1> QED
  BY <1>1, <1>2, <1>3, <1>4, <1>5, <1>6, <1>7, <1>8, <1>9, <1>10, <1>11
  DEF Next, Caller, Thread

\* The invariant the theorems below follow from.
LEMMA InductiveInvariant == Spec => []Inductive
<1> QED
  BY InitInvariant, NextInvariant, PTL DEF Spec

-----------------------------------------------------------------------------
(* What it shows *)

\* The pool's variables have their types.
THEOREM TypeCorrect == Spec => []TypeOK
<1> QED
  BY InductiveInvariant, PTL DEF Inductive

\* The average returned counts every word of the matrix exactly once.
THEOREM EveryWordCountedOnce == Spec => []EveryWordOnce
<1>1. ASSUME Inductive, returned = "average", NEW i \in Tasks
      PROVE  totalSum[i] = 1
  <2>1. PICK w \in Workers : firstTask(w) <= i /\ i < lastTask(w)
    BY EveryTaskInAChunk
  <2>2. w < joined
    BY <1>1 DEF Inductive, TypeOK, Started, Workers
  <2>3. tpc[w] = "ended"
    BY <1>1, <2>2 DEF Inductive, Started
  <2> QED
    BY <1>1, <2>1, <2>3 DEF Inductive, Counted
<1>2. Inductive => EveryWordOnce
  BY <1>1 DEF EveryWordOnce
<1> QED
  BY <1>2, InductiveInvariant, PTL

\* matrixAverage never returns with a thread of its own still running.
THEOREM NoThreadOutlivesCall == Spec => []NoThreadLeft
<1>1. Inductive => NoThreadLeft
  BY DEF Inductive, TypeOK, Started, NoThreadLeft, Workers
<1> QED
  BY <1>1, InductiveInvariant, PTL

\* A word counted in totalSum stays counted, once: no store of a thread undoes
\* another's.
THEOREM NoWordIsLost == Spec => NoWordLost
<1>1. ASSUME Inductive, [Next]_vars, NEW i \in Tasks
      PROVE  totalSum[i] \in {0, totalSum'[i]}
  <2>1. PICK v \in Workers : firstTask(v) <= i /\ i < lastTask(v)
    BY EveryTaskInAChunk
  <2>2. ASSUME NEW w \in Workers, Store(w)
        PROVE  totalSum[i] \in {0, totalSum'[i]}
    <3>1. totalSum'[i] = IF v = w THEN 1 ELSE totalSum[i]
      BY <1>1, <2>1, <2>2, StoreAddsChunk
    <3>2. v = w => totalSum[i] = 0
      BY <1>1, <2>1, <2>2 DEF Inductive, Counted, Store
    <3> QED
      BY <3>1, <3>2
  <2>3. CASE ~ \E w \in Workers : Store(w)
    BY <1>1, <2>3 DEF Next, Caller, Thread, Start, Create, CreateEnds, Join, Return,
                      AddWord, Lock, Load, Unlock, vars
  <2> QED
    BY <2>2, <2>3
<1>2. Inductive /\ [Next]_vars => [\A i \in Tasks : totalSum[i] \in {0, totalSum'[i]}]_vars
  BY <1>1
<1> QED
  BY <1>2, InductiveInvariant, PTL DEF Spec, NoWordLost

-----------------------------------------------------------------------------
(* The pool of processes *)

last == workerCount - 1

\* Its chunks are those of the threads.
LEMMA SameChunks ==
  /\ Processes!workerCount = workerCount /\ Processes!Workers = Workers
  /\ Processes!last = last /\ last \in Workers /\ 0 \in Workers
  /\ \A w \in Workers : w \in Nat /\ w <= last
  /\ \A w \in Workers : w # last => w + 1 \in Workers
  /\ Processes!Size(last) = lastTask(last) - firstTask(last)
<1>1. /\ Processes!workerCount = workerCount /\ Processes!Workers = Workers
      /\ Processes!last = last
  BY DEF Processes!workerCount, workerCount, Processes!Workers, Workers, Processes!last, last
<1>2. Processes!Size(last) = lastTask(last) - firstTask(last)
  BY DEF Processes!Size, Processes!lastTask, Processes!firstTask, lastTask, firstTask
<1> QED
  BY <1>1, <1>2, WorkerCountPositive DEF Workers, last

\* The last chunk is the rest of the tasks.
LEMMA LastIsRest == Total > 0 => last * TasksPerWorker + Processes!Size(last) = Total
<1> SUFFICES ASSUME Total > 0 PROVE last * TasksPerWorker + Processes!Size(last) = Total
  OBVIOUS
<1> USE ChunksAssumption
<1>1. Total - 1 \in Tasks
  BY DEF Tasks
<1>2. PICK w \in Workers : firstTask(w) <= Total - 1 /\ Total - 1 < lastTask(w)
  BY <1>1, EveryTaskInAChunk
<1>3. lastTask(w) = Total /\ w \in Nat /\ last \in Nat /\ w <= last
  BY <1>2, ChunkInTasks, SameChunks
<1>4. w = last
  <2>1. last \in Workers /\ lastTask(last) \in Nat /\ firstTask(last) = last * TasksPerWorker
    BY SameChunks, ChunkInTasks DEF firstTask
  <2>2. firstTask(last) < Total
    <3> DEFINE n == Total + TasksPerWorker - 1
               q == n \div TasksPerWorker
               r == n % TasksPerWorker
    <3>1. n \in Nat
      OBVIOUS
    <3>2. q \in Nat /\ r \in 0 .. (TasksPerWorker - 1) /\ n = TasksPerWorker * q + r
      <4> HIDE DEF n
      <4> QED
        BY <3>1, Division
    <3>3. last = q - 1
      BY DEF last, workerCount
    <3>4. last * TasksPerWorker = TasksPerWorker * q - TasksPerWorker
      <4> HIDE DEF q
      <4> QED
        BY <3>2, <3>3
    <3> HIDE DEF q, r
    <3> QED
      BY <2>1, <3>2, <3>4 DEF n
  <2>3. CASE w = last
    BY <2>3
  <2>4. CASE w < last
    <3>1. w + 1 <= last /\ (w + 1) * TasksPerWorker <= last * TasksPerWorker
      BY <1>3, <2>4, Monotone
    <3>2. (w + 1) * TasksPerWorker = w * TasksPerWorker + TasksPerWorker
      BY <1>3
    <3>3. lastTask(w) <= w * TasksPerWorker + TasksPerWorker
      BY <1>3 DEF firstTask, lastTask
    <3> QED
      BY <1>3, <2>1, <2>2, <3>1, <3>2, <3>3
  <2> QED
    BY <1>3, <2>3, <2>4
<1> QED
  BY <1>3, <1>4, SameChunks DEF firstTask

-----------------------------------------------------------------------------

ProcessTypes ==
  /\ parent \in {"fork", "read", "count", "return"} /\ at \in Workers
  /\ child \in [Workers -> {"none", "running", "counted", "written", "dead"}]
  /\ average \in [Workers -> {"empty", "average", "taken"}]
  /\ added \subseteq Workers

\* A worker whose words are in the sum, or never will be.
Settled(w) == w \in added \/ (Processes!Gone(w) /\ average[w] = "empty")

\* What was sent is there or was added; the last child sent its number before.
Sent ==
  /\ \A w \in Workers : average[w] = "taken" => w \in added
  /\ \A w \in Workers : w \in added => average[w] = "taken"
  /\ \A w \in Workers : average[w] # "empty" => child[w] \in {"written", "dead"}
  /\ child[last] = "counted" \/ average[last] # "empty" => lastPipe # << >>
  /\ lastPipe # << >> => lastPipe = <<divisor>> /\ divisor \in Processes!LastCount

\* The parent forks the workers in order, reads them in order, and divides.
InOrder ==
  /\ parent = "fork" => \A w \in Workers : w >= at => child[w] = "none"
  /\ parent = "read" => \A w \in Workers : w < at => Settled(w)
  /\ parent = "count" \/ answered = "average" => \A w \in Workers : Settled(w)
  /\ answered = "average" =>
       /\ parent = "return"
       /\ last \in added => words = last * TasksPerWorker + divisor

ProcessInductive == ProcessTypes /\ Sent /\ InOrder

LEMMA ParentKeepsOrder ==
  ASSUME ProcessInductive, Processes!Parent
  PROVE  ProcessInductive'
<1> USE SameChunks
<1>1. /\ parent \in {"fork", "read", "count", "return"} /\ at \in Workers
      /\ child \in [Workers -> {"none", "running", "counted", "written", "dead"}]
      /\ average \in [Workers -> {"empty", "average", "taken"}]
      /\ added \subseteq Workers
  BY DEF ProcessInductive, ProcessTypes
<1>2. Sent /\ InOrder
  BY DEF ProcessInductive
<1>3. CASE Processes!Fork
  <2>1. /\ parent = "fork"
        /\ child' = [child EXCEPT ![at] = "running"] \/ child' = child
        /\ \/ at < last /\ at' = at + 1 /\ parent' = "fork"
           \/ at = last /\ at' = 0 /\ parent' = "read"
        /\ UNCHANGED <<average, divisor, lastPipe, added, words, answered>>
    BY <1>1, <1>3 DEF Processes!Fork, Processes!NextFork
  <2>2. child[at] = "none" /\ \A w \in Workers : w > at => child[w] = "none"
    BY <1>1, <1>2, <2>1 DEF InOrder
  <2>3. /\ child' \in [Workers -> {"none", "running", "counted", "written", "dead"}]
        /\ \A w \in Workers : w # at => child'[w] = child[w]
        /\ child'[at] \in {"none", "running"}
    BY <1>1, <2>1, <2>2
  <2>4. ProcessTypes'
    BY <1>1, <2>1, <2>3 DEF ProcessTypes
  <2>5. Processes!LastCount' = Processes!LastCount
    BY DEF Processes!LastCount, Processes!Size
  <2>6. Sent'
    BY <1>2, <2>1, <2>2, <2>3, <2>5 DEF Sent
  <2>7. InOrder'
    <3>1. CASE at < last /\ at' = at + 1 /\ parent' = "fork"
      <4>1. \A w \in Workers : w >= at' => w > at
        BY <1>1, <3>1
      <4>2. \A w \in Workers : w >= at' => child'[w] = "none"
        BY <1>1, <2>2, <2>3, <4>1
      <4> QED
        BY <1>2, <2>1, <3>1, <4>2 DEF InOrder
    <3>2. CASE at = last /\ at' = 0 /\ parent' = "read"
      <4>1. \A w \in Workers : ~ (w < at')
        BY <3>2
      <4> QED
        BY <1>2, <2>1, <3>2, <4>1 DEF InOrder
    <3> QED
      BY <2>1, <3>1, <3>2
  <2> QED
    BY <2>4, <2>6, <2>7 DEF ProcessInductive
<1>4. CASE Processes!PipeFails
  <2>1. /\ parent = "fork" /\ parent' = "return" /\ answered' = "zero"
        /\ UNCHANGED <<at, child, average, divisor, lastPipe, added, words>>
    BY <1>4 DEF Processes!PipeFails
  <2>2. ProcessTypes'
    BY <1>1, <2>1 DEF ProcessTypes
  <2>3. Sent'
    BY <1>2, <2>1 DEF Sent, Processes!LastCount, Processes!Size
  <2>4. InOrder'
    BY <2>1 DEF InOrder
  <2> QED
    BY <2>2, <2>3, <2>4 DEF ProcessInductive
<1>5. CASE Processes!Read
  <2>1. /\ parent = "read"
        /\ average[at] = "average" \/ Processes!Gone(at)
        /\ IF average[at] = "average"
             THEN added' = added \cup {at} /\ average' = [average EXCEPT ![at] = "taken"]
             ELSE added' = added /\ average' = average
        /\ IF at = last THEN parent' = "count" /\ at' = at ELSE parent' = "read" /\ at' = at + 1
        /\ UNCHANGED <<child, divisor, lastPipe, words, answered>>
    BY <1>5 DEF Processes!Read
  <2>2. /\ average' \in [Workers -> {"empty", "average", "taken"}] /\ added' \subseteq Workers
        /\ \A w \in Workers : w # at => average'[w] = average[w] /\ (w \in added' <=> w \in added)
        /\ average[at] = "average" => average'[at] = "taken" /\ at \in added'
        /\ average[at] # "average" => average'[at] = average[at] /\ (at \in added' <=> at \in added)
    BY <1>1, <2>1
  <2>3. at' \in Workers
    BY <1>1, <2>1
  <2>4. ProcessTypes'
    BY <1>1, <2>1, <2>2, <2>3 DEF ProcessTypes
  <2>5. Processes!LastCount' = Processes!LastCount
    BY DEF Processes!LastCount, Processes!Size
  <2>6. \A w \in Workers : average'[w] # "empty" <=> average[w] # "empty"
    BY <1>1, <2>2
  <2>7. Sent'
    BY <1>1, <1>2, <2>1, <2>2, <2>5, <2>6 DEF Sent
  <2>8. \A w \in Workers : Settled(w) => Settled(w)'
    BY <2>1, <2>2, <2>6 DEF Settled, Processes!Gone
  <2>9. ASSUME NEW w \in Workers, w = at PROVE Settled(w)'
    <3>1. CASE average[at] = "average"
      BY <2>2, <2>9, <3>1 DEF Settled
    <3>2. CASE average[at] # "average"
      BY <1>1, <1>2, <2>1, <2>2, <2>9, <3>2 DEF Settled, Sent, Processes!Gone
    <3> QED
      BY <3>1, <3>2
  <2>10. \A w \in Workers : w <= at => Settled(w)'
    BY <1>1, <1>2, <2>1, <2>8, <2>9 DEF InOrder
  <2>11. answered' # "average"
    BY <1>2, <2>1 DEF InOrder
  <2>12. InOrder'
    BY <1>1, <2>1, <2>10, <2>11 DEF InOrder
  <2> QED
    BY <2>4, <2>7, <2>12 DEF ProcessInductive
<1>6. CASE Processes!Count
  <2>1. /\ parent = "count" /\ parent' = "return" /\ answered' = "average"
        /\ lastPipe # << >> => words' = last * TasksPerWorker + lastPipe[1]
        /\ UNCHANGED <<at, child, average, divisor, lastPipe, added>>
    BY <1>6 DEF Processes!Count
  <2>2. ProcessTypes'
    BY <1>1, <2>1 DEF ProcessTypes
  <2>3. Sent'
    BY <1>2, <2>1 DEF Sent, Processes!LastCount, Processes!Size
  <2>4. \A w \in Workers : Settled(w)'
    BY <1>2, <2>1 DEF InOrder, Settled, Processes!Gone
  <2>5. last \in added => words' = last * TasksPerWorker + divisor
    <3>1. SUFFICES ASSUME last \in added PROVE words' = last * TasksPerWorker + divisor
      OBVIOUS
    <3>2. average[last] = "taken" /\ lastPipe # << >> /\ lastPipe = <<divisor>>
      BY <1>2, <3>1 DEF Sent
    <3> QED
      BY <2>1, <3>2
  <2>6. InOrder'
    BY <2>1, <2>4, <2>5 DEF InOrder
  <2> QED
    BY <2>2, <2>3, <2>6 DEF ProcessInductive
<1> QED
  BY <1>3, <1>4, <1>5, <1>6 DEF Processes!Parent

\* A child that goes on is not one the parent has settled.
LEMMA ChildKeepsOrder ==
  ASSUME ProcessInductive, NEW c \in Workers, Processes!Child(c) \/ Processes!Die(c)
  PROVE  ProcessInductive'
<1> USE SameChunks
<1>1. /\ parent \in {"fork", "read", "count", "return"} /\ at \in Workers
      /\ child \in [Workers -> {"none", "running", "counted", "written", "dead"}]
      /\ average \in [Workers -> {"empty", "average", "taken"}]
      /\ added \subseteq Workers
  BY DEF ProcessInductive, ProcessTypes
<1>2. Sent /\ InOrder
  BY DEF ProcessInductive
<1>3. PICK later \in {"counted", "written", "dead"} :
        /\ child[c] \in {"running", "counted", "written"}
        /\ child' = [child EXCEPT ![c] = later]
        /\ \/ /\ c = last /\ child[c] = "running" /\ later = "counted"
              /\ divisor' \in Processes!LastCount /\ lastPipe' = <<divisor'>>
              /\ average' = average
           \/ /\ child[c] = IF c = last THEN "counted" ELSE "running"
              /\ later = "written" /\ average' = [average EXCEPT ![c] = "average"]
              /\ UNCHANGED <<divisor, lastPipe>>
           \/ later = "dead" /\ UNCHANGED <<average, divisor, lastPipe>>
        /\ UNCHANGED <<parent, at, added, words, answered>>
  BY DEF Processes!Child, Processes!WriteCount, Processes!WriteAverage, Processes!Exit,
         Processes!Die
<1>4. /\ child' \in [Workers -> {"none", "running", "counted", "written", "dead"}]
      /\ child'[c] = later /\ \A w \in Workers : w # c => child'[w] = child[w]
  BY <1>1, <1>3
<1>5. /\ average' \in [Workers -> {"empty", "average", "taken"}]
      /\ \A w \in Workers : w # c => average'[w] = average[w]
      /\ \/ average'[c] = average[c]
         \/ average'[c] = "average" /\ average[c] = "empty" /\ later = "written"
  <2>1. child[c] \in {"running", "counted"} => average[c] = "empty"
    BY <1>2 DEF Sent
  <2> QED
    BY <1>1, <1>3, <2>1
<1>6. ProcessTypes'
  BY <1>1, <1>3, <1>4, <1>5 DEF ProcessTypes
<1>7. Processes!LastCount' = Processes!LastCount
  BY DEF Processes!LastCount, Processes!Size
<1>8. c \notin added \/ child[c] = "written"
  BY <1>2, <1>3 DEF Sent
<1>9. Sent'
  <2>1. \A w \in Workers : average'[w] = "taken" <=> average[w] = "taken"
    BY <1>5
  <2>2. \A w \in Workers : average'[w] # "empty" => child'[w] \in {"written", "dead"}
    BY <1>2, <1>3, <1>4, <1>5 DEF Sent
  <2>3. lastPipe' # << >> => lastPipe' = <<divisor'>> /\ divisor' \in Processes!LastCount
    BY <1>2, <1>3 DEF Sent
  <2>4. child'[last] = "counted" \/ average'[last] # "empty" => lastPipe' # << >>
    <3>1. CASE c # last
      BY <1>2, <1>3, <1>4, <1>5, <3>1 DEF Sent
    <3>2. CASE c = last
      BY <1>2, <1>3, <1>4, <1>5, <3>2 DEF Sent
    <3> QED
      BY <3>1, <3>2
  <2> QED
    BY <1>2, <1>3, <1>7, <2>1, <2>2, <2>3, <2>4 DEF Sent
<1>10. \A w \in Workers : Settled(w) => Settled(w)'
  <2>1. ~ Processes!Gone(c)
    BY <1>3 DEF Processes!Gone
  <2>2. \A w \in Workers : w # c /\ Processes!Gone(w) => Processes!Gone(w)'
    BY <1>4 DEF Processes!Gone
  <2> QED
    BY <1>3, <1>5, <2>1, <2>2 DEF Settled
<1>11. InOrder'
  <2>1. parent = "fork" => \A w \in Workers : w >= at => child'[w] = "none"
    BY <1>2, <1>3, <1>4 DEF InOrder
  <2>2. answered = "average" /\ last \in added => divisor' = divisor
    BY <1>2, <1>3, <1>8
  <2> QED
    BY <1>2, <1>3, <1>10, <2>1, <2>2 DEF InOrder
<1> QED
  BY <1>6, <1>9, <1>11 DEF ProcessInductive

LEMMA ProcessInvariant == Processes!Spec => []ProcessInductive
<1>1. Processes!Init => ProcessInductive
  BY SameChunks DEF Processes!Init, ProcessInductive, ProcessTypes, Sent, InOrder
<1>2. ProcessInductive /\ [Processes!Next]_(Processes!vars) => ProcessInductive'
  <2>1. ProcessInductive /\ UNCHANGED Processes!vars => ProcessInductive'
    BY DEF Processes!vars, ProcessInductive, ProcessTypes, Sent, InOrder, Settled,
           Processes!Gone, Processes!LastCount, Processes!Size
  <2> QED
    BY <2>1, ParentKeepsOrder, ChildKeepsOrder, SameChunks DEF Processes!Next
<1> QED
  BY <1>1, <1>2, PTL DEF Processes!Spec

\* The pool that is run as one of several is the pool itself.
LEMMA ProcessesAlone == MCSpec => Processes!Spec
<1>1. MCInit => Processes!Init
  BY Zenon DEF MCInit
<1>2. [MCNext]_<<program, vars, processVars, userVars>> => [Processes!Next]_(Processes!vars)
  <2>1. MCNext => UNCHANGED processVars \/ Processes!Next
    BY Zenon DEF MCNext
  <2>2. UNCHANGED <<program, vars, processVars, userVars>> => UNCHANGED processVars
    BY Zenon
  <2>3. UNCHANGED processVars => UNCHANGED Processes!vars
    BY DEF processVars, Processes!vars
  <2> QED
    BY <2>1, <2>2, <2>3
<1> QED
  BY <1>1, <1>2, PTL DEF MCSpec, Processes!Spec

\* For any matrix and whatever fails, the words of every child that sends its
\* average are in the sum; and a sum with those of a last chunk that is not full
\* is divided by a count that is wrong by just what the chunk has more, or less,
\* than half (matrixAverage of process_based_parallelism_taskLevel_IPC.c and of
\* avgTaskLevelIPC_testing.c).
THEOREM AveragesAddUp == MCSpec => []AverageAddsUp
<1>1. ASSUME ProcessInductive, answered = "average"
      PROVE  \A w \in Workers : w \in added \/ (Processes!Gone(w) /\ average[w] = "empty")
  BY <1>1 DEF ProcessInductive, InOrder, Settled
<1>2. ASSUME ProcessInductive, answered = "average", last \in added,
             Processes!Size(last) \in 1 .. (TasksPerWorker - 1)
      PROVE  /\ words = Total + TasksPerWorker - 2 * Processes!Size(last)
             /\ divisor = TasksPerWorker - Processes!Size(last)
  <2> DEFINE n == Processes!Size(last)
  <2>1. average[last] = "taken"
    BY <1>2, SameChunks DEF ProcessInductive, Sent
  <2>2. divisor \in Processes!LastCount
    BY <1>2, <2>1 DEF ProcessInductive, Sent
  <2>3. n \in Nat /\ n > 0 /\ TasksPerWorker \in Nat /\ Total \in Nat
    BY <1>2, ChunksAssumption
  <2>4. divisor = TasksPerWorker - n
    BY <1>2, <2>2, SameChunks DEF Processes!LastCount
  <2>5. Total > 0
    <3>1. firstTask(last) \in Nat /\ lastTask(last) <= Total /\ lastTask(last) \in Nat
      BY SameChunks, ChunkInTasks
    <3> QED
      BY <2>3, <3>1, SameChunks, ChunksAssumption
  <2>6. words = last * TasksPerWorker + divisor
    BY <1>2 DEF ProcessInductive, InOrder
  <2>7. last * TasksPerWorker + n = Total
    BY <2>5, SameChunks, LastIsRest
  <2>8. last * TasksPerWorker \in Nat
    BY <2>3, SameChunks, ChunksAssumption
  <2> HIDE DEF n
  <2>9. words = Total + TasksPerWorker - 2 * n
    BY <2>3, <2>4, <2>6, <2>7, <2>8
  <2> QED
    BY <2>4, <2>9 DEF n
<1>3. ProcessInductive => AverageAddsUp
  BY <1>1, <1>2, SameChunks DEF AverageAddsUp, Processes!AverageAddsUp
<1> QED
  BY <1>3, ProcessInvariant, ProcessesAlone, PTL

-----------------------------------------------------------------------------
(* The programs with a user's dimensions: what they touch *)

\* Of the three numbers no two are negative.
OneNegative ==
  \/ User!rowsA >= 0 /\ User!columnsA >= 0
  \/ User!rowsA >= 0 /\ User!columnsB >= 0
  \/ User!columnsA >= 0 /\ User!columnsB >= 0

\* A cell of a matrix of m x n is in its block.
LEMMA CellInBlock ==
  ASSUME NEW m \in Int, NEW n \in Int, NEW i \in 0 .. (m - 1), NEW j \in 0 .. (n - 1)
  PROVE  i * n + j \in 0 .. (m * n - 1)
<1>1. i \in Nat /\ j \in Nat /\ n \in Nat /\ i + 1 <= m /\ j < n
  OBVIOUS
<1>2. (i + 1) * n <= m * n
  BY <1>1, Monotone
<1>3. (i + 1) * n = i * n + n /\ i * n \in Nat /\ m * n \in Int
  BY <1>1
<1> QED
  BY <1>1, <1>2, <1>3

\* A task of a matrix that has no two negative dimensions has a row and a column
\* in it.
LEMMA TaskHasCell ==
  ASSUME NEW m \in Int, NEW n \in Int, m >= 0 \/ n >= 0, NEW t \in 0 .. (m * n - 1)
  PROVE  /\ User!Row(t, n) \in 0 .. (m - 1) /\ User!Column(t, n) \in 0 .. (n - 1)
         /\ t = User!Row(t, n) * n + User!Column(t, n)
<1>1. m > 0 /\ n > 0
  <2>1. m * n > 0
    OBVIOUS
  <2>2. CASE m >= 0
    BY <2>1, <2>2
  <2>3. CASE n >= 0
    BY <2>1, <2>3
  <2> QED
    BY <2>2, <2>3
<1>2. t \in Nat /\ n \in Nat \ {0} /\ m \in Nat /\ t < n * m
  BY <1>1
<1>3. /\ t \div n \in Nat /\ t % n \in 0 .. (n - 1) /\ t \div n < m
      /\ t = n * (t \div n) + (t % n)
  BY <1>2, Division, QuotientBelow
<1>4. User!Row(t, n) = t \div n
  BY <1>2 DEF User!Row, User!Quotient, User!Magnitude
<1>5. User!Column(t, n) = t % n
  <2> DEFINE q == t \div n
  <2>1. User!Column(t, n) = t - n * q
    BY <1>4 DEF User!Column, User!Remainder, User!Row
  <2> HIDE DEF q
  <2>2. n * q \in Int
    BY <1>2, <1>3 DEF q
  <2> QED
    BY <1>2, <1>3, <2>1, <2>2 DEF q
<1> QED
  BY <1>2, <1>3, <1>4, <1>5

\* The loops touch what is in the matrices, whatever their bounds are; the tasks
\* do unless two numbers are negative.
LEMMA NothingOutside ==
  ASSUME arguments \in User!Arguments \X User!Arguments \X User!Arguments, OneNegative,
         NEW p \in User!Programs, NEW operation \in User!Operations
  PROVE  User!Outside(p, operation) = {}
<1> DEFINE r == User!rowsA
           c == User!columnsA
           d == User!columnsB
           Inside(a) == a.index \in User!BlockOf[a.block]
<1>1. r \in Int /\ c \in Int /\ d \in Int
  BY UserAssumption DEF User!Arguments, User!rowsA, User!columnsA, User!columnsB
<1>2. User!rowsB = c
  BY DEF User!rowsB
<1>3. /\ User!BlockOf["A"] = 0 .. (r * c - 1) /\ User!BlockOf["B"] = 0 .. (c * d - 1)
      /\ User!BlockOf["product"] = 0 .. (r * d - 1) /\ User!BlockOf["transposed"] = 0 .. (c * r - 1)
  BY <1>1, <1>2 DEF User!BlockOf, User!Block, User!Loop
<1>4. ASSUME NEW i \in 0 .. (r - 1), NEW j \in 0 .. (d - 1)
      PROVE  /\ i * d + j \in User!BlockOf["product"]
             /\ \A k \in 0 .. (c - 1) : i * c + k \in User!BlockOf["A"] /\ k * d + j \in User!BlockOf["B"]
  BY <1>1, <1>3, CellInBlock
<1>5. ASSUME NEW i \in 0 .. (c - 1), NEW j \in 0 .. (r - 1)
      PROVE  j * c + i \in User!BlockOf["A"] /\ i * r + j \in User!BlockOf["transposed"]
  BY <1>1, <1>3, CellInBlock
<1>6. ASSUME NEW t \in 0 .. (r * d - 1)
      PROVE  /\ t \in User!BlockOf["product"]
             /\ \A k \in 0 .. (c - 1) : /\ User!Row(t, d) * c + k \in User!BlockOf["A"]
                                        /\ k * d + User!Column(t, d) \in User!BlockOf["B"]
  <2>1. User!Row(t, d) \in 0 .. (r - 1) /\ User!Column(t, d) \in 0 .. (d - 1)
    BY <1>1, TaskHasCell DEF OneNegative
  <2> QED
    BY <1>3, <1>4, <2>1
<1>7. ASSUME NEW t \in 0 .. (r * c - 1)
      PROVE  t \in User!BlockOf["A"] /\ User!OutputIndex(t) \in User!BlockOf["transposed"]
  <2>1. User!Row(t, c) \in 0 .. (r - 1) /\ User!Column(t, c) \in 0 .. (c - 1)
    BY <1>1, TaskHasCell DEF OneNegative
  <2> QED
    BY <1>3, <1>5, <2>1 DEF User!OutputIndex
<1>8. ASSUME NEW i \in 0 .. (r - 1), NEW j \in 0 .. (c - 1)
      PROVE  i * c + j \in User!BlockOf["A"]
  BY <1>5
<1>9. \A block, i : User!Access(block, i).block = block /\ User!Access(block, i).index = i
  BY DEF User!Access
<1>10. \A a \in User!MultiplicationLoops : Inside(a)
  BY <1>2, <1>4, <1>9 DEF User!MultiplicationLoops, User!Loop
<1>11. \A a \in User!MultiplicationTasks : Inside(a)
  BY <1>6, <1>9 DEF User!MultiplicationTasks, User!Loop
<1>12. \A a \in User!TranspositionLoops : Inside(a)
  BY <1>2, <1>5, <1>9 DEF User!TranspositionLoops, User!Loop
<1>13. \A a \in User!TranspositionTasks : Inside(a)
  BY <1>7, <1>9 DEF User!TranspositionTasks, User!Loop
<1>14. \A a \in User!Touched(p, operation) : Inside(a)
  <2>1. CASE operation = "multiplication"
    BY <1>10, <1>11, <2>1 DEF User!Touched
  <2>2. CASE operation = "transposition"
    BY <1>12, <1>13, <2>2 DEF User!Touched
  <2>3. CASE operation = "average"
    <3>1. CASE p = "sequential"
      BY <1>8, <1>9, <2>3, <3>1 DEF User!Touched, User!Loop
    <3>2. CASE p # "sequential"
      BY <1>7, <1>9, <2>3, <3>2 DEF User!Touched, User!Loop
    <3> QED
      BY <3>1, <3>2
  <2> QED
    BY <2>1, <2>2, <2>3 DEF User!Operations
<1> QED
  BY <1>14 DEF User!Outside
-----------------------------------------------------------------------------
(* Sums over sets of any size *)

\* A set of natural numbers has a least element.
LEMMA Least ==
  ASSUME NEW N \in SUBSET Nat, N # {}
  PROVE  \E n \in N : \A m \in N : n <= m
<1>1. IsWellFoundedOn(OpToRel(<, Nat), Nat)
  BY NatLessThanWellFounded
<1>2. PICK n \in N : \A m \in N : ~ (<<m, n>> \in OpToRel(<, Nat))
  BY <1>1, WFMin
<1>3. ASSUME NEW m \in N PROVE ~ (m < n)
  <2>1. m \in Nat /\ n \in Nat
    OBVIOUS
  <2>2. ~ (<<m, n>> \in OpToRel(<, Nat))
    BY <1>2
  <2> QED
    BY <2>1, <2>2 DEF OpToRel
<1> QED
  BY <1>3

\* One step of a sum over the set s, of words w, when f has those of smaller sets.
Chosen(s) == CHOOSE x \in s : TRUE
AddUp(w, f, s) == IF s = {} THEN 0 ELSE w[Chosen(s)] + f[s \ {Chosen(s)}]

\* f[s] is the sum of the words of s, for every part s of S.
AddsUp(S, w, f) == f = [s \in SUBSET S |-> AddUp(w, f, s)]

LEMMA ChosenIn ==
  ASSUME NEW S, IsFiniteSet(S), NEW s \in SUBSET S, s # {}
  PROVE  /\ Chosen(s) \in s /\ s \ {Chosen(s)} \in SUBSET S
         /\ Cardinality(s \ {Chosen(s)}) \in Nat /\ Cardinality(s) \in Nat
         /\ Cardinality(s \ {Chosen(s)}) = Cardinality(s) - 1
<1>1. Chosen(s) \in s
  BY DEF Chosen
<1>2. IsFiniteSet(s)
  BY FS_Subset
<1> QED
  BY <1>1, <1>2, FS_RemoveElement, FS_CardinalityType

\* There is a function that adds the words up, subset by subset.
LEMMA SumExists ==
  ASSUME NEW S, IsFiniteSet(S), NEW w
  PROVE  \E f : AddsUp(S, w, f)
<1> DEFINE D(n) == {s \in SUBSET S : Cardinality(s) <= n}
           Adds(n) == \E f : f = [s \in D(n) |-> AddUp(w, f, s)]
           Bad == {n \in Nat : ~ Adds(n)}
<1>1. Adds(0)
  <2> DEFINE f == [s \in D(0) |-> 0]
  <2>1. \A s \in D(0) : s = {}
    BY FS_Subset, FS_EmptySet, FS_CardinalityType
  <2>2. \A s \in D(0) : AddUp(w, f, s) = 0
    BY <2>1 DEF AddUp
  <2>3. f = [s \in D(0) |-> AddUp(w, f, s)]
    BY <2>2
  <2> QED
    BY <2>3
<1>2. ASSUME NEW n \in Nat, Adds(n) PROVE Adds(n + 1)
  <2>1. PICK f : f = [s \in D(n) |-> AddUp(w, f, s)]
    BY <1>2
  <2> DEFINE g == [s \in D(n + 1) |-> IF s \in D(n) THEN f[s] ELSE AddUp(w, f, s)]
  <2>2. \A s \in D(n + 1) : s # {} => s \ {Chosen(s)} \in D(n) /\ s \ {Chosen(s)} \in D(n + 1)
    BY ChosenIn
  <2>3. \A s \in D(n + 1) : s # {} => g[s \ {Chosen(s)}] = f[s \ {Chosen(s)}]
    BY <2>2
  <2>4. ASSUME NEW s \in D(n + 1) PROVE AddUp(w, g, s) = AddUp(w, f, s)
    <3> HIDE DEF D, g
    <3> QED
      BY <2>3 DEF AddUp
  <2>5. \A s \in D(n + 1) : g[s] = AddUp(w, f, s)
    BY <2>1
  <2>6. g = [s \in D(n + 1) |-> AddUp(w, g, s)]
    BY <2>4, <2>5
  <2> HIDE DEF g
  <2> QED
    BY <2>6
<1>3. Bad = {}
  <2> SUFFICES ASSUME Bad # {} PROVE FALSE
    OBVIOUS
  <2>1. PICK n \in Bad : \A m \in Bad : n <= m
    BY Least
  <2> HIDE DEF Adds
  <2>2. n \in Nat /\ ~ Adds(n) /\ n # 0
    BY <1>1
  <2>3. n - 1 \in Nat /\ n - 1 \notin Bad
    BY <2>1, <2>2
  <2>4. Adds(n - 1)
    BY <2>3
  <2>5. Adds((n - 1) + 1)
    BY <1>2, <2>3, <2>4
  <2>6. (n - 1) + 1 = n
    BY <2>2
  <2> QED
    BY <2>2, <2>5, <2>6
<1>4. Cardinality(S) \in Nat /\ \A s \in SUBSET S : Cardinality(s) \in Nat /\ Cardinality(s) <= Cardinality(S)
  BY FS_CardinalityType, FS_Subset
<1>5. D(Cardinality(S)) = SUBSET S
  BY <1>4
<1>6. Adds(Cardinality(S))
  BY <1>3, <1>4
<1> QED
  BY <1>5, <1>6 DEF AddsUp

\* A sum of natural numbers is one.
LEMMA SumsAreNatural ==
  ASSUME NEW S, IsFiniteSet(S), NEW w \in [S -> Nat],
         NEW f, AddsUp(S, w, f)
  PROVE  \A s \in SUBSET S : f[s] \in Nat
<1> DEFINE Bad == {s \in SUBSET S : f[s] \notin Nat}
           Sizes == {Cardinality(s) : s \in Bad}
<1> SUFFICES ASSUME Bad # {} PROVE FALSE
  OBVIOUS
<1>1. Sizes \in SUBSET Nat /\ Sizes # {}
  <2>1. \A s \in Bad : Cardinality(s) \in Nat
    BY FS_Subset, FS_CardinalityType
  <2> HIDE DEF Bad
  <2>2. \A n \in Sizes : n \in Nat
    BY <2>1
  <2>3. \E s : s \in Bad
    OBVIOUS
  <2>4. PICK s : s \in Bad
    BY <2>3
  <2>5. Cardinality(s) \in Sizes
    BY <2>4
  <2> QED
    BY <2>2, <2>5
<1>2. PICK n \in Sizes : \A m \in Sizes : n <= m
  BY <1>1, Least
<1>3. PICK s \in Bad : Cardinality(s) = n
  BY <1>2
<1>9. \A t \in Bad : Cardinality(s) <= Cardinality(t)
  BY <1>2, <1>3
<1>4. f[s] = AddUp(w, f, s)
  BY DEF AddsUp
<1>5. s # {}
  BY <1>4 DEF AddUp
<1>6. f[s \ {Chosen(s)}] \in Nat
  <2> DEFINE t == s \ {Chosen(s)}
  <2>1. t \in SUBSET S /\ Cardinality(t) \in Nat /\ Cardinality(s) \in Nat /\ Cardinality(t) = Cardinality(s) - 1
    BY <1>5, ChosenIn
  <2>2. ~ (Cardinality(s) <= Cardinality(t))
    BY <2>1
  <2> HIDE DEF Bad, t
  <2>3. t \notin Bad
    BY <2>2, <1>9
  <2> QED
    BY <2>1, <2>3 DEF Bad, t
<1>7. w[Chosen(s)] \in Nat
  BY <1>5, ChosenIn
<1> QED
  BY <1>4, <1>5, <1>6, <1>7 DEF AddUp

\* The words a user's matrix has add up to a natural number.
LEMMA SumIsNatural ==
  ASSUME arguments \in User!Arguments \X User!Arguments \X User!Arguments
  PROVE  User!Sum \in Nat
<1> DEFINE S == User!Loop(User!total)
           w == [i \in S |-> User!WordA(i)]
           Adds(f) == f = [s \in SUBSET S |->
                             IF s = {} THEN 0
                             ELSE User!WordA(CHOOSE x \in s : TRUE)
                                  + f[s \ {CHOOSE x \in s : TRUE}]]
<1>1. IsFiniteSet(S) /\ w \in [S -> Nat]
  <2>1. User!total \in Int
    BY UserAssumption DEF User!total, User!Arguments, User!rowsA, User!columnsA
  <2>2. IsFiniteSet(S)
    BY <2>1, FS_Interval DEF User!Loop
  <2>3. \A i \in S : User!WordA(i) \in Nat
    BY <2>1 DEF User!Loop, User!WordA, User!Fill
  <2> QED
    BY <2>2, <2>3
<1>2. ASSUME NEW f
      PROVE  Adds(f) <=> AddsUp(S, w, f)
  <2>1. \A s \in SUBSET S : s # {} => Chosen(s) \in S
    BY <1>1, ChosenIn
  <2>2. \A s \in SUBSET S : s # {} => w[Chosen(s)] = User!WordA(Chosen(s))
    BY <2>1
  <2> HIDE DEF S, w
  <2>3. \A s \in SUBSET S :
          AddUp(w, f, s) = IF s = {} THEN 0
                           ELSE User!WordA(CHOOSE x \in s : TRUE) + f[s \ {CHOOSE x \in s : TRUE}]
    BY <2>2 DEF AddUp, Chosen
  <2> QED
    BY <2>3 DEF AddsUp
<1>3. User!Sum = (CHOOSE f : Adds(f))[S]
  BY DEF User!Sum, User!MapThenSumSet, User!MapThenFoldSet
<1> HIDE DEF Adds, S, w
<1>4. \E f : Adds(f)
  BY <1>1, <1>2, SumExists
<1>5. Adds(CHOOSE f : Adds(f))
  BY <1>4
<1>6. \A f : Adds(f) => f[S] \in Nat
  BY <1>1, <1>2, SumsAreNatural
<1> QED
  BY <1>3, <1>5, <1>6

-----------------------------------------------------------------------------
(* Loops and tasks *)

\* Of no column and no row nothing is added up.
LEMMA NothingAdded ==
  ASSUME NEW i, NEW j, User!Loop(User!columnsA) = {}
  PROVE  User!CellSum(i, j) = 0
BY DEF User!CellSum, User!MapThenSumSet, User!MapThenFoldSet

\* The loops and the tasks of the multiplication leave one matrix, when the tasks
\* touch nothing that is not there.
LEMMA ProductsAgree ==
  ASSUME arguments \in User!Arguments \X User!Arguments \X User!Arguments,
         User!Outside("threads", "multiplication") = {}
  PROVE  User!ProductByLoops = User!ProductByTasks
<1> DEFINE r == User!rowsA
           c == User!columnsA
           d == User!columnsB
           Turns(x) == {n \in User!Loop(r) \X User!Loop(d) : n[1] * d + n[2] = x}
           Words(x) == {User!CellSum(n[1], n[2]) : n \in Turns(x)}
<1>1. r \in Int /\ c \in Int /\ d \in Int
  BY UserAssumption DEF User!Arguments, User!rowsA, User!columnsA, User!columnsB
<1>2. User!Block(r, d) = 0 .. (r * d - 1)
  BY DEF User!Block, User!Loop
<1>3. ASSUME NEW x \in User!Block(r, d)
      PROVE  User!Stored(Words(x)) = User!CellSum(User!Row(x, d), User!Column(x, d))
  <2>1. CASE r >= 0 \/ d >= 0
    <3> DEFINE i == User!Row(x, d)
               j == User!Column(x, d)
    <3>1. i \in 0 .. (r - 1) /\ j \in 0 .. (d - 1) /\ x = i * d + j
      BY <1>1, <1>2, <2>1, TaskHasCell
    <3>2. <<i, j>> \in Turns(x)
      BY <3>1 DEF User!Loop
    <3>3. d \in Nat \ {0} /\ i \in Nat /\ j \in 0 .. (d - 1)
      BY <1>1, <3>1
    <3> HIDE DEF i, j
    <3>4. ASSUME NEW n \in Turns(x) PROVE n[1] = i /\ n[2] = j
      <4>1. n[1] \in 0 .. (r - 1) /\ n[2] \in 0 .. (d - 1) /\ n[1] * d + n[2] = x
        BY DEF User!Loop
      <4>2. n[1] \in Nat
        BY <1>1, <4>1
      <4> QED
        BY <3>1, <3>3, <4>1, <4>2, UniqueParts
    <3> HIDE DEF Turns
    <3>5. Words(x) = {User!CellSum(i, j)}
      BY <3>2, <3>4
    <3> QED
      BY <3>5 DEF User!Stored, i, j
  <2>2. CASE r < 0 /\ d < 0
    <3>1. User!Loop(r) = {}
      BY <1>1, <2>2 DEF User!Loop
    <3>2. User!Stored(Words(x)) = 0
      BY <3>1 DEF User!Stored
    <3>3. CASE c <= 0
      <4>1. User!Loop(c) = {}
        BY <1>1, <3>3 DEF User!Loop
      <4> QED
        BY <3>2, <4>1, NothingAdded
    <3>4. CASE c > 0
      <4> DEFINE a == User!Access("A", User!Row(x, d) * c + 0)
      <4>1. 0 \in User!Loop(c)
        BY <1>1, <3>4 DEF User!Loop
      <4>2. x \in User!Loop(r * d)
        BY <1>2 DEF User!Loop
      <4>3. a \in User!MultiplicationTasks
        BY <4>1, <4>2 DEF User!MultiplicationTasks
      <4>4. a \in User!Touched("threads", "multiplication")
        BY <4>3 DEF User!Touched
      <4>5. r * c < 0
        BY <1>1, <2>2, <3>4
      <4>6. User!BlockOf[a.block] = {}
        BY <1>1, <4>5 DEF User!BlockOf, User!Block, User!Loop, User!Access
      <4> QED
        BY <4>4, <4>6 DEF User!Outside
    <3> QED
      BY <1>1, <3>3, <3>4
  <2> QED
    BY <1>1, <2>1, <2>2
<1>4. User!ProductByLoops = [x \in User!Block(r, d) |-> User!Stored(Words(x))]
  BY DEF User!ProductByLoops
<1> HIDE DEF Words
<1> QED
  BY <1>3, <1>4 DEF User!ProductByTasks

\* The loops and the tasks of the transposition leave one matrix.
LEMMA TransposedAgree ==
  ASSUME arguments \in User!Arguments \X User!Arguments \X User!Arguments
  PROVE  User!TransposedByLoops = User!TransposedByTasks
<1> DEFINE r == User!rowsA
           c == User!columnsA
           Turns(x) == {n \in User!Loop(c) \X User!Loop(r) : n[1] * r + n[2] = x}
           Stores(x) == {t \in User!Loop(r * c) : User!OutputIndex(t) = x}
           ByLoops(x) == {User!WordA(n[2] * c + n[1]) : n \in Turns(x)}
           ByTasks(x) == {User!WordA(t) : t \in Stores(x)}
<1>1. r \in Int /\ c \in Int
  BY UserAssumption DEF User!Arguments, User!rowsA, User!columnsA
<1>2. User!Block(c, r) = 0 .. (c * r - 1) /\ c * r = r * c
  BY <1>1 DEF User!Block, User!Loop
<1>3. ASSUME NEW x \in User!Block(c, r)
      PROVE  User!Stored(ByLoops(x)) = User!Stored(ByTasks(x))
  <2>1. CASE r >= 0 \/ c >= 0
    <3> DEFINE i == User!Row(x, r)
               j == User!Column(x, r)
               t == j * c + i
    <3>1. i \in 0 .. (c - 1) /\ j \in 0 .. (r - 1) /\ x = i * r + j
      BY <1>1, <1>2, <2>1, TaskHasCell
    <3>2. r \in Nat \ {0} /\ c \in Nat \ {0} /\ i \in Nat /\ j \in Nat
      BY <1>1, <3>1
    <3> HIDE DEF i, j
    <3>3. <<i, j>> \in Turns(x)
      BY <3>1 DEF User!Loop
    <3>4. ASSUME NEW n \in Turns(x) PROVE n[1] = i /\ n[2] = j
      <4>1. n[1] \in 0 .. (c - 1) /\ n[2] \in 0 .. (r - 1) /\ n[1] * r + n[2] = x
        BY DEF User!Loop
      <4>2. n[1] \in Nat
        BY <1>1, <4>1
      <4> QED
        BY <3>1, <3>2, <4>1, <4>2, UniqueParts
    <3>5. ASSUME NEW u \in User!Loop(r * c), User!OutputIndex(u) = x PROVE u = t
      <4> DEFINE p == User!Row(u, c)
                 q == User!Column(u, c)
      <4>1. p \in 0 .. (r - 1) /\ q \in 0 .. (c - 1) /\ u = p * c + q
        BY <1>1, <2>1, TaskHasCell DEF User!Loop
      <4>2. q * r + p = x
        BY <3>5 DEF User!OutputIndex
      <4> HIDE DEF p, q
      <4>3. q \in Nat /\ q * r + p = i * r + j
        BY <1>1, <3>1, <4>1, <4>2
      <4> HIDE DEF r, c
      <4>4. /\ r \in Nat \ {0} /\ q \in Nat /\ i \in Nat
            /\ p \in 0 .. (r - 1) /\ j \in 0 .. (r - 1)
        BY <3>1, <3>2, <4>1, <4>3
      <4>5. q = i /\ p = j
        BY <4>3, <4>4, UniqueParts
      <4> QED
        BY <4>1, <4>5
    <3>6. t \in User!Loop(r * c)
      BY <1>1, <3>1, CellInBlock DEF User!Loop
    <3>7. User!OutputIndex(t) = x
      <4> DEFINE u == User!Row(t, c)
                 v == User!Column(t, c)
      <4>1. u \in 0 .. (r - 1) /\ v \in 0 .. (c - 1) /\ t = u * c + v
        BY <1>1, <2>1, <3>6, TaskHasCell DEF User!Loop
      <4> HIDE DEF u, v
      <4>2. u \in Nat /\ u * c + v = j * c + i
        BY <1>1, <4>1
      <4>3. u = j /\ v = i
        BY <3>1, <3>2, <4>1, <4>2, UniqueParts
      <4> QED
        BY <3>1, <4>3 DEF User!OutputIndex, u, v
    <3> HIDE DEF t
    <3>8. Stores(x) = {t}
      BY <3>5, <3>6, <3>7
    <3> HIDE DEF Turns, Stores
    <3>9. ByLoops(x) = {User!WordA(j * c + i)}
      BY <3>3, <3>4
    <3>10. ByTasks(x) = {User!WordA(j * c + i)}
      BY <3>8 DEF t
    <3> QED
      BY <3>9, <3>10
  <2>2. CASE r < 0 /\ c < 0
    <3>1. User!Loop(c) = {}
      BY <1>1, <2>2 DEF User!Loop
    <3>2. User!Stored(ByLoops(x)) = 0
      BY <3>1 DEF User!Stored
    <3>3. \A u : User!WordA(u) = 0
      BY <1>1, <2>2 DEF User!WordA, User!Fill
    <3>4. ByTasks(x) = {} \/ ByTasks(x) = {0}
      BY <3>3
    <3>5. User!Stored(ByTasks(x)) = 0
      BY <3>4 DEF User!Stored
    <3> QED
      BY <3>2, <3>5
  <2> QED
    BY <1>1, <2>1, <2>2
<1>4. User!TransposedByLoops = [x \in User!Block(c, r) |-> User!Stored(ByLoops(x))]
  BY DEF User!TransposedByLoops
<1>5. User!TransposedByTasks = [x \in User!Block(c, r) |-> User!Stored(ByTasks(x))]
  BY DEF User!TransposedByTasks
<1> HIDE DEF ByLoops, ByTasks
<1> QED
  BY <1>3, <1>4, <1>5


-----------------------------------------------------------------------------
(* What the programs answer *)

\* What may end a program, or a child of it.
Excused(p, operation) ==
  \/ p = "sequential" /\ operation = "average" /\ User!total = 0
  \/ ~ OneNegative
  \/ p = "processes" /\ User!NoArray(operation)
  \/ User!Oversized

\* An operation that has memory for all it touches leaves its answer, but for the
\* average of no cells.
LEMMA KilledIsExcused ==
  ASSUME arguments \in User!Arguments \X User!Arguments \X User!Arguments,
         NEW p \in User!Programs, NEW operation \in User!Operations,
         User!Killed \in User!Outcomes(p, operation)
  PROVE  Excused(p, operation)
<1> SUFFICES ASSUME OneNegative, ~ (p = "processes" /\ User!NoArray(operation)),
                    ~ User!Oversized
             PROVE  p = "sequential" /\ operation = "average" /\ User!total = 0
  BY DEF Excused
<1>1. User!Outside(p, operation) = {}
  BY NothingOutside
<1>2. User!Killed \in User!Left(p, operation)
  BY <1>1 DEF User!Outcomes, User!UsualOutcomes
<1>3. \A v : User!Is(v) # User!Killed /\ User!Undefined # User!Killed
  BY DEF User!Is, User!Killed, User!Undefined
<1>4. operation = "average"
  BY <1>2, <1>3 DEF User!Left, User!Operations
<1>5. p # "threads"
  BY <1>2, <1>3, <1>4 DEF User!Left, User!AverageByTasks
<1>6. p # "processes"
  BY <1>2, <1>3, <1>4 DEF User!Left, User!AverageByProcesses
<1>7. p = "sequential"
  BY <1>5, <1>6 DEF User!Programs
<1> QED
  BY <1>2, <1>3, <1>4, <1>7 DEF User!Left, User!AverageByLoops

LEMMA SameSize == arguments' = arguments => User!Oversized' = User!Oversized
  BY DEF User!Oversized, User!TooLarge, User!Magnitude, User!rowsA, User!columnsA, User!rowsB,
     User!columnsB

\* What an operation may leave depends on the three numbers only.
LEMMA SameOutcomes ==
  ASSUME arguments' = arguments
  PROVE  \A p, operation : User!Outcomes(p, operation)' = User!Outcomes(p, operation)
<1> USE DEF User!rowsA, User!columnsA, User!columnsB, User!rowsB, User!Loop, User!Block
<1>1. \A block : User!BlockOf'[block] = User!BlockOf[block]
  BY DEF User!BlockOf
<1>2. User!NullBlocks' = User!NullBlocks
  BY DEF User!NullBlocks, User!Null, User!BlockOf
<1>3. /\ User!MultiplicationLoops' = User!MultiplicationLoops
      /\ User!MultiplicationTasks' = User!MultiplicationTasks
      /\ User!TranspositionLoops' = User!TranspositionLoops
      /\ User!TranspositionTasks' = User!TranspositionTasks
  BY DEF User!MultiplicationLoops, User!MultiplicationTasks, User!TranspositionLoops,
     User!TranspositionTasks, User!Access, User!OutputIndex, User!Row, User!Column,
     User!Quotient, User!Remainder, User!Magnitude
<1>4. \A p, operation : User!Touched(p, operation)' = User!Touched(p, operation)
  BY <1>3 DEF User!Touched, User!Access
<1>5. \A p, operation : User!Outside(p, operation)' = User!Outside(p, operation)
  BY <1>1, <1>4 DEF User!Outside
<1>6. User!ProductByLoops' = User!ProductByLoops /\ User!ProductByTasks' = User!ProductByTasks
  BY DEF User!ProductByLoops, User!ProductByTasks, User!Stored, User!CellSum, User!MapThenSumSet,
     User!MapThenFoldSet, User!WordA, User!WordB, User!Fill, User!Row, User!Column, User!Quotient,
     User!Remainder, User!Magnitude
<1>7. /\ User!TransposedByLoops' = User!TransposedByLoops
      /\ User!TransposedByTasks' = User!TransposedByTasks
  BY DEF User!TransposedByLoops, User!TransposedByTasks, User!Stored, User!OutputIndex,
     User!WordA, User!Fill, User!Row, User!Column, User!Quotient, User!Remainder, User!Magnitude
<1>8. User!Sum' = User!Sum /\ User!total' = User!total
  BY DEF User!Sum, User!total, User!MapThenSumSet, User!MapThenFoldSet, User!WordA, User!Fill
<1>9. /\ User!AverageByLoops' = User!AverageByLoops
      /\ User!AverageByTasks' = User!AverageByTasks
  BY <1>8 DEF User!AverageByLoops, User!AverageByTasks
<1>10. User!workerCount' = User!workerCount /\ User!lastSize' = User!lastSize
  BY <1>8 DEF User!workerCount, User!lastSize
<1>11. User!AverageByProcesses' = User!AverageByProcesses
  BY <1>8, <1>10 DEF User!AverageByProcesses
<1>12. \A operation : User!NoArray(operation)' = User!NoArray(operation)
  BY <1>8 DEF User!NoArray
<1>13. \A p, operation : User!Left(p, operation)' = User!Left(p, operation)
  BY <1>6, <1>7, <1>9, <1>11 DEF User!Left
<1>14. User!Oversized' = User!Oversized
  BY SameSize
<1>15. \A p, operation : User!UsualOutcomes(p, operation)' = User!UsualOutcomes(p, operation)
  BY <1>2, <1>5, <1>12, <1>13 DEF User!UsualOutcomes
<1> QED
  BY <1>14, <1>15 DEF User!Outcomes

\* The process that one operation ended was the program.
EndedByOne(p) ==
  p # "processes" /\ \E operation \in User!Operations : answer[p][operation] = User!Killed

UserInductive ==
  /\ arguments \in {<< >>} \cup (User!Arguments \X User!Arguments \X User!Arguments)
  /\ DOMAIN answer = User!Programs /\ \A p \in User!Programs : DOMAIN answer[p] = User!Operations
  /\ \A p \in User!Programs, operation \in User!Operations :
       answer[p][operation] # User!None =>
         arguments # << >> /\ answer[p][operation] \in User!Outcomes(p, operation)
  /\ DOMAIN status = User!Programs
  /\ \A p \in User!Programs : status[p] = "killed" => EndedByOne(p) \/ User!Oversized

\* An answer is one of those that the operation may leave.
LEMMA UserInvariant == User!Spec => []UserInductive
<1>1. User!Init => UserInductive
  BY DEF User!Init, UserInductive, User!Programs
<1>2. UserInductive /\ [User!Next]_(User!vars) => UserInductive'
  <2> SUFFICES ASSUME UserInductive, [User!Next]_(User!vars) PROVE UserInductive'
    OBVIOUS
  <2>1. arguments' = arguments
    BY DEF User!Next, User!Step, User!Usage, User!Finish, User!RunsOut, User!Operate, User!vars
  <2>2. \A p, operation : User!Outcomes(p, operation)' = User!Outcomes(p, operation)
    BY <2>1, SameOutcomes
  <2>3. ASSUME answer' = answer,
               \/ status' = status
               \/ \E p \in User!Programs, s \in {"usage", "success", "killed"} :
                    status' = [status EXCEPT ![p] = s] /\ (s = "killed" => User!Oversized)
        PROVE  UserInductive'
    <3>1. \A p : EndedByOne(p)' = EndedByOne(p)
      BY <2>3 DEF EndedByOne
    <3>2. User!Oversized' = User!Oversized
      BY <2>1, SameSize
    <3>3. DOMAIN status' = User!Programs
      BY <2>3 DEF UserInductive
    <3>4. \A p \in User!Programs : status'[p] = "killed" => status[p] = "killed" \/ User!Oversized
      BY <2>3 DEF UserInductive
    <3>5. \A p \in User!Programs : status'[p] = "killed" => EndedByOne(p)' \/ User!Oversized'
      BY <3>1, <3>2, <3>4 DEF UserInductive
    <3> QED
      BY <2>1, <2>2, <2>3, <3>3, <3>5 DEF UserInductive
  <2>4. ASSUME NEW p \in User!Programs, NEW operation \in User!Operations, User!Operate(p, operation)
        PROVE  UserInductive'
    <3>1. PICK outcome \in User!Outcomes(p, operation) :
            /\ answer' = [answer EXCEPT ![p][operation] = outcome]
            /\ status' = IF outcome = User!Killed /\ p # "processes"
                           THEN [status EXCEPT ![p] = "killed"] ELSE status
      BY <2>4 DEF User!Operate
    <3>2. arguments # << >>
      BY <2>4 DEF User!Operate
    <3>3. \A q \in User!Programs, o \in User!Operations :
            answer'[q][o] = (IF q = p /\ o = operation THEN outcome ELSE answer[q][o])
      BY <3>1 DEF UserInductive
    <3>4. DOMAIN answer' = User!Programs /\ \A q \in User!Programs : DOMAIN answer'[q] = User!Operations
      BY <3>1 DEF UserInductive
    <3>5. \A q \in User!Programs, o \in User!Operations :
            answer'[q][o] # User!None =>
              arguments # << >> /\ answer'[q][o] \in User!Outcomes(q, o)
      BY <3>1, <3>2, <3>3 DEF UserInductive
    <3>6. User!Oversized' = User!Oversized
      BY <2>1, SameSize
    <3>7. DOMAIN status' = User!Programs
      BY <3>1 DEF UserInductive
    <3>8. answer[p][operation] = User!None
      BY <2>4 DEF User!Operate
    <3>9. \A q \in User!Programs : EndedByOne(q) => EndedByOne(q)'
      <4> SUFFICES ASSUME NEW q \in User!Programs, EndedByOne(q) PROVE EndedByOne(q)'
        OBVIOUS
      <4>1. PICK o \in User!Operations : q # "processes" /\ answer[q][o] = User!Killed
        BY DEF EndedByOne
      <4>2. answer'[q][o] = User!Killed
        BY <3>3, <3>8, <4>1 DEF User!None, User!Killed
      <4> QED
        BY <4>1, <4>2 DEF EndedByOne
    <3>10. outcome = User!Killed /\ p # "processes" => EndedByOne(p)'
      BY <3>3 DEF EndedByOne
    <3>11. \A q \in User!Programs : status'[q] = "killed" => EndedByOne(q)' \/ User!Oversized'
      <4> SUFFICES ASSUME NEW q \in User!Programs, status'[q] = "killed"
                   PROVE  EndedByOne(q)' \/ User!Oversized'
        OBVIOUS
      <4>1. CASE status[q] = "killed"
        BY <3>6, <3>9, <4>1 DEF UserInductive
      <4>2. CASE status[q] # "killed"
        <5>1. q = p /\ outcome = User!Killed /\ p # "processes"
          BY <3>1, <4>2 DEF UserInductive
        <5> QED
          BY <3>10, <5>1
      <4> QED
        BY <4>1, <4>2
    <3> QED
      BY <2>1, <2>2, <3>4, <3>5, <3>7, <3>11 DEF UserInductive
  <2>5. ASSUME NEW p \in User!Programs, User!Usage(p) \/ User!Finish(p) \/ User!RunsOut(p)
        PROVE  UserInductive'
    BY <2>3, <2>5 DEF User!Usage, User!Finish, User!RunsOut
  <2>6. UNCHANGED User!vars => UserInductive'
    BY <2>3 DEF User!vars
  <2> QED
    BY <2>4, <2>5, <2>6 DEF User!Next, User!Step
<1> QED
  BY <1>1, <1>2, PTL DEF User!Spec

\* The user's programs as one of several are the user's programs themselves.
LEMMA UserAlone == MCSpec => User!Spec
<1>1. MCInit => User!Init
  BY Zenon DEF MCInit
<1>2. [MCNext]_<<program, vars, processVars, userVars>> => [User!Next]_(User!vars)
  <2>1. MCNext => UNCHANGED userVars \/ User!Next
    BY Zenon DEF MCNext
  <2>2. UNCHANGED <<program, vars, processVars, userVars>> => UNCHANGED userVars
    BY Zenon
  <2>3. UNCHANGED userVars => UNCHANGED User!vars
    BY DEF userVars, User!vars
  <2> QED
    BY <2>1, <2>2, <2>3
<1> QED
  BY <1>1, <1>2, PTL DEF MCSpec, User!Spec

\* When no two of three numbers may be negative, two are.
LEMMA TwoNegatives ==
  ASSUME arguments \in User!Arguments \X User!Arguments \X User!Arguments, ~ OneNegative
  PROVE  \E i, j \in 1 .. 3 : i < j /\ arguments[i] < 0 /\ arguments[j] < 0
<1>1. arguments[1] \in Int /\ arguments[2] \in Int /\ arguments[3] \in Int
  BY UserAssumption DEF User!Arguments
<1>2. \/ arguments[1] < 0 /\ arguments[2] < 0
      \/ arguments[1] < 0 /\ arguments[3] < 0
      \/ arguments[2] < 0 /\ arguments[3] < 0
  BY <1>1 DEF OneNegative, User!rowsA, User!columnsA, User!columnsB
<1> QED
  BY <1>2

\* Whatever numbers a user gives, an operation is ended only by the sequential
\* average of a matrix without cells, a negative count of pipes, two negative
\* numbers, or matrices of more cells than an int, calloc and a stack can hold; and
\* only these, or an operation, end a program (main of the three programs of
\* user_input_versions).
THEOREM FaultsHaveCause == MCSpec => []KilledByItsArguments
<1> DEFINE Cause(p, operation) ==
             \/ p = "sequential" /\ operation = "average" /\ User!total = 0
             \/ \E i, j \in 1 .. 3 : i < j /\ arguments[i] < 0 /\ arguments[j] < 0
             \/ p = "processes" /\ User!NoArray(operation)
             \/ User!Oversized
<1>1. ASSUME UserInductive, NEW p \in User!Programs, NEW operation \in User!Operations,
             answer[p][operation] = User!Killed
      PROVE  Cause(p, operation)
  <2>1. /\ arguments \in User!Arguments \X User!Arguments \X User!Arguments
        /\ User!Killed \in User!Outcomes(p, operation)
    BY <1>1 DEF UserInductive, User!None, User!Killed
  <2>2. Excused(p, operation)
    BY <2>1, KilledIsExcused
  <2> QED
    BY <2>1, <2>2, TwoNegatives DEF Excused
<1>2. UserInductive => KilledByItsArguments
  <2>1. UserInductive => \A p \in User!Programs, operation \in User!Operations :
          answer[p][operation] = User!Killed => Cause(p, operation)
    BY <1>1
  <2>2. UserInductive => \A p \in User!Programs :
          status[p] = "killed" => EndedByOne(p) \/ User!Oversized
    BY DEF UserInductive
  <2>3. KilledByItsArguments <=>
          \A p \in User!Programs :
            /\ \A operation \in User!Operations :
                 answer[p][operation] = User!Killed => Cause(p, operation)
            /\ status[p] = "killed" => EndedByOne(p) \/ User!Oversized
    BY DEF KilledByItsArguments, User!KilledByItsArguments, EndedByOne
  <2> HIDE DEF Cause
  <2> QED
    BY <2>1, <2>2, <2>3
<1> QED
  BY <1>2, UserInvariant, UserAlone, PTL

\* A sum that fits an int is in it, and that of a matrix whose last chunk is half
\* full is divided by the number of its words.
LEMMA AveragesAgree ==
  ASSUME arguments \in User!Arguments \X User!Arguments \X User!Arguments
  PROVE  /\ User!Sum <= MaxInt => User!Wrap(User!Sum) = User!Sum
         /\ User!total > 0 /\ 2 * User!lastSize = UserTasks =>
              User!AverageByProcesses = {User!Is(<<User!Sum, User!total>>)}
<1>1. User!Sum \in Nat /\ MaxInt \in Nat /\ UserTasks \in Nat \ {0}
  BY SumIsNatural, UserAssumption
<1>2. ASSUME User!Sum <= MaxInt PROVE User!Wrap(User!Sum) = User!Sum
  <2> DEFINE s == User!Sum
             m == MaxInt + 1
  <2>1. s \in Nat /\ m \in Nat \ {0} /\ s < m
    BY <1>1, <1>2
  <2> HIDE DEF s, m
  <2>2. s + m \in 0 .. (2 * m - 1)
    BY <2>1
  <2>3. (s + m) % (2 * m) = s + m
    BY <2>1, <2>2
  <2>4. ((s + m) % (2 * m)) - m = s
    BY <2>1, <2>3
  <2>5. User!Wrap(s) = ((s + m) % (2 * m)) - m
    BY <1>1, <2>1 DEF User!Wrap, s, m
  <2> QED
    BY <2>4, <2>5 DEF s
<1>3. ASSUME User!total > 0, 2 * User!lastSize = UserTasks
      PROVE  User!AverageByProcesses = {User!Is(<<User!Sum, User!total>>)}
  <2> DEFINE l == User!lastSize
             before == (User!workerCount - 1) * UserTasks
  <2>1. User!total \in Int /\ User!workerCount \in Int
    BY UserAssumption DEF User!total, User!Arguments, User!rowsA, User!columnsA, User!workerCount,
       User!Quotient, User!Remainder, User!Magnitude
  <2>2. before \in Int /\ l = User!total - before
    BY <1>1, <2>1 DEF User!lastSize
  <2>3. l \in 1 .. (UserTasks - 1) /\ UserTasks - l = l
    BY <1>1, <1>3, <2>1, <2>2
  <2>4. before + l = User!total
    BY <2>1, <2>2
  <2> HIDE DEF l, before
  <2>5. User!AverageByProcesses =
          {IF n = 0 \/ before + n = 0 THEN User!Undefined ELSE User!Is(<<User!Sum, before + n>>) : n \in {l}}
    BY <2>3 DEF User!AverageByProcesses, l, before
  <2> QED
    BY <1>3, <2>1, <2>3, <2>4, <2>5
<1> QED
  BY <1>2, <1>3

\* An operation that is answered touched nothing but its matrices.
LEMMA AnsweredIsLeft ==
  ASSUME UserInductive, NEW p \in User!Programs, NEW operation \in User!Operations,
         User!Answered(p, operation)
  PROVE  /\ arguments \in User!Arguments \X User!Arguments \X User!Arguments
         /\ answer[p][operation] \in User!Left(p, operation)
         /\ User!Outside(p, operation) = {}
<1>1. /\ arguments \in User!Arguments \X User!Arguments \X User!Arguments
      /\ answer[p][operation] \in User!Outcomes(p, operation)
      /\ answer[p][operation] \notin {User!Killed, User!Undefined}
  BY DEF UserInductive, User!Answered
<1>2. {a.block : a \in User!Outside(p, operation)} = {}
  BY <1>1 DEF User!Outcomes, User!UsualOutcomes
<1> QED
  BY <1>1, <1>2 DEF User!Outcomes, User!UsualOutcomes

\* Programs that answer, answer the same for whatever numbers a user gives: equal
\* products and transposed matrices by loops and by tasks, and the same average
\* but for an int that overflowed or a last chunk that is not half full (the three
\* operations of the sequential program and of both taskLevel programs).
THEOREM ProgramsAlike == MCSpec => []ProgramsAgree
<1>1. ASSUME UserInductive, NEW p \in User!Programs, User!Answered(p, "multiplication")
      PROVE  answer[p]["multiplication"] = User!Is(User!ProductByLoops)
  <2>1. /\ arguments \in User!Arguments \X User!Arguments \X User!Arguments
        /\ answer[p]["multiplication"] \in User!Left(p, "multiplication")
        /\ User!Outside(p, "multiplication") = {}
    BY <1>1, AnsweredIsLeft DEF User!Operations
  <2>2. CASE p = "sequential"
    BY <2>1, <2>2 DEF User!Left
  <2>3. CASE p # "sequential"
    <3>1. User!Outside("threads", "multiplication") = {}
      BY <2>1, <2>3 DEF User!Outside, User!Touched
    <3>2. User!ProductByTasks = User!ProductByLoops
      BY <2>1, <3>1, ProductsAgree
    <3> QED
      BY <2>1, <2>3, <3>2 DEF User!Left
  <2> QED
    BY <2>2, <2>3
<1>2. ASSUME UserInductive, NEW p \in User!Programs, User!Answered(p, "transposition")
      PROVE  answer[p]["transposition"] = User!Is(User!TransposedByLoops)
  <2>1. /\ arguments \in User!Arguments \X User!Arguments \X User!Arguments
        /\ answer[p]["transposition"] \in User!Left(p, "transposition")
    BY <1>2, AnsweredIsLeft DEF User!Operations
  <2> QED
    BY <2>1, TransposedAgree DEF User!Left
<1>3. ASSUME UserInductive, User!Answered("threads", "average")
      PROVE  LET mean == answer["threads"]["average"][2] IN
             /\ User!Answered("sequential", "average") /\ User!Sum <= MaxInt =>
                  answer["sequential"]["average"][2][1] = User!Quotient(mean[1], mean[2])
             /\ User!Answered("processes", "average") /\ User!total > 0
                /\ 2 * User!lastSize = UserTasks =>
                  answer["processes"]["average"] = User!Is(mean)
  <2> DEFINE mean == answer["threads"]["average"][2]
  <2>1. /\ arguments \in User!Arguments \X User!Arguments \X User!Arguments
        /\ answer["threads"]["average"] \in User!AverageByTasks
    BY <1>3, AnsweredIsLeft DEF User!Left, User!Operations, User!Programs
  <2>2. User!total # 0 => mean = <<User!Sum, User!total>>
    BY <2>1 DEF User!AverageByTasks, User!Is
  <2>3. ASSUME User!Answered("sequential", "average"), User!Sum <= MaxInt
        PROVE  answer["sequential"]["average"][2][1] = User!Quotient(mean[1], mean[2])
    <3>1. answer["sequential"]["average"] \in User!AverageByLoops
      BY <1>3, <2>3, AnsweredIsLeft DEF User!Left, User!Operations, User!Programs
    <3>2. /\ User!total # 0
          /\ answer["sequential"]["average"] = User!Is(<<User!Quotient(User!Wrap(User!Sum), User!total), 1>>)
      BY <2>3, <3>1 DEF User!AverageByLoops, User!Answered
    <3>3. User!Wrap(User!Sum) = User!Sum
      BY <2>1, <2>3, AveragesAgree
    <3> QED
      BY <2>2, <3>2, <3>3 DEF User!Is
  <2>4. ASSUME User!Answered("processes", "average"), User!total > 0, 2 * User!lastSize = UserTasks
        PROVE  answer["processes"]["average"] = User!Is(mean)
    <3>1. answer["processes"]["average"] \in User!AverageByProcesses
      BY <1>3, <2>4, AnsweredIsLeft DEF User!Left, User!Operations, User!Programs
    <3>2. answer["processes"]["average"] = User!Is(<<User!Sum, User!total>>)
      BY <2>1, <2>4, <3>1, AveragesAgree
    <3>3. User!total # 0
      BY <2>1, <2>4, UserAssumption DEF User!total, User!Arguments, User!rowsA, User!columnsA
    <3> QED
      BY <2>2, <3>2, <3>3
  <2> QED
    BY <2>3, <2>4
<1>4. UserInductive => ProgramsAgree
  BY <1>1, <1>2, <1>3 DEF ProgramsAgree, User!ProgramsAgree
<1> QED
  BY <1>4, UserInvariant, UserAlone, PTL

=============================================================================
