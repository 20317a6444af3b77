-------------------------- MODULE ProcessPoolProofs --------------------------
(***************************************************************************)
(* The process pool stores every chunk that was sent, whatever pipe(),     *)
(* fork() and its children do and however descriptors are handed out       *)
(* again, for every matrix, chunk size and number of children.             *)
(***************************************************************************)
EXTENDS ProcessPool, MatrixTasksProofs

-----------------------------------------------------------------------------
(* Chunks *)

\* A task is in the chunk of one worker.
LEMMA ChunkOfTask ==
  ASSUME NEW t \in Tasks
  PROVE  /\ t \div TasksPerWorker \in Workers
         /\ \A w \in Workers : t \in Chunk(w) <=> w = t \div TasksPerWorker
<1> USE ChunksAssumption
<1> DEFINE q == t \div TasksPerWorker
<1>1. PICK v \in Workers : firstTask(v) <= t /\ t < lastTask(v)
  BY EveryTaskInAChunk
<1>2. t \in Nat /\ v \in Nat
  BY DEF Tasks, Workers
<1>3. v * TasksPerWorker <= t /\ t < v * TasksPerWorker + TasksPerWorker
  BY <1>1, <1>2, ChunkInTasks DEF firstTask
<1>4. v = q
  <2>1. t \in Nat /\ TasksPerWorker \in Nat \ {0}
    BY <1>2
  <2>2. q \in Nat /\ t % TasksPerWorker \in 0 .. (TasksPerWorker - 1)
        /\ t = TasksPerWorker * q + (t % TasksPerWorker)
    BY <2>1, Division
  <2> DEFINE rest == t - v * TasksPerWorker
  <2>3. rest \in 0 .. (TasksPerWorker - 1) /\ v * TasksPerWorker + rest = t
    BY <1>2, <1>3
  <2>4. q * TasksPerWorker + (t % TasksPerWorker) = t
    BY <2>1, <2>2
  <2> HIDE DEF q, rest
  <2> QED
    BY <1>2, <2>2, <2>3, <2>4, UniqueParts
<1>5. \A w \in Workers : t \in Chunk(w) <=> w = v
  BY <1>1, <1>2, ChunksDisjoint DEF Chunk
<1> QED
  BY <1>4, <1>5

\* Storing a chunk stores the values of its tasks and of no other.
LEMMA ChunkIsStored ==
  ASSUME operation \in Operations, NEW w \in Workers, NEW t \in Tasks
  PROVE  WithChunk(w)[outputIndex(operation, t)] =
           IF t \in Chunk(w) THEN value(operation, t) ELSE result[outputIndex(operation, t)]
<1> DEFINE o == outputIndex(operation, t)
<1>1. o \in Tasks
  BY OutputIndexInTasks
<1>2. \A s \in Chunk(w) : s \in Tasks
  BY DEF Chunk
<1>3. \A s \in Chunk(w) : outputIndex(operation, s) = o <=> s = t
  BY <1>2, OutputIndexInjective
<1>4. WithChunk(w)[o] =
        IF \E s \in Chunk(w) : outputIndex(operation, s) = o
          THEN value(operation, CHOOSE s \in Chunk(w) : outputIndex(operation, s) = o)
          ELSE result[o]
  BY <1>1 DEF WithChunk
<1> HIDE DEF o
<1>5. CASE t \in Chunk(w)
  <2>1. (CHOOSE s \in Chunk(w) : outputIndex(operation, s) = o) = t
    BY <1>3, <1>5
  <2> QED
    BY <1>3, <1>4, <1>5, <2>1 DEF o
<1>6. CASE t \notin Chunk(w)
  BY <1>3, <1>4, <1>6 DEF o
<1> QED
  BY <1>5, <1>6

-----------------------------------------------------------------------------
(* The inductive invariant *)

\* The invariant holds before the first fork().
LEMMA InitInvariant == Init => Inductive
<1> SUFFICES ASSUME Init PROVE Inductive
  OBVIOUS
<1> USE DEF Init
<1>1. 0 \in Workers
  BY WorkerCountPositive DEF Workers
<1>2. TypeOK
  BY <1>1 DEF TypeOK
<1>3. Order
  BY DEF Order, Ahead, Forked, Workers
<1>4. Lowest
  BY DEF Lowest, Workers
<1>5. Own /\ Past
  BY DEF Own, Past, PastRead, PastReap, Forked, Workers
<1>6. Stored
  BY OutputIndexInTasks, ChunkOfTask DEF Stored
<1> QED
  BY <1>2, <1>3, <1>4, <1>5, <1>6 DEF Inductive

\* The descriptor pipe() returns is free, and those in use stay the lowest.
LEMMA NextIsLowest ==
  ASSUME Inductive, pc = "fork"
  PROVE  /\ NextDescriptor \in Workers /\ refersTo[NextDescriptor] = Closed
         /\ \E k \in 0 .. at : k = NextDescriptor
              /\ \A d \in Workers : refersTo[d] # Closed <=> d < k
<1>1. PICK k \in 0 .. at : \A d \in Workers : refersTo[d] # Closed <=> d < k
  BY DEF Inductive, Lowest
<1>2. k \in Workers
  BY WorkerCountPositive DEF Inductive, TypeOK, Workers
<1> DEFINE Free(d) == refersTo[d] = Closed /\ \A e \in Workers : e < d => refersTo[e] # Closed
<1>3. \A d \in Workers : Free(d) <=> d = k
  BY <1>1, <1>2 DEF Workers
<1>4. NextDescriptor = CHOOSE d \in Workers : Free(d)
  BY DEF NextDescriptor
<1> HIDE DEF Free
<1>5. NextDescriptor = k
  BY <1>2, <1>3, <1>4
<1> QED
  BY <1>1, <1>2, <1>5

\* fork() gives its worker a pipe nobody else is still to be read from.
LEMMA ForkKeeps == Inductive /\ Fork => Inductive'
<1> SUFFICES ASSUME Inductive, Fork PROVE Inductive'
  OBVIOUS
<1> USE DEF Inductive, Fork
<1> DEFINE n == NextDescriptor
<1>1. /\ n \in Workers /\ refersTo[n] = Closed
      /\ \E k \in 0 .. at : k = n /\ \A d \in Workers : refersTo[d] # Closed <=> d < k
  BY NextIsLowest
<1>2. /\ readEnd' = [readEnd EXCEPT ![at] = n] /\ refersTo' = [refersTo EXCEPT ![n] = at]
      /\ child' = [child EXCEPT ![at] = "running"]
  OBVIOUS
<1> HIDE DEF n
<1>3. at \in Workers /\ at \in Nat /\ workerCount \in Nat /\ ~ Forked(at)
  BY WorkerCountPositive DEF TypeOK, Order, Ahead, Workers
<1>4. TypeOK'
  BY <1>1, <1>2, <1>3 DEF TypeOK, Loop, Workers
<1>5. Order'
  BY <1>1, <1>2, <1>3 DEF TypeOK, Order, Ahead, Forked, Together, Loop, Workers, Closed
<1>6. Lowest'
  <2>1. CASE pc' = "fork"
    <3>1. at' = at + 1
      BY <2>1 DEF Loop
    <3>2. PICK k \in 0 .. at : k = n /\ \A d \in Workers : refersTo[d] # Closed <=> d < k
      BY <1>1
    <3>3. \A d \in Workers : refersTo'[d] # Closed <=> d < k + 1
      BY <1>1, <1>2, <1>3, <3>2 DEF TypeOK, Workers, Closed
    <3>4. k + 1 \in 0 .. at'
      BY <1>3, <3>1
    <3> QED
      BY <3>3, <3>4 DEF Lowest
  <2>2. CASE pc' # "fork"
    BY <2>2 DEF Lowest
  <2> QED
    BY <2>1, <2>2
<1>7. Own'
  BY <1>1, <1>2, <1>3 DEF TypeOK, Own, Forked, Settled, Closed, Workers
<1>8. \A w \in Workers : PastRead(w)' => w # at /\ (PastRead(w) \/ ~ Forked(w))
  BY <1>3 DEF TypeOK, Order, Ahead, PastRead, Together, Loop, Workers
<1>9. \A w \in Workers : PastReap(w)' => w # at /\ (PastReap(w) \/ ~ Forked(w))
  BY <1>3 DEF TypeOK, Order, Ahead, PastReap, Together, Loop, Workers
<1>10. Past'
  BY <1>1, <1>2, <1>3, <1>8, <1>9 DEF TypeOK, Past, Forked, Settled
<1>11. Stored'
  BY DEF Stored
<1> QED
  BY <1>4, <1>5, <1>6, <1>7, <1>10, <1>11

\* A failed fork() leaves an entry with a number that is free again.
LEMMA ForkFailsKeeps == Inductive /\ ForkFails => Inductive'
<1> SUFFICES ASSUME Inductive, ForkFails PROVE Inductive'
  OBVIOUS
<1> USE DEF Inductive, ForkFails
<1> DEFINE n == NextDescriptor
<1>1. n \in Workers
  BY NextIsLowest
<1>2. readEnd' = [readEnd EXCEPT ![at] = n]
  OBVIOUS
<1> HIDE DEF n
<1>3. at \in Workers /\ at \in Nat /\ workerCount \in Nat /\ ~ Forked(at)
  BY WorkerCountPositive DEF TypeOK, Order, Ahead, Workers
<1>4. TypeOK'
  BY <1>1, <1>2, <1>3 DEF TypeOK, Loop, Workers
<1>5. Order'
  BY <1>1, <1>2, <1>3 DEF TypeOK, Order, Ahead, Forked, Together, Loop, Workers, Closed
<1>6. Lowest'
  BY <1>3 DEF Lowest, Loop
<1>7. Own'
  BY <1>1, <1>2, <1>3 DEF TypeOK, Own, Forked, Settled, Closed, Workers
<1>8. \A w \in Workers : PastRead(w)' => PastRead(w) \/ ~ Forked(w)
  BY <1>3 DEF TypeOK, Order, Ahead, PastRead, Together, Loop, Workers
<1>9. \A w \in Workers : PastReap(w)' => PastReap(w) \/ ~ Forked(w)
  BY <1>3 DEF TypeOK, Order, Ahead, PastReap, Together, Loop, Workers
<1>10. Past'
  BY <1>8, <1>9 DEF Past, Forked, Settled
<1>11. Stored'
  BY DEF Stored
<1> QED
  BY <1>4, <1>5, <1>6, <1>7, <1>10, <1>11

\* read() settles the child whose pipe it is, and the one it was meant for.
LEMMA ReadKeeps == Inductive /\ Read => Inductive'
<1> SUFFICES ASSUME Inductive, Read PROVE Inductive'
  OBVIOUS
<1> USE DEF Inductive
<1> PICK w : w = refersTo[readEnd[at]]
  OBVIOUS
<1> DEFINE taken == w # Closed /\ pipe[w] = "chunk"
<1>1. /\ pc = "read" /\ pc' = "reap"
      /\ w # Closed => pipe[w] = "chunk" \/ child[w] \in {"dead", "reaped"}
      /\ refersTo' = [refersTo EXCEPT ![readEnd[at]] = Closed]
      /\ UNCHANGED <<operation, at, child, readEnd, returned>>
  BY DEF Read
<1>2. IF taken THEN result' = WithChunk(w) /\ pipe' = [pipe EXCEPT ![w] = "taken"]
      ELSE UNCHANGED <<result, pipe>>
  BY DEF Read
<1>3. at \in Workers /\ readEnd[at] \in Workers /\ w \in Workers \cup {Closed}
  BY <1>1 DEF TypeOK, Order, Ahead, Workers
<1>4. w # Closed => w \in Workers
  BY <1>3
<1>5. TypeOK'
  <2>1. DOMAIN result' = Tasks
    BY <1>2 DEF TypeOK, WithChunk
  <2> QED
    BY <1>1, <1>2, <1>3, <1>4, <2>1 DEF TypeOK
<1>6. Order'
  BY <1>1, <1>2, <1>4 DEF TypeOK, Order, Ahead, Forked, Together
<1>7. Lowest'
  BY <1>1 DEF Lowest
<1>8. \A v \in Workers : Settled(v) => Settled(v)'
  BY <1>1, <1>2, <1>4 DEF TypeOK, Settled
<1>9. w # Closed => Settled(w)'
  BY <1>1, <1>2, <1>4 DEF TypeOK, Settled
<1>10. Own'
  <2>1. ASSUME NEW v \in Workers, Forked(v)
        PROVE  readEnd[v] \in Workers /\ (refersTo'[readEnd[v]] = v \/ Settled(v)')
    <3>1. readEnd[v] \in Workers /\ (refersTo[readEnd[v]] = v \/ Settled(v))
      BY <2>1 DEF Own
    <3>2. CASE readEnd[v] = readEnd[at] /\ refersTo[readEnd[v]] = v
      <4>1. w = v /\ w # Closed
        BY <3>2 DEF Workers, Closed
      <4> QED
        BY <3>1, <1>9, <4>1
    <3>3. CASE readEnd[v] # readEnd[at]
      BY <1>1, <1>3, <1>8, <3>1, <3>3 DEF TypeOK
    <3> QED
      BY <1>8, <3>1, <3>2, <3>3
  <2>2. ASSUME NEW d \in Workers, refersTo'[d] # Closed
        PROVE  Forked(refersTo'[d]) /\ readEnd[refersTo'[d]] = d
    BY <1>1, <1>3, <2>2 DEF TypeOK, Own
  <2>3. \A v \in Workers : Forked(v)' <=> Forked(v)
    BY <1>1 DEF Forked
  <2> QED
    BY <1>1, <2>1, <2>2, <2>3 DEF Own, Forked
<1>11. Past'
  <2>1. \A v \in Workers : PastRead(v)' => PastRead(v) \/ v = at
    BY <1>1 DEF TypeOK, Order, PastRead, Together, Workers
  <2>2. \A v \in Workers : PastReap(v)' => PastReap(v)
    BY <1>1 DEF PastReap, Together
  <2>3. ASSUME NEW d \in Workers PROVE refersTo'[d] \in {refersTo[d], Closed}
    BY <1>1, <1>3 DEF TypeOK
  <2>4. Forked(at) => Settled(at)' /\ \A d \in Workers : refersTo'[d] # at
    <3> SUFFICES ASSUME Forked(at) PROVE Settled(at)' /\ \A d \in Workers : refersTo'[d] # at
      OBVIOUS
    <3>1. refersTo[readEnd[at]] = at \/ Settled(at)
      BY <1>3 DEF Own
    <3>2. Settled(at)'
      BY <1>1, <1>3, <1>8, <1>9, <3>1 DEF Workers, Closed
    <3>3. ASSUME NEW d \in Workers, refersTo'[d] = at PROVE FALSE
      BY <1>1, <1>3, <3>3 DEF TypeOK, Own, Workers, Closed
    <3> QED
      BY <3>2, <3>3
  <2>5. \A v \in Workers : Forked(v)' <=> Forked(v)
    BY <1>1 DEF Forked
  <2>6. ASSUME NEW v \in Workers, PastRead(v)', Forked(v)
        PROVE  Settled(v)' /\ \A d \in Workers : refersTo'[d] # v
    <3>1. CASE v = at
      BY <1>1, <2>4, <2>6, <3>1 DEF Settled
    <3>2. CASE v # at
      <4>1. PastRead(v)
        BY <2>1, <2>6, <3>2
      <4>2. Settled(v) /\ \A d \in Workers : refersTo[d] # v
        BY <2>6, <4>1 DEF Past
      <4>3. v # Closed
        BY DEF Workers, Closed
      <4> QED
        BY <1>8, <2>3, <4>2, <4>3
    <3> QED
      BY <3>1, <3>2
  <2> QED
    BY <1>1, <2>2, <2>5, <2>6 DEF Past
<1>12. Stored'
  <2> SUFFICES ASSUME NEW t \in Tasks
               PROVE  result'[outputIndex(operation, t)] =
                        IF pipe'[t \div TasksPerWorker] = "taken" THEN value(operation, t) ELSE 0
    BY <1>1 DEF Stored
  <2> DEFINE v == t \div TasksPerWorker
  <2>1. v \in Workers /\ (w \in Workers => (t \in Chunk(w) <=> w = v))
    BY ChunkOfTask
  <2>2. result[outputIndex(operation, t)] = IF pipe[v] = "taken" THEN value(operation, t) ELSE 0
    BY DEF Stored
  <2>3. operation \in Operations
    BY DEF TypeOK
  <2> HIDE DEF v
  <2>4. CASE taken
    <3>1. result'[outputIndex(operation, t)] =
            IF t \in Chunk(w) THEN value(operation, t) ELSE result[outputIndex(operation, t)]
      BY <1>2, <1>4, <2>3, <2>4, ChunkIsStored
    <3>2. pipe'[v] = IF w = v THEN "taken" ELSE pipe[v]
      BY <1>2, <1>4, <2>1, <2>4 DEF TypeOK
    <3>3. result'[outputIndex(operation, t)] =
            IF pipe'[v] = "taken" THEN value(operation, t) ELSE 0
      BY <1>4, <2>1, <2>2, <2>4, <3>1, <3>2
    <3> QED
      BY <3>3 DEF v
  <2>5. CASE ~ taken
    BY <1>2, <2>2, <2>5 DEF v
  <2> QED
    BY <2>4, <2>5
<1> QED
  BY <1>5, <1>6, <1>7, <1>10, <1>11, <1>12

\* waitpid() reaps the worker's child, or some dead one for a worker without.
LEMMA ReapKeeps == Inductive /\ Reap => Inductive'
<1> SUFFICES ASSUME Inductive, Reap PROVE Inductive'
  OBVIOUS
<1> USE DEF Inductive
<1>1. /\ pc = "reap" /\ Loop(IF Together THEN "read" ELSE "fork", "return")
      /\ UNCHANGED <<operation, pipe, readEnd, refersTo, result>>
  BY DEF Reap
<1>2. /\ child' \in [Workers -> {"none", "running", "written", "dead", "reaped"}]
      /\ \A w \in Workers : child'[w] = child[w] \/ (child[w] = "dead" /\ child'[w] = "reaped")
      /\ child'[at] \in {"none", "reaped"}
  BY DEF Reap, TypeOK
<1>3. at \in Workers /\ at \in Nat /\ workerCount \in Nat
  BY WorkerCountPositive DEF TypeOK, Workers
<1>4. TypeOK'
  BY <1>1, <1>2, <1>3 DEF TypeOK, Loop, Workers
<1>5. \A w \in Workers : (Forked(w)' <=> Forked(w)) /\ (Settled(w) => Settled(w)')
  BY <1>1, <1>2 DEF Forked, Settled
<1>6. \A w \in Workers : Ahead(w)' => Ahead(w)
  BY <1>1, <1>3 DEF Ahead, Together, Loop, Workers
<1>7. \A w \in Workers : Ahead(w) => Ahead(w)' \/ pc' = "return"
  BY <1>1, <1>3 DEF Ahead, Together, Loop, Workers
<1>8. Order'
  <2>1. returned' # "nothing" <=> pc' = "return"
    BY <1>1 DEF Order, Loop
  <2> QED
    BY <1>1, <1>2, <1>5, <1>6, <1>7, <2>1 DEF Order
<1>9. \A w \in Workers : PastRead(w)' => PastRead(w)
  BY <1>1, <1>3 DEF PastRead, Together, Loop, Workers
<1>10. \A w \in Workers : PastReap(w)' => PastReap(w) \/ w = at
  BY <1>1, <1>3 DEF PastReap, Together, Loop, Workers
<1>11. Lowest'
  <2> SUFFICES ASSUME pc' = "fork"
               PROVE  0 \in 0 .. at' /\ \A d \in Workers : refersTo'[d] # Closed <=> d < 0
    BY DEF Lowest
  <2>1. ~ Together /\ at' = at + 1
    BY <1>1 DEF Loop
  <2>2. ASSUME NEW d \in Workers, refersTo[d] # Closed PROVE FALSE
    <3> DEFINE w == refersTo[d]
    <3>1. w \in Workers /\ Forked(w)
      BY <2>2 DEF TypeOK, Own
    <3>2. w <= at
      BY <1>1, <1>3, <2>1, <3>1 DEF Order, Ahead, Workers
    <3>3. PastRead(w)
      BY <1>1, <3>2 DEF PastRead
    <3> QED
      BY <3>1, <3>3 DEF Past
  <2> QED
    BY <1>1, <1>3, <2>1, <2>2 DEF Workers
<1>12. Own'
  BY <1>1, <1>2, <1>5 DEF TypeOK, Own, Forked
<1>13. Past'
  BY <1>1, <1>2, <1>5, <1>9, <1>10 DEF Past
<1>14. Stored'
  BY <1>1 DEF Stored
<1> QED
  BY <1>4, <1>8, <1>11, <1>12, <1>13, <1>14

\* A step of a child: it writes, or comes to an end.
LEMMA ChildKeeps ==
  ASSUME Inductive, NEW w \in Workers, Child(w) \/ Die(w)
  PROVE  Inductive'
<1> USE DEF Inductive
<1>1. /\ child[w] \in {"running", "written"}
      /\ UNCHANGED <<operation, pc, at, readEnd, refersTo, result, returned>>
  BY DEF Child, Write, Exit, Die
<1>2. \/ child' = [child EXCEPT ![w] = "written"] /\ pipe' = [pipe EXCEPT ![w] = "chunk"]
         /\ child[w] = "running"
      \/ child' = [child EXCEPT ![w] = "dead"] /\ pipe' = pipe
  BY DEF Child, Write, Exit, Die
<1>3. TypeOK'
  BY <1>1, <1>2 DEF TypeOK
<1>4. \A v \in Workers : (Forked(v)' <=> Forked(v)) /\ (Settled(v) => Settled(v)')
  BY <1>1, <1>2 DEF TypeOK, Order, Forked, Settled
<1>5. \A v \in Workers :
        (Ahead(v)' <=> Ahead(v)) /\ (PastRead(v)' <=> PastRead(v)) /\ (PastReap(v)' <=> PastReap(v))
  BY <1>1 DEF Ahead, PastRead, PastReap, Together
<1>6. Order'
  BY <1>1, <1>2, <1>4, <1>5 DEF TypeOK, Order
<1>7. Lowest'
  BY <1>1 DEF Lowest
<1>8. Own'
  BY <1>1, <1>2, <1>4 DEF TypeOK, Own, Forked
<1>9. Past'
  BY <1>1, <1>2, <1>4, <1>5 DEF TypeOK, Past
<1>10. Stored'
  <2>1. \A v \in Workers : pipe'[v] = "taken" <=> pipe[v] = "taken"
    BY <1>1, <1>2 DEF TypeOK, Order
  <2>2. \A t \in Tasks : t \div TasksPerWorker \in Workers
    BY ChunkOfTask
  <2> QED
    BY <1>1, <2>1, <2>2 DEF Stored
<1> QED
  BY <1>3, <1>6, <1>7, <1>8, <1>9, <1>10

\* Every step of the parent and of each child keeps the invariant.
LEMMA NextInvariant == Inductive /\ [Next]_vars => Inductive'
<1> SUFFICES ASSUME Inductive, [Next]_vars PROVE Inductive'
  OBVIOUS
<1>1. CASE PipeFails
  BY <1>1 DEF PipeFails, Inductive, TypeOK, Order, Lowest, Own, Past, Stored, Ahead, PastRead,
              PastReap, Forked, Settled, Together
<1>2. CASE UNCHANGED vars
  BY <1>2 DEF vars, Inductive, TypeOK, Order, Lowest, Own, Past, Stored, Ahead, PastRead,
              PastReap, Forked, Settled, Together
<1> QED
  BY <1>1, <1>2, ForkKeeps, ForkFailsKeeps, ReadKeeps, ReapKeeps, ChildKeeps DEF Next, Parent

\* The invariant the theorems below follow from.
LEMMA InductiveInvariant == Spec => []Inductive
<1> QED
  BY InitInvariant, NextInvariant, PTL DEF Spec

-----------------------------------------------------------------------------
(* What it shows *)

\* The pool's variables have their types: a descriptor in hand is one of as many
\* as there are workers.
THEOREM TypeCorrect == Spec => []TypeOK
<1> QED
  BY InductiveInvariant, PTL DEF Inductive

\* A matrix is returned with the chunk of every child that wrote one, and zeroes
\* for the others, whichever forks and children failed.
THEOREM ChunksArrive == Spec => []EveryChunkArrives
<1>1. Inductive => EveryChunkArrives
  <2> SUFFICES ASSUME Inductive, returned = "matrix", NEW t \in Tasks
               PROVE  result[outputIndex(operation, t)] =
                        IF Sent(t \div TasksPerWorker) THEN value(operation, t) ELSE 0
    BY DEF EveryChunkArrives
  <2> DEFINE w == t \div TasksPerWorker
  <2>1. w \in Workers
    BY ChunkOfTask
  <2>2. Forked(w) => Settled(w)
    BY <2>1 DEF Inductive, Past, PastRead
  <2>3. Sent(w) <=> pipe[w] = "taken"
    BY <2>1, <2>2 DEF Inductive, TypeOK, Order, Sent, Settled, Forked
  <2> HIDE DEF w
  <2>4. result[outputIndex(operation, t)] = IF pipe[w] = "taken" THEN value(operation, t) ELSE 0
    BY DEF Inductive, Stored, w
  <2>5. result[outputIndex(operation, t)] = IF Sent(w) THEN value(operation, t) ELSE 0
    BY <2>3, <2>4
  <2> QED
    BY <2>5 DEF w
<1> QED
  BY <1>1, InductiveInvariant, PTL

\* When no child failed to write, the matrix returned is the product, or the
\* transposed matrix.
THEOREM ResultIsTheMatrix == Spec => []ResultIsRight
<1>1. EveryChunkArrives /\ TypeOK => ResultIsRight
  <2> SUFFICES ASSUME EveryChunkArrives, TypeOK, returned = "matrix", \A w \in Workers : Sent(w)
               PROVE  IsRight(operation, result)
    BY DEF ResultIsRight
  <2>1. \A t \in Tasks : result[outputIndex(operation, t)] = value(operation, t)
    BY ChunkOfTask DEF EveryChunkArrives
  <2> QED
    BY <2>1, AllStoredIsRight DEF TypeOK
<1> QED
  BY <1>1, ChunksArrive, TypeCorrect, PTL

\* A call that returns a matrix has reaped every child and closed every pipe.
THEOREM NothingIsLeft == Spec => []NothingLeft
<1>1. Inductive => NothingLeft
  <2> SUFFICES ASSUME Inductive, returned = "matrix"
               PROVE  /\ \A w \in Workers : child[w] \in {"none", "reaped"}
                      /\ \A d \in Workers : refersTo[d] = Closed
    BY DEF NothingLeft
  <2>1. \A w \in Workers : child[w] \in {"none", "reaped"}
    BY DEF Inductive, Past, PastReap
  <2>2. ASSUME NEW d \in Workers, refersTo[d] # Closed PROVE FALSE
    <3>1. refersTo[d] \in Workers /\ Forked(refersTo[d])
      BY <2>2 DEF Inductive, TypeOK, Own
    <3> QED
      BY <3>1 DEF Inductive, Past, PastRead
  <2> QED
    BY <2>1, <2>2
<1> QED
  BY <1>1, InductiveInvariant, PTL

-----------------------------------------------------------------------------
(* That it implements Pool *)

\* A read() that brings a chunk delivers the words of its cells.
LEMMA ReadDelivers ==
  ASSUME Inductive, Read
  PROVE  Promise!Deliver \/ UNCHANGED Promise!promise
<1> PICK w : w = refersTo[readEnd[at]]
  OBVIOUS
<1>1. /\ pc = "read" /\ UNCHANGED <<operation, returned>>
      /\ IF w # Closed /\ pipe[w] = "chunk" THEN result' = WithChunk(w) ELSE UNCHANGED result
  BY DEF Read
<1>2. operation \in Operations /\ returned = "nothing"
  BY <1>1 DEF Inductive, TypeOK, Order
<1>3. CASE result' = WithChunk(w)
  <2> DEFINE some == {c \in Tasks : \E t \in Chunk(w) : outputIndex(operation, t) = c}
  <2>1. ASSUME NEW c \in Tasks, NEW t \in Chunk(w), outputIndex(operation, t) = c
        PROVE  value(operation, CHOOSE s \in Chunk(w) : outputIndex(operation, s) = c)
                 = RightWord(operation, c)
    <3> DEFINE s == CHOOSE s \in Chunk(w) : outputIndex(operation, s) = c
    <3>1. s \in Chunk(w) /\ outputIndex(operation, s) = c
      BY <2>1
    <3>2. s \in Tasks
      BY <3>1 DEF Chunk
    <3> HIDE DEF s
    <3>3. value(operation, s) = RightWord(operation, c)
      BY <1>2, <3>1, <3>2, ValueIsRight
    <3> QED
      BY <3>3 DEF s
  <2>2. result' = [c \in Tasks |-> IF c \in some THEN RightWord(operation, c) ELSE result[c]]
    BY <1>3, <2>1 DEF WithChunk
  <2> QED
    BY <1>1, <1>2, <2>2 DEF Promise!Deliver
<1>4. CASE result' = result
  BY <1>1, <1>4 DEF Promise!promise
<1> QED
  BY <1>1, <1>3, <1>4

\* The safety of the promise of a pool, but for cells that may be missing: words
\* that come in are the right ones, in their cells, and none comes after the return.
THEOREM ImplementsPromise == Spec => Promise!Spec
<1>1. Init => Promise!Init
  BY DEF Init, Promise!Init
<1>2. Inductive /\ [Next]_vars => [Promise!Next]_(Promise!promise)
  <2> SUFFICES ASSUME Inductive, [Next]_vars
               PROVE  Promise!Next \/ UNCHANGED Promise!promise
    OBVIOUS
  <2> USE DEF Promise!Next, Promise!promise
  <2>1. CASE Fork
    BY <2>1 DEF Fork, Loop
  <2>2. CASE ForkFails \/ Reap
    BY <2>2 DEF ForkFails, Reap, Loop, Promise!ReturnMatrix, Inductive, Order
  <2>3. CASE PipeFails
    BY <2>3 DEF PipeFails, Promise!GiveUp, Inductive, Order
  <2>4. CASE Read
    BY <2>4, ReadDelivers
  <2>5. ASSUME NEW w \in Workers, Child(w) \/ Die(w)
        PROVE  Promise!Next \/ UNCHANGED Promise!promise
    BY <2>5 DEF Child, Write, Exit, Die
  <2>6. CASE UNCHANGED vars
    BY <2>6 DEF vars
  <2> QED
    BY <2>1, <2>2, <2>3, <2>4, <2>5, <2>6 DEF Next, Parent
<1> QED
  BY <1>1, <1>2, InductiveInvariant, PTL DEF Spec, Promise!Spec

=============================================================================
