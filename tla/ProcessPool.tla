----------------------------- MODULE ProcessPool -----------------------------
(***************************************************************************)
(* The process pool of process_based_parallelism_taskLevel_IPC.c (and of   *)
(* its _B and user-input versions): one forked child per chunk writes one  *)
(* struct TransposeChunk to a pipe of its own, and the parent stores the   *)
(* values of the chunk where the chunk says they belong.                   *)
(*                                                                         *)
(* matrixMultipication forks all children and then reads pipe by pipe;     *)
(* matrixTransposition forks one child, reads its pipe and waits for it    *)
(* before it forks the next.  When fork fails both go on without that      *)
(* child; matrixMultipication then keeps the closed descriptor in its      *)
(* array, which the next pipe() hands out again, and the uninitialised     *)
(* entry of workerPids.                                                    *)
(***************************************************************************)
EXTENDS MatrixTasks

CONSTANT MayFail  \* pipe and fork may fail, a child may die before it writes

ASSUME PoolAssumption == MayFail \in BOOLEAN

VARIABLES
  operation, \* which of the two functions this is; never changes
  pc,       \* the parent: "fork" | "read" | "reap" | "return"
  at,       \* the parent: worker
  child,    \* "none" | "running" | "written" | "dead" | "reaped", per worker
  pipe,     \* "empty" | "chunk" | "taken", per worker
  readEnd,  \* resultPipes[worker][0], a number of descriptors
  refersTo, \* descriptor: the worker whose pipe it reads, or Closed
  result,   \* matrixC.arr
  returned  \* "nothing" | "matrix" | "zero"

vars == <<operation, pc, at, child, pipe, readEnd, refersTo, result, returned>>

Closed == -1

Together == operation = "multiplication"

Chunk(w) == {t \in Tasks : firstTask(w) <= t /\ t < lastTask(w)}

TypeOK ==
  /\ operation \in Operations
  /\ pc \in {"fork", "read", "reap", "return"}
  /\ at \in Workers
  /\ child \in [Workers -> {"none", "running", "written", "dead", "reaped"}]
  /\ pipe \in [Workers -> {"empty", "chunk", "taken"}]
  /\ readEnd \in [Workers -> Workers \cup {Closed}]
  /\ refersTo \in [Workers -> Workers \cup {Closed}]
  /\ DOMAIN result = Tasks
  /\ returned \in {"nothing", "matrix", "zero"}

Init ==
  /\ operation \in Operations
  /\ pc = "fork" /\ at = 0
  /\ child = [w \in Workers |-> "none"]
  /\ pipe = [w \in Workers |-> "empty"]
  /\ readEnd = [w \in Workers |-> Closed]
  /\ refersTo = [d \in Workers |-> Closed]
  /\ result = [i \in Tasks |-> 0]
  /\ returned = "nothing"

-----------------------------------------------------------------------------
(* The parent *)

\* pipe() takes the lowest free descriptor; write ends are closed before the
\* next pipe() and left out, so that descriptors are numbered 0, 1, 2, ...
NextDescriptor ==
  CHOOSE d \in Workers :
    refersTo[d] = Closed /\ \A e \in Workers : e < d => refersTo[e] # Closed

\* The next iteration of the loop over the workers, or what follows the loop.
Loop(pcMore, pcLast) ==
  IF at + 1 < workerCount
    THEN at' = at + 1 /\ pc' = pcMore /\ UNCHANGED returned
    ELSE /\ at' = 0 /\ pc' = pcLast
         /\ returned' = IF pcLast = "return" THEN "matrix" ELSE returned

Fork ==
  /\ pc = "fork"
  /\ readEnd' = [readEnd EXCEPT ![at] = NextDescriptor]
  /\ refersTo' = [refersTo EXCEPT ![NextDescriptor] = at]
  /\ child' = [child EXCEPT ![at] = "running"]
  /\ IF Together THEN Loop("fork", "read") ELSE pc' = "read" /\ UNCHANGED <<at, returned>>
  /\ UNCHANGED <<operation, pipe, result>>

\* The pipe is closed again and the loop goes on: in matrixMultipication the
\* worker is still read and waited for later.
ForkFails ==
  /\ pc = "fork" /\ MayFail
  /\ readEnd' = [readEnd EXCEPT ![at] = NextDescriptor]
  /\ Loop("fork", IF Together THEN "read" ELSE "return")
  /\ UNCHANGED <<operation, child, pipe, refersTo, result>>

\* The call gives up: earlier children are not waited for.
PipeFails ==
  /\ pc = "fork" /\ MayFail
  /\ pc' = "return" /\ returned' = "zero"
  /\ UNCHANGED <<operation, at, child, pipe, readEnd, refersTo, result>>

\* The chunk of worker w, stored where its own outputIndex says.
WithChunk(w) ==
  [o \in Tasks |->
     IF \E t \in Chunk(w) : outputIndex(operation, t) = o
       THEN value(operation, CHOOSE t \in Chunk(w) : outputIndex(operation, t) = o)
       ELSE result[o]]

\* Mutant: the parent still holds the write end when it reads.
ReadWithoutEof ==
  LET w == refersTo[readEnd[at]]
  IN  /\ pc = "read"
      /\ w # Closed => pipe[w] = "chunk"
      /\ IF w # Closed
           THEN result' = WithChunk(w) /\ pipe' = [pipe EXCEPT ![w] = "taken"]
           ELSE UNCHANGED <<result, pipe>>
      /\ refersTo' = [refersTo EXCEPT ![readEnd[at]] = Closed]
      /\ pc' = "reap"
      /\ UNCHANGED <<operation, at, child, readEnd, returned>>

\* read() of a whole chunk, then close().  The descriptor may be closed, or
\* refer to the pipe of a later worker; a pipe whose child is gone is at its end.
Read ==
  LET w == refersTo[readEnd[at]]
  IN  /\ pc = "read"
      /\ w # Closed => pipe[w] = "chunk" \/ child[w] \in {"dead", "reaped"}
      /\ IF w # Closed /\ pipe[w] = "chunk"
           THEN result' = WithChunk(w) /\ pipe' = [pipe EXCEPT ![w] = "taken"]
           ELSE UNCHANGED <<result, pipe>>
      /\ refersTo' = [refersTo EXCEPT ![readEnd[at]] = Closed]
      /\ pc' = "reap"
      /\ UNCHANGED <<operation, at, child, readEnd, returned>>

\* Mutant: waitpid does not wait.
ReapNoHang ==
  /\ pc = "reap"
  /\ child' = [child EXCEPT ![at] = IF @ = "dead" THEN "reaped" ELSE @]
  /\ Loop(IF Together THEN "read" ELSE "fork", "return")
  /\ UNCHANGED <<operation, pipe, readEnd, refersTo, result>>

\* waitpid of the worker's child.  Without a child the pid is uninitialised: no
\* process has it, or it stands for some child, which is reaped here instead.
Reap ==
  /\ pc = "reap"
  /\ IF child[at] # "none"
       THEN /\ child[at] \in {"dead", "reaped"}
            /\ child' = [child EXCEPT ![at] = "reaped"]
       ELSE \/ child' = child
            \/ \E v \in Workers : child[v] = "dead" /\ child' = [child EXCEPT ![v] = "reaped"]
  /\ Loop(IF Together THEN "read" ELSE "fork", "return")
  /\ UNCHANGED <<operation, pipe, readEnd, refersTo, result>>

-----------------------------------------------------------------------------
(* A child *)

\* The chunk is smaller than PIPE_BUF: one write(), whole and never blocked.
Write(w) ==
  /\ child[w] = "running"
  /\ pipe' = [pipe EXCEPT ![w] = "chunk"]
  /\ child' = [child EXCEPT ![w] = "written"]
  /\ UNCHANGED <<operation, pc, at, readEnd, refersTo, result, returned>>

\* _exit(0).
Exit(w) ==
  /\ child[w] = "written"
  /\ child' = [child EXCEPT ![w] = "dead"]
  /\ UNCHANGED <<operation, pc, at, pipe, readEnd, refersTo, result, returned>>

\* A death before the write.
Die(w) ==
  /\ MayFail /\ child[w] = "running"
  /\ child' = [child EXCEPT ![w] = "dead"]
  /\ UNCHANGED <<operation, pc, at, pipe, readEnd, refersTo, result, returned>>

Parent == Fork \/ ForkFails \/ PipeFails \/ Read \/ Reap

Child(w) == Write(w) \/ Exit(w)

Next == Parent \/ \E w \in Workers : Child(w) \/ Die(w)

Spec == Init /\ [][Next]_vars

\* The scheduler runs the parent and every child, which need not die.
FairSpec ==
  Spec /\ WF_vars(Parent) /\ \A w \in Workers : WF_vars(Child(w))

-----------------------------------------------------------------------------

Sent(w) == pipe[w] # "empty"

\* Whatever fails, the chunk of every child that wrote it is in the matrix
\* returned, and the cells of the others are 0: no chunk is dropped, or stored
\* as another's, because a descriptor was handed out twice.
EveryChunkArrives ==
  returned = "matrix" =>
    \A t \in Tasks : result[outputIndex(operation, t)] =
      IF Sent(t \div TasksPerWorker) THEN value(operation, t) ELSE 0

\* When every child wrote its chunk, the matrix returned is the right one.
ResultIsRight ==
  returned = "matrix" /\ (\A w \in Workers : Sent(w)) => IsRight(operation, result)

\* A call that returns a matrix leaves no child unreaped and no pipe open.
NothingLeft ==
  returned = "matrix" =>
    /\ \A w \in Workers : child[w] \in {"none", "reaped"}
    /\ \A d \in Workers : refersTo[d] = Closed

Promise == INSTANCE Pool WITH Cells <- Tasks, Right <- RightWord, Partial <- TRUE

\* With what its children send, a pool of processes implements the same promise
\* as one of threads, but for the cells of children that failed: no read() waits
\* for a child that is gone, and every call returns.
ImplementsPool == Promise!FairSpec

-----------------------------------------------------------------------------
(* The inductive invariant behind them *)

Forked(w) == child[w] # "none"

\* The loop that forks has not come to w yet.
Ahead(w) ==
  \/ pc = "fork" /\ w >= at
  \/ ~ Together /\ pc \in {"read", "reap"} /\ w > at

\* The pipe of w was read, or will never have anything to read.
Settled(w) == pipe[w] = "taken" \/ (pipe[w] = "empty" /\ child[w] \in {"dead", "reaped"})

\* The loop that reads is past the read(), or past the waitpid(), of w.
PastRead(w) ==
  \/ returned = "matrix"
  \/ pc = "read" /\ w < at
  \/ pc = "reap" /\ w <= at
  \/ ~ Together /\ pc = "fork" /\ w < at

PastReap(w) ==
  \/ returned = "matrix"
  \/ pc \in {"read", "reap"} /\ w < at
  \/ ~ Together /\ pc = "fork" /\ w < at

\* The call returns last, and a child writes after it was forked.
Order ==
  /\ returned # "nothing" <=> pc = "return"
  /\ \A w \in Workers : Ahead(w) => ~ Forked(w)
  /\ \A w \in Workers : readEnd[w] = Closed => Ahead(w) \/ pc = "return"
  /\ \A w \in Workers : child[w] \in {"none", "running"} => pipe[w] = "empty"

\* While children are forked, the descriptors in use are the lowest.
Lowest ==
  pc = "fork" => \E k \in 0 .. at : \A d \in Workers : refersTo[d] # Closed <=> d < k

\* A child's entry of resultPipes is its pipe, unless a failed entry that had the
\* same number was read in its stead.
Own ==
  /\ \A w \in Workers : Forked(w) =>
       readEnd[w] \in Workers /\ (refersTo[readEnd[w]] = w \/ Settled(w))
  /\ \A d \in Workers : refersTo[d] # Closed =>
       Forked(refersTo[d]) /\ readEnd[refersTo[d]] = d

\* A child that was read is settled and its pipe closed, one waited for is reaped.
Past ==
  /\ \A w \in Workers : PastRead(w) /\ Forked(w) =>
       Settled(w) /\ \A d \in Workers : refersTo[d] # w
  /\ \A w \in Workers : PastReap(w) => child[w] \in {"none", "reaped"}

\* The result has the chunks that were taken, and nothing else.
Stored ==
  \A t \in Tasks : result[outputIndex(operation, t)] =
    IF pipe[t \div TasksPerWorker] = "taken" THEN value(operation, t) ELSE 0

Inductive == TypeOK /\ Order /\ Lowest /\ Own /\ Past /\ Stored

=============================================================================
