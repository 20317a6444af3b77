-------------------------- MODULE OperationThreads --------------------------
(***************************************************************************)
(* main of thread_based_concurrency_taskLevel.c and of its user-input      *)
(* version: a thread per operation, each with a pool of threads of its     *)
(* own, all reading the two matrices main allocated and frees.  And main   *)
(* of thread_based_concurrency.c, whose operations compute alone.          *)
(* TaskPool and AverageTasks say what a pool computes; here a thread of a  *)
(* pool only reads.                                                        *)
(*                                                                         *)
(* When a thread of an operation cannot be created, main frees the         *)
(* matrices and returns at once, with the earlier operations still running *)
(* until the process is gone.                                              *)
(***************************************************************************)
EXTENDS Integers

CONSTANTS
  workerCount,  \* threads of a pool
  MayFail       \* pthread_create may fail

ASSUME OperationThreadsAssumption == workerCount \in Nat \ {0} /\ MayFail \in BOOLEAN

\* operations[0], [1] and [2]: multiplication, transposition and average.
Operations == 0 .. 2
Workers == 0 .. (workerCount - 1)

VARIABLES
  pools,    \* which of the two programs this is; never changes
  pc,       \* main: "create" | "join" | "return" | "exited"
  started,  \* main: operations created
  done,     \* main: operations joined
  freed,    \* main has freed both matrices
  status,   \* main: what it returns, "failure" or "success"
  operation,\* "none" | "create" | "join" | "alone" | "ended", per operation
  created,  \* createdWorkers, per operation
  joined,   \* threads joined so far, per operation
  thread,   \* "none" | "reading" | "ended", per operation and worker
  result    \* "none" | "matrix" | "zero": what the operation left

vars == <<pools, pc, started, done, freed, status, operation, created, joined, thread, result>>
pool == <<operation, created, joined, thread, result>>

TypeOK ==
  /\ pools \in BOOLEAN
  /\ pc \in {"create", "join", "return", "exited"}
  /\ started \in 0 .. 3 /\ done \in 0 .. 3
  /\ freed \in BOOLEAN
  /\ status \in {"failure", "success"}
  /\ operation \in [Operations -> {"none", "create", "join", "alone", "ended"}]
  /\ created \in [Operations -> 0 .. workerCount]
  /\ joined \in [Operations -> 0 .. workerCount]
  /\ thread \in [Operations -> [Workers -> {"none", "reading", "ended"}]]
  /\ result \in [Operations -> {"none", "matrix", "zero"}]

Init ==
  /\ pools \in BOOLEAN
  /\ pc = "create" /\ started = 0 /\ done = 0 /\ freed = FALSE /\ status = "success"
  /\ operation = [o \in Operations |-> "none"]
  /\ created = [o \in Operations |-> 0]
  /\ joined = [o \in Operations |-> 0]
  /\ thread = [o \in Operations |-> [w \in Workers |-> "none"]]
  /\ result = [o \in Operations |-> "none"]

-----------------------------------------------------------------------------
(* main *)

StartOperation ==
  /\ pc = "create" /\ started < 3
  /\ operation' = [operation EXCEPT ![started] = IF pools THEN "create" ELSE "alone"]
  /\ started' = started + 1
  /\ pc' = IF started' = 3 THEN "join" ELSE "create"
  /\ UNCHANGED <<pools, done, freed, status, created, joined, thread, result>>

\* Both matrices are freed, whoever still reads them, and main returns.
GiveUp ==
  /\ pc = "create" /\ started < 3 /\ MayFail
  /\ freed' = TRUE
  /\ status' = "failure"
  /\ pc' = "return"
  /\ UNCHANGED <<pools, started, done, pool>>

JoinOperation ==
  /\ pc = "join" /\ done < 3
  /\ operation[done] = "ended"
  /\ done' = done + 1
  /\ UNCHANGED <<pools, pc, started, freed, status, pool>>

\* Mutant: the average, which leaves no matrix behind, is not joined.
FreeAllTooEarly ==
  /\ pc = "join" /\ done = 2
  /\ freed' = TRUE
  /\ pc' = "return"
  /\ UNCHANGED <<pools, started, done, status, pool>>

\* The matrices and the two results are freed.
FreeAll ==
  /\ pc = "join" /\ done = 3
  /\ freed' = TRUE
  /\ pc' = "return"
  /\ UNCHANGED <<pools, started, done, status, pool>>

\* The return of main ends the process, and every thread with it.
Exit ==
  /\ pc = "return"
  /\ pc' = "exited"
  /\ UNCHANGED <<pools, started, done, freed, status, pool>>

-----------------------------------------------------------------------------
(* The thread of an operation: the pool it runs *)

Running == pc # "exited"

Create(o) ==
  /\ Running /\ operation[o] = "create" /\ created[o] < workerCount
  /\ thread' = [thread EXCEPT ![o][created[o]] = "reading"]
  /\ created' = [created EXCEPT ![o] = created[o] + 1]
  /\ UNCHANGED <<pools, pc, started, done, freed, status, operation, joined, result>>

CreateEnds(o) ==
  /\ Running /\ operation[o] = "create"
  /\ created[o] = workerCount \/ MayFail
  /\ operation' = [operation EXCEPT ![o] = "join"]
  /\ UNCHANGED <<pools, pc, started, done, freed, status, created, joined, thread, result>>

Join(o) ==
  /\ Running /\ operation[o] = "join" /\ joined[o] < created[o]
  /\ thread[o][joined[o]] = "ended"
  /\ joined' = [joined EXCEPT ![o] = joined[o] + 1]
  /\ UNCHANGED <<pools, pc, started, done, freed, status, operation, created, thread, result>>

\* Mutant: threads that were never created are waited for.
ReturnAfterAll(o) ==
  /\ Running /\ operation[o] = "join" /\ joined[o] = workerCount
  /\ result' = [result EXCEPT ![o] = IF created[o] = workerCount THEN "matrix" ELSE "zero"]
  /\ operation' = [operation EXCEPT ![o] = "ended"]
  /\ UNCHANGED <<pools, pc, started, done, freed, status, created, joined, thread>>

\* The pool returns and its result is stored where main will find it.
Return(o) ==
  /\ Running /\ operation[o] = "join" /\ joined[o] = created[o]
  /\ result' = [result EXCEPT ![o] = IF created[o] = workerCount THEN "matrix" ELSE "zero"]
  /\ operation' = [operation EXCEPT ![o] = "ended"]
  /\ UNCHANGED <<pools, pc, started, done, freed, status, created, joined, thread>>

\* The operation computes its result itself.
ComputeAlone(o) ==
  /\ Running /\ operation[o] = "alone"
  /\ result' = [result EXCEPT ![o] = "matrix"]
  /\ operation' = [operation EXCEPT ![o] = "ended"]
  /\ UNCHANGED <<pools, pc, started, done, freed, status, created, joined, thread>>

\* A thread of the pool is through with its chunk.
End(o, w) ==
  /\ Running /\ thread[o][w] = "reading"
  /\ thread' = [thread EXCEPT ![o][w] = "ended"]
  /\ UNCHANGED <<pools, pc, started, done, freed, status, operation, created, joined, result>>

Main == StartOperation \/ GiveUp \/ JoinOperation \/ FreeAll \/ Exit

Operation(o) == Create(o) \/ CreateEnds(o) \/ Join(o) \/ Return(o) \/ ComputeAlone(o)

Next == Main \/ \E o \in Operations : Operation(o) \/ \E w \in Workers : End(o, w)

Spec == Init /\ [][Next]_vars

\* The scheduler runs every thread.
FairSpec ==
  /\ Spec
  /\ WF_vars(Main)
  /\ \A o \in Operations : WF_vars(Operation(o)) /\ \A w \in Workers : WF_vars(End(o, w))

-----------------------------------------------------------------------------

\* Somebody reads the matrices.
Read ==
  \E o \in Operations : operation[o] = "alone" \/ \E w \in Workers : thread[o][w] = "reading"

\* While an operation or a thread of its pool reads the matrices they are not
\* freed, unless main gave up: joining the three operations is enough, for each
\* has joined its own pool, also when one of its threads could not be created.
FreedWhenDone == freed /\ Read => status = "failure"

\* A process that exits with success has the result of all three operations,
\* which may be that of a pool that gave up.
SuccessMeansAll ==
  pc = "exited" /\ status = "success" => \A o \in Operations : result[o] # "none"

-----------------------------------------------------------------------------
(* Who waits for whom *)

\* main waits in pthread_join() for an operation, an operation for a thread.
MainJoins == pc = "join" /\ done < 3 /\ operation[done] # "ended"

OperationWaits(o) ==
  operation[o] = "join" /\ joined[o] < created[o] /\ thread[o][joined[o]] # "ended"

\* main does not wait for an operation that waits for a thread that is not there:
\* while it waits there is an operation that need not, or a thread of a pool that
\* runs, however many threads could not be created.
NeverStuck ==
  ~ /\ MainJoins
    /\ \A o \in Operations :
         /\ operation[o] \in {"none", "ended"} \/ OperationWaits(o)
         /\ \A w \in Workers : thread[o][w] # "reading"

-----------------------------------------------------------------------------
(* The inductive invariant behind them *)

\* An operation that ended has joined every thread it created, in order.
PoolsJoined ==
  \A o \in Operations :
    /\ joined[o] <= created[o]
    /\ operation[o] \in {"none", "alone"} => created[o] = 0
    /\ operation[o] = "ended" => joined[o] = created[o] /\ result[o] # "none"
    /\ \A w \in Workers : w >= created[o] => thread[o][w] = "none"
    /\ \A w \in Workers : w < joined[o] => thread[o][w] = "ended"

\* Operations that main joined have ended, and it frees after the third.
OperationsJoined ==
  /\ pc = "create" => done = 0
  /\ \A o \in Operations : o >= started => operation[o] = "none"
  /\ \A o \in Operations : o < done => operation[o] = "ended"
  /\ freed \/ pc \in {"return", "exited"} => done = 3 \/ status = "failure"

Inductive == TypeOK /\ PoolsJoined /\ OperationsJoined

=============================================================================
