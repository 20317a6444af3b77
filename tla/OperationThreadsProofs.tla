----------------------- MODULE OperationThreadsProofs -----------------------
(***************************************************************************)
(* What holds of the programs that run the three operations side by side.  *)
(* Of the threads of OperationThreads, for any size of pool: the           *)
(* conjunction Inductive of that module is an invariant, and the safety    *)
(* properties follow.  Of the processes with pipes, for any results and    *)
(* any pipe, of part B, for any matrices, and of those without pipes, for  *)
(* any number of workers: that what is sent is read, that they do not wait *)
(* for each other in a circle, and that what is printed is right.          *)
(***************************************************************************)
EXTENDS MCOperations, TLAPS

USE DEF Operations, Workers

\* Nothing is created, joined or freed at the start.
LEMMA InitInvariant == Init => Inductive
<1> SUFFICES ASSUME Init PROVE Inductive
  OBVIOUS
<1> USE OperationThreadsAssumption DEF Init
<1>1. TypeOK
  <2>1. 0 \in 0 .. workerCount
    OBVIOUS
  <2>2. /\ created \in [Operations -> 0 .. workerCount]
        /\ joined \in [Operations -> 0 .. workerCount]
    BY <2>1
  <2>3. thread \in [Operations -> [Workers -> {"none", "reading", "ended"}]]
    OBVIOUS
  <2>4. /\ operation \in [Operations -> {"none", "create", "join", "alone", "ended"}]
        /\ result \in [Operations -> {"none", "matrix", "zero"}]
    OBVIOUS
  <2>5. /\ pc \in {"create", "join", "return", "exited"}
        /\ started \in 0 .. 3 /\ done \in 0 .. 3
        /\ status \in {"failure", "success"}
    OBVIOUS
  <2>6. freed \in BOOLEAN /\ pools \in BOOLEAN
    OBVIOUS
  <2>7. QED
    BY <2>2, <2>3, <2>4, <2>5, <2>6, Zenon DEF TypeOK
<1>2. PoolsJoined
  BY DEF PoolsJoined
<1>3. OperationsJoined
  BY DEF OperationsJoined
<1>4. QED
  BY <1>1, <1>2, <1>3 DEF Inductive

\* Every step keeps the invariant; main and the threads meet only where main
\* joins an operation, and an operation its pool.
LEMMA NextInvariant == Inductive /\ [Next]_vars => Inductive'
<1> SUFFICES ASSUME Inductive, [Next]_vars PROVE Inductive'
  OBVIOUS
<1> USE OperationThreadsAssumption DEF Inductive
<1>1. CASE StartOperation
  <2>1. TypeOK'
    BY <1>1 DEF StartOperation, TypeOK
  <2>2. PoolsJoined'
    <3>1. started \in Operations /\ operation[started] = "none"
      BY <1>1 DEF StartOperation, OperationsJoined, TypeOK
    <3>2. /\ \A o \in Operations : o # started => operation'[o] = operation[o]
          /\ operation'[started] \in {"create", "alone"}
      BY <1>1, <3>1 DEF StartOperation, TypeOK
    <3>3. QED
      BY <1>1, <3>1, <3>2 DEF StartOperation, PoolsJoined
  <2>3. OperationsJoined'
    BY <1>1 DEF StartOperation, OperationsJoined, TypeOK
  <2>4. QED
    BY <2>1, <2>2, <2>3
<1>2. CASE GiveUp
  <2>1. TypeOK'
    BY <1>2 DEF GiveUp, pool, TypeOK
  <2>2. PoolsJoined'
    BY <1>2 DEF GiveUp, pool, PoolsJoined, TypeOK
  <2>3. OperationsJoined'
    BY <1>2 DEF GiveUp, pool, OperationsJoined, TypeOK
  <2>4. QED
    BY <2>1, <2>2, <2>3
<1>3. CASE JoinOperation
  <2>1. TypeOK'
    BY <1>3 DEF JoinOperation, pool, TypeOK
  <2>2. PoolsJoined'
    BY <1>3 DEF JoinOperation, pool, PoolsJoined, TypeOK
  <2>3. OperationsJoined'
    BY <1>3 DEF JoinOperation, pool, OperationsJoined, TypeOK
  <2>4. QED
    BY <2>1, <2>2, <2>3
<1>4. CASE FreeAll
  <2>1. TypeOK'
    BY <1>4 DEF FreeAll, pool, TypeOK
  <2>2. PoolsJoined'
    BY <1>4 DEF FreeAll, pool, PoolsJoined, TypeOK
  <2>3. OperationsJoined'
    BY <1>4 DEF FreeAll, pool, OperationsJoined, TypeOK
  <2>4. QED
    BY <2>1, <2>2, <2>3
<1>5. CASE Exit
  <2>1. TypeOK'
    BY <1>5 DEF Exit, pool, TypeOK
  <2>2. PoolsJoined'
    BY <1>5 DEF Exit, pool, PoolsJoined, TypeOK
  <2>3. OperationsJoined'
    BY <1>5 DEF Exit, pool, OperationsJoined, TypeOK
  <2>4. QED
    BY <2>1, <2>2, <2>3
<1>6. ASSUME NEW o \in Operations, Create(o) PROVE Inductive'
  <2> DEFINE threads == [thread[o] EXCEPT ![created[o]] = "reading"]
  <2>1. thread \in [Operations -> [Workers -> {"none", "reading", "ended"}]]
    BY DEF TypeOK
  <2>2. thread[o] \in [Workers -> {"none", "reading", "ended"}]
    BY <2>1
  <2>3. thread' = [thread EXCEPT ![o] = threads]
    BY <1>6, Zenon DEF Create
  <2>4. created[o] \in 0 .. workerCount /\ created[o] < workerCount
    BY <1>6 DEF Create, TypeOK
  <2>5. /\ o \in 0 .. 2 /\ created[o] \in Nat /\ created[o] < workerCount
        /\ thread' = [thread EXCEPT ![o] = threads]
        /\ thread[o] \in [Workers -> {"none", "reading", "ended"}]
    BY <2>2, <2>3, <2>4
  <2>6. threads \in [Workers -> {"none", "reading", "ended"}]
    BY <2>5
  <2>7. TypeOK'
    <3>1. thread' \in [Operations -> [Workers -> {"none", "reading", "ended"}]]
      BY <2>5, <2>6 DEF TypeOK
    <3>2. created' \in [Operations -> 0 .. workerCount]
      BY <1>6, <2>5 DEF Create, TypeOK
    <3>3. QED
      BY <1>6, <3>1, <3>2 DEF Create, TypeOK
  <2>8. PoolsJoined'
    <3>1. ASSUME NEW p \in Operations, p # o
          PROVE  thread'[p] = thread[p] /\ created'[p] = created[p]
      BY <1>6, <2>5, <3>1 DEF Create, TypeOK
    <3>2. thread'[o] = threads /\ created'[o] = created[o] + 1
      BY <1>6, <2>5 DEF Create, TypeOK
    <3>3. \A w \in Workers : w # created[o] => threads[w] = thread[o][w]
      BY <2>5
    <3>4. joined[o] \in Nat
      BY DEF TypeOK
    <3>5. ASSUME NEW p \in Operations
          PROVE  /\ joined'[p] <= created'[p]
                 /\ operation'[p] \in {"none", "alone"} => created'[p] = 0
                 /\ operation'[p] = "ended" => joined'[p] = created'[p] /\ result'[p] # "none"
                 /\ \A w \in Workers : w >= created'[p] => thread'[p][w] = "none"
                 /\ \A w \in Workers : w < joined'[p] => thread'[p][w] = "ended"
      <4>1. CASE p = o
        BY <1>6, <2>5, <3>2, <3>3, <3>4, <4>1 DEF Create, PoolsJoined
      <4>2. CASE p # o
        BY <1>6, <3>1, <4>2 DEF Create, PoolsJoined
      <4>3. QED
        BY <4>1, <4>2
    <3>6. QED
      BY <3>5 DEF PoolsJoined
  <2>9. OperationsJoined'
    BY <1>6 DEF Create, OperationsJoined, TypeOK
  <2>10. QED
    BY <2>7, <2>8, <2>9
<1>7. ASSUME NEW o \in Operations, CreateEnds(o) PROVE Inductive'
  <2>1. TypeOK'
    BY <1>7 DEF CreateEnds, TypeOK
  <2>2. PoolsJoined'
    BY <1>7 DEF CreateEnds, PoolsJoined, TypeOK
  <2>3. OperationsJoined'
    BY <1>7 DEF CreateEnds, OperationsJoined, TypeOK
  <2>4. QED
    BY <2>1, <2>2, <2>3
<1>8. ASSUME NEW o \in Operations, Join(o) PROVE Inductive'
  <2>1. TypeOK'
    BY <1>8 DEF Join, TypeOK
  <2>2. PoolsJoined'
    <3>1. /\ created[o] \in Nat /\ joined[o] \in Nat /\ joined'[o] = joined[o] + 1
          /\ \A p \in Operations : p # o => joined'[p] = joined[p]
      BY <1>8 DEF Join, TypeOK
    <3>2. \A w \in Workers : w < joined'[o] => thread[o][w] = "ended"
      BY <1>8, <3>1 DEF Join, PoolsJoined
    <3>3. QED
      BY <1>8, <3>1, <3>2 DEF Join, PoolsJoined
  <2>3. OperationsJoined'
    BY <1>8 DEF Join, OperationsJoined, TypeOK
  <2>4. QED
    BY <2>1, <2>2, <2>3
<1>9. ASSUME NEW o \in Operations, Return(o) PROVE Inductive'
  <2>1. TypeOK'
    BY <1>9 DEF Return, TypeOK
  <2>2. PoolsJoined'
    BY <1>9 DEF Return, PoolsJoined, TypeOK
  <2>3. OperationsJoined'
    BY <1>9 DEF Return, OperationsJoined, TypeOK
  <2>4. QED
    BY <2>1, <2>2, <2>3
<1>10. ASSUME NEW o \in Operations, NEW w \in Workers, End(o, w) PROVE Inductive'
  <2>1. TypeOK'
    BY <1>10 DEF End, TypeOK
  <2>2. PoolsJoined'
    <3>1. \A p \in Operations : \A v \in Workers :
            thread'[p][v] = thread[p][v] \/ (thread[p][v] = "reading" /\ thread'[p][v] = "ended")
      BY <1>10 DEF End, TypeOK
    <3> QED
      BY <1>10, <3>1 DEF End, PoolsJoined
  <2>3. OperationsJoined'
    BY <1>10 DEF End, OperationsJoined, TypeOK
  <2>4. QED
    BY <2>1, <2>2, <2>3
<1>11. ASSUME NEW o \in Operations, ComputeAlone(o) PROVE Inductive'
  <2>1. TypeOK'
    BY <1>11 DEF ComputeAlone, TypeOK
  <2>2. PoolsJoined'
    BY <1>11 DEF ComputeAlone, PoolsJoined, TypeOK
  <2>3. OperationsJoined'
    BY <1>11 DEF ComputeAlone, OperationsJoined, TypeOK
  <2>4. QED
    BY <2>1, <2>2, <2>3
<1>12. CASE UNCHANGED vars
  BY <1>12 DEF vars, TypeOK, PoolsJoined, OperationsJoined
<1>13. QED
  BY <1>1, <1>2, <1>3, <1>4, <1>5, <1>6, <1>7, <1>8, <1>9, <1>10, <1>11, <1>12
  DEF Next, Main, Operation

\* The invariant holds of every execution.
LEMMA InductiveInvariant == Spec => []Inductive
  BY InitInvariant, NextInvariant, PTL DEF Spec

\* The variables keep their types: no pool creates a thread it has no slot for.
THEOREM TypeCorrect == Spec => []TypeOK
<1>1. Inductive => TypeOK
  BY DEF Inductive
<1>2. QED
  BY <1>1, InductiveInvariant, PTL

\* main frees the matrices after the last thread that reads them is through, unless it
\* gives up.
THEOREM MatricesOutliveThreads == Spec => []FreedWhenDone
<1>1. Inductive => FreedWhenDone
  <2>1. SUFFICES ASSUME Inductive, freed, status # "failure", NEW o \in Operations
                 PROVE  /\ operation[o] # "alone"
                        /\ \A w \in Workers : thread[o][w] # "reading"
    BY DEF FreedWhenDone, Read
  <2>2. operation[o] = "ended"
    BY <2>1 DEF Inductive, OperationsJoined
  <2>3. joined[o] = created[o]
    BY <2>1, <2>2 DEF Inductive, PoolsJoined
  <2>4. created[o] \in Nat
    BY <2>1, OperationThreadsAssumption DEF Inductive, TypeOK
  <2>5. ASSUME NEW w \in Workers PROVE thread[o][w] \in {"none", "ended"}
    BY <2>1, <2>3, <2>4 DEF Inductive, PoolsJoined
  <2>6. QED
    BY <2>2, <2>5
<1>2. QED
  BY <1>1, InductiveInvariant, PTL

\* A process that exits with success has every result.
THEOREM SuccessIsComplete == Spec => []SuccessMeansAll
<1>1. Inductive => SuccessMeansAll
  BY DEF Inductive, SuccessMeansAll, OperationsJoined, PoolsJoined
<1>2. QED
  BY <1>1, InductiveInvariant, PTL

\* What main or an operation may wait for was begun.
Begun ==
  /\ pc = "join" => started = 3
  /\ \A o \in Operations : o < started => operation[o] # "none"
  /\ \A o \in Operations : \A w \in Workers : w < created[o] => thread[o][w] # "none"

\* Nothing that was begun is undone.
LEMMA BegunKept == Inductive /\ Begun /\ [Next]_vars => Begun'
<1> SUFFICES ASSUME Inductive, Begun, [Next]_vars PROVE Begun'
  OBVIOUS
<1>1. CASE UNCHANGED vars
  BY <1>1 DEF vars, Begun
<1>2. CASE Main
  BY <1>2 DEF Main, StartOperation, GiveUp, JoinOperation, FreeAll, Exit, pool, Begun,
     Inductive, TypeOK
<1>3. ASSUME NEW p \in Operations, Operation(p) PROVE Begun'
  <2>1. CASE Create(p)
    <3>1. /\ created[p] \in Workers /\ created' = [created EXCEPT ![p] = created[p] + 1]
          /\ thread' = [thread EXCEPT ![p][created[p]] = "reading"]
          /\ UNCHANGED <<pc, started, operation>>
      BY <2>1, OperationThreadsAssumption DEF Create, Inductive, TypeOK
    <3>2. ASSUME NEW o \in Operations, NEW w \in Workers, w < created'[o]
          PROVE  thread'[o][w] # "none"
      <4>1. CASE o = p /\ w = created[p]
        BY <3>1, <4>1 DEF Inductive, TypeOK
      <4>2. CASE o # p \/ w # created[p]
        <5>1. thread'[o][w] = thread[o][w]
          BY <3>1, <4>2 DEF Inductive, TypeOK
        <5>2. w < created[o]
          BY <3>1, <3>2, <4>2 DEF Inductive, TypeOK
        <5> QED
          BY <5>1, <5>2 DEF Begun
      <4> QED
        BY <4>1, <4>2
    <3> QED
      BY <3>1, <3>2 DEF Begun
  <2>2. CASE CreateEnds(p)
    BY <2>2 DEF CreateEnds, Begun, Inductive, TypeOK
  <2>3. CASE Join(p)
    BY <2>3 DEF Join, Begun
  <2>4. CASE Return(p) \/ ComputeAlone(p)
    BY <2>4 DEF Return, ComputeAlone, Begun, Inductive, TypeOK
  <2> QED
    BY <1>3, <2>1, <2>2, <2>3, <2>4 DEF Operation
<1>4. ASSUME NEW p \in Operations, NEW v \in Workers, End(p, v) PROVE Begun'
  <2>1. /\ thread' = [thread EXCEPT ![p][v] = "ended"]
        /\ UNCHANGED <<pc, started, operation, created>>
    BY <1>4 DEF End
  <2>2. ASSUME NEW o \in Operations, NEW w \in Workers, w < created[o]
        PROVE  thread'[o][w] # "none"
    BY <2>1, <2>2 DEF Begun, Inductive, TypeOK
  <2> QED
    BY <2>1, <2>2 DEF Begun
<1> QED
  BY <1>1, <1>2, <1>3, <1>4 DEF Next

\* main and the operations never all wait: the loops of the pools join the
\* createdWorkers threads there are and no more, and main joins its three
\* operations only when it has created them all
\* (thread_based_concurrency_taskLevel.c:181 and 465).
THEOREM JoinsNeverStick == Spec => []NeverStuck
<1>1. Inductive /\ Begun => NeverStuck
  <2> SUFFICES ASSUME Inductive, Begun, MainJoins,
                      \A o \in Operations :
                        /\ operation[o] \in {"none", "ended"} \/ OperationWaits(o)
                        /\ \A w \in Workers : thread[o][w] # "reading"
               PROVE  FALSE
    BY DEF NeverStuck
  <2>1. done \in Operations /\ operation[done] \notin {"none", "ended"}
    BY DEF MainJoins, Begun, Inductive, TypeOK
  <2>2. OperationWaits(done) /\ \A w \in Workers : thread[done][w] # "reading"
    BY <2>1
  <2>3. joined[done] \in Workers /\ joined[done] < created[done]
    BY <2>1, <2>2, OperationThreadsAssumption DEF OperationWaits, Inductive, TypeOK
  <2>4. thread[done][joined[done]] \in {"none", "reading", "ended"}
    BY <2>1, <2>3 DEF Inductive, TypeOK
  <2> QED
    BY <2>1, <2>2, <2>3, <2>4 DEF OperationWaits, Begun
<1>2. Init => Begun
  BY DEF Init, Begun
<1> QED
  BY <1>1, <1>2, BegunKept, InductiveInvariant, PTL DEF Spec

-----------------------------------------------------------------------------
(* The results of the program with pipes *)

\* What the processes of OperationProcesses have in hand.
PsTypes ==
  /\ mainPc \in {"fork", "read", "wait", "exited"}
  /\ at \in 1 .. 3 /\ part \in 1 .. 3
  /\ mainPc = "fork" \/ at = 3 => part = 1
  /\ got \in [1 .. 3 -> Nat] /\ sent \in [1 .. 3 -> Nat] /\ pipe \in [1 .. 3 -> Nat]
  /\ child \in [1 .. 3 -> {"none", "running", "dead", "reaped"}]

\* The words of o that main has asked for.
Requested(o) ==
  IF mainPc = "fork" \/ (mainPc = "read" /\ at < o) THEN 0
  ELSE IF mainPc = "read" /\ at = o THEN part - 1
  ELSE Ps!Size(o)

\* A child that will not send the rest of its result.
Broken(o) == child[o] # "running" /\ sent[o] < Ps!Size(o)

\* What is sent was read or is in the pipe; of a result that fits the pipe
\* nothing was missing, unless its child is gone; and it is sent in its parts.
InParts(o) ==
  /\ sent[o] = got[o] + pipe[o] /\ sent[o] <= Ps!Size(o)
  /\ mainPc = "fork" => got[o] = 0 /\ o \notin short
  /\ Ps!Size(o) <= PipeCap =>
       /\ sent[o] \in {0, 1, 2} \/ sent[o] = Ps!Size(o)
       /\ Broken(o) \/ (o \notin short /\ got[o] = Requested(o))

PsInductive == PsTypes /\ \A o \in 1 .. 3 : InParts(o)

\* The sizes of the three results.
LEMMA Sizes ==
  /\ Ps!Size(1) \in Nat /\ Ps!Size(1) >= 2 /\ Ps!Size(2) \in Nat /\ Ps!Size(2) >= 2
  /\ Ps!Size(3) = 1
  /\ \A o \in {1, 2} : /\ Ps!Parts(o) = <<1, 1, Ps!Size(o) - 2>>
                       /\ Words[o] = Ps!Size(o) - 2
  /\ Ps!Parts(3) = <<1>>
BY ProcessesAssumption DEF Ps!Size, Ps!Parts

\* A fork starts a child from nothing, or fails.
LEMMA ForkKeepsParts == PsInductive /\ Ps!Fork => PsInductive'
<1> SUFFICES ASSUME PsInductive, Ps!Fork PROVE PsInductive'
  OBVIOUS
<1>1. /\ mainPc = "fork" /\ child' \in {[child EXCEPT ![at] = "running"], child}
      /\ IF at = 3 THEN at' = 1 /\ mainPc' = "read" ELSE at' = at + 1 /\ mainPc' = mainPc
      /\ UNCHANGED <<part, got, short, sent, pipe>>
  BY DEF Ps!Fork
<1>2. PsTypes'
  BY <1>1 DEF PsInductive, PsTypes
<1>3. ASSUME NEW o \in 1 .. 3 PROVE InParts(o)'
  <2>1. part = 1 /\ at \in 1 .. 3 /\ Requested(o)' = 0
    BY <1>1 DEF PsInductive, PsTypes, Requested
  <2>2. InParts(o)
    BY DEF PsInductive
  <2> QED
    BY <1>1, <2>1, <2>2 DEF InParts
<1> QED
  BY <1>2, <1>3 DEF PsInductive

\* A read() of main takes the part it asked for, unless the child is gone.
LEMMA ReadKeepsParts == PsInductive /\ Ps!MainRead => PsInductive'
<1> SUFFICES ASSUME PsInductive, Ps!MainRead PROVE PsInductive'
  OBVIOUS
<1> DEFINE asked == Ps!Parts(at)[part]
           n == Ps!Smaller(asked, pipe[at])
<1>1. /\ mainPc = "read"
      /\ pipe[at] > 0 \/ Ps!AtEnd(at)
      /\ got' = [got EXCEPT ![at] = got[at] + n]
      /\ pipe' = [pipe EXCEPT ![at] = pipe[at] - n]
      /\ short' = IF n < asked /\ part < 3 THEN short \cup {at} ELSE short
      /\ UNCHANGED <<child, sent>>
  BY DEF Ps!MainRead
<1>2. /\ part < Len(Ps!Parts(at)) => part' = part + 1 /\ UNCHANGED <<mainPc, at>>
      /\ ~ (part < Len(Ps!Parts(at))) =>
           /\ part' = 1
           /\ at = 3 => mainPc' = "wait" /\ at' = 1
           /\ at # 3 => at' = at + 1 /\ mainPc' = mainPc
  BY DEF Ps!MainRead
<1>3. PsTypes /\ at \in 1 .. 3 /\ part \in 1 .. 3 /\ InParts(at)
  BY DEF PsInductive, PsTypes
<1>4. /\ asked \in Nat /\ Ps!Size(at) \in Nat /\ (part < 3 => asked = 1)
      /\ part = 3 => asked = Ps!Size(at) - 2
      /\ (part < Len(Ps!Parts(at)) <=> at # 3 /\ part # 3)
      /\ at = 3 => part = 1 /\ Ps!Size(at) = 1
      /\ at # 3 => Ps!Size(at) >= 2
  <2>1. CASE at = 3
    <3>1. part = 1 /\ Ps!Parts(at) = <<1>> /\ Ps!Size(at) = 1
      BY <1>3, <2>1, Sizes DEF PsTypes
    <3>2. asked = 1 /\ Len(Ps!Parts(at)) = 1
      BY <3>1
    <3> QED
      BY <2>1, <3>1, <3>2
  <2>2. CASE at \in {1, 2}
    <3>1. /\ Ps!Parts(at) = <<1, 1, Ps!Size(at) - 2>> /\ Ps!Size(at) \in Nat /\ Ps!Size(at) >= 2
      BY <2>2, Sizes
    <3>2. /\ Len(Ps!Parts(at)) = 3 /\ Ps!Parts(at)[1] = 1 /\ Ps!Parts(at)[2] = 1
          /\ Ps!Parts(at)[3] = Ps!Size(at) - 2
      BY <3>1
    <3>3. part \in {1, 2, 3} /\ asked = Ps!Parts(at)[part]
      BY <1>3
    <3> HIDE DEF asked
    <3> QED
      BY <2>2, <3>1, <3>2, <3>3
  <2> QED
    BY <1>3, <2>1, <2>2
<1>5. n \in Nat /\ n <= pipe[at] /\ n <= asked /\ (n = pipe[at] \/ n = asked)
  <2> HIDE DEF asked
  <2>1. pipe[at] \in Nat
    BY <1>3 DEF PsTypes
  <2> QED
    BY <1>4, <2>1 DEF Ps!Smaller
<1> HIDE DEF n, asked
<1>6. PsTypes'
  <2>1. got' \in [1 .. 3 -> Nat] /\ pipe' \in [1 .. 3 -> Nat]
    BY <1>1, <1>3, <1>5 DEF PsTypes
  <2>2. /\ mainPc' \in {"read", "wait"} /\ at' \in 1 .. 3 /\ part' \in 1 .. 3
        /\ at' = 3 => part' = 1
    BY <1>1, <1>2, <1>3, <1>4
  <2> QED
    BY <1>1, <1>3, <2>1, <2>2 DEF PsTypes
\* Nothing is missing of a result that fits, but to a broken child.
<1>7. ASSUME Ps!Size(at) <= PipeCap, ~ Broken(at)
      PROVE  n = asked /\ got[at] = part - 1
  <2>1. sent[at] = Ps!Size(at) \/ child[at] = "running"
    BY <1>3, <1>4, <1>7 DEF Broken, InParts, PsTypes
  <2>2. pipe[at] > 0 \/ sent[at] = Ps!Size(at)
    <3>1. CASE Ps!AtEnd(at)
      <4>1. child[at] # "running"
        BY <1>3, <3>1 DEF Ps!AtEnd, Ps!Writers, Ps!Alive, Ps!Operations
      <4> QED
        BY <2>1, <4>1
    <3> QED
      BY <1>1, <3>1
  <2>3. /\ got[at] = part - 1 /\ sent[at] = got[at] + pipe[at]
        /\ sent[at] \in {0, 1, 2} \/ sent[at] = Ps!Size(at)
    BY <1>1, <1>3, <1>7 DEF InParts, Requested
  <2>4. got[at] \in Nat /\ pipe[at] \in Nat /\ sent[at] \in Nat /\ sent[at] <= Ps!Size(at)
    BY <1>3 DEF PsTypes, InParts
  <2>5. CASE part < 3
    BY <1>3, <1>4, <1>5, <2>2, <2>3, <2>4, <2>5
  <2>6. CASE part = 3
    BY <1>3, <1>4, <1>5, <2>2, <2>3, <2>4, <2>6
  <2> QED
    BY <1>3, <2>5, <2>6
<1>8. ASSUME NEW o \in 1 .. 3 PROVE InParts(o)'
  <2>1. InParts(o) /\ Ps!Size(o)' = Ps!Size(o) /\ Broken(o)' = Broken(o)
    BY <1>1 DEF PsInductive, Broken, Ps!Size
  <2>2. CASE o = at
    <3>1. /\ got'[o] = got[o] + n /\ pipe'[o] = pipe[o] - n /\ sent' = sent
          /\ got[o] \in Nat /\ pipe[o] \in Nat
      BY <1>1, <1>3, <2>2 DEF PsTypes
    <3>2. got'[o] + pipe'[o] = got[o] + pipe[o]
      BY <1>5, <3>1
    <3>3. mainPc' # "fork"
      BY <1>1, <1>2
    <3>4. ASSUME Ps!Size(o) <= PipeCap, ~ Broken(o)
          PROVE  o \notin short' /\ got'[o] = Requested(o)'
      <4>1. n = asked /\ got[o] = part - 1
        BY <1>7, <2>2, <3>4
      <4>2. o \notin short'
        BY <1>1, <1>4, <2>1, <3>4, <4>1 DEF InParts
      <4>3. got'[o] = part - 1 + asked
        BY <3>1, <4>1
      <4>4. CASE at # 3 /\ part # 3
        <5>1. Requested(o)' = part
          BY <1>1, <1>2, <1>3, <1>4, <2>2, <4>4 DEF Requested
        <5> QED
          BY <1>3, <1>4, <4>2, <4>3, <4>4, <5>1
      <4>5. CASE at = 3 \/ part = 3
        <5>1. Requested(o)' = Ps!Size(o)
          BY <1>1, <1>2, <1>3, <1>4, <2>1, <2>2, <4>5 DEF Requested
        <5>2. part - 1 + asked = Ps!Size(o)
          BY <1>3, <1>4, <2>2, <4>5
        <5> QED
          BY <4>2, <4>3, <5>1, <5>2
      <4> QED
        BY <4>4, <4>5
    <3> QED
      BY <2>1, <3>1, <3>2, <3>3, <3>4 DEF InParts
  <2>3. CASE o # at
    <3>1. got'[o] = got[o] /\ pipe'[o] = pipe[o] /\ sent' = sent /\ (o \in short' <=> o \in short)
      BY <1>1, <1>3, <2>3 DEF PsTypes
    <3>2. Requested(o)' = Requested(o) /\ mainPc' # "fork"
      <4>1. CASE at # 3 /\ part # 3
        BY <1>1, <1>2, <1>4, <2>1, <2>3, <4>1 DEF Requested
      <4>2. CASE at # 3 /\ part = 3
        BY <1>1, <1>2, <1>3, <1>4, <2>1, <2>3, <4>2 DEF Requested
      <4>3. CASE at = 3
        BY <1>1, <1>2, <1>4, <2>1, <2>3, <4>3 DEF Requested
      <4> QED
        BY <4>1, <4>2, <4>3
    <3> QED
      BY <2>1, <3>1, <3>2 DEF InParts
  <2> QED
    BY <2>2, <2>3
<1> QED
  BY <1>6, <1>8 DEF PsInductive

\* A write() sends a part whole, when the result fits the pipe.
LEMMA WriteKeepsParts ==
  ASSUME PsInductive, NEW c \in 1 .. 3, Ps!Write(c)
  PROVE  PsInductive'
<1> DEFINE rest == Ps!Rest(c)
           room == Ps!Room(c, rest)
<1>1. /\ child[c] = "running" /\ rest > 0
      /\ UNCHANGED <<mainPc, at, part, got, short>>
      /\ \/ /\ room > 0 /\ child' = child
            /\ sent' = [sent EXCEPT ![c] = sent[c] + room]
            /\ pipe' = [pipe EXCEPT ![c] = pipe[c] + room]
         \/ child' = [child EXCEPT ![c] = "dead"] /\ UNCHANGED <<sent, pipe>>
  BY DEF Ps!Write, Ps!Alive
<1>2. PsTypes /\ InParts(c) /\ got[c] \in Nat /\ sent[c] \in Nat /\ pipe[c] \in Nat
  BY DEF PsInductive, PsTypes
<1>3. /\ Ps!Size(c) \in Nat
      /\ c = 3 => rest = 1 - sent[c] /\ Ps!Size(c) = 1
      /\ c # 3 /\ sent[c] < 2 => rest = 1 /\ Ps!Size(c) >= 2
      /\ c # 3 /\ sent[c] >= 2 => rest = Ps!Size(c) - sent[c] /\ Ps!Size(c) >= 2
  <2>1. CASE c = 3
    BY <2>1, Sizes DEF Ps!Rest
  <2>2. CASE c # 3 /\ sent[c] < 2
    <3>1. ~ (sent[c] >= 2)
      BY <1>2, <2>2
    <3>2. rest = 1
      BY <2>2, <3>1 DEF Ps!Rest
    <3> QED
      BY <2>2, <3>1, <3>2, Sizes
  <2>3. CASE c # 3 /\ sent[c] >= 2
    <3>1. ~ (sent[c] < 2)
      BY <1>2, <2>3
    <3>2. rest = Ps!Size(c) - sent[c]
      BY <2>3, <3>1 DEF Ps!Rest
    <3> QED
      BY <2>3, <3>1, <3>2, Sizes
  <2> QED
    BY <1>2, <2>1, <2>2, <2>3
<1> HIDE DEF rest
<1>4. /\ room \in Int /\ room <= rest
      /\ rest <= PipeCap - pipe[c] => room = rest
  BY <1>2, <1>3, ProcessesAssumption DEF Ps!Room, Ps!Smaller
<1>5. sent[c] < Ps!Size(c) /\ sent[c] + room <= Ps!Size(c)
  BY <1>1, <1>2, <1>3, <1>4
<1>6. CASE child' = [child EXCEPT ![c] = "dead"] /\ UNCHANGED <<sent, pipe>>
  <2>1. PsTypes'
    BY <1>1, <1>2, <1>6 DEF PsTypes
  <2>2. ASSUME NEW o \in 1 .. 3 PROVE InParts(o)'
    <3>1. InParts(o) /\ Requested(o)' = Requested(o) /\ Ps!Size(o)' = Ps!Size(o)
      BY <1>1 DEF PsInductive, Requested, Ps!Size
    <3>2. Broken(o)' \/ (o # c /\ Broken(o)' = Broken(o))
      BY <1>2, <1>5, <1>6, <3>1 DEF Broken, PsTypes
    <3>3. o # c \/ Broken(o)'
      BY <3>2
    <3> QED
      BY <1>1, <1>6, <3>1, <3>2 DEF InParts
  <2> QED
    BY <2>1, <2>2 DEF PsInductive
<1>7. CASE /\ room > 0 /\ child' = child
           /\ sent' = [sent EXCEPT ![c] = sent[c] + room]
           /\ pipe' = [pipe EXCEPT ![c] = pipe[c] + room]
  <2>1. /\ sent'[c] = sent[c] + room /\ pipe'[c] = pipe[c] + room
        /\ \A o \in 1 .. 3 : o # c => sent'[o] = sent[o] /\ pipe'[o] = pipe[o]
    BY <1>2, <1>7 DEF PsTypes
  <2>2. PsTypes'
    <3>1. sent' \in [1 .. 3 -> Nat] /\ pipe' \in [1 .. 3 -> Nat]
      BY <1>2, <1>4, <1>7 DEF PsTypes
    <3> QED
      BY <1>1, <1>2, <1>7, <3>1 DEF PsTypes
  <2>3. ASSUME NEW o \in 1 .. 3 PROVE InParts(o)'
    <3>1. InParts(o) /\ Requested(o)' = Requested(o) /\ Ps!Size(o)' = Ps!Size(o)
      BY <1>1 DEF PsInductive, Requested, Ps!Size
    <3>2. CASE o # c
      <4>1. Broken(o)' = Broken(o)
        BY <1>7, <2>1, <3>1, <3>2 DEF Broken
      <4> QED
        BY <1>1, <2>1, <3>1, <3>2, <4>1 DEF InParts
    <3>3. CASE o = c
      <4>1. sent'[o] = got[o] + pipe'[o] /\ sent'[o] <= Ps!Size(o)
        BY <1>2, <1>4, <1>5, <2>1, <3>1, <3>3 DEF InParts
      <4>2. ASSUME Ps!Size(o) <= PipeCap
            PROVE  /\ sent'[o] \in {0, 1, 2} \/ sent'[o] = Ps!Size(o)
                   /\ o \notin short /\ got[o] = Requested(o)
        <5>1. /\ ~ Broken(o) /\ o \notin short /\ got[o] = Requested(o)
              /\ sent[o] \in {0, 1, 2} /\ sent[o] = got[o] + pipe[o]
          <6>1. ~ Broken(o) /\ sent[o] # Ps!Size(o)
            BY <1>1, <1>2, <1>3, <1>5, <3>3 DEF Broken
          <6> QED
            BY <3>1, <4>2, <6>1 DEF InParts
        <5>2. rest <= PipeCap - pipe[c]
          BY <1>2, <1>3, <3>3, <4>2, <5>1, ProcessesAssumption
        <5>3. sent'[o] \in {0, 1, 2} \/ sent'[o] = Ps!Size(o)
          <6>1. sent'[o] = sent[o] + rest
            BY <1>4, <2>1, <3>3, <5>2
          <6> QED
            BY <1>3, <3>3, <5>1, <6>1
        <5> QED
          BY <5>1, <5>3
      <4> QED
        BY <1>1, <3>1, <4>1, <4>2 DEF InParts
    <3> QED
      BY <3>2, <3>3
  <2> QED
    BY <2>2, <2>3 DEF PsInductive
<1> QED
  BY <1>1, <1>6, <1>7

\* A child that ends has sent all, or is broken from now on.
LEMMA EndKeepsParts ==
  ASSUME PsInductive, NEW c \in 1 .. 3, Ps!Exit(c) \/ Ps!Die(c)
  PROVE  PsInductive'
<1>1. /\ child[c] = "running" /\ child' = [child EXCEPT ![c] = "dead"]
      /\ UNCHANGED <<mainPc, at, part, got, short, sent, pipe>>
  BY DEF Ps!Exit, Ps!Die, Ps!Alive
<1>2. PsTypes'
  BY <1>1 DEF PsInductive, PsTypes
<1>3. ASSUME NEW o \in 1 .. 3 PROVE InParts(o)'
  <2>1. InParts(o) /\ Requested(o)' = Requested(o) /\ Ps!Size(o)' = Ps!Size(o)
    BY <1>1 DEF PsInductive, Requested, Ps!Size
  <2>2. Broken(o) => Broken(o)'
    BY <1>1, <2>1 DEF PsInductive, PsTypes, Broken
  <2> QED
    BY <1>1, <2>1, <2>2 DEF InParts
<1> QED
  BY <1>2, <1>3 DEF PsInductive

\* A wait() reaps the dead only.
LEMMA WaitKeepsParts == PsInductive /\ Ps!Wait => PsInductive'
<1> SUFFICES ASSUME PsInductive, Ps!Wait PROVE PsInductive'
  OBVIOUS
<1>1. /\ mainPc = "wait" /\ mainPc' \in {"wait", "exited"}
      /\ UNCHANGED <<at, part, got, short, sent, pipe>>
      /\ child' = child \/ \E c \in 1 .. 3 : /\ child[c] = "dead"
                                             /\ child' = [child EXCEPT ![c] = "reaped"]
  BY DEF Ps!Wait, Ps!Operations
<1>2. PsTypes'
  BY <1>1 DEF PsInductive, PsTypes
<1>3. ASSUME NEW o \in 1 .. 3 PROVE InParts(o)'
  <2>1. InParts(o) /\ Requested(o)' = Requested(o) /\ Ps!Size(o)' = Ps!Size(o)
    BY <1>1 DEF PsInductive, Requested, Ps!Size
  <2>2. Broken(o)' = Broken(o)
    BY <1>1, <2>1 DEF PsInductive, PsTypes, Broken
  <2> QED
    BY <1>1, <2>1, <2>2 DEF InParts
<1> QED
  BY <1>2, <1>3 DEF PsInductive

LEMMA PartsInvariant == Ps!Spec => []PsInductive
<1>1. Ps!Init => PsInductive
  BY Sizes DEF Ps!Init, Ps!Operations, PsInductive, PsTypes, InParts, Requested, Broken
<1>2. PsInductive /\ [Ps!Next]_(Ps!vars) => PsInductive'
  <2>1. PsInductive /\ UNCHANGED Ps!vars => PsInductive'
    BY DEF Ps!vars, PsInductive, PsTypes, InParts, Requested, Broken, Ps!Size
  <2> QED
    BY <2>1, ForkKeepsParts, ReadKeepsParts, WaitKeepsParts, WriteKeepsParts, EndKeepsParts
    DEF Ps!Next, Ps!Main, Ps!Child, Ps!Operations
<1> QED
  BY <1>1, <1>2, PTL DEF Ps!Spec

\* The program that is run as one of several is the program itself.
LEMMA ProcessesAlone == MCSpec => Ps!Spec
<1>1. MCInit => Ps!Init
  BY Zenon DEF MCInit
<1>2. [MCNext]_allVars => [Ps!Next]_(Ps!vars)
  <2>1. MCNext => UNCHANGED psVars \/ ProcessesRun \/ \E o \in Ps!Operations : Ps!Die(o)
    BY Zenon DEF MCNext
  <2>2. UNCHANGED allVars => UNCHANGED psVars
    BY Zenon DEF allVars
  <2>3. UNCHANGED psVars => UNCHANGED Ps!vars
    BY DEF psVars, Ps!vars
  <2>4. ProcessesRun \/ (\E o \in Ps!Operations : Ps!Die(o)) => Ps!Next
    BY DEF ProcessesRun, Ps!Next
  <2> QED
    BY <2>1, <2>2, <2>3, <2>4
<1> QED
  BY <1>1, <1>2, PTL DEF MCSpec, Ps!Spec

\* Whatever dies and whoever holds the ends of whose pipe: a result that was
\* sent whole and fits the pipe is read whole by main (main of
\* process_based_parallelism_taskLevel_IPC.c, which looks at no return value).
THEOREM ResultsArrive == MCSpec => []EveryResultArrives
<1>1. PsInductive => EveryResultArrives
  BY Sizes DEF PsInductive, PsTypes, InParts, Requested, Broken, EveryResultArrives,
     Ps!EveryResultArrives, Ps!Operations
<1> QED
  BY <1>1, PartsInvariant, ProcessesAlone, PTL

\* A child whose pipe is empty does not wait, and the average's is never full:
\* the children cannot all wait while main does.
LEMMA SomebodyReads == PsInductive => Ps!NeverStuck
<1> SUFFICES ASSUME PsInductive, Ps!MainWaits,
                    \A o \in 1 .. 3 : child[o] = "running" => Ps!ChildWaits(o)
             PROVE  FALSE
  BY DEF Ps!NeverStuck, Ps!Operations, Ps!Alive
<1>1. PipeCap \in Nat /\ PipeCap > 0
  BY ProcessesAssumption
<1>2. child[3] # "running"
  <2> SUFFICES ASSUME child[3] = "running" PROVE FALSE
    OBVIOUS
  <2>1. Ps!Rest(3) = 1 - sent[3]
    BY DEF Ps!Rest
  <2>2. sent[3] = 0 /\ pipe[3] = PipeCap
    BY <2>1 DEF Ps!ChildWaits, PsInductive, PsTypes
  <2>3. sent[3] = got[3] + pipe[3] /\ got[3] \in Nat
    BY DEF PsInductive, PsTypes, InParts
  <2> QED
    BY <1>1, <2>2, <2>3
<1>3. \A o \in 1 .. 3 : child[o] = "running" => Ps!MainReads(o) /\ pipe[o] # 0
  BY <1>1, <1>2 DEF Ps!ChildWaits, Ps!Read, Ps!Readers, Ps!Alive
<1>4. CASE mainPc = "read"
  <2>1. pipe[at] = 0 /\ \E c \in Ps!Writers(at) : child[c] = "running"
    BY <1>4 DEF Ps!MainWaits, Ps!AtEnd, Ps!Alive
  <2>2. PICK c \in 1 .. 3 : c \in Ps!Writers(at) /\ child[c] = "running"
    BY <2>1 DEF Ps!Writers, Ps!Operations, PsInductive, PsTypes
  <2>3. at <= c /\ c # at /\ c # 3
    BY <1>2, <1>3, <1>4, <2>1, <2>2 DEF Ps!MainReads
  <2> QED
    BY <2>2, <2>3 DEF Ps!Writers, PsInductive, PsTypes
<1>5. CASE mainPc = "wait"
  <2>1. PICK o \in 1 .. 3 : child[o] = "running"
    BY <1>5 DEF Ps!MainWaits, Ps!Operations, Ps!Alive
  <2> QED
    BY <1>3, <1>5, <2>1 DEF Ps!MainReads
<1> QED
  BY <1>4, <1>5 DEF Ps!MainWaits

\* main of process_based_parallelism_taskLevel_IPC.c and its children never all
\* wait for each other: there is no circle of a read() or a wait() of main, a
\* write() to a full pipe, and pipes that are held open by children that wait.
THEOREM PipesNeverStick == MCSpec => []Ps!NeverStuck
BY SomebodyReads, PartsInvariant, ProcessesAlone, PTL

\* main counts its wait()s, and a child is not there before its fork().
PsOnce ==
  /\ waits \in Nat
  /\ mainPc \in {"fork", "read"} => waits = 0
  /\ mainPc = "wait" => waits < 3
  /\ mainPc = "fork" => \A o \in 1 .. 3 : at <= o => child[o] = "none"

\* Each step takes main or a child on.
LEMMA StepAdvances ==
  PsInductive /\ PsOnce /\ Ps!Next => PsOnce' /\ Ps!Travelled' > Ps!Travelled
<1> SUFFICES ASSUME PsInductive, PsOnce, Ps!Next
             PROVE  PsOnce' /\ Ps!Travelled' > Ps!Travelled
  OBVIOUS
<1> DEFINE M == Ps!MainPlace
           C(o) == Ps!ChildPlace(o)
<1>1. /\ mainPc \in {"fork", "read", "wait", "exited"} /\ at \in 1 .. 3 /\ part \in 1 .. 3
      /\ sent \in [1 .. 3 -> Nat] /\ pipe \in [1 .. 3 -> Nat] /\ waits \in Nat
      /\ child \in [1 .. 3 -> {"none", "running", "dead", "reaped"}]
      /\ mainPc # "fork" /\ at = 3 => part = 1
  BY DEF PsInductive, PsTypes, PsOnce
<1>2. M \in Nat /\ \A o \in 1 .. 3 : C(o) \in Nat
  BY <1>1 DEF Ps!MainPlace, Ps!ChildPlace
<1>3. Ps!Travelled = M + C(1) + C(2) + C(3) /\ Ps!Travelled' = M' + C(1)' + C(2)' + C(3)'
  BY DEF Ps!Travelled
<1>4. ASSUME \A o \in 1 .. 3 : C(o)' \in Nat /\ C(o)' >= C(o), M' \in Nat, M' > M
      PROVE  Ps!Travelled' > Ps!Travelled
  <2>1. /\ C(1)' \in Nat /\ C(1)' >= C(1) /\ C(2)' \in Nat /\ C(2)' >= C(2)
        /\ C(3)' \in Nat /\ C(3)' >= C(3)
    BY <1>4
  <2>2. C(1) \in Nat /\ C(2) \in Nat /\ C(3) \in Nat
    BY <1>2
  <2> HIDE DEF M, C
  <2> QED
    BY <1>2, <1>3, <1>4, <2>1, <2>2
<1>5. ASSUME NEW c \in 1 .. 3, C(c)' \in Nat, C(c)' > C(c), M' = M,
             \A o \in 1 .. 3 : o # c => C(o)' = C(o)
      PROVE  Ps!Travelled' > Ps!Travelled
  <2>2. C(1) \in Nat /\ C(2) \in Nat /\ C(3) \in Nat
    BY <1>2
  <2>3. c = 1 \/ c = 2 \/ c = 3
    OBVIOUS
  <2> HIDE DEF M, C
  <2> QED
    BY <1>2, <1>3, <1>5, <2>2, <2>3
<1>6. CASE Ps!Fork
  <2>1. /\ mainPc = "fork" /\ child' \in {[child EXCEPT ![at] = "running"], child}
        /\ IF at = 3 THEN at' = 1 /\ mainPc' = "read" ELSE at' = at + 1 /\ mainPc' = mainPc
        /\ UNCHANGED <<part, waits, sent>>
    BY <1>6 DEF Ps!Fork
  <2>2. child[at] = "none" /\ waits = 0
    BY <1>1, <2>1 DEF PsOnce
  <2>3. PsOnce'
    BY <1>1, <2>1, <2>2 DEF PsOnce
  <2>4. M' \in Nat /\ M' > M
    BY <1>1, <2>1 DEF Ps!MainPlace
  <2>5. \A o \in 1 .. 3 : C(o)' \in Nat /\ C(o)' >= C(o)
    BY <1>1, <2>1, <2>2 DEF Ps!ChildPlace
  <2> QED
    BY <1>4, <2>3, <2>4, <2>5
<1>7. CASE Ps!MainRead
  <2>1. /\ mainPc = "read" /\ UNCHANGED <<waits, child, sent>>
        /\ IF part < Len(Ps!Parts(at)) THEN part' = part + 1 /\ UNCHANGED <<mainPc, at>>
           ELSE /\ part' = 1
                /\ IF at = 3 THEN mainPc' = "wait" /\ at' = 1
                   ELSE at' = at + 1 /\ mainPc' = mainPc
    BY <1>7 DEF Ps!MainRead
  <2>2. PsOnce'
    BY <2>1 DEF PsOnce
  <2>3. M' \in Nat /\ M' > M
    <3>1. M = 3 * at + part /\ waits' = 0
      BY <2>1 DEF Ps!MainPlace, PsOnce
    <3>2. CASE mainPc' = "read" /\ at' = at /\ part' = part + 1
      <4>1. M' = 3 * at + (part + 1)
        BY <3>2 DEF Ps!MainPlace
      <4> QED
        BY <1>1, <3>1, <4>1
    <3>3. CASE mainPc' = "read" /\ at' = at + 1 /\ part' = 1
      <4>1. M' = 3 * (at + 1) + 1
        BY <3>3 DEF Ps!MainPlace
      <4> QED
        BY <1>1, <3>1, <4>1
    <3>4. CASE mainPc' = "wait" /\ at = 3
      <4>1. M' = 13
        BY <3>1, <3>4 DEF Ps!MainPlace
      <4> QED
        BY <1>1, <3>1, <3>4, <4>1
    <3> QED
      BY <2>1, <3>2, <3>3, <3>4
  <2>4. \A o \in 1 .. 3 : C(o)' = C(o)
    BY <2>1 DEF Ps!ChildPlace
  <2> QED
    BY <1>2, <1>4, <2>2, <2>3, <2>4
<1>8. CASE Ps!Wait
  <2>1. /\ mainPc = "wait" /\ waits' = waits + 1 /\ waits < 3
        /\ mainPc' = IF waits' = 3 THEN "exited" ELSE mainPc
        /\ UNCHANGED <<at, part, sent>>
    BY <1>8 DEF Ps!Wait, PsOnce
  <2>2. \/ child' = child
        \/ \E o \in 1 .. 3 : child[o] = "dead" /\ child' = [child EXCEPT ![o] = "reaped"]
    BY <1>8 DEF Ps!Wait, Ps!Operations
  <2>3. PsOnce'
    BY <1>1, <2>1 DEF PsOnce
  <2>4. M' \in Nat /\ M' > M
    BY <1>1, <2>1 DEF Ps!MainPlace
  <2>5. \A o \in 1 .. 3 : C(o)' \in Nat /\ C(o)' >= C(o)
    BY <1>1, <2>1, <2>2 DEF Ps!ChildPlace
  <2> QED
    BY <1>4, <2>3, <2>4, <2>5
<1>9. ASSUME NEW c \in 1 .. 3, Ps!Write(c) \/ Ps!Exit(c) \/ Ps!Die(c)
      PROVE  PsOnce' /\ Ps!Travelled' > Ps!Travelled
  <2> DEFINE room == Ps!Room(c, Ps!Rest(c))
  <2>1. /\ child[c] = "running"
        /\ UNCHANGED <<mainPc, at, part, waits>>
        /\ \/ /\ room > 0 /\ sent' = [sent EXCEPT ![c] = sent[c] + room] /\ child' = child
           \/ child' = [child EXCEPT ![c] = "dead"] /\ sent' = sent
    BY <1>9 DEF Ps!Write, Ps!Exit, Ps!Die, Ps!Alive
  <2>2. room \in Int
    <3>1. Ps!Size(c) \in Int
      BY <1>9, Sizes
    <3>2. Ps!Rest(c) \in Int
      BY <1>1, <3>1 DEF Ps!Rest
    <3> QED
      BY <1>1, <3>2, ProcessesAssumption DEF Ps!Room, Ps!Smaller
  <2> HIDE DEF room
  <2>3. PsOnce'
    BY <1>1, <2>1 DEF PsOnce
  <2>4. M' = M
    BY <2>1 DEF Ps!MainPlace
  <2>5. C(c)' \in Nat /\ C(c)' > C(c)
    BY <1>1, <2>1, <2>2 DEF Ps!ChildPlace
  <2>6. \A o \in 1 .. 3 : o # c => C(o)' = C(o)
    BY <1>1, <2>1 DEF Ps!ChildPlace
  <2> HIDE DEF M, C
  <2> QED
    BY <1>5, <2>3, <2>4, <2>5, <2>6
<1> QED
  BY <1>6, <1>7, <1>8, <1>9 DEF Ps!Next, Ps!Main, Ps!Child, Ps!Operations

\* There is an end to it.
Limit == 25 + Ps!Size(1) + Ps!Size(2) + Ps!Size(3)

InSight == Ps!Travelled <= Limit

LEMMA EndInSight == PsInductive /\ PsOnce => InSight
<1> SUFFICES ASSUME PsInductive, PsOnce PROVE InSight
  OBVIOUS
<1>1. Ps!MainPlace \in Int /\ Ps!MainPlace <= 16
  BY DEF PsInductive, PsTypes, PsOnce, Ps!MainPlace
<1>2. ASSUME NEW o \in 1 .. 3
      PROVE  Ps!ChildPlace(o) \in Int /\ Ps!ChildPlace(o) <= 3 + Ps!Size(o) /\ Ps!Size(o) \in Int
  BY Sizes DEF PsInductive, PsTypes, InParts, Ps!ChildPlace
<1> QED
  BY <1>1, <1>2 DEF Ps!Travelled, InSight, Limit

\* Every step of the program takes it on, towards an end that does not depend on
\* what fails: no place of main or of a child is visited again, and so never being
\* stuck is enough for main to come to its exit.
THEOREM StepsAdvance == MCSpec => Ps!EveryStepAdvances
<1>1. Ps!Init => PsOnce
  BY DEF Ps!Init, Ps!Operations, PsOnce
<1>2. PsInductive /\ PsOnce /\ [Ps!Next]_(Ps!vars) => PsOnce'
  <2>1. PsOnce /\ UNCHANGED Ps!vars => PsOnce'
    BY DEF Ps!vars, PsOnce
  <2> QED
    BY <2>1, StepAdvances
<1>3. PsInductive /\ PsOnce /\ InSight' /\ [Ps!Next]_(Ps!vars)
        => [Ps!Travelled' > Ps!Travelled /\ Ps!Travelled' <= Limit]_(Ps!vars)
  <2>1. InSight' => Ps!Travelled' <= Limit
    BY DEF InSight, Limit, Ps!Size
  <2> QED
    BY <2>1, StepAdvances
<1>4. [][Ps!Travelled' > Ps!Travelled /\ Ps!Travelled' <= Limit]_(Ps!vars)
        => Ps!EveryStepAdvances
  BY DEF Ps!EveryStepAdvances, Limit
<1> QED
  BY <1>1, <1>2, <1>3, <1>4, EndInSight, PartsInvariant, ProcessesAlone, PTL DEF Ps!Spec

-----------------------------------------------------------------------------
(* The output of the programs without pipes *)

Over == {"dead", "reaped"}
TreePlaces == {"none", "banner", "fork", "wait", "time", "exit"} \cup Over

\* The processes of ProcessTree and their lines.
TreeTypes ==
  /\ terminal \in BOOLEAN /\ chunked \in BOOLEAN
  /\ treePc \in {"fork", "wait", "print", "exited"} /\ treeAt \in 1 .. 3
  /\ place \in [1 .. 3 -> TreePlaces]
  /\ count \in [1 .. 3 -> Nat]
  /\ worker = [o \in 1 .. 3 |-> worker[o]] /\ inherited = [o \in 1 .. 3 |-> inherited[o]]
  /\ \A o \in 1 .. 3 : /\ worker[o] = [w \in 1 .. Chunks[o] |-> worker[o][w]]
                       /\ inherited[o] \in [1 .. Chunks[o] -> SUBSET Tree!Lines]
  /\ buffer \in [0 .. 3 -> SUBSET Tree!Lines]
  /\ output \in [Tree!Lines -> 0 .. 2]

\* A time is printed once, at the end of the operation, when its workers are gone.
Timed(o) ==
  /\ Tree!Time(o) \in buffer[o] => place[o] = "exit" /\ ~ terminal
  /\ output[Tree!Time(o)] > 0 => place[o] \in Over \/ (place[o] = "exit" /\ terminal)
  /\ output[Tree!Time(o)] <= 1
  /\ place[o] = "exit" =>
       IF terminal THEN output[Tree!Time(o)] = 1 ELSE Tree!Time(o) \in buffer[o]
  /\ place[o] \in Over /\ o \notin killed => output[Tree!Time(o)] = 1
  /\ \/ place[o] \in {"none", "time", "exit"} \/ output[Tree!Time(o)] > 0
     \/ place[o] \in Over /\ o \notin killed
     => ~ Tree!WorkerRuns(o)

\* Its banner is printed or in its buffer, and only that is inherited.
Bannered(o) ==
  /\ place[o] \in {"fork", "wait", "time", "exit"} =>
       IF terminal THEN output[Tree!Banner(o)] > 0 ELSE Tree!Banner(o) \in buffer[o]
  /\ place[o] \in Over /\ o \notin killed => output[Tree!Banner(o)] > 0
  /\ o \in killed => place[o] \in Over
  /\ buffer[o] \subseteq {Tree!System, Tree!Banner(o), Tree!Time(o)}
  /\ \A w \in 1 .. Chunks[o] : inherited[o][w] \subseteq {Tree!System, Tree!Banner(o)}

\* main's lines, and how many of its children it has waited for.
Settled(o) == place[o] \in {"none", "reaped"}

MainLines ==
  /\ buffer[0] \subseteq {Tree!System}
  /\ IF terminal \/ treePc = "exited" THEN output[Tree!System] > 0
     ELSE Tree!System \in buffer[0]
  /\ output[Tree!Total] = IF treePc = "exited" THEN 1 ELSE 0

MainWaits ==
  /\ treePc = "fork" => \A o \in 1 .. 3 : o >= treeAt => place[o] = "none"
  /\ treePc = "wait" /\ treeAt >= 2 => \E o \in 1 .. 3 : Settled(o)
  /\ treePc = "wait" /\ treeAt = 3 => \E o, p \in 1 .. 3 : o # p /\ Settled(o) /\ Settled(p)
  /\ treePc \in {"print", "exited"} => \A o \in 1 .. 3 : Settled(o)

TreeInductive ==
  TreeTypes /\ MainLines /\ MainWaits /\ \A o \in 1 .. 3 : Timed(o) /\ Bannered(o)

\* The lines of the output are different ones.
LEMMA DifferentLines ==
  /\ Tree!System \in Tree!Lines /\ Tree!Total \in Tree!Lines /\ Tree!System # Tree!Total
  /\ \A o \in 1 .. 3 :
       /\ Tree!Banner(o) \in Tree!Lines /\ Tree!Time(o) \in Tree!Lines
       /\ Tree!Banner(o) # Tree!System /\ Tree!Banner(o) # Tree!Total
       /\ Tree!Time(o) # Tree!System /\ Tree!Time(o) # Tree!Total
       /\ \A p \in 1 .. 3 :
            /\ Tree!Time(o) # Tree!Banner(p)
            /\ o # p => Tree!Time(o) # Tree!Time(p) /\ Tree!Banner(o) # Tree!Banner(p)
BY DEF Tree!Lines, Tree!System, Tree!Total, Tree!Banner, Tree!Time, Tree!Operations

\* Lines written once more.
LEMMA MoreLines ==
  ASSUME output \in [Tree!Lines -> 0 .. 2], NEW lines, output' = Tree!With(lines)
  PROVE  /\ output' \in [Tree!Lines -> 0 .. 2]
         /\ \A l \in Tree!Lines : /\ l \notin lines => output'[l] = output[l]
                                  /\ l \in lines => output'[l] > 0
                                  /\ l \in lines /\ output[l] = 0 => output'[l] = 1
                                  /\ output[l] > 0 => output'[l] > 0
<1>1. output' = [l \in Tree!Lines |->
                   IF l \in lines /\ output[l] < 2 THEN output[l] + 1 ELSE output[l]]
  BY DEF Tree!With, Tree!Often
<1> QED
  BY <1>1

\* An operation nobody of which moves.
LEMMA OthersStay ==
  ASSUME NEW o \in 1 .. 3, Timed(o), Bannered(o),
         UNCHANGED <<terminal, chunked>>, place'[o] = place[o], worker'[o] = worker[o],
         inherited'[o] = inherited[o], buffer'[o] = buffer[o],
         o \in killed' <=> o \in killed,
         output'[Tree!Time(o)] = output[Tree!Time(o)],
         output[Tree!Banner(o)] > 0 => output'[Tree!Banner(o)] > 0
  PROVE  Timed(o)' /\ Bannered(o)'
<1>1. Tree!WorkerRuns(o)' <=> Tree!WorkerRuns(o)
  BY DEF Tree!WorkerRuns, Tree!Workers
<1>2. Tree!Time(o)' = Tree!Time(o) /\ Tree!Banner(o)' = Tree!Banner(o) /\ Tree!System' = Tree!System
  BY DEF Tree!Time, Tree!Banner, Tree!System
<1>3. Timed(o)'
  BY <1>1, <1>2 DEF Timed
<1>4. Bannered(o)'
  BY <1>2 DEF Bannered
<1> QED
  BY <1>3, <1>4

LEMMA TreeBegins == Tree!Init => TreeInductive
<1> SUFFICES ASSUME Tree!Init PROVE TreeInductive
  OBVIOUS
<1>1. TreeTypes
  BY DifferentLines, TreeAssumption
  DEF Tree!Init, TreeTypes, TreePlaces, Tree!Operations
<1>2. MainLines
  BY DifferentLines DEF Tree!Init, MainLines
<1>3. MainWaits
  BY DEF Tree!Init, MainWaits, Tree!Operations
<1>4. ASSUME NEW o \in 1 .. 3 PROVE Timed(o) /\ Bannered(o)
  <2>1. /\ place[o] = "none" /\ buffer[o] = {} /\ killed = {}
        /\ output[Tree!Time(o)] = 0
        /\ \A w \in 1 .. Chunks[o] : inherited[o][w] = {} /\ worker[o][w] = "none"
    BY DifferentLines DEF Tree!Init, Tree!Operations
  <2>2. ~ Tree!WorkerRuns(o)
    BY <2>1 DEF Tree!WorkerRuns, Tree!Workers
  <2> QED
    BY <2>1, <2>2 DEF Timed, Bannered, Over
<1> QED
  BY <1>1, <1>2, <1>3, <1>4 DEF TreeInductive

\* One process of an operation moves: the others and main are as they were.
LEMMA OneMoves ==
  ASSUME TreeInductive, NEW c \in 1 .. 3,
         UNCHANGED <<terminal, chunked, treePc, treeAt>>, TreeTypes', buffer'[0] = buffer[0],
         \A l \in Tree!Lines : output[l] > 0 => output'[l] > 0,
         output'[Tree!Total] = output[Tree!Total],
         \A o \in 1 .. 3 : o # c =>
           /\ place'[o] = place[o] /\ worker'[o] = worker[o] /\ inherited'[o] = inherited[o]
           /\ buffer'[o] = buffer[o] /\ (o \in killed' <=> o \in killed)
           /\ output'[Tree!Time(o)] = output[Tree!Time(o)],
         place'[c] = place[c] \/ {place[c], place'[c]} \cap {"none", "reaped"} = {},
         Timed(c)', Bannered(c)'
  PROVE  TreeInductive'
<1>1. TreeTypes /\ MainLines /\ MainWaits /\ \A o \in 1 .. 3 : Timed(o) /\ Bannered(o)
  BY DEF TreeInductive
<1>2. MainLines'
  <2>1. Tree!System' = Tree!System /\ Tree!Total' = Tree!Total
    BY DEF Tree!System, Tree!Total
  <2> QED
    BY <1>1, <2>1, DifferentLines DEF MainLines
<1>3. MainWaits'
  <2>1. \A o \in 1 .. 3 : /\ Settled(o)' <=> Settled(o)
                          /\ place[o] = "none" => place'[o] = "none"
    BY DEF Settled
  <2> QED
    BY <1>1, <2>1 DEF MainWaits
<1>4. ASSUME NEW o \in 1 .. 3, o # c PROVE Timed(o)' /\ Bannered(o)'
  <2>1. output[Tree!Banner(o)] > 0 => output'[Tree!Banner(o)] > 0
    BY DifferentLines
  <2> QED
    BY <1>1, <1>4, <2>1, OthersStay
<1> QED
  BY <1>2, <1>3, <1>4 DEF TreeInductive

\* A line that a process prints is in the output, or in its buffer.
LEMMA PrintedLine ==
  ASSUME TreeTypes, NEW c \in 1 .. 3, NEW l \in Tree!Lines, Tree!Prints(c, l)
  PROVE  /\ buffer' \in [0 .. 3 -> SUBSET Tree!Lines] /\ output' \in [Tree!Lines -> 0 .. 2]
         /\ \A p \in 0 .. 3 : p # c => buffer'[p] = buffer[p]
         /\ \A m \in Tree!Lines : /\ m # l => output'[m] = output[m]
                                  /\ output[m] > 0 => output'[m] > 0
         /\ terminal => /\ buffer'[c] = buffer[c] /\ output'[l] > 0
                        /\ output[l] = 0 => output'[l] = 1
         /\ ~ terminal => buffer'[c] = buffer[c] \cup {l} /\ output'[l] = output[l]
<1>1. CASE terminal
  <2>1. output' = Tree!With({l}) /\ buffer' = buffer
    BY <1>1 DEF Tree!Prints
  <2>2. output \in [Tree!Lines -> 0 .. 2] /\ buffer \in [0 .. 3 -> SUBSET Tree!Lines]
    BY DEF TreeTypes
  <2>3. /\ output' \in [Tree!Lines -> 0 .. 2]
        /\ \A m \in Tree!Lines : /\ m \notin {l} => output'[m] = output[m]
                                 /\ m \in {l} => output'[m] > 0
                                 /\ m \in {l} /\ output[m] = 0 => output'[m] = 1
                                 /\ output[m] > 0 => output'[m] > 0
    BY <2>1, <2>2, MoreLines
  <2>4. \A m : m \in {l} <=> m = l
    OBVIOUS
  <2>5. /\ \A m \in Tree!Lines : m # l => output'[m] = output[m]
        /\ \A m \in Tree!Lines : output[m] > 0 => output'[m] > 0
        /\ output'[l] > 0
        /\ output[l] = 0 => output'[l] = 1
    BY <2>3, <2>4
  <2> QED
    BY <1>1, <2>1, <2>2, <2>3, <2>5
<1>2. CASE ~ terminal
  <2>1. buffer' = [buffer EXCEPT ![c] = buffer[c] \cup {l}] /\ output' = output
    BY <1>2 DEF Tree!Prints
  <2> QED
    BY <1>2, <2>1 DEF TreeTypes
<1> QED
  BY <1>1, <1>2

\* A place among the others.
LEMMA Went ==
  ASSUME TreeTypes, NEW c \in 1 .. 3, NEW from, NEW to \in TreePlaces, Tree!Goto(c, from, to)
  PROVE  /\ place[c] = from /\ place'[c] = to /\ place' \in [1 .. 3 -> TreePlaces]
         /\ \A o \in 1 .. 3 : o # c => place'[o] = place[o]
BY DEF Tree!Goto, TreeTypes

LEMMA BannerStep ==
  ASSUME TreeInductive, NEW c \in 1 .. 3, Tree!PrintBanner(c)
  PROVE  TreeInductive'
<1> USE DifferentLines
<1>1. TreeTypes /\ Timed(c) /\ Bannered(c)
  BY DEF TreeInductive
<1>2. /\ place[c] = "banner" /\ place'[c] = "fork" /\ place' \in [1 .. 3 -> TreePlaces]
      /\ \A o \in 1 .. 3 : o # c => place'[o] = place[o]
  BY <1>1, Went DEF Tree!PrintBanner, TreePlaces
<1>3. /\ Tree!Prints(c, Tree!Banner(c))
      /\ UNCHANGED <<terminal, chunked, treePc, treeAt, count, worker, inherited, killed>>
  BY DEF Tree!PrintBanner
<1>4. /\ buffer' \in [0 .. 3 -> SUBSET Tree!Lines] /\ output' \in [Tree!Lines -> 0 .. 2]
      /\ \A p \in 0 .. 3 : p # c => buffer'[p] = buffer[p]
      /\ \A m \in Tree!Lines : /\ m # Tree!Banner(c) => output'[m] = output[m]
                               /\ output[m] > 0 => output'[m] > 0
      /\ terminal => buffer'[c] = buffer[c] /\ output'[Tree!Banner(c)] > 0
      /\ ~ terminal => buffer'[c] = buffer[c] \cup {Tree!Banner(c)}
  BY <1>1, <1>3, PrintedLine
<1>5. TreeTypes'
  BY <1>1, <1>2, <1>3, <1>4 DEF TreeTypes
<1>6. Timed(c)'
  <2>1. Tree!Time(c)' = Tree!Time(c)
    BY DEF Tree!Time
  <2> QED
    BY <1>1, <1>2, <1>3, <1>4, <2>1 DEF Timed, Over
<1>7. Bannered(c)'
  <2>1. Tree!Banner(c)' = Tree!Banner(c) /\ Tree!Time(c)' = Tree!Time(c) /\ Tree!System' = Tree!System
    BY DEF Tree!Banner, Tree!Time, Tree!System
  <2> QED
    BY <1>1, <1>2, <1>3, <1>4, <2>1 DEF Bannered, Over
<1> QED
  BY <1>2, <1>3, <1>4, <1>5, <1>6, <1>7, OneMoves

LEMMA TimeStep ==
  ASSUME TreeInductive, NEW c \in 1 .. 3, Tree!PrintTime(c)
  PROVE  TreeInductive'
<1> USE DifferentLines
<1>1. TreeTypes /\ Timed(c) /\ Bannered(c)
  BY DEF TreeInductive
<1>2. /\ place[c] = "time" /\ place'[c] = "exit" /\ place' \in [1 .. 3 -> TreePlaces]
      /\ \A o \in 1 .. 3 : o # c => place'[o] = place[o]
  BY <1>1, Went DEF Tree!PrintTime, TreePlaces
<1>3. /\ Tree!Prints(c, Tree!Time(c))
      /\ UNCHANGED <<terminal, chunked, treePc, treeAt, count, worker, inherited, killed>>
  BY DEF Tree!PrintTime
<1>4. /\ buffer' \in [0 .. 3 -> SUBSET Tree!Lines] /\ output' \in [Tree!Lines -> 0 .. 2]
      /\ \A p \in 0 .. 3 : p # c => buffer'[p] = buffer[p]
      /\ \A m \in Tree!Lines : /\ m # Tree!Time(c) => output'[m] = output[m]
                               /\ output[m] > 0 => output'[m] > 0
      /\ terminal => /\ buffer'[c] = buffer[c]
                     /\ output[Tree!Time(c)] = 0 => output'[Tree!Time(c)] = 1
      /\ ~ terminal => /\ buffer'[c] = buffer[c] \cup {Tree!Time(c)}
                       /\ output'[Tree!Time(c)] = output[Tree!Time(c)]
  BY <1>1, <1>3, PrintedLine
<1>5. TreeTypes'
  BY <1>1, <1>2, <1>3, <1>4 DEF TreeTypes
<1>6. Timed(c)'
  <2>1. Tree!Time(c)' = Tree!Time(c)
    BY DEF Tree!Time
  <2>2. ~ Tree!WorkerRuns(c)'
    <3>1. Tree!WorkerRuns(c)' <=> Tree!WorkerRuns(c)
      BY <1>3 DEF Tree!WorkerRuns, Tree!Workers
    <3> QED
      BY <1>1, <1>2, <3>1 DEF Timed
  <2>3. output[Tree!Time(c)] = 0
    <3>1. ~ (output[Tree!Time(c)] > 0) /\ output[Tree!Time(c)] \in 0 .. 2
      BY <1>1, <1>2 DEF Timed, Over, TreeTypes
    <3> QED
      BY <3>1
  <2> QED
    BY <1>1, <1>2, <1>3, <1>4, <2>1, <2>2, <2>3 DEF Timed, Over
<1>7. Bannered(c)'
  <2>1. Tree!Banner(c)' = Tree!Banner(c) /\ Tree!Time(c)' = Tree!Time(c) /\ Tree!System' = Tree!System
    BY DEF Tree!Banner, Tree!Time, Tree!System
  <2> QED
    BY <1>1, <1>2, <1>3, <1>4, <2>1 DEF Bannered, Over
<1> QED
  BY <1>2, <1>3, <1>4, <1>5, <1>6, <1>7, OneMoves

\* exit() writes the buffer.
LEMMA ExitStep ==
  ASSUME TreeInductive, NEW c \in 1 .. 3, Tree!Exit(c)
  PROVE  TreeInductive'
<1> USE DifferentLines
<1>1. TreeTypes /\ Timed(c) /\ Bannered(c)
  BY DEF TreeInductive
<1>2. /\ place[c] = "exit" /\ place'[c] = "dead" /\ place' \in [1 .. 3 -> TreePlaces]
      /\ \A o \in 1 .. 3 : o # c => place'[o] = place[o]
  BY <1>1, Went DEF Tree!Exit, TreePlaces, Over
<1>3. /\ output' = Tree!With(buffer[c]) /\ buffer' = [buffer EXCEPT ![c] = {}]
      /\ UNCHANGED <<terminal, chunked, treePc, treeAt, count, worker, inherited, killed>>
  <2>1. buffer[c] \cup {} = buffer[c]
    OBVIOUS
  <2> QED
    BY <2>1 DEF Tree!Exit, Tree!PrintsAndExits
<1>4. /\ output' \in [Tree!Lines -> 0 .. 2]
      /\ \A l \in Tree!Lines : /\ l \notin buffer[c] => output'[l] = output[l]
                               /\ l \in buffer[c] => output'[l] > 0
                               /\ l \in buffer[c] /\ output[l] = 0 => output'[l] = 1
                               /\ output[l] > 0 => output'[l] > 0
  BY <1>1, <1>3, MoreLines DEF TreeTypes
<1>5. TreeTypes' /\ buffer'[c] = {} /\ \A p \in 0 .. 3 : p # c => buffer'[p] = buffer[p]
  BY <1>1, <1>2, <1>3, <1>4 DEF TreeTypes
<1>6. Timed(c)'
  <2>1. Tree!Time(c)' = Tree!Time(c)
    BY DEF Tree!Time
  <2>2. ~ Tree!WorkerRuns(c)'
    BY <1>1, <1>2, <1>3 DEF Timed, Tree!WorkerRuns, Tree!Workers
  <2>3. output'[Tree!Time(c)] = 1
    BY <1>1, <1>2, <1>4 DEF Timed, TreeTypes, Over
  <2> QED
    BY <1>2, <1>5, <2>1, <2>2, <2>3 DEF Timed, Over
<1>7. Bannered(c)'
  <2>1. Tree!Banner(c)' = Tree!Banner(c) /\ Tree!Time(c)' = Tree!Time(c) /\ Tree!System' = Tree!System
    BY DEF Tree!Banner, Tree!Time, Tree!System
  <2> QED
    BY <1>1, <1>2, <1>3, <1>4, <1>5, <2>1 DEF Bannered, Over
<1>8. /\ output'[Tree!Total] = output[Tree!Total]
      /\ \A o \in 1 .. 3 : o # c => output'[Tree!Time(o)] = output[Tree!Time(o)]
  BY <1>1, <1>4 DEF Bannered
<1> QED
  BY <1>2, <1>3, <1>4, <1>5, <1>6, <1>7, <1>8, OneMoves

\* A death drops the buffer.
LEMMA DeathStep ==
  ASSUME TreeInductive, NEW c \in 1 .. 3, Tree!Die(c)
  PROVE  TreeInductive'
<1> USE DifferentLines
<1>1. TreeTypes /\ Timed(c) /\ Bannered(c)
  BY DEF TreeInductive
<1>2. /\ place[c] \notin {"none", "dead", "reaped"} /\ place' = [place EXCEPT ![c] = "dead"]
      /\ buffer' = [buffer EXCEPT ![c] = {}] /\ killed' = killed \cup {c}
      /\ UNCHANGED <<terminal, chunked, treePc, treeAt, count, worker, inherited, output>>
  BY DEF Tree!Die, Tree!Running
<1>3. /\ TreeTypes' /\ place'[c] = "dead" /\ buffer'[c] = {}
      /\ \A o \in 1 .. 3 : o # c => place'[o] = place[o] /\ buffer'[o] = buffer[o]
      /\ buffer'[0] = buffer[0]
  BY <1>1, <1>2 DEF TreeTypes, TreePlaces, Over
<1>4. Timed(c)'
  <2>1. Tree!Time(c)' = Tree!Time(c) /\ (Tree!WorkerRuns(c)' <=> Tree!WorkerRuns(c))
    BY <1>2 DEF Tree!Time, Tree!WorkerRuns, Tree!Workers
  <2> QED
    BY <1>1, <1>2, <1>3, <2>1 DEF Timed, Over
<1>5. Bannered(c)'
  <2>1. Tree!Banner(c)' = Tree!Banner(c) /\ Tree!Time(c)' = Tree!Time(c) /\ Tree!System' = Tree!System
    BY DEF Tree!Banner, Tree!Time, Tree!System
  <2> QED
    BY <1>1, <1>2, <1>3, <2>1 DEF Bannered, Over
<1> QED
  BY <1>2, <1>3, <1>4, <1>5, OneMoves

\* A worker is begun, or gone.
LEMMA OneWorker ==
  ASSUME TreeTypes, NEW c \in 1 .. 3, NEW i, NEW s, NEW b \in SUBSET Tree!Lines,
         worker' = [worker EXCEPT ![c][i] = s], inherited' = [inherited EXCEPT ![c][i] = b]
  PROVE  /\ worker' = [o \in 1 .. 3 |-> worker'[o]] /\ inherited' = [o \in 1 .. 3 |-> inherited'[o]]
         /\ \A o \in 1 .. 3 : /\ worker'[o] = [w \in 1 .. Chunks[o] |-> worker'[o][w]]
                              /\ inherited'[o] \in [1 .. Chunks[o] -> SUBSET Tree!Lines]
                              /\ o # c => worker'[o] = worker[o] /\ inherited'[o] = inherited[o]
         /\ \A w \in 1 .. Chunks[c] : inherited'[c][w] \in {inherited[c][w], b}
<1>1. /\ worker = [o \in 1 .. 3 |-> worker[o]] /\ inherited = [o \in 1 .. 3 |-> inherited[o]]
      /\ \A o \in 1 .. 3 : /\ worker[o] = [w \in 1 .. Chunks[o] |-> worker[o][w]]
                           /\ inherited[o] \in [1 .. Chunks[o] -> SUBSET Tree!Lines]
  BY DEF TreeTypes
<1>2. /\ worker' = [worker EXCEPT ![c] = [worker[c] EXCEPT ![i] = s]]
      /\ inherited' = [inherited EXCEPT ![c] = [inherited[c] EXCEPT ![i] = b]]
  BY Zenon
<1>3. /\ worker'[c] = [worker[c] EXCEPT ![i] = s]
      /\ \A o \in 1 .. 3 : o # c => worker'[o] = worker[o]
      /\ worker' = [o \in 1 .. 3 |-> worker'[o]]
  BY ONLY <1>1, <1>2, c \in 1 .. 3
<1>4. /\ inherited'[c] = [inherited[c] EXCEPT ![i] = b]
      /\ \A o \in 1 .. 3 : o # c => inherited'[o] = inherited[o]
      /\ inherited' = [o \in 1 .. 3 |-> inherited'[o]]
  BY ONLY <1>1, <1>2, c \in 1 .. 3
<1>5. worker'[c] = [w \in 1 .. Chunks[c] |-> worker'[c][w]]
  BY <1>1, <1>3
<1>6. /\ inherited'[c] \in [1 .. Chunks[c] -> SUBSET Tree!Lines]
      /\ \A w \in 1 .. Chunks[c] : inherited'[c][w] \in {inherited[c][w], b}
  BY <1>1, <1>4
<1> QED
  BY <1>1, <1>3, <1>4, <1>5, <1>6

\* With the types of what moves, those of the state.
LEMMA SameTypes ==
  ASSUME TreeTypes, UNCHANGED <<terminal, chunked, treePc, treeAt, place, buffer>>,
         output' \in [Tree!Lines -> 0 .. 2], count' \in [1 .. 3 -> Nat],
         worker' = [o \in 1 .. 3 |-> worker'[o]], inherited' = [o \in 1 .. 3 |-> inherited'[o]],
         \A o \in 1 .. 3 : /\ worker'[o] = [w \in 1 .. Chunks[o] |-> worker'[o][w]]
                           /\ inherited'[o] \in [1 .. Chunks[o] -> SUBSET Tree!Lines]
  PROVE  TreeTypes'
<1>1. /\ terminal \in BOOLEAN /\ chunked \in BOOLEAN
      /\ treePc \in {"fork", "wait", "print", "exited"} /\ treeAt \in 1 .. 3
      /\ place \in [1 .. 3 -> TreePlaces] /\ buffer \in [0 .. 3 -> SUBSET Tree!Lines]
  BY DEF TreeTypes
<1> QED
  BY <1>1 DEF TreeTypes

\* The loop over the workers and the wait() for them.
LEMMA LoopSteps ==
  ASSUME TreeInductive, NEW c \in 1 .. 3,
         Tree!ForkWorker(c) \/ Tree!LoopEnds(c) \/ Tree!WaitForWorkers(c)
  PROVE  TreeInductive'
<1>1. TreeTypes /\ Timed(c) /\ Bannered(c)
  BY DEF TreeInductive
<1>2. UNCHANGED <<terminal, chunked, treePc, treeAt, buffer, output, killed>>
  BY DEF Tree!ForkWorker, Tree!LoopEnds, Tree!WaitForWorkers
<1>3. ASSUME place[c] = "fork", place'[c] \in {"fork", "wait"},
             \A o \in 1 .. 3 : o # c =>
               place'[o] = place[o] /\ worker'[o] = worker[o] /\ inherited'[o] = inherited[o],
             \A w \in 1 .. Chunks[c] : inherited'[c][w] \in {inherited[c][w], buffer[c]},
             TreeTypes'
      PROVE  TreeInductive'
  <2>1. Tree!Time(c)' = Tree!Time(c) /\ Tree!Banner(c)' = Tree!Banner(c) /\ Tree!System' = Tree!System
    BY DEF Tree!Banner, Tree!Time, Tree!System
  <2>2. Tree!Time(c) \notin buffer[c] /\ output[Tree!Time(c)] = 0
    BY <1>1, <1>3, DifferentLines DEF Timed, Over, TreeTypes
  <2>3. Timed(c)'
    BY <1>2, <1>3, <2>1, <2>2 DEF Timed, Over
  <2>4. \A w \in 1 .. Chunks[c] : inherited'[c][w] \subseteq {Tree!System, Tree!Banner(c)}
    BY <1>1, <1>3, <2>2 DEF Bannered
  <2>5. Bannered(c)'
    BY <1>1, <1>2, <1>3, <2>1, <2>4 DEF Bannered, Over
  <2> QED
    BY <1>2, <1>3, <2>3, <2>5, OneMoves, DifferentLines
<1>4. CASE Tree!ForkWorker(c)
  <2>1. /\ place[c] = "fork" /\ count[c] < Tree!WorkerCount(c)
        /\ count' = [count EXCEPT ![c] = count[c] + 1]
    BY <1>4 DEF Tree!ForkWorker
  <2>2. CASE /\ worker' = [worker EXCEPT ![c][count[c] + 1] = "running"]
             /\ inherited' = [inherited EXCEPT ![c][count[c] + 1] = buffer[c]]
             /\ place' = place
    <3>1. /\ buffer[c] \in SUBSET Tree!Lines /\ count' \in [1 .. 3 -> Nat]
          /\ output' \in [Tree!Lines -> 0 .. 2]
      BY <1>1, <1>2, <2>1 DEF TreeTypes
    <3>2. /\ worker' = [o \in 1 .. 3 |-> worker'[o]] /\ inherited' = [o \in 1 .. 3 |-> inherited'[o]]
          /\ \A o \in 1 .. 3 : /\ worker'[o] = [w \in 1 .. Chunks[o] |-> worker'[o][w]]
                               /\ inherited'[o] \in [1 .. Chunks[o] -> SUBSET Tree!Lines]
                               /\ o # c => worker'[o] = worker[o] /\ inherited'[o] = inherited[o]
          /\ \A w \in 1 .. Chunks[c] : inherited'[c][w] \in {inherited[c][w], buffer[c]}
      BY <1>1, <2>2, <3>1, OneWorker
    <3>3. TreeTypes'
      <4>1. TreeTypes /\ UNCHANGED <<terminal, chunked, treePc, treeAt, place, buffer>>
        BY <1>1, <1>2, <2>2
      <4> QED
        BY <3>1, <3>2, <4>1, SameTypes
    <3> QED
      BY <1>3, <2>1, <2>2, <3>2, <3>3
  <2>3. CASE /\ place' = IF c = 3 THEN place ELSE [place EXCEPT ![c] = "wait"]
             /\ UNCHANGED <<worker, inherited>>
    <3>1. /\ place'[c] \in {"fork", "wait"} /\ place' \in [1 .. 3 -> TreePlaces]
          /\ \A o \in 1 .. 3 : o # c => place'[o] = place[o]
      BY <1>1, <2>1, <2>3 DEF TreeTypes, TreePlaces
    <3>2. TreeTypes'
      BY <1>1, <1>2, <2>1, <2>3, <3>1 DEF TreeTypes
    <3> QED
      BY <1>3, <2>1, <2>3, <3>1, <3>2
  <2> QED
    BY <1>4, <2>2, <2>3 DEF Tree!ForkWorker
<1>5. CASE Tree!LoopEnds(c)
  <2>1. /\ place[c] = "fork" /\ place'[c] = "wait" /\ place' \in [1 .. 3 -> TreePlaces]
        /\ \A o \in 1 .. 3 : o # c => place'[o] = place[o]
        /\ UNCHANGED <<count, worker, inherited>>
    BY <1>1, <1>5, Went DEF Tree!LoopEnds, TreePlaces
  <2>2. TreeTypes'
    BY <1>1, <1>2, <2>1 DEF TreeTypes
  <2> QED
    BY <1>3, <2>1, <2>2
<1>6. CASE Tree!WaitForWorkers(c)
  <2>1. /\ place[c] = "wait" /\ place'[c] = "time" /\ place' \in [1 .. 3 -> TreePlaces]
        /\ \A o \in 1 .. 3 : o # c => place'[o] = place[o]
        /\ UNCHANGED <<count, inherited>>
    BY <1>1, <1>6, Went DEF Tree!WaitForWorkers, TreePlaces
  <2>2. /\ \A w \in Tree!Workers(c) : worker[c][w] # "running"
        /\ worker' = [worker EXCEPT ![c] =
             [w \in DOMAIN worker[c] |-> IF worker[c][w] = "dead" THEN "reaped" ELSE worker[c][w]]]
    BY <1>6 DEF Tree!WaitForWorkers
  <2>3. /\ \A o \in 1 .. 3 : o # c => worker'[o] = worker[o]
        /\ worker'[c] = [w \in 1 .. Chunks[c] |->
             IF worker[c][w] = "dead" THEN "reaped" ELSE worker[c][w]]
        /\ worker' = [o \in 1 .. 3 |-> worker'[o]]
    BY <1>1, <2>2 DEF TreeTypes
  <2>4. worker'[c] = [w \in 1 .. Chunks[c] |-> worker'[c][w]]
    BY <2>3
  <2>5. TreeTypes'
    BY <1>1, <1>2, <2>1, <2>3, <2>4 DEF TreeTypes
  <2>6. ~ Tree!WorkerRuns(c)'
    <3>1. \A w \in Tree!Workers(c) : w \in 1 .. Chunks[c]
      BY DEF Tree!Workers
    <3> QED
      BY <1>2, <2>2, <2>3, <3>1 DEF Tree!WorkerRuns, Tree!Workers
  <2>7. Tree!Time(c)' = Tree!Time(c) /\ Tree!Banner(c)' = Tree!Banner(c) /\ Tree!System' = Tree!System
    BY DEF Tree!Banner, Tree!Time, Tree!System
  <2>8. Timed(c)'
    BY <1>1, <1>2, <2>1, <2>6, <2>7 DEF Timed, Over
  <2>9. Bannered(c)'
    BY <1>1, <1>2, <2>1, <2>7 DEF Bannered, Over
  <2> QED
    BY <1>2, <2>1, <2>3, <2>5, <2>8, <2>9, OneMoves, DifferentLines
<1> QED
  BY <1>4, <1>5, <1>6

\* A worker writes what it inherited, or is ended.
LEMMA WorkerStep ==
  ASSUME TreeInductive, NEW c \in 1 .. 3, NEW w \in Tree!Workers(c), Tree!Worker(c, w)
  PROVE  TreeInductive'
<1>1. TreeTypes /\ Timed(c) /\ Bannered(c) /\ w \in 1 .. Chunks[c]
  BY DEF TreeInductive, Tree!Workers
<1>2. /\ worker[c][w] = "running"
      /\ worker' = [worker EXCEPT ![c][w] = "dead"] /\ inherited' = [inherited EXCEPT ![c][w] = {}]
      /\ output' = Tree!With(inherited[c][w]) \/ output' = output
      /\ UNCHANGED <<terminal, chunked, treePc, treeAt, place, count, buffer, killed>>
  BY DEF Tree!Worker, Tree!WorkerEnds, Tree!WorkerDies, Tree!Gone
<1>3. Tree!WorkerRuns(c)
  BY <1>2 DEF Tree!WorkerRuns
<1>4. /\ worker' = [o \in 1 .. 3 |-> worker'[o]] /\ inherited' = [o \in 1 .. 3 |-> inherited'[o]]
      /\ \A o \in 1 .. 3 : /\ worker'[o] = [v \in 1 .. Chunks[o] |-> worker'[o][v]]
                           /\ inherited'[o] \in [1 .. Chunks[o] -> SUBSET Tree!Lines]
                           /\ o # c => worker'[o] = worker[o] /\ inherited'[o] = inherited[o]
      /\ \A v \in 1 .. Chunks[c] : inherited'[c][v] \in {inherited[c][v], {}}
  <2>1. {} \in SUBSET Tree!Lines
    OBVIOUS
  <2> QED
    BY <1>1, <1>2, <2>1, OneWorker
<1> USE DifferentLines
<1>5. inherited[c][w] \subseteq {Tree!System, Tree!Banner(c)}
  BY <1>1 DEF Bannered
<1>6. /\ output' \in [Tree!Lines -> 0 .. 2]
      /\ \A l \in Tree!Lines : /\ l \notin inherited[c][w] => output'[l] = output[l]
                               /\ output[l] > 0 => output'[l] > 0
  <2>1. output \in [Tree!Lines -> 0 .. 2]
    BY <1>1 DEF TreeTypes
  <2>2. CASE output' = Tree!With(inherited[c][w])
    BY <2>1, <2>2, MoreLines
  <2>3. CASE output' = output
    BY <2>1, <2>3
  <2> QED
    BY <1>2, <2>2, <2>3
<1>7. /\ output'[Tree!Total] = output[Tree!Total]
      /\ \A o \in 1 .. 3 : output'[Tree!Time(o)] = output[Tree!Time(o)]
  BY <1>5, <1>6
<1>8. TreeTypes'
  <2>1. count' \in [1 .. 3 -> Nat]
    BY <1>1, <1>2 DEF TreeTypes
  <2> QED
    BY <1>1, <1>2, <1>4, <1>6, <2>1, SameTypes
<1>9. Tree!Time(c)' = Tree!Time(c) /\ Tree!Banner(c)' = Tree!Banner(c) /\ Tree!System' = Tree!System
  BY DEF Tree!Banner, Tree!Time, Tree!System
<1>10. Timed(c)'
  BY <1>1, <1>2, <1>3, <1>7, <1>9 DEF Timed
<1>11. Bannered(c)'
  BY <1>1, <1>2, <1>4, <1>6, <1>9 DEF Bannered
<1> QED
  BY <1>2, <1>4, <1>6, <1>7, <1>8, <1>10, <1>11, OneMoves

\* main forks an operation, or fails to.
LEMMA ForkOperationStep ==
  ASSUME TreeInductive, Tree!ForkOperation
  PROVE  TreeInductive'
<1> USE DifferentLines
<1>1. TreeTypes /\ MainLines /\ MainWaits /\ \A o \in 1 .. 3 : Timed(o) /\ Bannered(o)
  BY DEF TreeInductive
<1>2. /\ treePc = "fork"
      /\ \/ /\ place' = [place EXCEPT ![treeAt] = "banner"]
            /\ buffer' = [buffer EXCEPT ![treeAt] = buffer[0]]
         \/ UNCHANGED <<place, buffer>>
      /\ IF treeAt = 3 THEN treeAt' = 1 /\ treePc' = "wait"
         ELSE treeAt' = treeAt + 1 /\ treePc' = "fork"
      /\ UNCHANGED <<terminal, chunked, count, worker, inherited, output, killed>>
  BY DEF Tree!ForkOperation
<1>3. treeAt \in 1 .. 3 /\ place[treeAt] = "none"
  BY <1>1, <1>2 DEF MainWaits, TreeTypes
<1>4. /\ TreeTypes' /\ buffer'[0] = buffer[0]
      /\ \A o \in 1 .. 3 : o # treeAt => place'[o] = place[o] /\ buffer'[o] = buffer[o]
      /\ \/ place'[treeAt] = "banner" /\ buffer'[treeAt] = buffer[0]
         \/ place'[treeAt] = place[treeAt] /\ buffer'[treeAt] = buffer[treeAt]
  BY <1>1, <1>2, <1>3 DEF TreeTypes, TreePlaces
<1>5. MainLines'
  <2>1. Tree!System' = Tree!System /\ Tree!Total' = Tree!Total
    BY DEF Tree!System, Tree!Total
  <2> QED
    BY <1>1, <1>2, <1>4, <2>1 DEF MainLines
<1>6. MainWaits'
  BY <1>1, <1>2, <1>3, <1>4 DEF MainWaits
<1>7. ASSUME NEW o \in 1 .. 3 PROVE Timed(o)' /\ Bannered(o)'
  <2>1. CASE place'[o] = place[o] /\ buffer'[o] = buffer[o]
    BY <1>1, <1>2, <2>1, OthersStay
  <2>2. CASE o = treeAt /\ place'[o] = "banner" /\ buffer'[o] = buffer[0]
    <3>1. /\ Tree!Time(o)' = Tree!Time(o) /\ Tree!Banner(o)' = Tree!Banner(o)
          /\ Tree!System' = Tree!System
      BY DEF Tree!Banner, Tree!Time, Tree!System
    <3>2. Tree!WorkerRuns(o)' <=> Tree!WorkerRuns(o)
      BY <1>2 DEF Tree!WorkerRuns, Tree!Workers
    <3>3. place[o] = "none" /\ buffer[0] \subseteq {Tree!System} /\ Timed(o) /\ Bannered(o)
      BY <1>1, <1>3, <2>2 DEF MainLines
    <3>4. Tree!Time(o) \notin buffer[0] /\ ~ (output[Tree!Time(o)] > 0) /\ o \notin killed
      BY <3>3 DEF Timed, Bannered, Over
    <3>5. Timed(o)'
      BY <1>2, <2>2, <3>1, <3>2, <3>3, <3>4 DEF Timed, Over
    <3>6. Bannered(o)'
      BY <1>2, <2>2, <3>1, <3>3, <3>4 DEF Bannered, Over
    <3> QED
      BY <3>5, <3>6
  <2> QED
    BY <1>4, <2>1, <2>2
<1> QED
  BY <1>4, <1>5, <1>6, <1>7 DEF TreeInductive

\* main waits for a child: one more is settled, or all are.
LEMMA WaitStep ==
  ASSUME TreeInductive, Tree!Wait
  PROVE  TreeInductive'
<1> USE DifferentLines
<1>1. TreeTypes /\ MainLines /\ MainWaits /\ \A o \in 1 .. 3 : Timed(o) /\ Bannered(o)
  BY DEF TreeInductive
<1>2. /\ treePc = "wait"
      /\ IF treeAt = 3 THEN treePc' = "print" /\ treeAt' = treeAt
         ELSE treeAt' = treeAt + 1 /\ treePc' = "wait"
      /\ UNCHANGED <<terminal, chunked, count, worker, buffer, inherited, output, killed>>
      /\ \/ \E c \in 1 .. 3 : place[c] = "dead" /\ place' = [place EXCEPT ![c] = "reaped"]
         \/ (\A o \in 1 .. 3 : Settled(o)) /\ place' = place
  BY DEF Tree!Wait, Tree!Operations, Settled
<1>3. treeAt \in 1 .. 3 /\ place \in [1 .. 3 -> TreePlaces]
  BY <1>1 DEF TreeTypes
<1>4. place' \in [1 .. 3 -> TreePlaces]
  BY <1>2, <1>3 DEF TreePlaces, Over
<1>5. TreeTypes'
  BY <1>1, <1>2, <1>3, <1>4 DEF TreeTypes
<1>6. MainLines'
  <2>1. Tree!System' = Tree!System /\ Tree!Total' = Tree!Total
    BY DEF Tree!System, Tree!Total
  <2> QED
    BY <1>1, <1>2, <2>1 DEF MainLines
<1>7. \A o \in 1 .. 3 : place'[o] = place[o] \/ (place[o] = "dead" /\ place'[o] = "reaped")
  BY <1>2, <1>3
<1>8. MainWaits'
  <2>1. CASE (\A o \in 1 .. 3 : Settled(o)) /\ place' = place
    <3>1. \A o \in 1 .. 3 : Settled(o)'
      BY <2>1 DEF Settled
    <3> QED
      BY <1>2, <1>3, <3>1 DEF MainWaits
  <2>2. ASSUME NEW c \in 1 .. 3, place[c] = "dead", place' = [place EXCEPT ![c] = "reaped"]
        PROVE  MainWaits'
    <3>1. ~ Settled(c) /\ Settled(c)' /\ \A o \in 1 .. 3 : Settled(o) => Settled(o)'
      BY <1>3, <2>2 DEF Settled
    <3>2. treeAt >= 2 => \E o \in 1 .. 3 : o # c /\ Settled(o)'
      BY <1>1, <1>2, <3>1 DEF MainWaits
    <3>3. treeAt = 3 => \A o \in 1 .. 3 : Settled(o)'
      <4>1. SUFFICES ASSUME treeAt = 3 PROVE \A o \in 1 .. 3 : Settled(o)'
        OBVIOUS
      <4>2. PICK o \in 1 .. 3, p \in 1 .. 3 : o # p /\ Settled(o) /\ Settled(p)
        BY <1>1, <1>2, <4>1 DEF MainWaits
      <4>3. o # c /\ p # c /\ Settled(o)' /\ Settled(p)'
        BY <3>1, <4>2
      <4>4. \A q \in 1 .. 3 : q = o \/ q = p \/ q = c
        BY <4>2, <4>3
      <4> QED
        BY <3>1, <4>3, <4>4
    <3>4. treeAt = 1 => treePc' = "wait" /\ treeAt' = 2
      BY <1>2
    <3>5. treeAt = 2 => treePc' = "wait" /\ treeAt' = 3
      BY <1>2
    <3>6. treeAt = 3 => treePc' = "print"
      BY <1>2
    <3> QED
      BY <1>3, <3>1, <3>2, <3>3, <3>4, <3>5, <3>6 DEF MainWaits
  <2> QED
    BY <1>2, <2>1, <2>2
<1>9. ASSUME NEW o \in 1 .. 3 PROVE Timed(o)' /\ Bannered(o)'
  <2>1. CASE place'[o] = place[o]
    BY <1>1, <1>2, <2>1, OthersStay
  <2>2. CASE place[o] = "dead" /\ place'[o] = "reaped"
    <3>1. /\ Tree!Time(o)' = Tree!Time(o) /\ Tree!Banner(o)' = Tree!Banner(o)
          /\ Tree!System' = Tree!System
      BY DEF Tree!Banner, Tree!Time, Tree!System
    <3>2. Tree!WorkerRuns(o)' <=> Tree!WorkerRuns(o)
      BY <1>2 DEF Tree!WorkerRuns, Tree!Workers
    <3>3. Timed(o) /\ Bannered(o)
      BY <1>1
    <3>4. Timed(o)'
      BY <1>2, <2>2, <3>1, <3>2, <3>3 DEF Timed, Over
    <3>5. Bannered(o)'
      BY <1>2, <2>2, <3>1, <3>3 DEF Bannered, Over
    <3> QED
      BY <3>4, <3>5
  <2> QED
    BY <1>7, <2>1, <2>2
<1> QED
  BY <1>5, <1>6, <1>8, <1>9 DEF TreeInductive

\* main prints its time and returns.
LEMMA TotalStep ==
  ASSUME TreeInductive, Tree!PrintTotal
  PROVE  TreeInductive'
<1> USE DifferentLines
<1>1. TreeTypes /\ MainLines /\ MainWaits /\ \A o \in 1 .. 3 : Timed(o) /\ Bannered(o)
  BY DEF TreeInductive
<1>2. /\ treePc = "print" /\ treePc' = "exited"
      /\ output' = Tree!With(buffer[0] \cup {Tree!Total})
      /\ buffer' = [buffer EXCEPT ![0] = {}]
      /\ UNCHANGED <<terminal, chunked, treeAt, place, count, worker, inherited, killed>>
  BY DEF Tree!PrintTotal, Tree!PrintsAndExits
<1>3. output \in [Tree!Lines -> 0 .. 2] /\ buffer[0] \subseteq {Tree!System}
  BY <1>1 DEF TreeTypes, MainLines
<1> DEFINE Last == buffer[0] \cup {Tree!Total}
<1>4. /\ output' \in [Tree!Lines -> 0 .. 2]
      /\ \A l \in Tree!Lines : /\ l \notin Last => output'[l] = output[l]
                               /\ l \in Last => output'[l] > 0
                               /\ l \in Last /\ output[l] = 0 => output'[l] = 1
                               /\ output[l] > 0 => output'[l] > 0
  <2> HIDE DEF Last
  <2>1. output' = Tree!With(Last)
    BY <1>2 DEF Last
  <2> QED
    BY <1>3, <2>1, MoreLines
<1>5. /\ buffer' \in [0 .. 3 -> SUBSET Tree!Lines] /\ buffer'[0] = {}
      /\ \A o \in 1 .. 3 : buffer'[o] = buffer[o]
  BY <1>1, <1>2 DEF TreeTypes
<1>6. TreeTypes'
  BY <1>1, <1>2, <1>4, <1>5 DEF TreeTypes
<1>7. MainLines'
  <2>1. Tree!System' = Tree!System /\ Tree!Total' = Tree!Total
    BY DEF Tree!System, Tree!Total
  <2>2. output[Tree!Total] = 0 /\ Tree!Total \in Last
    BY <1>1, <1>2 DEF MainLines
  <2>3. output'[Tree!Total] = 1
    BY <1>4, <2>2
  <2>4. output'[Tree!System] > 0
    BY <1>1, <1>2, <1>4 DEF MainLines
  <2> QED
    BY <1>2, <1>5, <2>1, <2>3, <2>4 DEF MainLines
<1>8. MainWaits'
  <2>1. \A o \in 1 .. 3 : Settled(o) => Settled(o)'
    BY <1>2 DEF Settled
  <2> QED
    BY <1>1, <1>2, <2>1 DEF MainWaits
<1>9. ASSUME NEW o \in 1 .. 3 PROVE Timed(o)' /\ Bannered(o)'
  <2>1. Tree!Time(o) \notin Last
    BY <1>3
  <2>2. output'[Tree!Time(o)] = output[Tree!Time(o)]
    BY <1>4, <2>1
  <2>3. output[Tree!Banner(o)] > 0 => output'[Tree!Banner(o)] > 0
    BY <1>4
  <2> QED
    BY <1>1, <1>2, <1>5, <2>2, <2>3, OthersStay
<1> QED
  BY <1>6, <1>7, <1>8, <1>9 DEF TreeInductive

LEMMA TreeInvariant == Tree!Spec => []TreeInductive
<1>1. TreeInductive /\ Tree!Next => TreeInductive'
  <2> SUFFICES ASSUME TreeInductive, Tree!Next PROVE TreeInductive'
    OBVIOUS
  <2>1. CASE Tree!Main
    BY <2>1, ForkOperationStep, WaitStep, TotalStep DEF Tree!Main
  <2>2. ASSUME NEW o \in 1 .. 3, Tree!Operation(o) PROVE TreeInductive'
    BY <2>2, BannerStep, TimeStep, ExitStep, LoopSteps DEF Tree!Operation
  <2>3. ASSUME NEW o \in 1 .. 3, Tree!Die(o) PROVE TreeInductive'
    BY <2>3, DeathStep
  <2>4. ASSUME NEW o \in 1 .. 3, NEW w \in Tree!Workers(o), Tree!Worker(o, w)
        PROVE  TreeInductive'
    BY <2>4, WorkerStep
  <2> QED
    BY <2>1, <2>2, <2>3, <2>4 DEF Tree!Next, Tree!Operations
<1>2. TreeInductive /\ UNCHANGED Tree!vars => TreeInductive'
  <2> SUFFICES ASSUME TreeInductive, UNCHANGED Tree!vars PROVE TreeInductive'
    OBVIOUS
  <2>1. /\ TreeTypes /\ MainLines /\ MainWaits /\ \A o \in 1 .. 3 : Timed(o) /\ Bannered(o)
        /\ UNCHANGED <<terminal, chunked, treePc, treeAt, place, count, worker, buffer,
                       inherited, output, killed>>
    BY DEF TreeInductive, Tree!vars
  <2>2. TreeTypes'
    BY <2>1 DEF TreeTypes
  <2>3. MainLines' /\ MainWaits'
    BY <2>1 DEF MainLines, MainWaits, Settled, Tree!System, Tree!Total
  <2>4. ASSUME NEW o \in 1 .. 3 PROVE Timed(o)' /\ Bannered(o)'
    BY <2>1, OthersStay
  <2> QED
    BY <2>2, <2>3, <2>4 DEF TreeInductive
<1> QED
  BY TreeBegins, <1>1, <1>2, PTL DEF Tree!Spec

LEMMA TreeAlone == MCSpec => Tree!Spec
<1>1. MCInit => Tree!Init
  BY Zenon DEF MCInit
<1>2. [MCNext]_allVars => [Tree!Next]_(Tree!vars)
  <2>1. MCNext => UNCHANGED treeVars \/ TreeRuns \/ \E o \in Tree!Operations : Tree!Die(o)
    BY Zenon DEF MCNext
  <2>2. UNCHANGED allVars => UNCHANGED treeVars
    BY Zenon DEF allVars
  <2>3. UNCHANGED treeVars => UNCHANGED Tree!vars
    BY DEF treeVars, Tree!vars
  <2>4. TreeRuns \/ (\E o \in Tree!Operations : Tree!Die(o)) => Tree!Next
    BY DEF TreeRuns, Tree!Next
  <2> QED
    BY <2>1, <2>2, <2>3, <2>4
<1> QED
  BY <1>1, <1>2, PTL DEF MCSpec, Tree!Spec

\* However many workers there are, whatever fork fails or process dies, and with
\* a terminal or a file: no time is printed twice or while a worker computes, no
\* buffer of a process that came to its end is dropped, and the time of the
\* program is its last line (main, multiplyMatrices and the others of
\* process_based_parallelism.c and process_based_parallelism_taskLevel.c).
THEOREM TimesAreRight == MCSpec => []OutputIsRight
<1>1. TreeInductive => OutputIsRight
  <2> SUFFICES ASSUME TreeInductive PROVE OutputIsRight
    OBVIOUS
  <2>1. TreeTypes /\ MainLines /\ MainWaits /\ \A o \in 1 .. 3 : Timed(o) /\ Bannered(o)
    BY DEF TreeInductive
  <2>2. output[Tree!Total] <= 1
    BY <2>1 DEF MainLines
  <2>3. ASSUME NEW o \in 1 .. 3
        PROVE  /\ Tree!Time(o) \in buffer[o] \/ output[Tree!Time(o)] > 0 => ~ Tree!WorkerRuns(o)
               /\ output[Tree!Time(o)] <= 1
    BY <2>1 DEF Timed
  <2>4. ASSUME treePc = "exited"
        PROVE  /\ output[Tree!System] > 0 /\ output[Tree!Total] = 1
               /\ \A o \in 1 .. 3 :
                    /\ ~ Tree!Running(o) /\ (Tree!WorkerRuns(o) => o \in killed)
                    /\ place[o] # "none" /\ o \notin killed =>
                         output[Tree!Banner(o)] > 0 /\ output[Tree!Time(o)] = 1
    <3>1. output[Tree!System] > 0 /\ output[Tree!Total] = 1
      BY <2>1, <2>4 DEF MainLines
    <3>2. ASSUME NEW o \in 1 .. 3
          PROVE  /\ ~ Tree!Running(o) /\ (Tree!WorkerRuns(o) => o \in killed)
                 /\ place[o] # "none" /\ o \notin killed =>
                      output[Tree!Banner(o)] > 0 /\ output[Tree!Time(o)] = 1
      <4>1. place[o] \in {"none", "reaped"} /\ Timed(o) /\ Bannered(o)
        BY <2>1, <2>4 DEF MainWaits, Settled
      <4> QED
        BY <4>1 DEF Timed, Bannered, Over, Tree!Running
    <3> QED
      BY <3>1, <3>2
  <2> QED
    BY <2>2, <2>3, <2>4 DEF OutputIsRight, Tree!OutputIsRight, Tree!Operations
<1> QED
  BY <1>1, TreeInvariant, TreeAlone, PTL

-----------------------------------------------------------------------------
(* The matrices that main of part B reads *)

\* How often main has read from pipe p, and how many matrices it has printed.
ReadsOf(p) ==
  IF bPc = "fork" THEN 0
  ELSE IF bPc \in {"wait", "exited"} \/ bAt > p THEN 3
  ELSE IF bAt = p THEN bPart - 1 ELSE 0

Prints == IF bPc = "fork" THEN 0 ELSE IF bPc \in {"wait", "exited"} THEN 3 ELSE bAt - 1

\* What is in a pipe into which n of three parts were written and k read.
Content(a, b, c, n, k) ==
  IF n <= k THEN << >>
  ELSE IF n = 1 THEN <<a>>
  ELSE IF n = 2 THEN (IF k = 0 THEN <<a, b>> ELSE <<b>>)
  ELSE IF k = 0 THEN <<a, b, c>> ELSE IF k = 1 THEN <<b, c>> ELSE <<c>>

\* A child that is gone, or was not forked and never will be.
Lost(c) == bChild[c] # "running" /\ (bChild[c] = "none" => bPc # "fork" \/ bAt > c)

\* The operators of part B on matrices, by names of this module.
NoMatrix == PartB!Empty
GivenA == PartB!Matrix(rowsA, columnsA, A)
Turned(m) == PartB!Transpose(m)
Lengthened(m) == PartB!WithRow(m)

IsMatrix(m) ==
  /\ m = [rows |-> m.rows, columns |-> m.columns, words |-> m.words]
  /\ m.rows \in Nat /\ m.columns \in Nat
  /\ PartB!NoBytes(m.rows, m.columns) => m.words = << >>

BTypes ==
  /\ bPc \in {"fork", "read", "wait", "exited", "crashed"} /\ bAt \in 1 .. 3 /\ bPart \in 1 .. 3
  /\ bPc \in {"fork", "wait"} => bPart = 1
  /\ dims \in [1 .. 2 -> [1 .. 2 -> Nat \cup {-1}]]
  /\ bChild \in [1 .. 3 -> {"none", "running", "dead", "reaped"}]
  /\ written \in [1 .. 3 -> 0 .. 3]
  /\ DOMAIN bPlace = 1 .. 3 /\ DOMAIN bPipe = 1 .. 3 /\ DOMAIN faults = 1 .. 3 /\ DOMAIN matrix = 1 .. 3
  /\ \A p \in 1 .. 3 : IsMatrix(matrix[p])

\* All but words of no bytes has been written.
NoneToCome(p) == written[p] = 2 /\ PartB!NoBytes(matrix[p].rows, matrix[p].columns)

\* A pipe that main reads holds what was written and not read, and main misses
\* only what was never going to be written, or is no bytes.
Piped(p) ==
  /\ ReadsOf(p) < 3 =>
       bPipe[p] = Content(matrix[p].rows, matrix[p].columns, matrix[p].words, written[p], ReadsOf(p))
  /\ ReadsOf(p) > written[p] => Lost(PartB!Writer(p)) \/ NoneToCome(p)

\* Where the children are, and what they have written there.
Places ==
  /\ bPc = "fork" => \A c \in 1 .. 3 : c >= bAt => bChild[c] = "none"
  /\ \A c \in 1 .. 2 : /\ bChild[c] = "none" => bPlace[c] \in {"start", "compute"}
                       /\ bChild[c] \in {"dead", "reaped"} => bPlace[c] = "exit"
  /\ bPlace[1] \in {"compute", "send", "transpose", "add", "sendSecond", "free", "exit"}
  /\ bPlace[1] = "compute" => written[1] = 0
  /\ bPlace[1] = "send" => written[1] < 3
  /\ bPlace[1] \in {"compute", "send", "transpose", "add"} \/ written[1] < 3 => written[2] = 0
  /\ bPlace[1] \in {"transpose", "add", "sendSecond", "free"} => written[1] = 3
  /\ bPlace[1] = "sendSecond" => written[2] < 3
  /\ bPlace[1] = "free" \/ (bPlace[1] = "exit" /\ bChild[1] = "running") => written[2] = 3
  /\ bPlace[2] \in {"start", "compute", "send", "exit"}
  /\ bPlace[2] \in {"start", "compute"} => written[3] = 0
  /\ bPlace[2] = "send" => written[3] < 3
  /\ bPlace[2] = "exit" /\ bChild[2] = "running" => written[3] = 3

\* A child that is gone too early had a fault.
Faulty ==
  /\ Lost(1) /\ written[2] < 3 => faults[1] \cap {"fork", "died"} # {}
  /\ Lost(2) /\ written[3] < 3 => faults[2] # {}
  /\ bPc = "crashed" => Lost(1) /\ written[2] < 2

\* The dimensions that main has read.
Told ==
  /\ bPc = "read" =>
       /\ bPart >= 2 /\ written[bAt] >= 1 => dims[PartB!Struct(bAt)][1] = matrix[bAt].rows
       /\ bPart = 3 /\ written[bAt] >= 2 => dims[PartB!Struct(bAt)][2] = matrix[bAt].columns
  /\ bPc = "read" /\ bAt = 3 /\ written[2] >= 2 => dims[2][1] # -1 /\ dims[2][2] # -1

\* The matrices of the children, from place to place.
Computed ==
  /\ matrix[1] = NoMatrix \/ (matrix[1].rows = rowsA /\ matrix[1].columns = columnsB)
  /\ bPlace[1] = "add" =>
       /\ matrix[2] = NoMatrix \/ matrix[2].columns = rowsA
       /\ "second" \in faults[1] \/ matrix[2] = Turned(matrix[1])
  /\ bPlace[1] \in {"sendSecond", "free"} \/ written[2] > 0 =>
       \/ faults[1] \cap {"second", "realloc"} # {} \/ matrix[1] = NoMatrix
       \/ matrix[2] = Lengthened(Turned(matrix[1]))
  /\ bPlace[2] = "send" \/ written[3] > 0 =>
       faults[2] # {} \/ matrix[3] = Turned(GivenA)

\* What main has printed.
Shown ==
  /\ printed = Content(printed[1], printed[2], printed[3], Prints, 0)
  /\ \A p \in 1 .. 3 : p <= Prints /\ (written[p] = 3 \/ NoneToCome(p)) => printed[p] = matrix[p]

\* The block of the second matrix.
Freed ==
  /\ bPlace[1] = "add" => block = "live"
  /\ bPlace[1] \in {"sendSecond", "free"} =>
       block = "live" \/ (block = "freed" /\ matrix[2] = NoMatrix)
  /\ block = "freedTwice" => matrix[2] = NoMatrix /\ written[2] = 3

BInductive ==
  /\ BTypes /\ Places /\ Faulty /\ Told /\ Computed /\ Shown /\ Freed
  /\ \A p \in 1 .. 3 : Piped(p)

\* A sequence with one element more.
LEMMA Longer ==
  ASSUME NEW S, NEW s \in Seq(S), NEW t \in Seq(S), NEW e \in S, Len(t) = Len(s) + 1,
         \A i \in 1 .. Len(s) : t[i] = s[i], t[Len(t)] = e
  PROVE  Append(s, e) = t
<1> DEFINE u == Append(s, e)
<1>1. u \in Seq(S) /\ Len(u) = Len(t) /\ Len(t) \in Nat
  OBVIOUS
<1>2. \A i \in 1 .. Len(t) : u[i] = t[i]
  OBVIOUS
<1> HIDE DEF u
<1>3. u = [i \in 1 .. Len(t) |-> u[i]] /\ t = [i \in 1 .. Len(t) |-> t[i]]
  BY <1>1
<1>4. u = t
  BY <1>2, <1>3
<1> QED
  BY <1>4 DEF u

\* One more part.
LEMMA AppendedToOne ==
  ASSUME NEW a, NEW b
  PROVE  Append(<<a>>, b) = <<a, b>>
<1> DEFINE S == {a, b}
           s == <<a>>
           t == <<a, b>>
<1>1. /\ s \in Seq(S) /\ t \in Seq(S) /\ b \in S /\ Len(s) = 1 /\ Len(t) = 2
      /\ s[1] = a /\ t[1] = a /\ t[2] = b
  OBVIOUS
<1> HIDE DEF S, s, t
<1>2. s \in Seq(S) /\ t \in Seq(S) /\ b \in S
  BY <1>1
<1>3. Len(t) = Len(s) + 1 /\ t[Len(t)] = b /\ \A i \in 1 .. Len(s) : t[i] = s[i]
  BY <1>1
<1>4. Append(s, b) = t
  BY Zenon, <1>2, <1>3, Longer
<1> QED
  BY <1>4 DEF s, t

LEMMA AppendedToTwo ==
  ASSUME NEW a, NEW b, NEW c
  PROVE  Append(<<a, b>>, c) = <<a, b, c>>
<1> DEFINE S == {a, b, c}
           s == <<a, b>>
           t == <<a, b, c>>
<1>1. /\ s \in Seq(S) /\ t \in Seq(S) /\ c \in S /\ Len(s) = 2 /\ Len(t) = 3
      /\ s[1] = a /\ s[2] = b /\ t[1] = a /\ t[2] = b /\ t[3] = c
  OBVIOUS
<1> HIDE DEF S, s, t
<1>2. s \in Seq(S) /\ t \in Seq(S) /\ c \in S
  BY <1>1
<1>3. Len(t) = Len(s) + 1 /\ t[Len(t)] = c /\ \A i \in 1 .. Len(s) : t[i] = s[i]
  BY <1>1
<1>4. Append(s, c) = t
  BY Zenon, <1>2, <1>3, Longer
<1> QED
  BY <1>4 DEF s, t

\* What is in a pipe after the next part is written.
LEMMA Putting ==
  ASSUME NEW a, NEW b, NEW c, NEW n \in 0 .. 2, NEW k \in 0 .. n
  PROVE  Append(Content(a, b, c, n, k), <<a, b, c>>[n + 1]) = Content(a, b, c, n + 1, k)
<1>1. /\ Append(<< >>, a) = <<a>> /\ Append(<<a>>, b) = <<a, b>> /\ Append(<< >>, b) = <<b>>
      /\ Append(<< >>, c) = <<c>> /\ Append(<<b>>, c) = <<b, c>> /\ Append(<<a, b>>, c) = <<a, b, c>>
  <2>1. Append(<< >>, a) = <<a>> /\ Append(<< >>, b) = <<b>> /\ Append(<< >>, c) = <<c>>
    OBVIOUS
  <2> QED
    BY <2>1, AppendedToOne, AppendedToTwo
<1>2. <<a, b, c>>[1] = a /\ <<a, b, c>>[2] = b /\ <<a, b, c>>[3] = c
  OBVIOUS
<1>3. CASE n = 0
  BY <1>1, <1>2, <1>3 DEF Content
<1>4. CASE n = 1
  <2>1. CASE k = 0
    BY <1>1, <1>2, <1>4, <2>1 DEF Content
  <2>2. CASE k = 1
    BY <1>1, <1>2, <1>4, <2>2 DEF Content
  <2> QED
    BY <1>4, <2>1, <2>2
<1>5. CASE n = 2
  <2>1. CASE k = 0
    BY <1>1, <1>2, <1>5, <2>1 DEF Content
  <2>2. CASE k = 1
    BY <1>1, <1>2, <1>5, <2>2 DEF Content
  <2>3. CASE k = 2
    BY <1>1, <1>2, <1>5, <2>3 DEF Content
  <2> QED
    BY <1>5, <2>1, <2>2, <2>3
<1> QED
  BY <1>3, <1>4, <1>5

\* What is in a pipe before and after the next part is read.
LEMMA Taking ==
  ASSUME NEW a, NEW b, NEW c, NEW n \in 0 .. 3, NEW k \in 0 .. 2, n > k
  PROVE  /\ Content(a, b, c, n, k) # << >>
         /\ Head(Content(a, b, c, n, k)) = <<a, b, c>>[k + 1]
         /\ Tail(Content(a, b, c, n, k)) = Content(a, b, c, n, k + 1)
<1>1. /\ Head(<<a>>) = a /\ Head(<<a, b>>) = a /\ Head(<<a, b, c>>) = a /\ Head(<<b>>) = b
      /\ Head(<<b, c>>) = b /\ Head(<<c>>) = c
  OBVIOUS
<1>2. /\ Tail(<<a>>) = << >> /\ Tail(<<b>>) = << >> /\ Tail(<<c>>) = << >>
      /\ Tail(<<a, b>>) = <<b>> /\ Tail(<<b, c>>) = <<c>> /\ Tail(<<a, b, c>>) = <<b, c>>
  OBVIOUS
<1>3. /\ <<a>> # << >> /\ <<b>> # << >> /\ <<c>> # << >> /\ <<a, b>> # << >> /\ <<b, c>> # << >>
      /\ <<a, b, c>> # << >>
  OBVIOUS
<1>4. <<a, b, c>>[1] = a /\ <<a, b, c>>[2] = b /\ <<a, b, c>>[3] = c
  OBVIOUS
<1>5. CASE k = 0
  BY <1>1, <1>2, <1>3, <1>4, <1>5 DEF Content
<1>6. CASE k = 1
  BY <1>1, <1>2, <1>3, <1>4, <1>6 DEF Content
<1>7. CASE k = 2
  BY <1>1, <1>2, <1>3, <1>4, <1>7 DEF Content
<1> QED
  BY <1>5, <1>6, <1>7

\* All that was written has been read.
LEMMA Taken ==
  ASSUME NEW a, NEW b, NEW c, NEW n \in 0 .. 3, NEW k \in 0 .. 3, n <= k
  PROVE  Content(a, b, c, n, k) = << >>
BY DEF Content


\* What happened to one child, of the first two.
LEMMA OneFault ==
  ASSUME BTypes, NEW c \in 1 .. 3, NEW f, faults' = PartB!With(c, f)
  PROVE  /\ DOMAIN faults' = 1 .. 3
         /\ \A d \in 1 .. 2 : d # c => faults'[d] = faults[d]
         /\ c \in 1 .. 2 => faults'[c] = faults[c] \cup {f}
<1>1. DOMAIN faults = 1 .. 3
  BY DEF BTypes
<1>2. CASE c = 3
  BY <1>1, <1>2 DEF PartB!With
<1>3. CASE c # 3
  <2>1. PICK v : v = faults[c] \cup {f}
    OBVIOUS
  <2>2. faults' = [faults EXCEPT ![c] = v]
    BY <1>3, <2>1 DEF PartB!With
  <2>3. /\ DOMAIN faults' = 1 .. 3 /\ faults'[c] = v
        /\ \A d \in 1 .. 3 : d # c => faults'[d] = faults[d]
    BY <1>1, <2>2
  <2> QED
    BY <2>1, <2>3
<1> QED
  BY <1>2, <1>3

\* The matrices and what is right of them do not change.
LEMMA SameMatrices ==
  ASSUME Computed, Freed, UNCHANGED <<bPlace, written, matrix, block>>,
         \A c \in 1 .. 2 : faults[c] \subseteq faults'[c]
  PROVE  Computed' /\ Freed'
<1>1. Computed'
  <2>1. /\ faults[2] # {} => faults'[2] # {}
        /\ "second" \in faults[1] => "second" \in faults'[1]
        /\ faults[1] \cap {"second", "realloc"} # {} => faults'[1] \cap {"second", "realloc"} # {}
    OBVIOUS
  <2> QED
    BY <2>1 DEF Computed
<1>2. Freed'
  BY DEF Freed
<1> QED
  BY <1>1, <1>2

\* What the parts of the invariant say, one by one.
LEMMA Placed ==
  ASSUME Places
  PROVE  /\ bPc = "fork" => \A c \in 1 .. 3 : c >= bAt => bChild[c] = "none"
         /\ \A c \in 1 .. 2 : bChild[c] = "none" => bPlace[c] \in {"start", "compute"}
         /\ \A c \in 1 .. 2 : bChild[c] \in {"dead", "reaped"} => bPlace[c] = "exit"
         /\ bPlace[1] = "exit" /\ bChild[1] = "running" => written[2] = 3
         /\ bPlace[2] = "exit" /\ bChild[2] = "running" => written[3] = 3
BY DEF Places

-----------------------------------------------------------------------------
(* main of part B, step by step *)

LEMMA BFork ==
  ASSUME BInductive, PartB!Fork
  PROVE  BInductive'
<1>1. BTypes /\ Places /\ Faulty /\ Told /\ Computed /\ Shown /\ Freed /\ \A p \in 1 .. 3 : Piped(p)
  BY DEF BInductive
<1>2. /\ bPc = "fork" /\ bAt \in 1 .. 3 /\ bPart = 1
      /\ \/ bChild' = [bChild EXCEPT ![bAt] = "running"] /\ faults' = faults
         \/ bChild' = bChild /\ faults' = PartB!With(bAt, "fork")
      /\ IF bAt = 3 THEN bAt' = 1 /\ bPc' = "read" ELSE bAt' = bAt + 1 /\ bPc' = "fork"
      /\ UNCHANGED <<bPart, dims, printed, bPlace, written, bPipe, matrix, block>>
  BY <1>1 DEF PartB!Fork, PartB!Fault, BTypes
<1>3. \A c \in 1 .. 3 : c >= bAt => bChild[c] = "none"
  BY <1>1, <1>2, Placed
<1>4. /\ \A c \in 1 .. 3 : c # bAt => bChild'[c] = bChild[c]
      /\ bChild[bAt] = "none" /\ bChild'[bAt] \in {"none", "running"}
      /\ bChild'[bAt] = "none" => bChild' = bChild /\ faults' = PartB!With(bAt, "fork")
      /\ bChild' \in [1 .. 3 -> {"none", "running", "dead", "reaped"}]
  <2>1. bChild \in [1 .. 3 -> {"none", "running", "dead", "reaped"}]
    BY <1>1 DEF BTypes
  <2>2. bAt >= bAt /\ bChild[bAt] = "none"
    BY <1>2, <1>3
  <2> QED
    BY <1>2, <2>1, <2>2
<1>5. /\ DOMAIN faults' = 1 .. 3
      /\ \A d \in 1 .. 2 : faults[d] \subseteq faults'[d]
      /\ bAt \in 1 .. 2 /\ bChild'[bAt] = "none" => "fork" \in faults'[bAt]
  <2>1. CASE faults' = faults
    BY <1>1, <1>4, <2>1, OneFault DEF BTypes
  <2>2. CASE faults' = PartB!With(bAt, "fork")
    BY <1>1, <1>2, <2>2, OneFault
  <2> QED
    BY <1>2, <2>1, <2>2
<1>6. BTypes'
  BY <1>1, <1>2, <1>4, <1>5 DEF BTypes, IsMatrix
<1>7. Places'
  <2>1. bPc' = "fork" => \A c \in 1 .. 3 : c >= bAt' => bChild'[c] = "none"
    BY <1>2, <1>3, <1>4
  <2>2. \A c \in 1 .. 3 : bChild'[c] # bChild[c] => bChild[c] = "none" /\ bChild'[c] = "running"
    BY <1>4
  <2>3. \A c \in 1 .. 2 : /\ bChild'[c] = "none" => bPlace[c] \in {"start", "compute"}
                          /\ bChild'[c] \in {"dead", "reaped"} => bPlace[c] = "exit"
    BY <1>1, <2>2, Placed
  <2>4. /\ bPlace[1] = "exit" /\ bChild'[1] = "running" => written[2] = 3
        /\ bPlace[2] = "exit" /\ bChild'[2] = "running" => written[3] = 3
    BY <1>1, <2>2, Placed
  <2> QED
    BY <1>1, <1>2, <2>1, <2>3, <2>4 DEF Places
<1>8. Faulty'
  <2>1. \A c \in 1 .. 2 : Lost(c)' => Lost(c) \/ (c = bAt /\ "fork" \in faults'[c])
    BY <1>2, <1>4, <1>5 DEF Lost
  <2>2. faults[1] \subseteq faults'[1] /\ faults[2] \subseteq faults'[2]
    BY <1>5
  <2> QED
    BY <1>1, <1>2, <2>1, <2>2 DEF Faulty
<1>9. Told'
  BY <1>2 DEF Told
<1>10. Shown'
  BY <1>1, <1>2 DEF Shown, NoneToCome, Prints, Content
<1>11. \A p \in 1 .. 3 : Piped(p)'
  <2>1. \A p \in 1 .. 3 : ReadsOf(p) = 0 /\ ReadsOf(p)' = 0
    BY <1>2 DEF ReadsOf
  <2>2. \A p \in 1 .. 3 : ~ (0 > written[p])
    BY <1>1 DEF BTypes
  <2> QED
    BY <1>1, <1>2, <2>1, <2>2 DEF Piped, NoneToCome, Content
<1>12. Computed' /\ Freed'
  BY <1>1, <1>2, <1>5, SameMatrices
<1> QED
  BY <1>6, <1>7, <1>8, <1>9, <1>10, <1>11, <1>12 DEF BInductive

LEMMA BWait ==
  ASSUME BInductive, PartB!Wait
  PROVE  BInductive'
<1>1. BTypes /\ Places /\ Faulty /\ Told /\ Computed /\ Shown /\ Freed /\ \A p \in 1 .. 3 : Piped(p)
  BY DEF BInductive
<1>2. /\ bPc = "wait" /\ bPc' \in {"wait", "exited"} /\ bAt' \in 1 .. 3
      /\ \/ \E c \in 1 .. 3 : bChild[c] = "dead" /\ bChild' = [bChild EXCEPT ![c] = "reaped"]
         \/ bChild' = bChild
      /\ UNCHANGED <<bPart, dims, printed, bPlace, written, bPipe, matrix, block, faults>>
  BY <1>1 DEF PartB!Wait, PartB!Children, BTypes
<1>3. /\ bChild' \in [1 .. 3 -> {"none", "running", "dead", "reaped"}]
      /\ \A c \in 1 .. 3 : bChild'[c] = bChild[c] \/ (bChild[c] = "dead" /\ bChild'[c] = "reaped")
  BY <1>1, <1>2 DEF BTypes
<1>4. BTypes'
  BY <1>1, <1>2, <1>3 DEF BTypes, IsMatrix
<1>5. Places'
  <2>1. \A c \in 1 .. 3 : /\ bChild'[c] = "none" <=> bChild[c] = "none"
                          /\ bChild'[c] = "running" <=> bChild[c] = "running"
                          /\ bChild'[c] \in {"dead", "reaped"} => bChild[c] \in {"dead", "reaped"}
    BY <1>3
  <2>2. \A c \in 1 .. 2 : /\ bChild'[c] = "none" => bPlace[c] \in {"start", "compute"}
                          /\ bChild'[c] \in {"dead", "reaped"} => bPlace[c] = "exit"
    BY <1>1, <2>1, Placed
  <2>3. /\ bPlace[1] = "exit" /\ bChild'[1] = "running" => written[2] = 3
        /\ bPlace[2] = "exit" /\ bChild'[2] = "running" => written[3] = 3
    BY <1>1, <2>1, Placed
  <2> QED
    BY <1>1, <1>2, <2>2, <2>3 DEF Places
<1>6. \A c \in 1 .. 3 : Lost(c)' <=> Lost(c)
  BY <1>2, <1>3 DEF Lost
<1>7. Faulty'
  BY <1>1, <1>2, <1>6 DEF Faulty
<1>8. Told'
  BY <1>2 DEF Told
<1>9. Shown'
  BY <1>1, <1>2 DEF Shown, NoneToCome, Prints, Content
<1>10. \A p \in 1 .. 3 : Piped(p)'
  <2>1. \A p \in 1 .. 3 : ReadsOf(p) = 3 /\ ReadsOf(p)' = 3 /\ ~ (3 < written[p])
    BY <1>1, <1>2 DEF ReadsOf, BTypes
  <2>2. \A p \in 1 .. 3 : PartB!Writer(p) \in 1 .. 3 /\ PartB!Writer(p)' = PartB!Writer(p)
    BY DEF PartB!Writer
  <2> QED
    BY <1>1, <1>2, <1>6, <2>1, <2>2 DEF Piped, NoneToCome, Content, Lost
<1>11. Computed' /\ Freed'
  BY <1>1, <1>2, SameMatrices
<1> QED
  BY <1>4, <1>5, <1>7, <1>8, <1>9, <1>10, <1>11 DEF BInductive

\* A read() of main from p finds what was written next, or nothing: because the
\* writer is gone, or has not come so far.
LEMMA NextPart ==
  ASSUME BInductive, bPc = "read"
  PROVE  LET m == matrix[bAt]
             k == bPart - 1
         IN  /\ ReadsOf(bAt) = k /\ k \in 0 .. 2
             /\ bPipe[bAt] # << >> =>
                  /\ written[bAt] > k /\ Head(bPipe[bAt]) = <<m.rows, m.columns, m.words>>[k + 1]
                  /\ Tail(bPipe[bAt]) = Content(m.rows, m.columns, m.words, written[bAt], k + 1)
             /\ bPipe[bAt] = << >> =>
                  /\ written[bAt] <= k
                  /\ Lost(PartB!Writer(bAt)) \/ (written[bAt] = k /\ ~ PartB!AtEnd(bAt))
<1> DEFINE a == matrix[bAt].rows
           b == matrix[bAt].columns
           d == matrix[bAt].words
           k == bPart - 1
           n == written[bAt]
<1>1. BTypes /\ Piped(bAt) /\ bAt \in 1 .. 3
  BY DEF BInductive, BTypes
<1>2. ReadsOf(bAt) = k /\ k \in 0 .. 2 /\ n \in 0 .. 3
  BY <1>1 DEF ReadsOf, BTypes
<1>3. bPipe[bAt] = Content(a, b, d, n, k)
  BY <1>1, <1>2 DEF Piped
<1>4. ASSUME bPipe[bAt] # << >>
      PROVE  n > k /\ Head(bPipe[bAt]) = <<a, b, d>>[k + 1] /\ Tail(bPipe[bAt]) = Content(a, b, d, n, k + 1)
  <2> HIDE DEF a, b, d, n, k
  <2>1. n > k
    <3>1. CASE n <= k
      <4>1. k \in 0 .. 3
        BY <1>2
      <4>2. Content(a, b, d, n, k) = << >>
        BY <1>2, <3>1, <4>1, Taken
      <4> QED
        BY <1>3, <1>4, <4>2
    <3> QED
      BY <1>2, <3>1
  <2>2. k \in 0 .. 2 /\ n \in 0 .. 3 /\ n > k
    BY <1>2, <2>1
  <2>3. Tail(Content(a, b, d, n, k)) = Content(a, b, d, n, k + 1)
    BY <2>2, Taking
  <2>4. Head(Content(a, b, d, n, k)) = <<a, b, d>>[k + 1]
    BY <2>2, Taking
  <2> QED
    BY <1>3, <2>1, <2>3, <2>4
<1>5. ASSUME bPipe[bAt] = << >>
      PROVE  n <= k /\ (Lost(PartB!Writer(bAt)) \/ (n = k /\ ~ PartB!AtEnd(bAt)))
  <2>1. n <= k
    <3> HIDE DEF a, b, d, n, k
    <3>1. CASE n > k
      <4>1. Content(a, b, d, n, k) # << >>
        BY <1>2, <3>1, Taking
      <4> QED
        BY <1>3, <1>5, <4>1
    <3> QED
      BY <1>2, <3>1
  <2>2. written[bAt] < 3 /\ PartB!Writer(bAt) \in 1 .. 3
    BY <1>1, <1>2, <2>1 DEF PartB!Writer
  <2>3. PartB!AtEnd(bAt) => Lost(PartB!Writer(bAt))
    BY <2>2 DEF PartB!AtEnd, PartB!Children, PartB!Alive, PartB!HoldsWriteEnd, Lost
  <2>4. k > n => Lost(PartB!Writer(bAt))
    BY <1>1, <1>2 DEF Piped, NoneToCome
  <2> QED
    BY <1>2, <2>1, <2>3, <2>4
<1> QED
  BY <1>2, <1>4, <1>5

LEMMA BReadDimension ==
  ASSUME BInductive, PartB!ReadDimension
  PROVE  BInductive'
<1> DEFINE s == PartB!Struct(bAt)
           m == matrix[bAt]
<1>1. BTypes /\ Places /\ Faulty /\ Told /\ Computed /\ Shown /\ Freed /\ \A p \in 1 .. 3 : Piped(p)
  BY DEF BInductive
<1>2. /\ bPc = "read" /\ bPart \in 1 .. 2 /\ bPart' = bPart + 1 /\ bAt \in 1 .. 3
      /\ bPipe[bAt] # << >> \/ PartB!AtEnd(bAt)
      /\ UNCHANGED <<bPc, bAt, printed, bChild, bPlace, written, matrix, block, faults>>
  BY <1>1 DEF PartB!ReadDimension, BTypes
<1>3. IF bPipe[bAt] # << >>
        THEN /\ dims' = [dims EXCEPT ![s][bPart] = Head(bPipe[bAt])]
             /\ bPipe' = [bPipe EXCEPT ![bAt] = Tail(@)]
        ELSE dims' = dims /\ bPipe' = bPipe
  BY DEF PartB!ReadDimension
<1>4. /\ bPipe[bAt] # << >> =>
           /\ written[bAt] >= bPart /\ Head(bPipe[bAt]) = <<m.rows, m.columns, m.words>>[bPart]
           /\ Tail(bPipe[bAt]) = Content(m.rows, m.columns, m.words, written[bAt], bPart)
      /\ bPipe[bAt] = << >> => written[bAt] < bPart /\ Lost(PartB!Writer(bAt))
      /\ written[bAt] \in 0 .. 3
  <2>1. bPart - 1 + 1 = bPart /\ written[bAt] \in 0 .. 3
    BY <1>1, <1>2 DEF BTypes
  <2> QED
    BY <1>2, <2>1, NextPart
<1>5. /\ m.rows \in Nat /\ m.columns \in Nat /\ s \in 1 .. 2
      /\ bPart = 1 => <<m.rows, m.columns, m.words>>[bPart] = m.rows
      /\ bPart = 2 => <<m.rows, m.columns, m.words>>[bPart] = m.columns
  BY <1>1, <1>2 DEF BTypes, IsMatrix, PartB!Struct
<1>6. /\ dims' \in [1 .. 2 -> [1 .. 2 -> Nat \cup {-1}]]
      /\ \A i \in 1 .. 2, j \in 1 .. 2 : i # s \/ j # bPart => dims'[i][j] = dims[i][j]
      /\ bPart = 1 /\ written[bAt] >= 1 => dims'[s][1] = m.rows
      /\ bPart = 2 /\ written[bAt] >= 2 => dims'[s][2] = m.columns
      /\ \A i \in 1 .. 2, j \in 1 .. 2 : dims[i][j] # -1 => dims'[i][j] # -1
  <2>1. dims \in [1 .. 2 -> [1 .. 2 -> Nat \cup {-1}]]
    BY <1>1 DEF BTypes
  <2>2. CASE bPipe[bAt] # << >>
    <3>1. PICK v : v = Head(bPipe[bAt])
      OBVIOUS
    <3>2. v \in Nat /\ (bPart = 1 => v = m.rows) /\ (bPart = 2 => v = m.columns)
      BY <1>2, <1>4, <1>5, <2>2, <3>1
    <3> HIDE DEF s, m
    <3>3. dims' = [dims EXCEPT ![s][bPart] = v]
      BY <1>3, <2>2, <3>1
    <3>4. dims' \in [1 .. 2 -> [1 .. 2 -> Nat \cup {-1}]] /\ dims'[s][bPart] = v
      BY <1>2, <1>5, <2>1, <3>2, <3>3
    <3>5. \A i \in 1 .. 2, j \in 1 .. 2 : i # s \/ j # bPart => dims'[i][j] = dims[i][j]
      BY <1>2, <1>5, <2>1, <3>3
    <3>6. \A i \in 1 .. 2, j \in 1 .. 2 : dims[i][j] # -1 => dims'[i][j] # -1
      <4>1. TAKE i \in 1 .. 2, j \in 1 .. 2
      <4>2. CASE i = s /\ j = bPart
        BY <3>2, <3>4, <4>2
      <4> QED
        BY <3>5, <4>2
    <3> QED
      BY <3>2, <3>4, <3>5, <3>6
  <2>3. CASE bPipe[bAt] = << >>
    BY <1>2, <1>3, <1>4, <2>1, <2>3
  <2> QED
    BY <2>2, <2>3
<1>7. /\ DOMAIN bPipe' = 1 .. 3 /\ \A p \in 1 .. 3 : p # bAt => bPipe'[p] = bPipe[p]
      /\ bPipe'[bAt] = IF bPipe[bAt] # << >> THEN Tail(bPipe[bAt]) ELSE << >>
  <2>1. DOMAIN bPipe = 1 .. 3
    BY <1>1 DEF BTypes
  <2>2. CASE bPipe[bAt] # << >>
    <3>1. PICK v : v = Tail(bPipe[bAt])
      OBVIOUS
    <3>2. bPipe' = [bPipe EXCEPT ![bAt] = v]
      BY <1>3, <2>2, <3>1
    <3> QED
      BY <1>2, <2>1, <2>2, <3>1, <3>2
  <2>3. CASE bPipe[bAt] = << >>
    BY <1>3, <2>1, <2>3
  <2> QED
    BY <2>2, <2>3
<1>15. BTypes'
  BY <1>1, <1>2, <1>6, <1>7 DEF BTypes, IsMatrix
<1>8. Places'
  BY <1>1, <1>2 DEF Places
<1>9. \A c \in 1 .. 3 : Lost(c)' <=> Lost(c)
  BY <1>2 DEF Lost
<1>10. Faulty'
  BY <1>1, <1>2, <1>9 DEF Faulty
<1>11. Told'
  <2>1. s = PartB!Struct(bAt) /\ s' = s
    BY <1>2 DEF PartB!Struct
  <2>2. /\ bPart' >= 2 /\ written[bAt] >= 1 => dims'[s][1] = m.rows
        /\ bPart' = 3 /\ written[bAt] >= 2 => dims'[s][2] = m.columns
    <3>1. bPart = 2 /\ written[bAt] >= 1 => dims'[s][1] = m.rows
      <4>1. bPart = 2 /\ written[bAt] >= 1 => dims[s][1] = m.rows
        BY <1>1, <1>2 DEF Told
      <4> QED
        BY <1>5, <1>6, <4>1
    <3> QED
      BY <1>2, <1>6, <3>1
  <2>3. bAt = 3 /\ written[2] >= 2 => dims'[2][1] # -1 /\ dims'[2][2] # -1
    BY <1>1, <1>2, <1>6 DEF Told
  <2> QED
    BY <1>2, <2>1, <2>2, <2>3 DEF Told
<1>12. Shown'
  BY <1>1, <1>2 DEF Shown, NoneToCome, Prints, Content
<1>13. \A p \in 1 .. 3 : Piped(p)'
  <2>1. TAKE p \in 1 .. 3
  <2>2. PartB!Writer(p) \in 1 .. 3 /\ PartB!Writer(p)' = PartB!Writer(p)
    BY DEF PartB!Writer
  <2>3. CASE p # bAt
    <3>1. ReadsOf(p)' = ReadsOf(p) /\ bPipe'[p] = bPipe[p]
      BY <1>2, <1>7, <2>3 DEF ReadsOf
    <3> QED
      BY <1>1, <1>2, <1>9, <2>2, <3>1 DEF Piped, NoneToCome, Content
  <2>4. CASE p = bAt
    <3>1. ReadsOf(p)' = bPart
      BY <1>2, <2>4 DEF ReadsOf
    <3>2. CASE bPipe[bAt] # << >>
      <4>1. bPipe'[p] = Content(m.rows, m.columns, m.words, written[p], bPart)
        BY <1>4, <1>7, <2>4, <3>2
      <4>2. ~ (bPart > written[p])
        BY <1>2, <1>4, <2>4, <3>2
      <4> QED
        BY <1>2, <2>4, <3>1, <4>1, <4>2 DEF Piped, NoneToCome, Content
    <3>3. CASE bPipe[bAt] = << >>
      <4>1. bPipe'[p] = << >> /\ written[p] <= bPart /\ Lost(PartB!Writer(p))'
        BY <1>2, <1>4, <1>7, <1>9, <2>2, <2>4, <3>3
      <4> QED
        BY <1>2, <2>2, <3>1, <4>1 DEF Piped, NoneToCome, Content, Lost
    <3> QED
      BY <3>2, <3>3
  <2> QED
    BY <2>3, <2>4
<1>14. Computed' /\ Freed'
  BY <1>1, <1>2, SameMatrices
<1> QED
  BY <1>8, <1>10, <1>11, <1>12, <1>13, <1>14, <1>15 DEF BInductive

\* What main prints next comes after what it has printed.
LEMMA Printing ==
  ASSUME Shown, Prints \in 0 .. 2, NEW e, printed' = Append(printed, e)
  PROVE  /\ printed' = Content(printed'[1], printed'[2], printed'[3], Prints + 1, 0)
         /\ printed'[Prints + 1] = e
         /\ \A p \in 1 .. 3 : p <= Prints => printed'[p] = printed[p]
<1> DEFINE a == printed[1]
           b == printed[2]
           c == printed[3]
<1>1. printed = Content(a, b, c, Prints, 0)
  BY DEF Shown
<1> HIDE DEF a, b, c
<1>2. CASE Prints = 0
  <2>1. printed = << >>
    BY <1>1, <1>2 DEF Content
  <2>2. Append(<< >>, e) = <<e>>
    OBVIOUS
  <2>3. printed' = <<e>> /\ printed'[1] = e
    BY <2>1, <2>2
  <2>4. Content(printed'[1], printed'[2], printed'[3], 1, 0) = <<printed'[1]>>
    BY DEF Content
  <2> QED
    BY <1>2, <2>3, <2>4
<1>3. CASE Prints = 1
  <2>1. printed = <<a>> /\ printed[1] = a
    BY <1>1, <1>3 DEF Content
  <2>2. Append(<<a>>, e) = <<a, e>>
    BY AppendedToOne
  <2>3. printed' = <<a, e>> /\ printed'[1] = a /\ printed'[2] = e
    BY <2>1, <2>2
  <2>4. Content(printed'[1], printed'[2], printed'[3], 2, 0) = <<printed'[1], printed'[2]>>
    BY DEF Content
  <2>5. Prints + 1 = 2 /\ \A p \in 1 .. 3 : p <= Prints => p = 1
    BY <1>3
  <2> QED
    BY <2>1, <2>3, <2>4, <2>5
<1>4. CASE Prints = 2
  <2>1. printed = <<a, b>> /\ printed[1] = a /\ printed[2] = b
    BY <1>1, <1>4 DEF Content
  <2>2. Append(<<a, b>>, e) = <<a, b, e>>
    BY AppendedToTwo
  <2>3. printed' = <<a, b, e>> /\ printed'[1] = a /\ printed'[2] = b /\ printed'[3] = e
    BY <2>1, <2>2
  <2>4. Content(printed'[1], printed'[2], printed'[3], 3, 0) = <<printed'[1], printed'[2], printed'[3]>>
    BY DEF Content
  <2> QED
    BY <1>4, <2>1, <2>3, <2>4
<1>5. Prints = 0 \/ Prints = 1 \/ Prints = 2
  OBVIOUS
<1> QED
  BY Zenon, <1>2, <1>3, <1>4, <1>5

LEMMA BReadWords ==
  ASSUME BInductive, PartB!ReadWords
  PROVE  BInductive'
<1> DEFINE s == PartB!Struct(bAt)
           m == matrix[bAt]
           r == dims[s][1]
           d == dims[s][2]
           known == r # -1 /\ d # -1
<1>1. BTypes /\ Places /\ Faulty /\ Told /\ Computed /\ Shown /\ Freed /\ \A p \in 1 .. 3 : Piped(p)
  BY DEF BInductive
<1>2. /\ bPc = "read" /\ bPart = 3 /\ bAt \in 1 .. 3 /\ Prints = bAt - 1
      /\ bPipe[bAt] # << >> \/ PartB!AtEnd(bAt) \/ PartB!NoBytes(r, d)
      /\ UNCHANGED <<dims, bChild, bPlace, written, matrix, block, faults>>
  BY <1>1 DEF PartB!ReadWords, BTypes, Prints
<1>3. \/ /\ printed' = Append(printed, PartB!Matrix(r, d, IF known THEN PartB!ArrayWords(bAt, r, d) ELSE << >>))
         /\ bPipe' = [bPipe EXCEPT ![bAt] = << >>] /\ bPart' = 1
         /\ IF bAt = 3 THEN bAt' = 1 /\ bPc' = "wait" ELSE bAt' = bAt + 1 /\ bPc' = bPc
      \/ ~ known /\ bPc' = "crashed" /\ UNCHANGED <<bAt, bPart, printed, bPipe>>
  BY DEF PartB!ReadWords, PartB!Garbage
<1>4. /\ bPipe[bAt] # << >> => written[bAt] = 3 /\ Head(bPipe[bAt]) = m.words
      /\ bPipe[bAt] = << >> =>
           written[bAt] <= 2 /\ (Lost(PartB!Writer(bAt)) \/ NoneToCome(bAt))
      /\ written[bAt] \in 0 .. 3
  <2>1. bPart - 1 = 2 /\ 2 + 1 = 3 /\ written[bAt] \in 0 .. 3
    BY <1>1, <1>2 DEF BTypes
  <2>2. <<m.rows, m.columns, m.words>>[3] = m.words
    OBVIOUS
  <2> HIDE DEF m
  <2>3. /\ bPipe[bAt] # << >> =>
             written[bAt] > 2 /\ Head(bPipe[bAt]) = <<m.rows, m.columns, m.words>>[3]
        /\ bPipe[bAt] = << >> =>
             /\ written[bAt] <= 2
             /\ Lost(PartB!Writer(bAt)) \/ (written[bAt] = 2 /\ ~ PartB!AtEnd(bAt))
    BY <1>2, <2>1, NextPart DEF m
  <2>4. bPipe[bAt] = << >> /\ ~ PartB!AtEnd(bAt) => PartB!NoBytes(r, d)
    BY <1>2
  <2>5. written[bAt] = 2 => r = matrix[bAt].rows /\ d = matrix[bAt].columns
    BY <1>1, <1>2 DEF Told
  <2> QED
    BY <2>1, <2>2, <2>3, <2>4, <2>5 DEF NoneToCome
<1>5. /\ bPc' \in {"read", "wait", "crashed"} /\ bAt' \in 1 .. 3 /\ bPart' \in 1 .. 3
      /\ bPc' = "wait" => bPart' = 1
      /\ bPc' = "read" => bPart' = 1 /\ bAt' = bAt + 1
  BY <1>2, <1>3
<1>16. /\ DOMAIN bPipe' = 1 .. 3
       /\ bPc' # "crashed" =>
            bPipe'[bAt] = << >> /\ \A p \in 1 .. 3 : p # bAt => bPipe'[p] = bPipe[p]
  <2>1. DOMAIN bPipe = 1 .. 3
    BY <1>1 DEF BTypes
  <2>2. CASE bPipe' = [bPipe EXCEPT ![bAt] = << >>]
    BY <1>2, <2>1, <2>2
  <2> QED
    BY <1>3, <2>1, <2>2
<1>6. BTypes'
  BY <1>1, <1>2, <1>5, <1>16 DEF BTypes, IsMatrix
<1>7. Places'
  BY <1>1, <1>2, <1>5 DEF Places
<1>8. \A c \in 1 .. 3 : Lost(c)' <=> Lost(c)
  BY <1>2, <1>5 DEF Lost
<1>9. /\ written[bAt] >= 1 => r = m.rows
      /\ written[bAt] >= 2 => d = m.columns
      /\ m.rows \in Nat /\ m.columns \in Nat
      /\ m = [rows |-> m.rows, columns |-> m.columns, words |-> m.words]
      /\ PartB!NoBytes(m.rows, m.columns) => m.words = << >>
  <2>1. IsMatrix(m)
    BY <1>1, <1>2 DEF BTypes
  <2>2. /\ written[bAt] >= 1 => r = m.rows
        /\ written[bAt] >= 2 => d = m.columns
    BY <1>1, <1>2 DEF Told
  <2> QED
    BY <2>1, <2>2 DEF IsMatrix
<1>10. written[bAt] >= 2 => known
  BY <1>4, <1>9
<1>11. Faulty'
  <2>1. ~ known => Lost(1) /\ written[2] < 2
    <3>1. ASSUME ~ known
          PROVE  Lost(1) /\ written[2] < 2
      <4>1. written[bAt] < 2
        BY <1>4, <1>10, <3>1
      <4>2. CASE bAt = 1
        <5>1. Lost(1)
          BY <1>2, <1>4, <4>1, <4>2 DEF PartB!Writer, NoneToCome
        <5>2. written[1] < 3 => written[2] = 0
          BY <1>1 DEF Places
        <5>3. written[1] < 3
          BY <1>4, <4>1, <4>2
        <5> QED
          BY <5>1, <5>2, <5>3
      <4>3. CASE bAt = 2
        BY <1>4, <4>1, <4>3 DEF PartB!Writer, NoneToCome
      <4>4. CASE bAt = 3
        <5>1. ~ (written[2] >= 2)
          BY <1>1, <1>2, <3>1, <4>4 DEF Told, PartB!Struct
        <5>2. written[2] < 2 /\ written[2] \in 0 .. 3
          BY <1>1, <5>1 DEF BTypes
        <5>3. ReadsOf(2) = 3 /\ PartB!Writer(2) = 1
          BY <1>2, <4>4 DEF ReadsOf, PartB!Writer
        <5>4. ReadsOf(2) > written[2]
          BY <5>2, <5>3
        <5> QED
          BY <1>1, <5>2, <5>3, <5>4 DEF Piped, NoneToCome
      <4> QED
        BY <1>2, <4>2, <4>3, <4>4
    <3> QED
      BY <3>1
  <2>2. bPc' = "crashed" => Lost(1) /\ written[2] < 2
    BY <1>2, <1>3, <2>1
  <2> QED
    BY <1>1, <1>2, <1>8, <2>2 DEF Faulty
<1>12. Told'
  <2>1. bPc' = "read" => bPart' = 1 /\ bAt' = bAt + 1
    BY <1>5
  <2>2. bPc' = "read" /\ bAt' = 3 /\ written[2] >= 2 => dims[2][1] # -1 /\ dims[2][2] # -1
    BY <1>2, <1>10, <2>1 DEF PartB!Struct
  <2> QED
    BY <1>2, <2>1, <2>2 DEF Told
<1>13. Shown'
  <2>1. CASE bPc' = "crashed"
    <3>1. UNCHANGED <<bAt, printed>>
      BY <1>2, <1>3, <2>1
    <3>2. Prints' = Prints
      BY <1>2, <2>1, <3>1 DEF Prints
    <3> QED
      BY <1>1, <1>2, <3>1, <3>2 DEF Shown, NoneToCome, Content
  <2>2. CASE bPc' # "crashed"
    <3>1. PICK e : e = PartB!Matrix(r, d, IF known THEN PartB!ArrayWords(bAt, r, d) ELSE << >>)
      OBVIOUS
    <3>2. printed' = Append(printed, e) /\ IF bAt = 3 THEN bPc' = "wait" ELSE bAt' = bAt + 1 /\ bPc' = "read"
      BY <1>2, <1>3, <2>2, <3>1
    <3>3. Prints' = bAt /\ Prints \in 0 .. 2 /\ Prints + 1 = bAt
      BY <1>2, <3>2 DEF Prints
    <3>4. /\ printed' = Content(printed'[1], printed'[2], printed'[3], bAt, 0)
          /\ printed'[bAt] = e
          /\ \A p \in 1 .. 3 : p <= Prints => printed'[p] = printed[p]
      BY <1>1, <3>2, <3>3, Printing
    <3>5. written[bAt] = 3 \/ NoneToCome(bAt) => e = m
      <4>1. ASSUME written[bAt] = 3
            PROVE  e = m
        <5>1. bPipe[bAt] # << >> /\ Head(bPipe[bAt]) = m.words /\ known /\ r = m.rows /\ d = m.columns
          BY <1>4, <1>9, <1>10, <4>1
        <5>2. e = [rows |-> r, columns |-> d, words |-> m.words]
          BY <3>1, <5>1 DEF PartB!Matrix, PartB!ArrayWords
        <5> QED
          BY <1>9, <5>1, <5>2
      <4>2. ASSUME NoneToCome(bAt)
            PROVE  e = m
        <5>1. written[bAt] = 2 /\ bPipe[bAt] = << >> /\ known /\ r = m.rows /\ d = m.columns
          BY <1>4, <1>9, <1>10, <4>2 DEF NoneToCome
        <5>2. m.words = << >> /\ r * d = 0
          BY <1>9, <4>2, <5>1 DEF NoneToCome, PartB!NoBytes
        <5>3. PartB!ArrayWords(bAt, r, d) = << >>
          BY <5>1, <5>2 DEF PartB!ArrayWords, PartB!Padded
        <5>4. e = [rows |-> r, columns |-> d, words |-> << >>]
          BY <3>1, <5>1, <5>3 DEF PartB!Matrix
        <5> QED
          BY <1>9, <5>1, <5>2, <5>4
      <4> QED
        BY <4>1, <4>2
    <3>6. \A p \in 1 .. 3 : p <= bAt /\ (written[p] = 3 \/ NoneToCome(p)) => printed'[p] = matrix[p]
      <4>1. TAKE p \in 1 .. 3
      <4>2. CASE p = bAt
        BY <3>4, <3>5, <4>2
      <4>3. CASE p <= Prints
        BY <1>1, <3>4, <4>3 DEF Shown
      <4> QED
        BY <1>2, <4>2, <4>3
    <3> QED
      BY <1>2, <3>3, <3>4, <3>6 DEF Shown, NoneToCome
  <2> QED
    BY <2>1, <2>2
<1>14. \A p \in 1 .. 3 : Piped(p)'
  <2>1. TAKE p \in 1 .. 3
  <2>2. PartB!Writer(p) \in 1 .. 3 /\ PartB!Writer(p)' = PartB!Writer(p)
    BY DEF PartB!Writer
  <2>3. CASE bPc' = "crashed"
    <3>1. UNCHANGED <<bAt, bPart, bPipe>>
      BY <1>2, <1>3, <2>3
    <3>2. ReadsOf(p)' = ReadsOf(p)
      BY <1>2, <2>3, <3>1 DEF ReadsOf
    <3> QED
      BY <1>1, <1>2, <1>8, <2>2, <3>1, <3>2 DEF Piped, NoneToCome, Content
  <2>4. CASE bPc' # "crashed"
    <3>1. /\ bPart' = 1
          /\ IF bAt = 3 THEN bPc' = "wait" ELSE bAt' = bAt + 1 /\ bPc' = "read"
      BY <1>2, <1>3, <2>4
    <3>2. CASE p # bAt
      <4>1. ReadsOf(p)' = ReadsOf(p) /\ bPipe'[p] = bPipe[p]
        BY <1>2, <1>16, <2>4, <3>1, <3>2 DEF ReadsOf
      <4> QED
        BY <1>1, <1>2, <1>8, <2>2, <4>1 DEF Piped, NoneToCome, Content
    <3>3. CASE p = bAt
      <4>1. ReadsOf(p)' = 3 /\ bPipe'[p] = << >>
        BY <1>2, <1>16, <2>4, <3>1, <3>3 DEF ReadsOf
      <4>2. 3 > written[p] => Lost(PartB!Writer(p))' \/ NoneToCome(p)
        BY <1>4, <1>8, <2>2, <3>3
      <4>3. written[p] <= 3
        BY <1>4, <3>3
      <4> QED
        BY <1>2, <2>2, <4>1, <4>2, <4>3 DEF Piped, NoneToCome, Content, Lost
    <3> QED
      BY <3>2, <3>3
  <2> QED
    BY <2>3, <2>4
<1>15. Computed' /\ Freed'
  BY <1>1, <1>2, SameMatrices
<1> QED
  BY <1>6, <1>7, <1>11, <1>12, <1>13, <1>14, <1>15 DEF BInductive

-----------------------------------------------------------------------------
(* The children of part B, step by step *)

\* A child goes on or ends, without a write() and without a new matrix.
LEMMA BMoves ==
  ASSUME BInductive,
         UNCHANGED <<bPc, bAt, bPart, dims, printed, written, bPipe, matrix>>,
         bChild' \in [1 .. 3 -> {"none", "running", "dead", "reaped"}],
         \A c \in 1 .. 3 : bChild'[c] = bChild[c] \/ (bChild[c] = "running" /\ bChild'[c] = "dead"),
         DOMAIN bPlace' = 1 .. 3, DOMAIN faults' = 1 .. 3,
         \A c \in 1 .. 2 : faults[c] \subseteq faults'[c],
         bChild'[1] # bChild[1] => written[2] = 3 \/ "died" \in faults'[1],
         bChild'[2] # bChild[2] => written[3] = 3 \/ faults'[2] # {},
         Places', Computed', Freed'
  PROVE  BInductive'
<1>1. BTypes /\ Places /\ Faulty /\ Told /\ Computed /\ Shown /\ Freed /\ \A p \in 1 .. 3 : Piped(p)
  BY DEF BInductive
<1>2. BTypes'
  BY <1>1 DEF BTypes, IsMatrix
<1>3. \A c \in 1 .. 3 : Lost(c) => Lost(c)'
  BY DEF Lost
<1>4. \A c \in 1 .. 3 : Lost(c)' => Lost(c) \/ bChild'[c] # bChild[c]
  BY DEF Lost
<1>5. Faulty'
  <2>1. Lost(1)' /\ written[2] < 3 => faults'[1] \cap {"fork", "died"} # {}
    <3>1. CASE Lost(1) /\ written[2] < 3
      <4>1. faults[1] \cap {"fork", "died"} # {} /\ faults[1] \subseteq faults'[1]
        BY <1>1, <3>1 DEF Faulty
      <4> QED
        BY <4>1
    <3>2. CASE bChild'[1] # bChild[1] /\ written[2] < 3
      BY <3>2
    <3> QED
      BY <1>4, <3>1, <3>2
  <2>2. Lost(2)' /\ written[3] < 3 => faults'[2] # {}
    <3>1. CASE Lost(2) /\ written[3] < 3
      <4>1. faults[2] # {} /\ faults[2] \subseteq faults'[2]
        BY <1>1, <3>1 DEF Faulty
      <4> QED
        BY <4>1
    <3>2. CASE bChild'[2] # bChild[2] /\ written[3] < 3
      BY <3>2
    <3> QED
      BY <1>4, <3>1, <3>2
  <2>3. bPc = "crashed" => Lost(1)' /\ written[2] < 2
    BY <1>1, <1>3 DEF Faulty
  <2> QED
    BY <2>1, <2>2, <2>3 DEF Faulty
<1>6. Told'
  BY <1>1 DEF Told, PartB!Struct
<1>7. Shown'
  BY <1>1 DEF Shown, NoneToCome, Prints, Content
<1>8. \A p \in 1 .. 3 : Piped(p)'
  <2>1. TAKE p \in 1 .. 3
  <2>2. PartB!Writer(p) \in 1 .. 3 /\ PartB!Writer(p)' = PartB!Writer(p) /\ ReadsOf(p)' = ReadsOf(p)
    BY DEF PartB!Writer, ReadsOf
  <2> QED
    BY <1>1, <1>3, <2>2 DEF Piped, NoneToCome, Content
<1> QED
  BY <1>2, <1>5, <1>6, <1>7, <1>8 DEF BInductive

\* A running child has a number that main has forked.
LEMMA Forked ==
  ASSUME BInductive, NEW c \in 1 .. 3, bChild[c] = "running"
  PROVE  bPc = "fork" => ~ (c >= bAt)
<1>1. Places
  BY DEF BInductive
<1>2. bPc = "fork" => \A d \in 1 .. 3 : d >= bAt => bChild[d] = "none"
  BY <1>1, Placed
<1> QED
  BY <1>2

\* Child c ends where it is, and with it what it computed.
LEMMA BEnds ==
  ASSUME BInductive, NEW c \in 1 .. 2, bChild[c] = "running",
         bChild' = [bChild EXCEPT ![c] = "dead"], bPlace' = [bPlace EXCEPT ![c] = "exit"],
         UNCHANGED <<bPc, bAt, bPart, dims, printed, written, bPipe, matrix>>,
         DOMAIN faults' = 1 .. 3,
         \A d \in 1 .. 2 : faults[d] \subseteq faults'[d],
         c = 1 => written[2] = 3 \/ "died" \in faults'[1],
         c = 2 => written[3] = 3 \/ faults'[2] # {},
         Freed'
  PROVE  BInductive'
<1>1. BTypes /\ Places /\ Computed /\ Freed
  BY DEF BInductive
<1>2. /\ bChild \in [1 .. 3 -> {"none", "running", "dead", "reaped"}]
      /\ DOMAIN bPlace = 1 .. 3
  BY <1>1 DEF BTypes
<1>4. /\ bChild' \in [1 .. 3 -> {"none", "running", "dead", "reaped"}] /\ bChild'[c] = "dead"
      /\ \A d \in 1 .. 3 : d # c => bChild'[d] = bChild[d]
      /\ DOMAIN bPlace' = 1 .. 3 /\ bPlace'[c] = "exit"
      /\ \A d \in 1 .. 3 : d # c => bPlace'[d] = bPlace[d]
  <2>1. /\ DOMAIN bPlace' = 1 .. 3 /\ bPlace'[c] = "exit"
        /\ \A d \in 1 .. 3 : d # c => bPlace'[d] = bPlace[d]
    BY <1>2
  <2> QED
    BY <1>2, <2>1
<1>5. Places'
  <2>1. bPc = "fork" => \A d \in 1 .. 3 : d >= bAt => bChild'[d] = "none"
    <3>1. bPc = "fork" => ~ (c >= bAt) /\ \A d \in 1 .. 3 : d >= bAt => bChild[d] = "none"
      BY <1>1, Forked, Placed
    <3> QED
      BY <1>4, <3>1
  <2>2. \A d \in 1 .. 2 : /\ bChild'[d] = "none" => bPlace'[d] \in {"start", "compute"}
                          /\ bChild'[d] \in {"dead", "reaped"} => bPlace'[d] = "exit"
    BY <1>1, <1>4, Placed
  <2>3. CASE c = 1
    <3>1. /\ bPlace'[1] = "exit" /\ bPlace'[2] = bPlace[2]
          /\ bChild'[1] = "dead" /\ bChild'[2] = bChild[2]
      BY <1>4, <2>3
    <3> QED
      BY <1>1, <2>1, <2>2, <3>1 DEF Places
  <2>4. CASE c = 2
    <3>1. /\ bPlace'[2] = "exit" /\ bPlace'[1] = bPlace[1]
          /\ bChild'[2] = "dead" /\ bChild'[1] = bChild[1]
      BY <1>4, <2>4
    <3> QED
      BY <1>1, <2>1, <2>2, <3>1 DEF Places
  <2> QED
    BY <2>3, <2>4
<1>6. Computed'
  <2>1. /\ faults[2] # {} => faults'[2] # {}
        /\ "second" \in faults[1] => "second" \in faults'[1]
        /\ faults[1] \cap {"second", "realloc"} # {} => faults'[1] \cap {"second", "realloc"} # {}
    OBVIOUS
  <2>2. /\ bPlace'[1] = "exit" \/ bPlace'[1] = bPlace[1]
        /\ bPlace'[2] = "exit" \/ bPlace'[2] = bPlace[2]
    BY <1>4
  <2> QED
    BY <1>1, <2>1, <2>2 DEF Computed
<1> QED
  BY <1>4, <1>5, <1>6, BMoves

\* What else children do without a write() and without a new matrix.
LEMMA BThird ==
  ASSUME BInductive, PartB!Start(3) \/ PartB!Average3 \/ PartB!Exit(3) \/ PartB!Die(3)
  PROVE  BInductive'
<1>1. BTypes /\ Places /\ Computed /\ Freed
  BY DEF BInductive
<1>2. /\ bChild \in [1 .. 3 -> {"none", "running", "dead", "reaped"}]
      /\ DOMAIN bPlace = 1 .. 3 /\ DOMAIN faults = 1 .. 3
  BY <1>1 DEF BTypes
<1>3. /\ bChild[3] = "running" /\ faults' = faults
      /\ \E v : bPlace' = [bPlace EXCEPT ![3] = v]
      /\ bChild' = bChild \/ bChild' = [bChild EXCEPT ![3] = "dead"]
      /\ UNCHANGED <<bPc, bAt, bPart, dims, printed, written, bPipe, matrix, block>>
  <2>1. CASE PartB!Start(3) \/ PartB!Average3
    BY <2>1 DEF PartB!Start, PartB!Average3, PartB!At, PartB!Alive
  <2>2. CASE PartB!Exit(3) \/ PartB!Die(3)
    BY <2>2 DEF PartB!Exit, PartB!Die, PartB!Alive, PartB!Ends, PartB!Fault, PartB!With
  <2> QED
    BY <2>1, <2>2
<1>4. /\ bChild' \in [1 .. 3 -> {"none", "running", "dead", "reaped"}]
      /\ bChild'[1] = bChild[1] /\ bChild'[2] = bChild[2]
      /\ bChild'[3] = bChild[3] \/ bChild'[3] = "dead"
      /\ DOMAIN bPlace' = 1 .. 3
      /\ bPlace'[1] = bPlace[1] /\ bPlace'[2] = bPlace[2]
  <2>1. DOMAIN bPlace' = 1 .. 3 /\ \A d \in 1 .. 3 : d # 3 => bPlace'[d] = bPlace[d]
    BY <1>2, <1>3
  <2> QED
    BY <1>2, <1>3, <2>1
<1>5. Places'
  <2>1. bPc = "fork" => \A d \in 1 .. 3 : d >= bAt => bChild'[d] = "none"
    <3>1. bPc = "fork" => ~ (3 >= bAt) /\ \A d \in 1 .. 3 : d >= bAt => bChild[d] = "none"
      BY <1>1, <1>3, Forked, Placed
    <3> QED
      BY <1>4, <3>1
  <2>2. \A d \in 1 .. 2 : /\ bChild'[d] = "none" => bPlace'[d] \in {"start", "compute"}
                          /\ bChild'[d] \in {"dead", "reaped"} => bPlace'[d] = "exit"
    BY <1>1, <1>4, Placed
  <2> QED
    BY <1>1, <1>3, <1>4, <2>1, <2>2 DEF Places
<1>6. Computed' /\ Freed'
  BY <1>1, <1>3, <1>4 DEF Computed, Freed
<1> QED
  BY <1>2, <1>3, <1>4, <1>5, <1>6, BMoves

LEMMA BStart2 ==
  ASSUME BInductive, PartB!Start(2)
  PROVE  BInductive'
<1>1. BTypes /\ Places /\ Computed /\ Freed
  BY DEF BInductive
<1>2. /\ bChild \in [1 .. 3 -> {"none", "running", "dead", "reaped"}]
      /\ DOMAIN bPlace = 1 .. 3 /\ DOMAIN faults = 1 .. 3
  BY <1>1 DEF BTypes
<1>3. /\ bChild[2] = "running" /\ bPlace[2] = "start" /\ bPlace' = [bPlace EXCEPT ![2] = "compute"]
      /\ UNCHANGED <<bPc, bAt, bPart, dims, printed, bChild, written, bPipe, matrix, block, faults>>
  BY DEF PartB!Start, PartB!At, PartB!Alive
<1>4. /\ DOMAIN bPlace' = 1 .. 3
      /\ bPlace'[1] = bPlace[1] /\ bPlace'[2] = "compute"
  BY <1>2, <1>3
<1>5. Places'
  <2>1. \A d \in 1 .. 2 : /\ bChild[d] = "none" => bPlace'[d] \in {"start", "compute"}
                          /\ bChild[d] \in {"dead", "reaped"} => bPlace'[d] = "exit"
    BY <1>1, <1>3, <1>4, Placed
  <2> QED
    BY <1>1, <1>3, <1>4, <2>1 DEF Places
<1>6. Computed' /\ Freed'
  BY <1>1, <1>3, <1>4 DEF Computed, Freed
<1> QED
  BY <1>2, <1>3, <1>4, <1>5, <1>6, BMoves

LEMMA BExit ==
  ASSUME BInductive, NEW c \in 1 .. 2, PartB!Exit(c) \/ PartB!Die(c)
  PROVE  BInductive'
<1>1. BTypes /\ Places /\ Freed
  BY DEF BInductive
<1>2. /\ bChild[c] = "running"
      /\ bChild' = [bChild EXCEPT ![c] = "dead"] /\ bPlace' = [bPlace EXCEPT ![c] = "exit"]
      /\ UNCHANGED <<bPc, bAt, bPart, dims, printed, written, bPipe, matrix, block>>
      /\ (bPlace[c] = "exit" /\ faults' = faults) \/ faults' = PartB!With(c, "died")
  BY DEF PartB!Exit, PartB!Die, PartB!Alive, PartB!Fault, PartB!Ends
<1>5. Freed'
  <2>1. DOMAIN bPlace = 1 .. 3 /\ Freed
    BY <1>1 DEF BTypes
  <2>2. bPlace'[1] = "exit" \/ bPlace'[1] = bPlace[1]
    BY <1>2, <2>1
  <2> QED
    BY <1>2, <2>1, <2>2 DEF Freed
<1>3. CASE bPlace[c] = "exit" /\ faults' = faults
  <2>1. c = 1 => written[2] = 3
    BY <1>1, <1>2, <1>3, Placed
  <2>2. c = 2 => written[3] = 3
    BY <1>1, <1>2, <1>3, Placed
  <2>3. DOMAIN faults = 1 .. 3
    BY <1>1 DEF BTypes
  <2> QED
    BY <1>2, <1>3, <1>5, <2>1, <2>2, <2>3, BEnds
<1>4. CASE faults' = PartB!With(c, "died")
  <2>1. /\ DOMAIN faults' = 1 .. 3 /\ faults'[c] = faults[c] \cup {"died"}
        /\ \A d \in 1 .. 2 : faults[d] \subseteq faults'[d]
    BY <1>1, <1>4, OneFault
  <2>2. "died" \in faults'[c]
    BY <2>1
  <2> QED
    BY <1>2, <1>5, <2>1, <2>2, BEnds
<1> QED
  BY <1>2, <1>3, <1>4

\* The second free() of a block that realloc() freed.
LEMMA BFree ==
  ASSUME BInductive, PartB!Free
  PROVE  BInductive'
<1>1. BTypes /\ Places /\ Computed /\ Freed
  BY DEF BInductive
<1>2. /\ bChild \in [1 .. 3 -> {"none", "running", "dead", "reaped"}]
      /\ DOMAIN bPlace = 1 .. 3 /\ DOMAIN faults = 1 .. 3
  BY <1>1 DEF BTypes
<1>3. /\ bChild[1] = "running" /\ bPlace[1] = "free"
      /\ UNCHANGED <<bPc, bAt, bPart, dims, printed, written, bPipe, matrix, faults>>
  BY DEF PartB!Free, PartB!Alive
<1>8. /\ \/ bPlace' = [bPlace EXCEPT ![1] = "exit"] /\ bChild' = bChild
         \/ /\ bChild' = [bChild EXCEPT ![1] = "dead"] /\ bPlace' = [bPlace EXCEPT ![1] = "exit"]
            /\ block # "live" /\ block' = "freedTwice"
      /\ IF block = "live" THEN block' = "freed" ELSE block' = "freedTwice"
  BY DEF PartB!Free, PartB!Alive, PartB!Ends
<1>4. written[2] = 3 /\ written[1] = 3
  BY <1>1, <1>3 DEF Places
<1>5. block # "live" => matrix[2] = NoMatrix
  BY <1>1, <1>3 DEF Freed
<1>6. CASE /\ bChild' = [bChild EXCEPT ![1] = "dead"] /\ bPlace' = [bPlace EXCEPT ![1] = "exit"]
           /\ block # "live" /\ block' = "freedTwice"
  <2>1. bPlace' = [bPlace EXCEPT ![1] = "exit"] /\ bChild' = [bChild EXCEPT ![1] = "dead"]
    BY <1>6
  <2>2. bPlace'[1] = "exit"
    BY <1>2, <2>1
  <2>3. Freed'
    BY <1>3, <1>4, <1>5, <1>6, <1>8, <2>2 DEF Freed
  <2> QED
    BY <1>2, <1>3, <1>4, <2>1, <2>3, BEnds
<1>7. CASE bPlace' = [bPlace EXCEPT ![1] = "exit"] /\ bChild' = bChild
  <2>1. /\ DOMAIN bPlace' = 1 .. 3
        /\ bPlace'[1] = "exit" /\ bPlace'[2] = bPlace[2]
    BY <1>2, <1>7
  <2>2. Places'
    <3>1. \A d \in 1 .. 2 : /\ bChild[d] = "none" => bPlace'[d] \in {"start", "compute"}
                            /\ bChild[d] \in {"dead", "reaped"} => bPlace'[d] = "exit"
      <4>1. /\ bChild[2] = "none" => bPlace[2] \in {"start", "compute"}
            /\ bChild[2] \in {"dead", "reaped"} => bPlace[2] = "exit"
        BY <1>1, Placed
      <4> QED
        BY <1>3, <2>1, <4>1
    <3> QED
      BY <1>1, <1>3, <1>4, <1>7, <2>1, <3>1 DEF Places
  <2>3. Computed'
    BY <1>1, <1>3, <2>1 DEF Computed
  <2>4. Freed'
    BY <1>3, <1>4, <1>5, <1>8, <2>1 DEF Freed
  <2> QED
    BY <1>2, <1>3, <1>7, <2>1, <2>2, <2>3, <2>4, BMoves
<1> QED
  BY <1>6, <1>7, <1>8

\* A child has a new matrix, of which nothing was written yet.
LEMMA BMade ==
  ASSUME BInductive, NEW p \in 1 .. 3, written[p] = 0,
         UNCHANGED <<bPc, bAt, bPart, dims, printed, bChild, written, bPipe>>,
         DOMAIN matrix' = 1 .. 3, \A q \in 1 .. 3 : q # p => matrix'[q] = matrix[q],
         IsMatrix(matrix'[p]),
         DOMAIN bPlace' = 1 .. 3, DOMAIN faults' = 1 .. 3,
         \A d \in 1 .. 2 : faults[d] \subseteq faults'[d],
         Places', Computed', Freed'
  PROVE  BInductive'
<1>1. BTypes /\ Places /\ Faulty /\ Told /\ Computed /\ Shown /\ Freed /\ \A q \in 1 .. 3 : Piped(q)
  BY DEF BInductive
<1>2. BTypes'
  <2>1. \A q \in 1 .. 3 : IsMatrix(matrix'[q])
    BY <1>1 DEF BTypes
  <2> QED
    BY <1>1, <2>1 DEF BTypes, IsMatrix
<1>3. \A c \in 1 .. 3 : Lost(c)' <=> Lost(c)
  BY DEF Lost
<1>4. Faulty'
  <2>1. /\ faults[2] # {} => faults'[2] # {}
        /\ faults[1] \cap {"fork", "died"} # {} => faults'[1] \cap {"fork", "died"} # {}
    OBVIOUS
  <2> QED
    BY <1>1, <1>3, <2>1 DEF Faulty
<1>5. Told'
  <2>1. bPc = "read" /\ bPart >= 2 => bAt \in 1 .. 3
    BY <1>1 DEF BTypes
  <2>2. ASSUME bPc = "read" PROVE
          /\ bPart >= 2 /\ written[bAt] >= 1 => dims[PartB!Struct(bAt)][1] = matrix'[bAt].rows
          /\ bPart = 3 /\ written[bAt] >= 2 => dims[PartB!Struct(bAt)][2] = matrix'[bAt].columns
    <3>1. bAt \in 1 .. 3
      BY <1>1 DEF BTypes
    <3>2. CASE bAt = p
      BY <3>2
    <3>3. CASE bAt # p
      BY <1>1, <2>2, <3>1, <3>3 DEF Told
    <3> QED
      BY <3>2, <3>3
  <2>3. PartB!Struct(bAt)' = PartB!Struct(bAt)
    BY DEF PartB!Struct
  <2> QED
    BY <1>1, <2>2, <2>3 DEF Told
<1>6. Shown'
  <2>1. Prints' = Prints
    BY DEF Prints
  <2>2. \A q \in 1 .. 3 : written[q] = 3 => matrix'[q] = matrix[q]
    OBVIOUS
  <2> QED
    BY <1>1, <2>1, <2>2 DEF Shown, NoneToCome, Content
<1>7. \A q \in 1 .. 3 : Piped(q)'
  <2>1. TAKE q \in 1 .. 3
  <2>2. /\ PartB!Writer(q) \in 1 .. 3 /\ PartB!Writer(q)' = PartB!Writer(q)
        /\ ReadsOf(q)' = ReadsOf(q) /\ ReadsOf(q) \in 0 .. 3
    BY <1>1 DEF PartB!Writer, ReadsOf, BTypes
  <2>3. CASE q = p
    <3>1. ReadsOf(q) < 3 => bPipe[q] = << >>
      BY <1>1, <2>2, <2>3 DEF Piped, Content
    <3>2. ReadsOf(q) > written[q] => Lost(PartB!Writer(q))
      BY <1>1, <2>3 DEF Piped, NoneToCome
    <3> QED
      BY <1>1, <1>3, <2>2, <2>3, <3>1, <3>2 DEF Piped, Content
  <2>4. CASE q # p
    <3>1. matrix'[q] = matrix[q]
      BY <2>4
    <3> QED
      BY <1>1, <1>3, <2>2, <3>1 DEF Piped, NoneToCome, Content
  <2> QED
    BY <2>3, <2>4
<1> QED
  BY <1>2, <1>4, <1>5, <1>6, <1>7 DEF BInductive

\* A matrix with some of its fields changed.
LEMMA ThreeFields ==
  ASSUME NEW m, m = [rows |-> m.rows, columns |-> m.columns, words |-> m.words],
         NEW a, NEW b, NEW w, NEW n, n = [m EXCEPT !.rows = a, !.columns = b, !.words = w]
  PROVE  n = [rows |-> a, columns |-> b, words |-> w]
<1>1. DOMAIN m = {"rows", "columns", "words"}
  OBVIOUS
<1> QED
  BY <1>1

LEMMA TwoFields ==
  ASSUME NEW m, m = [rows |-> m.rows, columns |-> m.columns, words |-> m.words],
         NEW a, NEW w, NEW n, n = [m EXCEPT !.rows = a, !.words = w]
  PROVE  n = [rows |-> a, columns |-> m.columns, words |-> w]
<1>1. DOMAIN m = {"rows", "columns", "words"}
  OBVIOUS
<1> QED
  BY <1>1

\* What a pool leaves of m: m itself, nothing, or a matrix of its dimensions.
LEMMA Pooled ==
  ASSUME BTypes, NEW c \in 1 .. 2, NEW p \in 1 .. 3, NEW m, IsMatrix(m), NEW index, NEW f,
         PartB!Pool(c, p, m, index, f)
  PROVE  /\ DOMAIN matrix' = 1 .. 3 /\ \A q \in 1 .. 3 : q # p => matrix'[q] = matrix[q]
         /\ IsMatrix(matrix'[p])
         /\ DOMAIN faults' = 1 .. 3 /\ \A d \in 1 .. 2 : faults[d] \subseteq faults'[d]
         /\ \A d \in 1 .. 2 : d # c => faults'[d] = faults[d]
         /\ matrix'[p] = m \/ f \in faults'[c]
         /\ \/ matrix'[p] = NoMatrix
            \/ matrix'[p].rows = m.rows /\ matrix'[p].columns = m.columns
         /\ m = NoMatrix => matrix'[p] = NoMatrix
<1>1. DOMAIN matrix = 1 .. 3 /\ DOMAIN faults = 1 .. 3 /\ IsMatrix(matrix[p])
  BY DEF BTypes
<1>2. ASSUME faults' = faults \/ faults' = PartB!With(c, f)
      PROVE  /\ DOMAIN faults' = 1 .. 3 /\ \A d \in 1 .. 2 : faults[d] \subseteq faults'[d]
             /\ \A d \in 1 .. 2 : d # c => faults'[d] = faults[d]
             /\ faults' = PartB!With(c, f) => f \in faults'[c]
  <2>1. CASE faults' = faults /\ faults' # PartB!With(c, f)
    BY <1>1, <2>1
  <2>2. CASE faults' = PartB!With(c, f)
    BY <2>2, OneFault
  <2> QED
    BY <1>2, <2>1, <2>2
<1>3. IsMatrix(NoMatrix)
  BY DEF NoMatrix, IsMatrix, PartB!Empty, PartB!Matrix
<1>4. CASE matrix' = [matrix EXCEPT ![p] = m] /\ faults' = faults
  BY <1>1, <1>2, <1>4
<1>5. CASE matrix' = [matrix EXCEPT ![p] = NoMatrix] /\ faults' = PartB!With(c, f)
  BY <1>1, <1>2, <1>3, <1>5
<1>6. ASSUME NEW dead,
             matrix' = [matrix EXCEPT ![p].rows = m.rows, ![p].columns = m.columns,
                ![p].words = [i \in 1 .. PartB!Cells(m) |->
                   IF \E t \in 0 .. (PartB!Cells(m) - 1) : index[t] = i /\ t \div tasksPerWorker \in dead
                   THEN 0 ELSE m.words[i]]],
             faults' = PartB!With(c, f)
      PROVE  /\ DOMAIN matrix' = 1 .. 3 /\ \A q \in 1 .. 3 : q # p => matrix'[q] = matrix[q]
             /\ IsMatrix(matrix'[p])
             /\ matrix'[p].rows = m.rows /\ matrix'[p].columns = m.columns
             /\ m = NoMatrix => matrix'[p] = NoMatrix
  <2>1. PICK w : w = [i \in 1 .. PartB!Cells(m) |->
                   IF \E t \in 0 .. (PartB!Cells(m) - 1) : index[t] = i /\ t \div tasksPerWorker \in dead
                   THEN 0 ELSE m.words[i]]
    OBVIOUS
  <2>2. matrix' = [matrix EXCEPT ![p].rows = m.rows, ![p].columns = m.columns, ![p].words = w]
    BY <1>6, <2>1
  <2>3. /\ DOMAIN matrix' = 1 .. 3 /\ \A q \in 1 .. 3 : q # p => matrix'[q] = matrix[q]
        /\ matrix'[p] = [matrix[p] EXCEPT !.rows = m.rows, !.columns = m.columns, !.words = w]
    BY <1>1, <2>2
  <2>5. matrix'[p] = [rows |-> m.rows, columns |-> m.columns, words |-> w]
    BY <1>1, <2>3, ThreeFields DEF IsMatrix
  <2>4. m = NoMatrix => w = << >>
    BY <2>1 DEF NoMatrix, PartB!Empty, PartB!Matrix, PartB!Cells
  <2>6. PartB!NoBytes(m.rows, m.columns) => w = << >>
    <3>1. IsMatrix(m) /\ (PartB!NoBytes(m.rows, m.columns) => m.rows * m.columns = 0)
      BY DEF IsMatrix, PartB!NoBytes
    <3> QED
      BY <2>1, <3>1 DEF PartB!Cells
  <2> QED
    BY <1>1, <2>3, <2>4, <2>5, <2>6 DEF IsMatrix, NoMatrix, PartB!Empty, PartB!Matrix
<1> QED
  BY <1>2, <1>4, <1>5, <1>6 DEF PartB!Pool, PartB!Fault, NoMatrix

LEMMA TurnedMatrix ==
  ASSUME NEW m, IsMatrix(m)
  PROVE  /\ IsMatrix(Turned(m)) /\ Turned(m).rows = m.columns /\ Turned(m).columns = m.rows
         /\ m = NoMatrix => Turned(m) = NoMatrix
<1>1. /\ IsMatrix(Turned(m)) /\ Turned(m).rows = m.columns /\ Turned(m).columns = m.rows
  <2>1. /\ Turned(m) = [rows |-> m.columns, columns |-> m.rows,
                         words |-> PartB!Transposed(m.rows, m.columns, m.words)]
        /\ m.rows \in Nat /\ m.columns \in Nat
    BY DEF Turned, PartB!Transpose, PartB!Matrix, IsMatrix
  <2>2. PartB!NoBytes(m.columns, m.rows) => PartB!Transposed(m.rows, m.columns, m.words) = << >>
    <3>1. PartB!NoBytes(m.columns, m.rows) => m.rows * m.columns = 0
      BY <2>1 DEF PartB!NoBytes
    <3> QED
      BY <3>1 DEF PartB!Transposed
  <2> QED
    BY <2>1, <2>2 DEF IsMatrix
<1>2. ASSUME m = NoMatrix
      PROVE  Turned(m) = NoMatrix
  <2>1. m.rows = 0 /\ m.columns = 0
    BY <1>2 DEF NoMatrix, PartB!Empty, PartB!Matrix
  <2>2. PartB!Transposed(0, 0, m.words) = << >>
    BY DEF PartB!Transposed
  <2> QED
    BY <2>1, <2>2 DEF Turned, PartB!Transpose, NoMatrix, PartB!Empty, PartB!Matrix
<1> QED
  BY <1>1, <1>2

LEMMA LengthenedMatrix ==
  ASSUME NEW m, IsMatrix(m)
  PROVE  IsMatrix(Lengthened(m))
<1> DEFINE row == [i \in 1 .. m.columns |-> PartB!NewWord]
           n == Lengthened(m)
<1>1. /\ n = [rows |-> m.rows + 1, columns |-> m.columns, words |-> m.words \o row]
      /\ m.rows \in Nat /\ m.columns \in Nat
      /\ PartB!NoBytes(m.rows, m.columns) => m.words = << >>
  BY DEF Lengthened, PartB!WithRow, PartB!Matrix, IsMatrix
<1>2. PartB!NoBytes(m.rows + 1, m.columns) => m.words = << >> /\ row = << >>
  <2>1. PartB!NoBytes(m.rows + 1, m.columns) => m.columns = 0
    BY <1>1 DEF PartB!NoBytes
  <2>2. m.columns = 0 => m.words = << >>
    BY <1>1 DEF PartB!NoBytes
  <2>3. m.columns = 0 => row = << >>
    OBVIOUS
  <2> QED
    BY Zenon, <2>1, <2>2, <2>3
<1>3. << >> \o << >> = << >>
  OBVIOUS
<1>4. PartB!NoBytes(m.rows + 1, m.columns) => m.words \o row = << >>
  BY <1>2, <1>3
<1> QED
  BY <1>1, <1>4 DEF IsMatrix

LEMMA BMultiply ==
  ASSUME BInductive, PartB!Multiply
  PROVE  BInductive'
<1>1. BTypes /\ Places /\ Computed /\ Freed
  BY DEF BInductive
<1>2. DOMAIN bPlace = 1 .. 3
  BY <1>1 DEF BTypes
<1>3. PICK m, index :
        /\ m.rows = rowsA /\ m.columns = columnsB /\ IsMatrix(m)
        /\ PartB!Pool(1, 1, m, index, "product")
  BY PartBAssumption DEF PartB!Multiply, PartB!Matrix, PartB!NoBytes, IsMatrix
<1>4. /\ bChild[1] = "running" /\ bPlace[1] = "compute" /\ bPlace' = [bPlace EXCEPT ![1] = "send"]
      /\ UNCHANGED <<bPc, bAt, bPart, dims, printed, bChild, written, bPipe, block>>
  BY DEF PartB!Multiply, PartB!At, PartB!Alive
<1>5. DOMAIN bPlace' = 1 .. 3 /\ bPlace'[1] = "send" /\ bPlace'[2] = bPlace[2]
  BY <1>2, <1>4
<1>6. written[1] = 0 /\ written[2] = 0
  BY <1>1, <1>4 DEF Places
<1>7. /\ DOMAIN matrix' = 1 .. 3 /\ \A q \in 1 .. 3 : q # 1 => matrix'[q] = matrix[q]
      /\ IsMatrix(matrix'[1])
      /\ DOMAIN faults' = 1 .. 3 /\ \A d \in 1 .. 2 : faults[d] \subseteq faults'[d]
      /\ faults'[2] = faults[2]
      /\ matrix'[1] = NoMatrix \/ (matrix'[1].rows = rowsA /\ matrix'[1].columns = columnsB)
  BY <1>1, <1>3, Pooled
<1>8. Places'
  <2>1. \A d \in 1 .. 2 : /\ bChild[d] = "none" => bPlace'[d] \in {"start", "compute"}
                          /\ bChild[d] \in {"dead", "reaped"} => bPlace'[d] = "exit"
    BY <1>1, <1>4, <1>5, Placed
  <2> QED
    BY <1>1, <1>4, <1>5, <1>6, <2>1 DEF Places
<1>9. Computed'
  <2>1. matrix'[2] = matrix[2] /\ matrix'[3] = matrix[3]
    BY <1>7
  <2> QED
    BY <1>1, <1>4, <1>5, <1>6, <1>7, <2>1 DEF Computed
<1>10. Freed'
  <2>1. matrix'[2] = matrix[2]
    BY <1>7
  <2> QED
    BY <1>1, <1>4, <1>5, <2>1 DEF Freed
<1> QED
  BY <1>4, <1>5, <1>6, <1>7, <1>8, <1>9, <1>10, BMade

LEMMA BTransposeA ==
  ASSUME BInductive, PartB!TransposeA
  PROVE  BInductive'
<1>1. BTypes /\ Places /\ Computed /\ Freed
  BY DEF BInductive
<1>2. DOMAIN bPlace = 1 .. 3
  BY <1>1 DEF BTypes
<1>3. /\ IsMatrix(Turned(GivenA))
      /\ PartB!Pool(2, 3, Turned(GivenA), PartB!ByColumn(GivenA), "transposed")
  <2>1. IsMatrix(GivenA)
    BY PartBAssumption DEF GivenA, PartB!Matrix, PartB!NoBytes, IsMatrix
  <2> QED
    BY <2>1, TurnedMatrix DEF PartB!TransposeA, Turned, GivenA
<1>4. /\ bChild[2] = "running" /\ bPlace[2] = "compute" /\ bPlace' = [bPlace EXCEPT ![2] = "send"]
      /\ UNCHANGED <<bPc, bAt, bPart, dims, printed, bChild, written, bPipe, block>>
  BY DEF PartB!TransposeA, PartB!At, PartB!Alive
<1>5. DOMAIN bPlace' = 1 .. 3 /\ bPlace'[2] = "send" /\ bPlace'[1] = bPlace[1]
  BY <1>2, <1>4
<1>6. written[3] = 0
  BY <1>1, <1>4 DEF Places
<1>7. /\ DOMAIN matrix' = 1 .. 3 /\ \A q \in 1 .. 3 : q # 3 => matrix'[q] = matrix[q]
      /\ IsMatrix(matrix'[3])
      /\ DOMAIN faults' = 1 .. 3 /\ \A d \in 1 .. 2 : faults[d] \subseteq faults'[d]
      /\ faults'[1] = faults[1]
      /\ matrix'[3] = Turned(GivenA) \/ "transposed" \in faults'[2]
  BY <1>1, <1>3, Pooled
<1>8. Places'
  <2>1. \A d \in 1 .. 2 : /\ bChild[d] = "none" => bPlace'[d] \in {"start", "compute"}
                          /\ bChild[d] \in {"dead", "reaped"} => bPlace'[d] = "exit"
    BY <1>1, <1>4, <1>5, Placed
  <2>2. bPlace[1] = "exit" /\ bChild[1] = "running" => written[2] = 3
    BY <1>1, Placed
  <2>3. /\ bPlace'[2] = "send" /\ written[3] < 3 /\ bPlace'[1] = bPlace[1]
        /\ UNCHANGED <<bPc, bAt, bChild, written>>
    BY <1>4, <1>5, <1>6
  <2> QED
    BY <1>1, <2>1, <2>2, <2>3 DEF Places
<1>9. Computed'
  <2>1. matrix'[2] = matrix[2] /\ matrix'[1] = matrix[1]
    BY <1>7
  <2>2. matrix'[3] = Turned(GivenA) \/ faults'[2] # {}
    BY <1>7
  <2> QED
    BY <1>1, <1>4, <1>5, <1>6, <1>7, <2>1, <2>2 DEF Computed
<1>10. Freed'
  <2>1. matrix'[2] = matrix[2]
    BY <1>7
  <2> QED
    BY <1>1, <1>4, <1>5, <2>1 DEF Freed
<1> QED
  BY <1>4, <1>5, <1>6, <1>7, <1>8, <1>9, <1>10, BMade

LEMMA BTransposeProduct ==
  ASSUME BInductive, PartB!TransposeProduct
  PROVE  BInductive'
<1>1. BTypes /\ Places /\ Computed /\ Freed
  BY DEF BInductive
<1>2. DOMAIN bPlace = 1 .. 3 /\ IsMatrix(matrix[1])
  BY <1>1 DEF BTypes
<1>3. PartB!Pool(1, 2, Turned(matrix[1]), PartB!ByColumn(matrix[1]), "second")
  BY DEF PartB!TransposeProduct, Turned
<1>4. /\ bChild[1] = "running" /\ bPlace[1] = "transpose" /\ bPlace' = [bPlace EXCEPT ![1] = "add"]
      /\ UNCHANGED <<bPc, bAt, bPart, dims, printed, bChild, written, bPipe>>
  BY DEF PartB!TransposeProduct, PartB!At, PartB!Alive
<1>5. DOMAIN bPlace' = 1 .. 3 /\ bPlace'[1] = "add" /\ bPlace'[2] = bPlace[2]
  BY <1>2, <1>4
<1>6. written[1] = 3 /\ written[2] = 0
  BY <1>1, <1>4 DEF Places
<1>7. /\ IsMatrix(Turned(matrix[1])) /\ Turned(matrix[1]).columns = matrix[1].rows
      /\ matrix[1] = NoMatrix => Turned(matrix[1]) = NoMatrix
  BY <1>2, TurnedMatrix
<1>8. /\ DOMAIN matrix' = 1 .. 3 /\ \A q \in 1 .. 3 : q # 2 => matrix'[q] = matrix[q]
      /\ IsMatrix(matrix'[2])
      /\ DOMAIN faults' = 1 .. 3 /\ \A d \in 1 .. 2 : faults[d] \subseteq faults'[d]
      /\ faults'[2] = faults[2]
      /\ matrix'[2] = Turned(matrix[1]) \/ "second" \in faults'[1]
      /\ matrix'[2] = NoMatrix \/ matrix'[2].columns = matrix[1].rows
      /\ matrix[1] = NoMatrix => matrix'[2] = NoMatrix
  <2>1. PICK m : m = Turned(matrix[1])
    OBVIOUS
  <2>2. PartB!Pool(1, 2, m, PartB!ByColumn(matrix[1]), "second") /\ IsMatrix(m)
    BY <1>3, <1>7, <2>1
  <2>3. /\ DOMAIN matrix' = 1 .. 3 /\ \A q \in 1 .. 3 : q # 2 => matrix'[q] = matrix[q]
        /\ IsMatrix(matrix'[2])
        /\ DOMAIN faults' = 1 .. 3 /\ \A d \in 1 .. 2 : faults[d] \subseteq faults'[d]
        /\ faults'[2] = faults[2]
        /\ matrix'[2] = m \/ "second" \in faults'[1]
        /\ matrix'[2] = NoMatrix \/ matrix'[2].columns = m.columns
        /\ m = NoMatrix => matrix'[2] = NoMatrix
    BY <1>1, <2>2, Pooled
  <2> QED
    BY <1>7, <2>1, <2>3
<1>9. matrix'[1] = matrix[1] /\ matrix'[3] = matrix[3]
  BY <1>8
<1>10. Places'
  <2>1. \A d \in 1 .. 2 : /\ bChild[d] = "none" => bPlace'[d] \in {"start", "compute"}
                          /\ bChild[d] \in {"dead", "reaped"} => bPlace'[d] = "exit"
    BY <1>1, <1>4, <1>5, Placed
  <2> QED
    BY <1>1, <1>4, <1>5, <1>6, <2>1 DEF Places
<1>11. Computed'
  <2>1. matrix[1] = NoMatrix \/ (matrix[1].rows = rowsA /\ matrix[1].columns = columnsB)
    BY <1>1 DEF Computed
  <2>2. matrix'[2] = NoMatrix \/ matrix'[2].columns = rowsA
    BY <1>8, <2>1
  <2>3. "second" \in faults'[1] \/ matrix'[2] = Turned(matrix'[1])
    BY <1>8, <1>9
  <2>4. bPlace[2] = "send" \/ written[3] > 0 =>
          faults'[2] # {} \/ matrix'[3] = Turned(GivenA)
    BY <1>1, <1>8, <1>9 DEF Computed
  <2> QED
    BY <1>4, <1>5, <1>6, <1>9, <2>1, <2>2, <2>3, <2>4 DEF Computed
<1>12. Freed'
  <2>1. block' = "live"
    BY DEF PartB!TransposeProduct
  <2> QED
    BY <1>5, <2>1 DEF Freed
<1> QED
  BY <1>4, <1>5, <1>6, <1>8, <1>10, <1>11, <1>12, BMade

LEMMA BAddNewRow ==
  ASSUME BInductive, PartB!addNewRow
  PROVE  BInductive'
<1> DEFINE m == matrix[2]
<1>1. BTypes /\ Places /\ Computed /\ Freed
  BY DEF BInductive
<1>2. /\ DOMAIN bPlace = 1 .. 3 /\ DOMAIN matrix = 1 .. 3 /\ DOMAIN faults = 1 .. 3
      /\ IsMatrix(m) /\ IsMatrix(matrix[1])
  BY <1>1 DEF BTypes
<1>16. bPlace' = [bPlace EXCEPT ![1] = "sendSecond"]
  BY DEF PartB!addNewRow, PartB!At
<1>3. /\ bChild[1] = "running" /\ bPlace[1] = "add"
      /\ UNCHANGED <<bPc, bAt, bPart, dims, printed, bChild, written, bPipe>>
  BY DEF PartB!addNewRow, PartB!At, PartB!Alive
<1>4. \/ /\ m.columns > 0 /\ block' = block /\ faults' = faults
         /\ matrix' = [matrix EXCEPT ![2].rows = m.rows + 1,
                        ![2].words = m.words \o [i \in 1 .. m.columns |-> PartB!NewWord]]
      \/ m.columns > 0 /\ faults' = PartB!With(1, "realloc") /\ matrix' = matrix /\ block' = block
      \/ m.columns = 0 /\ block' = "freed" /\ matrix' = matrix /\ faults' = faults
  BY DEF PartB!addNewRow, PartB!Fault
<1>5. DOMAIN bPlace' = 1 .. 3 /\ bPlace'[1] = "sendSecond" /\ bPlace'[2] = bPlace[2]
  BY <1>2, <1>16
<1>6. written[1] = 3 /\ written[2] = 0 /\ block = "live"
  BY <1>1, <1>3 DEF Places, Freed
<1>7. /\ m = NoMatrix \/ m.columns = rowsA
      /\ "second" \in faults[1] \/ m = Turned(matrix[1])
      /\ matrix[1] = NoMatrix \/ matrix[1].rows = rowsA
      /\ Turned(matrix[1]).columns = matrix[1].rows
  BY <1>1, <1>2, <1>3, TurnedMatrix DEF Computed
<1>8. m.columns = 0 => m = NoMatrix /\ ("second" \in faults[1] \/ matrix[1] = NoMatrix)
  BY <1>7, PartBAssumption
<1>9. /\ DOMAIN matrix' = 1 .. 3 /\ matrix'[1] = matrix[1] /\ matrix'[3] = matrix[3]
      /\ matrix'[2] = Lengthened(m) \/ matrix'[2] = m
      /\ \/ m.columns > 0 /\ matrix'[2] = Lengthened(m)
         \/ m.columns > 0 /\ matrix'[2] = m /\ faults' = PartB!With(1, "realloc")
         \/ m.columns = 0 /\ matrix'[2] = m
  <2>1. CASE matrix' = [matrix EXCEPT ![2].rows = m.rows + 1,
                          ![2].words = m.words \o [i \in 1 .. m.columns |-> PartB!NewWord]]
             /\ m.columns > 0
    <3>1. PICK r, w : r = m.rows + 1 /\ w = m.words \o [i \in 1 .. m.columns |-> PartB!NewWord]
      OBVIOUS
    <3>2. matrix' = [matrix EXCEPT ![2].rows = r, ![2].words = w]
      BY <2>1, <3>1
    <3>3. /\ DOMAIN matrix' = 1 .. 3 /\ matrix'[1] = matrix[1] /\ matrix'[3] = matrix[3]
          /\ matrix'[2] = [m EXCEPT !.rows = r, !.words = w]
      BY <1>2, <3>2
    <3>4. matrix'[2] = [rows |-> r, columns |-> m.columns, words |-> w]
      BY <1>2, <3>3, TwoFields DEF IsMatrix
    <3>5. matrix'[2] = Lengthened(m)
      BY <3>1, <3>4 DEF Lengthened, PartB!WithRow, PartB!Matrix
    <3> QED
      BY <2>1, <3>3, <3>5
  <2>2. CASE matrix' = matrix
    BY <1>2, <1>4, <2>1, <2>2
  <2> QED
    BY <1>4, <2>1, <2>2
<1>10. /\ DOMAIN faults' = 1 .. 3 /\ \A d \in 1 .. 2 : faults[d] \subseteq faults'[d]
       /\ faults' = PartB!With(1, "realloc") => "realloc" \in faults'[1]
  <2>1. CASE faults' = faults /\ faults' # PartB!With(1, "realloc")
    BY <1>2, <2>1
  <2>2. CASE faults' = PartB!With(1, "realloc")
    BY <1>1, <2>2, OneFault
  <2> QED
    BY <1>4, <2>1, <2>2
<1>11. Places'
  <2>1. \A d \in 1 .. 2 : /\ bChild[d] = "none" => bPlace'[d] \in {"start", "compute"}
                          /\ bChild[d] \in {"dead", "reaped"} => bPlace'[d] = "exit"
    BY <1>1, <1>3, <1>5, Placed
  <2>2. /\ bPlace'[1] = "sendSecond" /\ written[1] = 3 /\ written[2] = 0
        /\ bPlace'[2] = bPlace[2] /\ UNCHANGED <<bPc, bAt, bChild, written>>
    BY <1>3, <1>5, <1>6
  <2> QED
    BY <1>1, <2>1, <2>2 DEF Places
<1>12. Computed'
  <2>1. \/ faults'[1] \cap {"second", "realloc"} # {} \/ matrix[1] = NoMatrix
        \/ matrix'[2] = Lengthened(Turned(matrix[1]))
    <3>1. "second" \in faults[1] => "second" \in faults'[1]
      BY <1>10
    <3> QED
      BY <1>7, <1>8, <1>9, <1>10, <3>1
  <2>2. faults[2] # {} => faults'[2] # {}
    BY <1>10
  <2> QED
    BY <1>1, <1>3, <1>5, <1>9, <2>1, <2>2 DEF Computed
<1>13. Freed'
  <2>1. block' = "live" \/ (block' = "freed" /\ matrix'[2] = NoMatrix)
    BY <1>4, <1>6, <1>8, <1>9
  <2> QED
    BY <1>5, <2>1 DEF Freed
<1>14. IsMatrix(matrix'[2]) /\ \A q \in 1 .. 3 : q # 2 => matrix'[q] = matrix[q]
  BY <1>2, <1>9, LengthenedMatrix
<1>15. /\ written[2] = 0 /\ DOMAIN bPlace' = 1 .. 3 /\ DOMAIN matrix' = 1 .. 3
       /\ UNCHANGED <<bPc, bAt, bPart, dims, printed, bChild, written, bPipe>>
  BY <1>3, <1>5, <1>6, <1>9
<1> QED
  BY <1>10, <1>11, <1>12, <1>13, <1>14, <1>15, BMade

\* A child writes the next part of a matrix into its pipe.
LEMMA BWrites ==
  ASSUME BInductive, NEW p \in 1 .. 3, bChild[PartB!Writer(p)] = "running", written[p] < 3,
         bPipe' = [bPipe EXCEPT ![p] =
           Append(@, <<matrix[p].rows, matrix[p].columns, matrix[p].words>>[written[p] + 1])],
         written' = [written EXCEPT ![p] = @ + 1],
         UNCHANGED <<bPc, bAt, bPart, dims, printed, bChild, matrix, block, faults>>,
         DOMAIN bPlace' = 1 .. 3, Places', Computed', Freed'
  PROVE  BInductive'
<1> DEFINE a == matrix[p].rows
           b == matrix[p].columns
           d == matrix[p].words
           n == written[p]
           k == ReadsOf(p)
<1>1. BTypes /\ Places /\ Faulty /\ Told /\ Computed /\ Shown /\ Freed /\ \A q \in 1 .. 3 : Piped(q)
  BY DEF BInductive
<1>2. n \in 0 .. 2 /\ k \in 0 .. 3 /\ PartB!Writer(p) \in 1 .. 2
  BY <1>1 DEF BTypes, ReadsOf, PartB!Writer
<1>3. (k <= n \/ (k = 3 /\ n = 2 /\ NoneToCome(p))) /\ ~ Lost(PartB!Writer(p))
  BY <1>1, <1>2 DEF Piped, NoneToCome, Lost
<1>4. /\ written' \in [1 .. 3 -> 0 .. 3] /\ written'[p] = n + 1
      /\ \A q \in 1 .. 3 : q # p => written'[q] = written[q]
      /\ \A q \in 1 .. 3 : written[q] <= written'[q]
  <2>1. written \in [1 .. 3 -> 0 .. 3]
    BY <1>1 DEF BTypes
  <2>2. /\ written' \in [1 .. 3 -> 0 .. 3] /\ written'[p] = n + 1
        /\ \A q \in 1 .. 3 : q # p => written'[q] = written[q]
    BY <1>2, <2>1
  <2> QED
    BY <1>2, <2>1, <2>2
<1>5. /\ DOMAIN bPipe' = 1 .. 3 /\ \A q \in 1 .. 3 : q # p => bPipe'[q] = bPipe[q]
      /\ bPipe'[p] = Append(bPipe[p], <<a, b, d>>[n + 1])
  <2>1. PICK v : v = Append(bPipe[p], <<a, b, d>>[n + 1])
    OBVIOUS
  <2>2. DOMAIN bPipe = 1 .. 3 /\ bPipe' = [bPipe EXCEPT ![p] = v]
    BY <1>1, <2>1 DEF BTypes
  <2>3. DOMAIN bPipe' = 1 .. 3 /\ bPipe'[p] = v /\ \A q \in 1 .. 3 : q # p => bPipe'[q] = bPipe[q]
    BY <2>2
  <2> QED
    BY <2>1, <2>3
<1>6. BTypes'
  BY <1>1, <1>4, <1>5 DEF BTypes, IsMatrix
<1>7. \A c \in 1 .. 3 : Lost(c)' <=> Lost(c)
  BY DEF Lost
<1>8. Faulty'
  <2>1. /\ written'[2] < 3 => written[2] < 3
        /\ written'[3] < 3 => written[3] < 3
    BY <1>1, <1>4 DEF BTypes
  <2>2. bPc = "crashed" => Lost(1) /\ written'[2] < 2
    <3>1. bPc = "crashed" => Lost(1) /\ written[2] < 2
      BY <1>1 DEF Faulty
    <3>2. CASE p = 3
      BY <1>4, <3>1, <3>2
    <3>3. CASE p # 3
      <4>1. PartB!Writer(p) = 1
        BY <3>3 DEF PartB!Writer
      <4> QED
        BY <1>3, <3>1, <4>1
    <3> QED
      BY <3>2, <3>3
  <2> QED
    BY <1>1, <1>7, <2>1, <2>2 DEF Faulty
<1>9. Told'
  <2>1. ASSUME bPc = "read" PROVE
          /\ bPart >= 2 /\ written'[bAt] >= 1 => dims[PartB!Struct(bAt)][1] = matrix[bAt].rows
          /\ bPart = 3 /\ written'[bAt] >= 2 => dims[PartB!Struct(bAt)][2] = matrix[bAt].columns
    <3>1. bAt \in 1 .. 3 /\ bPart \in 1 .. 3 /\ written[bAt] \in 0 .. 3
      BY <1>1 DEF BTypes
    <3>2. CASE bAt = p
      <4>1. bPart - 1 <= written[bAt]
        BY <1>2, <1>3, <2>1, <3>1, <3>2 DEF ReadsOf
      <4> QED
        BY <1>1, <2>1, <3>1, <4>1 DEF Told
    <3>3. CASE bAt # p
      BY <1>1, <1>4, <2>1, <3>1, <3>3 DEF Told
    <3> QED
      BY <3>2, <3>3
  <2>2. bPc = "read" /\ bAt = 3 /\ written'[2] >= 2 => dims[2][1] # -1 /\ dims[2][2] # -1
    <3>1. CASE p = 2
      <4>1. bPc = "read" /\ bAt = 3 => k = 3
        BY <3>1 DEF ReadsOf
      <4> QED
        BY <1>1, <1>2, <1>3, <3>1, <4>1 DEF Told
    <3>2. CASE p # 2
      BY <1>1, <1>4, <3>2 DEF Told
    <3> QED
      BY <3>1, <3>2
  <2>3. PartB!Struct(bAt)' = PartB!Struct(bAt)
    BY DEF PartB!Struct
  <2> QED
    BY <2>1, <2>2, <2>3 DEF Told
<1>10. Shown'
  <2>1. Prints' = Prints
    BY DEF Prints
  <2>2. \A q \in 1 .. 3 : q <= Prints /\ (written'[q] = 3 \/ NoneToCome(q)') => printed[q] = matrix[q]
    <3>1. TAKE q \in 1 .. 3
    <3>2. CASE q = p
      <4>1. p <= Prints => k = 3
        BY <1>1 DEF Prints, ReadsOf, BTypes
      <4> QED
        BY <1>1, <1>2, <1>3, <3>2, <4>1 DEF Shown
    <3>3. CASE q # p
      BY <1>1, <1>4, <3>3 DEF Shown, NoneToCome
    <3> QED
      BY <3>2, <3>3
  <2> QED
    BY <1>1, <2>1, <2>2 DEF Shown, NoneToCome, Content
<1>11. \A q \in 1 .. 3 : Piped(q)'
  <2>1. TAKE q \in 1 .. 3
  <2>2. /\ PartB!Writer(q) \in 1 .. 3 /\ PartB!Writer(q)' = PartB!Writer(q)
        /\ ReadsOf(q)' = ReadsOf(q)
    BY DEF PartB!Writer, ReadsOf
  <2>3. CASE q = p
    <3>1. k < 3 => bPipe[p] = Content(a, b, d, n, k) /\ k \in 0 .. n
      BY <1>1, <1>2, <1>3 DEF Piped
    <3>2. k < 3 => Append(Content(a, b, d, n, k), <<a, b, d>>[n + 1]) = Content(a, b, d, n + 1, k)
      <4> HIDE DEF a, b, d, n, k
      <4> QED
        BY <1>2, <3>1, Putting
    <3>3. k < 3 => bPipe'[p] = Append(Content(a, b, d, n, k), <<a, b, d>>[n + 1])
      BY Zenon, <1>5, <3>1
    <3>4. k < 3 => bPipe'[p] = Content(a, b, d, n + 1, k)
      BY Zenon, <3>2, <3>3
    <3>5. ~ (k > n + 1)
      BY <1>2, <1>3
    <3> QED
      BY <1>4, <2>2, <2>3, <3>4, <3>5 DEF Piped, NoneToCome, Content
  <2>4. CASE q # p
    <3>1. bPipe'[q] = bPipe[q] /\ written'[q] = written[q]
      BY <1>4, <1>5, <2>4
    <3> QED
      BY <1>1, <1>7, <2>2, <3>1 DEF Piped, NoneToCome, Content
  <2> QED
    BY <2>3, <2>4
<1> QED
  BY <1>6, <1>8, <1>9, <1>10, <1>11 DEF BInductive

\* The first child always finds a reader: main has not yet gone past its pipes,
\* unless no bytes are left to write.
LEMMA FirstIsRead ==
  ASSUME BInductive, NEW p \in 1 .. 2, bChild[1] = "running", written[p] < 3
  PROVE  PartB!Readable(p) \/ NoneToCome(p)
<1> SUFFICES ASSUME ~ NoneToCome(p) PROVE PartB!Readable(p)
  OBVIOUS
<1>1. BTypes /\ Faulty /\ Piped(p)
  BY DEF BInductive
<1>2. ~ Lost(1) /\ PartB!Writer(p) = 1 /\ written[p] \in 0 .. 2
  BY <1>1 DEF Lost, PartB!Writer, BTypes
<1>3. bPc # "crashed"
  BY <1>1, <1>2 DEF Faulty
<1>4. ~ (ReadsOf(p) > written[p])
  BY <1>1, <1>2 DEF Piped
<1>5. ReadsOf(p) # 3
  BY <1>2, <1>4
<1>6. bPc = "fork" \/ (bPc = "read" /\ bAt <= p)
  BY <1>1, <1>3, <1>5 DEF ReadsOf, BTypes
<1> QED
  BY <1>6 DEF PartB!Readable

\* The write() to p succeeds.
Writes(p) == PartB!Readable(p) \/ NoneToCome(p)

\* What a write() of the first two children does.
LEMMA Sending ==
  ASSUME BInductive, NEW c \in 1 .. 2, NEW p \in 1 .. 3, NEW from, NEW to,
         PartB!Send(c, p, from, to)
  PROVE  /\ bChild[c] = "running" /\ bPlace[c] = from
         /\ UNCHANGED <<bPc, bAt, bPart, dims, printed, matrix, block>>
         /\ \/ /\ Writes(p)
               /\ bPipe' = [bPipe EXCEPT ![p] =
                   Append(@, <<matrix[p].rows, matrix[p].columns, matrix[p].words>>[written[p] + 1])]
               /\ written' = [written EXCEPT ![p] = @ + 1]
               /\ bChild' = bChild /\ faults' = faults
               /\ DOMAIN bPlace' = 1 .. 3 /\ \A d \in 1 .. 2 : d # c => bPlace'[d] = bPlace[d]
               /\ bPlace'[c] = IF written[p] = 2 THEN to ELSE from
            \/ /\ ~ Writes(p)
               /\ bChild' = [bChild EXCEPT ![c] = "dead"] /\ bPlace' = [bPlace EXCEPT ![c] = "exit"]
               /\ faults' = PartB!With(c, "pipe") /\ bPipe' = bPipe /\ written' = written
<1>1. DOMAIN bPlace = 1 .. 3
  BY DEF BInductive, BTypes
<1>2. /\ bChild[c] = "running" /\ bPlace[c] = from
      /\ UNCHANGED <<bPc, bAt, bPart, dims, printed, matrix, block>>
  BY DEF PartB!Send, PartB!Alive
<1>3. CASE Writes(p)
  <2>1. /\ bPipe' = [bPipe EXCEPT ![p] =
             Append(@, <<matrix[p].rows, matrix[p].columns, matrix[p].words>>[written[p] + 1])]
        /\ written' = [written EXCEPT ![p] = @ + 1]
        /\ bChild' = bChild /\ faults' = faults
        /\ bPlace' = IF written[p] = 2 THEN [bPlace EXCEPT ![c] = to] ELSE bPlace
    BY <1>3 DEF PartB!Send, Writes, NoneToCome
  <2>2. /\ DOMAIN bPlace' = 1 .. 3 /\ \A d \in 1 .. 2 : d # c => bPlace'[d] = bPlace[d]
        /\ bPlace'[c] = IF written[p] = 2 THEN to ELSE from
    BY <1>1, <1>2, <2>1
  <2> QED
    BY Zenon, <1>2, <1>3, <2>1, <2>2
<1>4. CASE ~ Writes(p)
  BY <1>2, <1>4 DEF PartB!Send, PartB!Ends, Writes, NoneToCome
<1> QED
  BY <1>3, <1>4

\* The first child sends the product.
LEMMA BSendProduct ==
  ASSUME BInductive, PartB!Send(1, 1, "send", "transpose")
  PROVE  BInductive'
<1>1. BTypes /\ Places /\ Computed /\ Freed
  BY DEF BInductive
<1>2. bChild[1] = "running" /\ bPlace[1] = "send"
  BY Sending
<1>3. written[1] < 3 /\ written[2] = 0 /\ written[1] \in 0 .. 2
  BY <1>1, <1>2 DEF Places, BTypes
<1>4. Writes(1)
  BY <1>2, <1>3, FirstIsRead DEF Writes
<1>5. /\ UNCHANGED <<bPc, bAt, bPart, dims, printed, bChild, matrix, block, faults>>
      /\ bPipe' = [bPipe EXCEPT ![1] =
           Append(@, <<matrix[1].rows, matrix[1].columns, matrix[1].words>>[written[1] + 1])]
      /\ written' = [written EXCEPT ![1] = @ + 1]
      /\ DOMAIN bPlace' = 1 .. 3 /\ bPlace'[2] = bPlace[2]
      /\ bPlace'[1] = IF written[1] = 2 THEN "transpose" ELSE "send"
  BY <1>4, Sending
<1>6. written'[1] = written[1] + 1 /\ written'[2] = 0 /\ written'[3] = written[3]
  BY <1>1, <1>3, <1>5 DEF BTypes
<1>7. Places'
  <2>1. \A d \in 1 .. 2 : /\ bChild[d] = "none" => bPlace'[d] \in {"start", "compute"}
                          /\ bChild[d] \in {"dead", "reaped"} => bPlace'[d] = "exit"
    BY <1>1, <1>2, <1>5, Placed
  <2>2. \/ bPlace'[1] = "transpose" /\ written'[1] = 3
        \/ bPlace'[1] = "send" /\ written'[1] < 3
    BY <1>3, <1>5, <1>6
  <2>3. bPlace'[2] = bPlace[2] /\ UNCHANGED <<bPc, bAt, bChild>>
    BY <1>5
  <2> QED
    BY <1>1, <1>6, <2>1, <2>2, <2>3 DEF Places
<1>8. Computed' /\ Freed'
  <2>1. bPlace'[1] \in {"send", "transpose"} /\ bPlace'[2] = bPlace[2] /\ UNCHANGED <<matrix, block, faults>>
    BY <1>5
  <2> QED
    BY <1>1, <1>3, <1>6, <2>1 DEF Computed, Freed
<1>9. written[1] < 3 /\ bChild[PartB!Writer(1)] = "running"
  BY <1>2, <1>3 DEF PartB!Writer
<1> QED
  BY <1>5, <1>7, <1>8, <1>9, BWrites

\* The first child sends the product transposed, with its row.
LEMMA BSendSecond ==
  ASSUME BInductive, PartB!Send(1, 2, "sendSecond", "free")
  PROVE  BInductive'
<1>1. BTypes /\ Places /\ Computed /\ Freed
  BY DEF BInductive
<1>2. bChild[1] = "running" /\ bPlace[1] = "sendSecond"
  BY Sending
<1>3. written[2] < 3 /\ written[1] = 3 /\ written[2] \in 0 .. 2
  BY <1>1, <1>2 DEF Places, BTypes
<1>4. Writes(2)
  BY <1>2, <1>3, FirstIsRead DEF Writes
<1>5. /\ UNCHANGED <<bPc, bAt, bPart, dims, printed, bChild, matrix, block, faults>>
      /\ bPipe' = [bPipe EXCEPT ![2] =
           Append(@, <<matrix[2].rows, matrix[2].columns, matrix[2].words>>[written[2] + 1])]
      /\ written' = [written EXCEPT ![2] = @ + 1]
      /\ DOMAIN bPlace' = 1 .. 3 /\ bPlace'[2] = bPlace[2]
      /\ bPlace'[1] = IF written[2] = 2 THEN "free" ELSE "sendSecond"
  <2>1. /\ UNCHANGED <<bPc, bAt, bPart, dims, printed, bChild, matrix, block, faults>>
        /\ DOMAIN bPlace' = 1 .. 3 /\ \A d \in 1 .. 2 : d # 1 => bPlace'[d] = bPlace[d]
        /\ bPlace'[1] = IF written[2] = 2 THEN "free" ELSE "sendSecond"
    BY <1>4, Sending
  <2>2. /\ bPipe' = [bPipe EXCEPT ![2] =
             Append(@, <<matrix[2].rows, matrix[2].columns, matrix[2].words>>[written[2] + 1])]
        /\ written' = [written EXCEPT ![2] = @ + 1]
    <3>1. 1 \in 1 .. 2 /\ 2 \in 1 .. 3
      OBVIOUS
    <3> QED
      BY Zenon, <1>4, <3>1, Sending
  <2> QED
    BY <2>1, <2>2
<1>6. written'[2] = written[2] + 1 /\ written'[1] = 3 /\ written'[3] = written[3]
  BY <1>1, <1>3, <1>5 DEF BTypes
<1>7. Places'
  <2>1. \A d \in 1 .. 2 : /\ bChild[d] = "none" => bPlace'[d] \in {"start", "compute"}
                          /\ bChild[d] \in {"dead", "reaped"} => bPlace'[d] = "exit"
    BY <1>1, <1>2, <1>5, Placed
  <2>2. \/ bPlace'[1] = "free" /\ written'[2] = 3
        \/ bPlace'[1] = "sendSecond" /\ written'[2] < 3
    BY <1>3, <1>5, <1>6
  <2>3. bPlace'[2] = bPlace[2] /\ UNCHANGED <<bPc, bAt, bChild>>
    BY <1>5
  <2> QED
    BY <1>1, <1>6, <2>1, <2>2, <2>3 DEF Places
<1>8. Computed' /\ Freed'
  <2>1. bPlace'[1] \in {"sendSecond", "free"} /\ bPlace'[2] = bPlace[2] /\ UNCHANGED <<matrix, block, faults>>
    BY <1>5
  <2>2. block = "live" \/ (block = "freed" /\ matrix[2] = NoMatrix)
    BY <1>1, <1>2 DEF Freed
  <2> QED
    BY <1>1, <1>2, <1>6, <2>1, <2>2 DEF Computed, Freed
<1>9. written[2] < 3 /\ bChild[PartB!Writer(2)] = "running"
  BY <1>2, <1>3 DEF PartB!Writer
<1> QED
  BY <1>5, <1>7, <1>8, <1>9, BWrites

\* The second child sends A transposed, if someone still reads it.
LEMMA BSendTransposed ==
  ASSUME BInductive, PartB!Send(2, 3, "send", "exit")
  PROVE  BInductive'
<1>1. BTypes /\ Places /\ Computed /\ Freed
  BY DEF BInductive
<1>2. bChild[2] = "running" /\ bPlace[2] = "send" /\ UNCHANGED <<bPc, bAt, bPart, dims, printed, matrix, block>>
  BY Sending
<1>3. written[3] < 3 /\ written[3] \in 0 .. 2
  BY <1>1, <1>2 DEF Places, BTypes
<1>4. CASE /\ UNCHANGED <<bChild, faults>>
           /\ bPipe' = [bPipe EXCEPT ![3] =
                Append(@, <<matrix[3].rows, matrix[3].columns, matrix[3].words>>[written[3] + 1])]
           /\ written' = [written EXCEPT ![3] = @ + 1]
           /\ DOMAIN bPlace' = 1 .. 3 /\ bPlace'[1] = bPlace[1]
           /\ bPlace'[2] = IF written[3] = 2 THEN "exit" ELSE "send"
  <2>1. written'[3] = written[3] + 1 /\ written'[1] = written[1] /\ written'[2] = written[2]
    BY <1>1, <1>3, <1>4 DEF BTypes
  <2>2. Places'
    <3>1. \A d \in 1 .. 2 : /\ bChild[d] = "none" => bPlace'[d] \in {"start", "compute"}
                            /\ bChild[d] \in {"dead", "reaped"} => bPlace'[d] = "exit"
      BY <1>1, <1>2, <1>4, Placed
    <3>2. \/ bPlace'[2] = "exit" /\ written'[3] = 3
          \/ bPlace'[2] = "send" /\ written'[3] < 3
      BY <1>3, <1>4, <2>1
    <3>3. bPlace'[1] = bPlace[1] /\ UNCHANGED <<bPc, bAt, bChild>>
      BY <1>2, <1>4
    <3>4. bPlace[1] = "exit" /\ bChild[1] = "running" => written[2] = 3
      BY <1>1, Placed
    <3> QED
      BY <1>1, <2>1, <3>1, <3>2, <3>3, <3>4 DEF Places
  <2>3. Computed' /\ Freed'
    BY <1>1, <1>2, <1>4, <2>1 DEF Computed, Freed
  <2>4. written[3] < 3 /\ bChild[PartB!Writer(3)] = "running"
    BY <1>2, <1>3 DEF PartB!Writer
  <2> QED
    BY <1>2, <1>4, <2>2, <2>3, <2>4, BWrites
<1>5. CASE /\ bChild' = [bChild EXCEPT ![2] = "dead"] /\ bPlace' = [bPlace EXCEPT ![2] = "exit"]
           /\ faults' = PartB!With(2, "pipe") /\ bPipe' = bPipe /\ written' = written
  <2>1. /\ DOMAIN faults' = 1 .. 3 /\ faults'[2] = faults[2] \cup {"pipe"}
        /\ \A d \in 1 .. 2 : faults[d] \subseteq faults'[d]
    BY <1>1, <1>5, OneFault
  <2>2. faults'[2] # {}
    BY <2>1
  <2>3. Freed'
    <3>1. bPlace'[1] = bPlace[1]
      BY <1>1, <1>5 DEF BTypes
    <3> QED
      BY <1>1, <1>2, <1>5, <3>1 DEF Freed
  <2> QED
    BY <1>2, <1>5, <2>1, <2>2, <2>3, BEnds
<1>6. ASSUME Writes(3)
      PROVE  /\ UNCHANGED <<bChild, faults>>
             /\ bPipe' = [bPipe EXCEPT ![3] =
                  Append(@, <<matrix[3].rows, matrix[3].columns, matrix[3].words>>[written[3] + 1])]
             /\ written' = [written EXCEPT ![3] = @ + 1]
             /\ DOMAIN bPlace' = 1 .. 3 /\ bPlace'[1] = bPlace[1]
             /\ bPlace'[2] = IF written[3] = 2 THEN "exit" ELSE "send"
  <2>1. /\ UNCHANGED <<bChild, faults>>
        /\ DOMAIN bPlace' = 1 .. 3 /\ \A d \in 1 .. 2 : d # 2 => bPlace'[d] = bPlace[d]
        /\ bPlace'[2] = IF written[3] = 2 THEN "exit" ELSE "send"
    BY <1>6, Sending
  <2>2. bPipe' = [bPipe EXCEPT ![3] =
          Append(@, <<matrix[3].rows, matrix[3].columns, matrix[3].words>>[written[3] + 1])]
    BY <1>6, Sending
  <2>3. written' = [written EXCEPT ![3] = @ + 1]
    BY <1>6, Sending
  <2> QED
    BY <2>1, <2>2, <2>3
<1>7. ASSUME ~ Writes(3)
      PROVE  /\ bChild' = [bChild EXCEPT ![2] = "dead"] /\ bPlace' = [bPlace EXCEPT ![2] = "exit"]
             /\ faults' = PartB!With(2, "pipe") /\ bPipe' = bPipe /\ written' = written
  BY <1>7, Sending
<1> QED
  BY Zenon, <1>4, <1>5, <1>6, <1>7

LEMMA BRuns ==
  ASSUME BInductive, NEW c \in 1 .. 3, PartB!Run(c) \/ PartB!Die(c)
  PROVE  BInductive'
<1>1. CASE PartB!Die(c) /\ c # 3
  BY <1>1, BExit
<1>2. CASE PartB!Die(c) /\ c = 3
  BY <1>2, BThird
<1>3. CASE PartB!First
  BY <1>3, BMultiply, BTransposeProduct, BAddNewRow, BFree, BExit, BSendProduct, BSendSecond DEF PartB!First
<1>4. CASE PartB!Second
  BY <1>4, BStart2, BTransposeA, BSendTransposed, BExit DEF PartB!Second
<1>5. CASE PartB!Third
  BY <1>5, BThird DEF PartB!Third
<1>6. PartB!Run(c) => PartB!First \/ PartB!Second \/ PartB!Third
  BY DEF PartB!Run
<1> QED
  BY <1>1, <1>2, <1>3, <1>4, <1>5, <1>6

\* What main has read and what it prints, in every state of part B.
LEMMA MatricesInvariant == PartB!Spec => []BInductive
<1>1. PartB!Init => BInductive
  <2> SUFFICES ASSUME PartB!Init PROVE BInductive
    OBVIOUS
  <2>1. /\ bPc = "fork" /\ bAt = 1 /\ bPart = 1 /\ printed = << >> /\ block = "none"
        /\ dims = [s \in 1 .. 2 |-> <<-1, -1>>]
        /\ bChild = [c \in 1 .. 3 |-> "none"]
        /\ bPlace = [c \in 1 .. 3 |-> IF c = 1 THEN "compute" ELSE "start"]
        /\ written = [p \in 1 .. 3 |-> 0] /\ bPipe = [p \in 1 .. 3 |-> << >>]
        /\ matrix = [p \in 1 .. 3 |-> NoMatrix] /\ faults = [c \in 1 .. 3 |-> {}]
    BY DEF PartB!Init, PartB!Garbage, PartB!Children, PartB!Pipes, NoMatrix
  <2>2. IsMatrix(NoMatrix)
    BY DEF NoMatrix, IsMatrix, PartB!Empty, PartB!Matrix
  <2>3. dims \in [1 .. 2 -> [1 .. 2 -> Nat \cup {-1}]]
    <3>1. <<-1, -1>> \in [1 .. 2 -> Nat \cup {-1}]
      OBVIOUS
    <3> QED
      BY <2>1, <3>1
  <2>4. BTypes
    BY <2>1, <2>2, <2>3 DEF BTypes
  <2>5. Places
    BY <2>1 DEF Places
  <2>6. Faulty /\ Told
    BY <2>1 DEF Faulty, Told, Lost
  <2>7. Computed /\ Freed
    BY <2>1 DEF Computed, Freed
  <2>8. Shown /\ \A p \in 1 .. 3 : Piped(p)
    BY <2>1 DEF Shown, Prints, Piped, ReadsOf, Content
  <2> QED
    BY <2>4, <2>5, <2>6, <2>7, <2>8 DEF BInductive
<1>2. BInductive /\ [PartB!Next]_(PartB!vars) => BInductive'
  <2> SUFFICES ASSUME BInductive, [PartB!Next]_(PartB!vars) PROVE BInductive'
    OBVIOUS
  <2>1. CASE PartB!Main
    BY <2>1, BFork, BReadDimension, BReadWords, BWait DEF PartB!Main
  <2>2. CASE \E c \in PartB!Children : PartB!Run(c) \/ PartB!Die(c)
    BY <2>2, BRuns DEF PartB!Children
  <2>3. CASE UNCHANGED PartB!vars
    <3>1. /\ UNCHANGED <<bPc, bAt, bPart, dims, printed, bChild, bPlace, written, bPipe, matrix, block>>
          /\ UNCHANGED faults
      BY <2>3 DEF PartB!vars
    <3>2. BTypes /\ DOMAIN bPlace = 1 .. 3 /\ DOMAIN faults = 1 .. 3 /\ Places /\ Computed /\ Freed
          /\ bChild \in [1 .. 3 -> {"none", "running", "dead", "reaped"}]
      BY DEF BInductive, BTypes
    <3>3. Places'
      BY <3>1, <3>2 DEF Places
    <3>4. Computed' /\ Freed'
      BY <3>1, <3>2, SameMatrices
    <3> QED
      BY <3>1, <3>2, <3>3, <3>4, BMoves
  <2> QED
    BY <2>1, <2>2, <2>3 DEF PartB!Next
<1> QED
  BY <1>1, <1>2, PTL DEF PartB!Spec

\* main has printed as many matrices as it has read, and read the pipes of those.
LEMMA HowMany ==
  ASSUME BTypes, Shown
  PROVE  Len(printed) = Prints /\ Prints \in 0 .. 3
<1>1. Prints \in 0 .. 3
  BY DEF BTypes, Prints
<1>2. printed = Content(printed[1], printed[2], printed[3], Prints, 0)
  BY DEF Shown
<1>3. ASSUME NEW a, NEW b, NEW c, NEW n \in 0 .. 3
      PROVE  Len(Content(a, b, c, n, 0)) = n
  BY DEF Content
<1>4. PICK a, b, c : printed = Content(a, b, c, Prints, 0)
  BY <1>2
<1> QED
  BY <1>1, <1>3, <1>4

LEMMA Behind ==
  ASSUME BTypes, NEW p \in 1 .. 3, p <= Prints
  PROVE  ReadsOf(p) = 3
BY DEF BTypes, Prints, ReadsOf

LEMMA PartBAlone == MCSpec => PartB!Spec
<1>1. MCInit => PartB!Init
  BY Zenon DEF MCInit
<1>2. [MCNext]_allVars => [PartB!Next]_(PartB!vars)
  <2>1. MCNext => UNCHANGED bVars \/ PartBRuns \/ \E c \in PartB!Children : PartB!Die(c)
    BY Zenon DEF MCNext
  <2>2. UNCHANGED allVars => UNCHANGED bVars
    BY Zenon DEF allVars
  <2>3. UNCHANGED bVars => UNCHANGED PartB!vars
    BY DEF bVars, PartB!vars
  <2>4. PartBRuns \/ (\E c \in PartB!Children : PartB!Die(c)) => PartB!Next
    BY DEF PartBRuns, PartB!Next
  <2> QED
    BY <2>1, <2>2, <2>3, <2>4
<1> QED
  BY <1>1, <1>2, PTL DEF MCSpec, PartB!Spec

\* Whatever pool, realloc() or other child fails, main of
\* process_based_parallelism_taskLevel_IPC_B.c crashes only when its first child
\* was not forked or died before its second matrix had its dimensions.
THEOREM MainGoesOn == MCSpec => []MainSurvives
<1>1. BInductive => MainSurvives
  <2> SUFFICES ASSUME BInductive, bPc = "crashed" PROVE faults[1] \cap {"fork", "died"} # {} /\ written[2] < 2
    BY DEF MainSurvives, PartB!MainSurvives
  <2>1. Faulty /\ written[2] \in 0 .. 3
    BY DEF BInductive, BTypes
  <2> QED
    BY <2>1 DEF Faulty
<1> QED
  BY <1>1, MatricesInvariant, PartBAlone, PTL

\* The block that realloc() freed is freed again only for a matrix without
\* cells, and by then the matrix has been written: main still prints it.
THEOREM FreedLate == MCSpec => []FreedTwiceIfEmpty
<1>1. BInductive => FreedTwiceIfEmpty
  <2> SUFFICES ASSUME BInductive, block = "freedTwice"
               PROVE  matrix[2] = NoMatrix /\ written[2] = 3 /\ (Len(printed) >= 2 => printed[2] = NoMatrix)
    BY DEF FreedTwiceIfEmpty, PartB!FreedTwiceIfEmpty, NoMatrix
  <2>1. Freed /\ Shown
    BY DEF BInductive
  <2>2. matrix[2] = NoMatrix /\ written[2] = 3
    BY <2>1 DEF Freed
  <2>3. Len(printed) = Prints /\ Prints \in 0 .. 3
    BY HowMany DEF BInductive
  <2>4. Len(printed) >= 2 => printed[2] = matrix[2]
    BY <2>1, <2>2, <2>3 DEF Shown
  <2> QED
    BY <2>2, <2>4
<1> QED
  BY <1>1, MatricesInvariant, PartBAlone, PTL

\* With any matrices and any pool sizes: the second matrix that main prints is
\* the first one transposed with a row added, chunks lost on the way included,
\* unless the first child itself was hit; and the third is A transposed if all
\* went well with the second child, though main reads it into the same struct.
THEOREM MatricesAreRight == MCSpec => []PrintedIsRight
<1>1. BInductive => PrintedIsRight
  <2> SUFFICES ASSUME BInductive
               PROVE  /\ Len(printed) >= 2 /\ faults[1] \subseteq {"product"} /\ printed[1] # NoMatrix =>
                           printed[2] = Lengthened(Turned(printed[1]))
                      /\ Len(printed) = 3 /\ faults[2] = {} => printed[3] = Turned(GivenA)
    BY DEF PrintedIsRight, PartB!PrintedIsRight, NoMatrix, Lengthened, Turned, GivenA
  <2>1. /\ BTypes /\ Places /\ Faulty /\ Computed /\ Shown /\ Piped(2) /\ Piped(3)
        /\ written[1] \in 0 .. 3 /\ written[2] \in 0 .. 3 /\ written[3] \in 0 .. 3
    BY DEF BInductive, BTypes
  <2>2. ASSUME Len(printed) >= 2, faults[1] \subseteq {"product"}, printed[1] # NoMatrix
        PROVE  printed[2] = Lengthened(Turned(printed[1]))
    <3>1. Prints >= 2 /\ ReadsOf(2) = 3
      BY <2>1, <2>2, HowMany, Behind
    <3>2. faults[1] \cap {"fork", "died"} = {} /\ faults[1] \cap {"second", "realloc"} = {}
      BY <2>2
    <3>3. written[2] = 3 \/ NoneToCome(2)
      <4>1. written[2] < 3 => Lost(1) \/ NoneToCome(2)
        BY <2>1, <3>1 DEF Piped, PartB!Writer
      <4>2. ~ (written[2] < 3) \/ NoneToCome(2)
        BY <2>1, <3>2, <4>1 DEF Faulty
      <4> QED
        BY <2>1, <4>2
    <3>4. written[1] = 3
      <4>1. written[1] < 3 => written[2] = 0
        BY <2>1 DEF Places
      <4> QED
        BY <2>1, <3>3, <4>1 DEF NoneToCome
    <3>5. printed[1] = matrix[1] /\ printed[2] = matrix[2]
      <4>1. 1 <= Prints /\ 2 <= Prints
        BY <2>1, <3>1, HowMany
      <4> QED
        BY <2>1, <3>3, <3>4, <4>1 DEF Shown
    <3>6. matrix[1] = NoMatrix \/ matrix[2] = Lengthened(Turned(matrix[1]))
      BY <2>1, <3>2, <3>3 DEF Computed, NoneToCome
    <3> QED
      BY <2>2, <3>5, <3>6
  <2>3. ASSUME Len(printed) = 3, faults[2] = {}
        PROVE  printed[3] = Turned(GivenA)
    <3>1. Prints = 3 /\ ReadsOf(3) = 3
      BY <2>1, <2>3, HowMany, Behind
    <3>2. written[3] = 3 \/ NoneToCome(3)
      <4>1. written[3] < 3 => Lost(2) \/ NoneToCome(3)
        BY <2>1, <3>1 DEF Piped, PartB!Writer
      <4> QED
        BY <2>1, <2>3, <4>1 DEF Faulty
    <3>3. printed[3] = matrix[3]
      BY <2>1, <3>1, <3>2 DEF Shown
    <3> QED
      BY <2>1, <2>3, <3>2, <3>3 DEF Computed, NoneToCome
  <2> QED
    BY <2>2, <2>3
<1> QED
  BY <1>1, MatricesInvariant, PartBAlone, PTL

=============================================================================
