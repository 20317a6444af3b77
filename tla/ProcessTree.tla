----------------------------- MODULE ProcessTree -----------------------------
(***************************************************************************)
(* The two programs whose processes tell each other nothing:               *)
(* process_based_parallelism.c, where main forks a child per operation,    *)
(* and process_based_parallelism_taskLevel.c, where each of these forks a  *)
(* child per chunk.  What they have is their output, and the times they    *)
(* print, which are right only if everybody is waited for.                 *)
(*                                                                         *)
(* stdout is line-buffered on a terminal, and a buffer in memory when it    *)
(* is a file: fork() copies what is in it, and every copy is written when  *)
(* its process flushes or exits.  A line of output here is a banner or a   *)
(* time with the lines around it.                                          *)
(***************************************************************************)
EXTENDS Integers, FiniteSets

CONSTANTS
  Chunks,  \* workerCount of each operation, in the program with chunks
  MayFail  \* a fork may fail, a process may be killed

\* 1, 2 and 3: multiplication, transposition and average.
Operations == 1 .. 3

System == <<"system", 0>>
Banner(o) == <<"banner", o>>
Time(o) == <<"time", o>>
Total == <<"total", 0>>

Lines == {System, Total} \cup {Banner(o) : o \in Operations} \cup {Time(o) : o \in Operations}

VARIABLES
  terminal,  \* stdout is a terminal
  chunked,   \* which of the two programs this is
  pc,        \* main: "fork" | "wait" | "print" | "exited"
  at,        \* main: the operation it forks, or its wait()
  place,     \* per operation: "none" | "banner" | "fork" | "wait" | "time" | "exit" | "dead" | "reaped"
  count,     \* per operation: workers its loop has been through
  worker,    \* per operation and worker: "none" | "running" | "dead" | "reaped"
  buffer,    \* unwritten lines of main (0) and of the operations
  inherited, \* the same of a worker
  printed,   \* how often each line is in the output, up to Often
  killed     \* history: the operations that did not come to their exit

vars == <<terminal, chunked, pc, at, place, count, worker, buffer, inherited, printed, killed>>

\* Bound: lines are counted so far.
Often == 2

Workers(o) == IF chunked THEN 1 .. Chunks[o] ELSE {}

WorkerCount(o) == Cardinality(Workers(o))

Running(o) == place[o] \notin {"none", "dead", "reaped"}

TypeOK ==
  /\ terminal \in BOOLEAN /\ chunked \in BOOLEAN
  /\ pc \in {"fork", "wait", "print", "exited"} /\ at \in 1 .. 3
  /\ place \in [Operations -> {"none", "banner", "fork", "wait", "time", "exit", "dead", "reaped"}]
  /\ \A o \in Operations : count[o] \in 0 .. Chunks[o]
  /\ \A o \in Operations : worker[o] \in [1 .. Chunks[o] -> {"none", "running", "dead", "reaped"}]
  /\ buffer \in [0 .. 3 -> SUBSET Lines]
  /\ \A o \in Operations : inherited[o] \in [1 .. Chunks[o] -> SUBSET Lines]
  /\ printed \in [Lines -> 0 .. Often]
  /\ killed \subseteq Operations

\* main's first lines are written at once, or still there when it forks.
Init ==
  /\ terminal \in BOOLEAN /\ chunked \in BOOLEAN
  /\ pc = "fork" /\ at = 1
  /\ place = [o \in Operations |-> "none"]
  /\ count = [o \in Operations |-> 0]
  /\ worker = [o \in Operations |-> [w \in 1 .. Chunks[o] |-> "none"]]
  /\ buffer = [p \in 0 .. 3 |-> IF p = 0 /\ ~ terminal THEN {System} ELSE {}]
  /\ inherited = [o \in Operations |-> [w \in 1 .. Chunks[o] |-> {}]]
  /\ printed = [l \in Lines |-> IF l = System /\ terminal THEN 1 ELSE 0]
  /\ killed = {}

-----------------------------------------------------------------------------
(* stdout *)

\* printed, with these lines once more.
With(lines) ==
  [l \in Lines |-> IF l \in lines /\ printed[l] < Often THEN printed[l] + 1 ELSE printed[l]]

\* Process p prints line l.
Prints(p, l) ==
  IF terminal THEN printed' = With({l}) /\ UNCHANGED buffer
  ELSE buffer' = [buffer EXCEPT ![p] = @ \cup {l}] /\ UNCHANGED printed

\* exit() of process p, which prints l first.
PrintsAndExits(p, l) ==
  /\ printed' = With(buffer[p] \cup l)
  /\ buffer' = [buffer EXCEPT ![p] = {}]

-----------------------------------------------------------------------------
(* main *)

\* A fork that fails is not looked at.
ForkOperation ==
  /\ pc = "fork"
  /\ \/ /\ place' = [place EXCEPT ![at] = "banner"]
        /\ buffer' = [buffer EXCEPT ![at] = buffer[0]]
     \/ MayFail /\ UNCHANGED <<place, buffer>>
  /\ IF at = 3 THEN at' = 1 /\ pc' = "wait" ELSE at' = at + 1 /\ UNCHANGED pc
  /\ UNCHANGED <<terminal, chunked, count, worker, inherited, printed, killed>>

\* wait(NULL), three times: any child that is dead, or an error when none is left.
Wait ==
  /\ pc = "wait"
  /\ \/ \E o \in Operations : place[o] = "dead" /\ place' = [place EXCEPT ![o] = "reaped"]
     \/ (\A o \in Operations : place[o] \in {"none", "reaped"}) /\ UNCHANGED place
  /\ IF at = 3 THEN pc' = "print" /\ UNCHANGED at ELSE at' = at + 1 /\ UNCHANGED pc
  /\ UNCHANGED <<terminal, chunked, count, worker, buffer, inherited, printed, killed>>

\* The time of the whole program, and return.
PrintTotal ==
  /\ pc = "print" /\ pc' = "exited"
  /\ PrintsAndExits(0, {Total})
  /\ UNCHANGED <<terminal, chunked, at, place, count, worker, inherited, killed>>

Main == ForkOperation \/ Wait \/ PrintTotal

-----------------------------------------------------------------------------
(* The child of an operation *)

Goto(o, from, to) == place[o] = from /\ place' = [place EXCEPT ![o] = to]

PrintBanner(o) ==
  /\ Goto(o, "banner", "fork")
  /\ Prints(o, Banner(o))
  /\ UNCHANGED <<terminal, chunked, pc, at, count, worker, inherited, killed>>

\* One iteration of the loop over the workers.  When fork fails the loops of
\* the multiplication and of the transposition end; that of the average goes on.
ForkWorker(o) ==
  /\ place[o] = "fork" /\ count[o] < WorkerCount(o)
  /\ count' = [count EXCEPT ![o] = @ + 1]
  /\ \/ /\ worker' = [worker EXCEPT ![o][count[o] + 1] = "running"]
        /\ inherited' = [inherited EXCEPT ![o][count[o] + 1] = buffer[o]]
        /\ UNCHANGED place
     \/ /\ MayFail
        /\ place' = IF o = 3 THEN place ELSE [place EXCEPT ![o] = "wait"]
        /\ UNCHANGED <<worker, inherited>>
  /\ UNCHANGED <<terminal, chunked, pc, at, buffer, printed, killed>>

\* The loop is over; without chunks, so is the computation.
LoopEnds(o) ==
  /\ count[o] = WorkerCount(o)
  /\ Goto(o, "fork", "wait")
  /\ UNCHANGED <<terminal, chunked, pc, at, count, worker, buffer, inherited, printed, killed>>

\* Mutant: one wait() for the workers.
WaitForOne(o) ==
  /\ Goto(o, "wait", "time")
  /\ IF \E w \in Workers(o) : worker[o][w] = "dead"
       THEN \E w \in Workers(o) :
              worker[o][w] = "dead" /\ worker' = [worker EXCEPT ![o][w] = "reaped"]
       ELSE WorkerCount(o) = 0 /\ UNCHANGED worker
  /\ UNCHANGED <<terminal, chunked, pc, at, count, buffer, inherited, printed, killed>>

\* workerCount times wait(NULL), which fails at once when no child is left: all
\* are waited for, however many there are.
WaitForWorkers(o) ==
  /\ Goto(o, "wait", "time")
  /\ \A w \in Workers(o) : worker[o][w] # "running"
  /\ worker' = [worker EXCEPT ![o] =
       [w \in DOMAIN @ |-> IF @[w] = "dead" THEN "reaped" ELSE @[w]]]
  /\ UNCHANGED <<terminal, chunked, pc, at, count, buffer, inherited, printed, killed>>

PrintTime(o) ==
  /\ Goto(o, "time", "exit")
  /\ Prints(o, Time(o))
  /\ UNCHANGED <<terminal, chunked, pc, at, count, worker, inherited, killed>>

\* Mutant: _exit(), which does not flush.
ExitUnflushed(o) ==
  /\ Goto(o, "exit", "dead")
  /\ buffer' = [buffer EXCEPT ![o] = {}]
  /\ UNCHANGED <<terminal, chunked, pc, at, count, worker, inherited, printed, killed>>

\* exit(0).
Exit(o) ==
  /\ Goto(o, "exit", "dead")
  /\ PrintsAndExits(o, {})
  /\ UNCHANGED <<terminal, chunked, pc, at, count, worker, inherited, killed>>

Die(o) ==
  /\ MayFail /\ Running(o)
  /\ place' = [place EXCEPT ![o] = "dead"]
  /\ buffer' = [buffer EXCEPT ![o] = {}]
  /\ killed' = killed \cup {o}
  /\ UNCHANGED <<terminal, chunked, pc, at, count, worker, inherited, printed>>

Operation(o) ==
  \/ PrintBanner(o) \/ ForkWorker(o) \/ LoopEnds(o) \/ WaitForWorkers(o)
  \/ PrintTime(o) \/ Exit(o)

-----------------------------------------------------------------------------
(* A worker *)

\* A worker, and what it inherited, is gone.
Gone(o, w) ==
  /\ worker[o][w] = "running"
  /\ worker' = [worker EXCEPT ![o][w] = "dead"]
  /\ inherited' = [inherited EXCEPT ![o][w] = {}]

\* Mutant: without its _exit() a worker goes on as the child of the operation.
WorkerFallsThrough(o, w) ==
  /\ Gone(o, w)
  /\ printed' = With(inherited[o][w] \cup {Time(o)})
  /\ UNCHANGED <<terminal, chunked, pc, at, place, count, buffer, killed>>

\* fflush() and _exit(0).
WorkerEnds(o, w) ==
  /\ Gone(o, w)
  /\ printed' = With(inherited[o][w])
  /\ UNCHANGED <<terminal, chunked, pc, at, place, count, buffer, killed>>

\* Transposition and average take a task for a row, and go past the end of their
\* arrays, far enough to be ended by it or not.
WorkerDies(o, w) ==
  /\ MayFail \/ o # 1
  /\ Gone(o, w)
  /\ UNCHANGED <<terminal, chunked, pc, at, place, count, buffer, printed, killed>>

Worker(o, w) == WorkerEnds(o, w) \/ WorkerDies(o, w)

Next ==
  \/ Main
  \/ \E o \in Operations :
       Operation(o) \/ Die(o) \/ \E w \in Workers(o) : Worker(o, w)

Spec == Init /\ [][Next]_vars

\* The scheduler runs every process.
FairSpec ==
  /\ Spec /\ WF_vars(Main)
  /\ \A o \in Operations :
       WF_vars(Operation(o)) /\ \A w \in 1 .. Chunks[o] : WF_vars(Worker(o, w))

-----------------------------------------------------------------------------

WorkerRuns(o) == \E w \in Workers(o) : worker[o][w] = "running"

\* The output is right.  A time is that of the whole operation, also when forks
\* failed and workers were ended by their out-of-bounds access: nobody computes
\* when it is taken.  A line printed after a process' last fork is there once, in
\* a file too, where main's banner may be there once per process.  When main has
\* ended, whatever was killed, its own lines and those of every operation that
\* came to its end are there, for no buffer is dropped; and the time of the
\* program is the last: no process of the tree is left, but for the workers of a
\* child that was killed.
OutputIsRight ==
  /\ printed[Total] <= 1
  /\ \A o \in Operations :
       /\ Time(o) \in buffer[o] \/ printed[Time(o)] > 0 => ~ WorkerRuns(o)
       /\ printed[Time(o)] <= 1
  /\ pc = "exited" =>
       /\ printed[System] > 0 /\ printed[Total] = 1
       /\ \A o \in Operations :
            /\ ~ Running(o) /\ (WorkerRuns(o) => o \in killed)
            /\ place[o] # "none" /\ o \notin killed =>
                 printed[Banner(o)] > 0 /\ printed[Time(o)] = 1

=============================================================================
