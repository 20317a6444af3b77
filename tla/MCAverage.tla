------------------------------ MODULE MCAverage ------------------------------
(***************************************************************************)
(* Small instances of all that computes an average: a pool of threads      *)
(* (AverageTasks) and a pool of processes (ProcessAverage), both with two  *)
(* full chunks and a last one neither full nor half full, as it is in      *)
(* avgTaskLevelIPC_testing.c, and the three programs that take dimensions  *)
(* from the user (UserInput), of which one has neither pool.  A behaviour  *)
(* is one of one of them, chosen in the initial state; the others'         *)
(* variables keep their first values.                                      *)
(***************************************************************************)
EXTENDS AverageTasks

CONSTANTS
  Below, Above, MaxInt, MaxCells, Garbage, \* of UserInput
  UserTasks                                \* its tasks per worker: the user's matrices are small

ASSUME UserAssumption ==
  /\ Below \in Nat /\ Above \in Nat /\ MaxInt \in Nat /\ MaxCells \in Nat
  /\ UserTasks \in Nat \ {0}

VARIABLES
  program,
  parent, at, child, average, divisor, lastPipe, added, words, answered,
  arguments, status, answer

Processes == INSTANCE ProcessAverage WITH pc <- parent, returned <- answered

User == INSTANCE UserInput WITH TasksPerWorker <- UserTasks

processVars == <<parent, at, child, average, divisor, lastPipe, added, words, answered>>
userVars == <<arguments, status, answer>>

MCInit ==
  /\ program \in {"threads", "processes", "user"}
  /\ Init
  /\ Processes!Init
  /\ User!Init
  /\ program # "user" => arguments = << >>

MCNext ==
  \/ /\ program = "threads" /\ UNCHANGED <<program, processVars, userVars>>
     /\ Caller \/ \E w \in Workers : Thread(w)
  \/ /\ program = "processes" /\ UNCHANGED <<program, vars, userVars>>
     /\ Processes!Next
  \/ /\ program = "user" /\ UNCHANGED <<program, vars, processVars>>
     /\ User!Next

MCSpec == MCInit /\ [][MCNext]_<<program, vars, processVars, userVars>>

\* The fairness of the pool that runs.
MCFairSpec ==
  /\ MCSpec
  /\ WF_vars(program = "threads" /\ Caller)
  /\ \A w \in Workers : WF_vars(program = "threads" /\ Thread(w))
  /\ WF_processVars(program = "processes" /\ Processes!Parent)
  /\ \A w \in Processes!Workers : WF_processVars(program = "processes" /\ Processes!Child(w))

\* A pool of processes adds the words of all children that send theirs.
AverageAddsUp == Processes!AverageAddsUp

\* The user's programs give the same answers to the same arguments.
ProgramsAgree == User!ProgramsAgree

\* What ends one of them, or a process of it, are the arguments that can.
KilledByItsArguments == User!KilledByItsArguments

\* Whoever computes it, with threads or with processes, the call returns.
PoolsReturn ==
  /\ program = "threads" => Returns
  /\ program = "processes" => Processes!Returns

=============================================================================
