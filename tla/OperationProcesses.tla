------------------------- MODULE OperationProcesses -------------------------
(***************************************************************************)
(* main of process_based_parallelism_taskLevel_IPC.c: a forked child per   *)
(* operation computes it (ProcessPool, ProcessAverage) and writes the      *)
(* result to a pipe of its own, which main reads and puts together: the    *)
(* rows, the columns and the words of a matrix, or the average.            *)
(*                                                                         *)
(* Children inherit the ends of the pipes that existed when they were      *)
(* forked, and close some of them.  main therefore sees the end of the     *)
(* pipe of a child that died only when the children that still hold its    *)
(* write end are gone too.  The short-lived children of the pools, which   *)
(* also inherit every end, wait for nobody and are left out.               *)
(***************************************************************************)
EXTENDS Matrices

CONSTANTS
  Words,    \* words of the two result matrices
  PipeCap,  \* words a pipe holds before write() blocks
  MayFail   \* fork may fail, a child may die before it ends

\* 1, 2 and 3: multiplication, transposition and average, and their pipes.
Operations == 1 .. 3

\* What one child writes: its write()s, and the read()s of main, in words.
Parts(o) == IF o = 3 THEN <<1>> ELSE <<1, 1, Words[o]>>

Size(o) == IF o = 3 THEN 1 ELSE Words[o] + 2

VARIABLES
  pc,      \* main: "fork" | "read" | "wait" | "exited"
  at,      \* main: the operation it forks, or reads
  part,    \* main: the part it reads
  got,     \* main: words read, per operation
  short,   \* main: the operations whose dimensions it read short
  waits,   \* main: how many of its three wait()s are done
  child,   \* "none" | "running" | "dead" | "reaped", per operation
  sent,    \* words the child has written so far
  pipe     \* words in the pipe

vars == <<pc, at, part, got, short, waits, child, sent, pipe>>

\* Mutant: the transposition does not close the pipe of the multiplication.
WritersLeaky(o) == IF o = 1 THEN {1, 2, 3} ELSE IF o = 2 THEN {2, 3} ELSE Operations

\* The children that hold the write end of o's pipe until they exit: the
\* transposition closes the one of the multiplication, the average closes
\* neither.
Writers(o) == CASE o = 1 -> {1, 3} [] o = 2 -> {2, 3} [] o = 3 -> Operations

\* The children that hold the read end of o's pipe: each closes its own.
Readers(o) == CASE o = 1 -> {3} [] o = 2 -> {3} [] o = 3 -> {1, 2}

Alive(o) == child[o] = "running"

AtEnd(o) == \A c \in Writers(o) : ~ Alive(c)

\* main closes its read end when it is through with the pipe.
MainReads(o) == pc = "fork" \/ (pc = "read" /\ at <= o)

Read(o) == MainReads(o) \/ \E c \in Readers(o) : Alive(c)

TypeOK ==
  /\ pc \in {"fork", "read", "wait", "exited"}
  /\ at \in Operations /\ part \in 1 .. 3
  /\ \A o \in Operations : got[o] \in 0 .. Size(o) /\ sent[o] \in 0 .. Size(o)
  /\ short \subseteq Operations
  /\ waits \in 0 .. 3
  /\ child \in [Operations -> {"none", "running", "dead", "reaped"}]
  /\ pipe \in [Operations -> 0 .. PipeCap]

Init ==
  /\ pc = "fork" /\ at = 1 /\ part = 1 /\ waits = 0 /\ short = {}
  /\ got = [o \in Operations |-> 0]
  /\ child = [o \in Operations |-> "none"]
  /\ sent = [o \in Operations |-> 0]
  /\ pipe = [o \in Operations |-> 0]

-----------------------------------------------------------------------------
(* main *)

\* A fork that fails is not looked at: main goes on as the parent.
Fork ==
  /\ pc = "fork"
  /\ \/ child' = [child EXCEPT ![at] = "running"]
     \/ MayFail /\ child' = child
  /\ IF at = 3 THEN at' = 1 /\ pc' = "read" ELSE at' = at + 1 /\ pc' = pc
  /\ UNCHANGED <<part, got, short, waits, sent, pipe>>

\* Mutant: the read() does not wait for the child.
MainReadEarly ==
  LET n == Smaller(Parts(at)[part], pipe[at])
  IN  /\ pc = "read"
      /\ got' = [got EXCEPT ![at] = got[at] + n]
      /\ pipe' = [pipe EXCEPT ![at] = pipe[at] - n]
      /\ short' = IF n < Parts(at)[part] /\ part < 3 THEN short \cup {at} ELSE short
      /\ IF part < Len(Parts(at)) THEN part' = part + 1 /\ UNCHANGED <<pc, at>>
         ELSE /\ part' = 1
              /\ IF at = 3 THEN pc' = "wait" /\ at' = 1 ELSE at' = at + 1 /\ pc' = pc
      /\ UNCHANGED <<waits, child, sent>>

\* One read(), of which main does not look at the number returned.
MainRead ==
  LET n == Smaller(Parts(at)[part], pipe[at])
  IN  /\ pc = "read"
      /\ pipe[at] > 0 \/ AtEnd(at)
      /\ got' = [got EXCEPT ![at] = got[at] + n]
      /\ pipe' = [pipe EXCEPT ![at] = pipe[at] - n]
      /\ short' = IF n < Parts(at)[part] /\ part < 3 THEN short \cup {at} ELSE short
      /\ IF part < Len(Parts(at)) THEN part' = part + 1 /\ UNCHANGED <<pc, at>>
         ELSE /\ part' = 1
              /\ IF at = 3 THEN pc' = "wait" /\ at' = 1 ELSE at' = at + 1 /\ pc' = pc
      /\ UNCHANGED <<waits, child, sent>>

\* wait(NULL): any child that is dead, or an error at once when none is left.
Wait ==
  /\ pc = "wait"
  /\ \/ \E o \in Operations : child[o] = "dead" /\ child' = [child EXCEPT ![o] = "reaped"]
     \/ (\A o \in Operations : child[o] \in {"none", "reaped"}) /\ child' = child
  /\ waits' = waits + 1
  /\ pc' = IF waits' = 3 THEN "exited" ELSE pc
  /\ UNCHANGED <<at, part, got, short, sent, pipe>>

-----------------------------------------------------------------------------
(* A child *)

Room(o, n) == Smaller(PipeCap - pipe[o], n)

\* The words of the part being written that are still to go.
Rest(o) ==
  CASE o = 3 -> 1 - sent[o]
    [] o # 3 /\ sent[o] < 2  -> 1
    [] o # 3 /\ sent[o] >= 2 -> Size(o) - sent[o]

\* A write(), or as much of it as the pipe takes now; SIGPIPE when nobody holds
\* the read end.
Write(o) ==
  /\ Alive(o) /\ Rest(o) > 0
  /\ IF Read(o)
       THEN /\ Room(o, Rest(o)) > 0
            /\ sent' = [sent EXCEPT ![o] = sent[o] + Room(o, Rest(o))]
            /\ pipe' = [pipe EXCEPT ![o] = pipe[o] + Room(o, Rest(o))]
            /\ child' = child
       ELSE child' = [child EXCEPT ![o] = "dead"] /\ UNCHANGED <<sent, pipe>>
  /\ UNCHANGED <<pc, at, part, got, short, waits>>

\* exit(0).
Exit(o) ==
  /\ Alive(o) /\ sent[o] = Size(o)
  /\ child' = [child EXCEPT ![o] = "dead"]
  /\ UNCHANGED <<pc, at, part, got, short, waits, sent, pipe>>

\* A death before that.
Die(o) ==
  /\ MayFail /\ Alive(o) /\ sent[o] < Size(o)
  /\ child' = [child EXCEPT ![o] = "dead"]
  /\ UNCHANGED <<pc, at, part, got, short, waits, sent, pipe>>

Main == Fork \/ MainRead \/ Wait

Child(o) == Write(o) \/ Exit(o)

Next == Main \/ \E o \in Operations : Child(o) \/ Die(o)

Spec == Init /\ [][Next]_vars

\* The scheduler runs every process; a child need not die of itself.
FairSpec ==
  Spec /\ WF_vars(Main) /\ \A o \in Operations : WF_vars(Child(o))

-----------------------------------------------------------------------------

\* A child that wrote its whole result gets it to main, whatever becomes of it
\* and of the others: every result that fits a pipe arrives whole.
EveryResultArrives ==
  pc \in {"wait", "exited"} =>
    \A o \in Operations :
      sent[o] = Size(o) /\ Size(o) <= PipeCap => got[o] = Size(o) /\ o \notin short

-----------------------------------------------------------------------------
(* Who waits for whom *)

\* main waits in read() for a word or the end of a pipe, or in wait() for a
\* child that runs.
MainWaits ==
  \/ pc = "read" /\ pipe[at] = 0 /\ ~ AtEnd(at)
  \/ /\ pc = "wait"
     /\ \E o \in Operations : Alive(o)
     /\ \A o \in Operations : child[o] # "dead"

\* A child waits in write() for room in a pipe that somebody may still read.
ChildWaits(o) == Rest(o) > 0 /\ Read(o) /\ pipe[o] = PipeCap

\* main and its children never wait for each other in a circle, although each
\* child keeps ends of the others' pipes open: neither a result larger than its
\* pipe, nor a pipe held open by a child that waits itself, nor a child that
\* nobody reads any more keeps all of them where they are.
NeverStuck == ~ (MainWaits /\ \A o \in Operations : Alive(o) => ChildWaits(o))

\* How far main has come, and a child: places numbered in the order of the code,
\* and words sent.
MainPlace ==
  CASE pc = "fork" -> at
    [] pc = "read" -> 3 * at + part
    [] pc = "wait" -> 13 + waits
    [] pc = "exited" -> 16

ChildPlace(o) ==
  sent[o] + CASE child[o] = "none" -> 0
              [] child[o] = "running" -> 1
              [] child[o] = "dead" -> 2
              [] child[o] = "reaped" -> 3

Travelled == MainPlace + ChildPlace(1) + ChildPlace(2) + ChildPlace(3)

\* No step is taken back or is one of arbitrarily many: each takes the program
\* on, and never past the end of the three children and of main.
EveryStepAdvances ==
  [][Travelled' > Travelled /\ Travelled' <= 25 + Size(1) + Size(2) + Size(3)]_vars

=============================================================================
