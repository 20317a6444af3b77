------------------------------ MODULE EventLog ------------------------------
(***************************************************************************)
(* The server process and how its events reach server.log.                 *)
(*                                                                         *)
(* main accepts connections and starts a detached thread per client; every *)
(* thread reports what happens to it with log_event, which, under one      *)
(* mutex, asks the time process for a timestamp over one pipe, reads it    *)
(* from another and writes one record to the logger's pipe.  The logger    *)
(* and the time process end when nobody holds their pipe open for writing. *)
(*                                                                         *)
(* A thread forks its worker while other threads run.  The child is a copy *)
(* of the server with a copy of the mutex as it was then and with the same *)
(* pipes, and for services 2 and 4 it calls log_event itself before execl. *)
(*                                                                         *)
(* Nobody handles SIGPIPE: a thread that writes to a pipe without a reader *)
(* or to a connection that was reset ends the process it belongs to.       *)
(***************************************************************************)
EXTENDS Integers, Sequences, FiniteSets

CONSTANTS
  Clients,      \* bound: connections made to the server
  MaxRequests,  \* bound: requests of all clients together
  Operations,   \* subset of {"multiplication", "transposition", "input"}
  LogCap,       \* records the logger's pipe holds before write() blocks
  Faults        \* which of AllFaults may happen

AllFaults == {"thread",  \* pthread_create of a client's thread fails
              "serve",   \* mkfifo or fork fails
              "time",    \* the time process does not start, or dies
              "logger",  \* the logger does not start, or dies
              "stop",    \* the server process alone is killed
              "client",  \* a client goes at a moment of its own
              "exec",    \* execl of the worker program fails
              "worker"}  \* a worker is killed, or gives up before its answer

ASSUME EventLogAssumption ==
  /\ Clients \in Nat /\ MaxRequests \in Nat /\ LogCap \in Nat \ {0}
  /\ Operations \subseteq {"multiplication", "transposition", "input"}
  /\ Faults \subseteq AllFaults

Ids == 1 .. Clients

\* Who calls log_event: main is 0, the thread of client c is c, and the child
\* that thread forked, until its execl, is -c.
Main == 0
Threads == (-Clients) .. Clients
ServerThreads == 0 .. Clients
Free == -Clients - 1

VARIABLES
  pc,        \* where each thread is; the pcs of LogSites call log_event
  step,      \* how far it is in log_event: "lock" when not in it
  got,       \* the timestamp it read
  mutex,     \* the server thread that holds log_mutex, or Free
  conn,      \* a client's end: "open", "gone", or "reset" (it answered with RST)
  op,        \* the operation a client asked for
  requested, \* bound: requests made so far
  worker,    \* "none" | "child" | "running" | "done", per client
  copyHeld,  \* the child's copy of log_mutex was locked when it was made
  requests,  \* bytes in the time request pipe
  serving,   \* the time process has read a request and not answered it
  stamps,    \* timestamps in the time response pipe
  clock,     \* timestamps produced so far; a timestamp is its number
  logPipe,   \* records in the logger's pipe
  file,      \* records in server.log
  nextId,    \* next_client_id
  serverUp, timeUp, loggerUp,
  failed     \* processes that ended by a fault of their own, by its name in Faults

log     == <<requests, serving, stamps, clock, logPipe, file>>
ups     == <<serverUp, timeUp, loggerUp, failed>>
program == <<conn, op, requested, worker, copyHeld, nextId>>
vars    == <<pc, step, got, mutex, program, log, ups>>

LogSites == {"started", "connected", "received", "created", "completed", "error",
             "disconnected"}

Pcs == LogSites \cup {"none", "accept", "spawn", "greet", "top", "serve", "exec", "exchange",
                      "forward", "answer", "reap", "over"}

\* Where a thread goes on when log_event returns to it.
Continuation ==
  [started   |-> "accept",   connected |-> "greet", received    |-> "serve",
   created   |-> "exchange", completed |-> "reap", disconnected |-> "over",
   error     |-> "top"]

\* Mutant: the child goes on as its parent does.
AfterNoExec(t) ==
  IF pc[t] = "received" /\ op[t] = "input" THEN "top" ELSE Continuation[pc[t]]

After(t) ==
  IF pc[t] = "received" /\ op[t] = "input" THEN "top"
  ELSE IF pc[t] = "created" /\ t < 0 THEN "exec"
  ELSE Continuation[pc[t]]

Alive(t) == IF t >= 0 THEN serverUp ELSE worker[-t] = "child"

\* Somebody holds the write ends of the logger's and time process's pipes: the
\* server, or a child or worker, for no descriptor is closed on execl.
PipesHeld == serverUp \/ \E c \in Ids : worker[c] \in {"child", "running"}

Records == [by : Threads, site : LogSites, stamp : Nat]

TypeOK ==
  /\ pc \in [Threads -> Pcs]
  /\ step \in [Threads -> {"lock", "request", "stamp", "write", "unlock"}]
  /\ got \in [Threads -> Nat]
  /\ mutex \in ServerThreads \cup {Free}
  /\ conn \in [Ids -> {"open", "gone", "reset"}]
  /\ op \in [Ids -> Operations \cup {"none"}]
  /\ requested \in 0 .. MaxRequests
  /\ worker \in [Ids -> {"none", "child", "running", "done"}]
  /\ copyHeld \in [Ids -> BOOLEAN]
  /\ requests \in Nat /\ serving \in BOOLEAN
  /\ stamps \in Seq(Nat) /\ clock \in Nat
  /\ logPipe \in Seq(Records) /\ file \in Seq(Records)
  /\ nextId \in 1 .. (Clients + 1)
  /\ serverUp \in BOOLEAN /\ timeUp \in BOOLEAN /\ loggerUp \in BOOLEAN
  /\ failed \subseteq Faults

Init ==
  /\ pc = [t \in Threads |-> IF t = Main THEN "started" ELSE "none"]
  /\ step = [t \in Threads |-> "lock"]
  /\ got = [t \in Threads |-> 0]
  /\ mutex = Free
  /\ conn = [c \in Ids |-> "open"]
  /\ op = [c \in Ids |-> "none"]
  /\ requested = 0
  /\ worker = [c \in Ids |-> "none"]
  /\ copyHeld = [c \in Ids |-> FALSE]
  /\ requests = 0 /\ serving = FALSE /\ stamps = << >> /\ clock = 0
  /\ logPipe = << >> /\ file = << >>
  /\ nextId = 1
  /\ serverUp = TRUE /\ timeUp = TRUE /\ loggerUp = TRUE /\ failed = {}

-----------------------------------------------------------------------------
(* log_event, one system call at a time *)

At(t, s) == Alive(t) /\ pc[t] \in LogSites /\ step[t] = s

Advance(t, s) == step' = [step EXCEPT ![t] = s]

\* SIGPIPE: a write to a pipe nobody reads ends the process that makes it.
Killed(t) ==
  IF t >= 0 THEN serverUp' = FALSE /\ UNCHANGED worker
  ELSE worker' = [worker EXCEPT ![-t] = "done"] /\ UNCHANGED serverUp

\* Mutant: the mutex is not waited for.
LockIgnored(t) ==
  /\ At(t, "lock")
  /\ IF t >= 0 THEN mutex' = t ELSE ~ copyHeld[-t] /\ mutex' = mutex
  /\ Advance(t, "request")
  /\ UNCHANGED <<pc, got, program, log, ups>>

\* The child has a mutex of its own, locked for ever if it was locked when the
\* child was made: the thread that would unlock it is not in the child.
Lock(t) ==
  /\ At(t, "lock")
  /\ IF t >= 0 THEN mutex = Free /\ mutex' = t
     ELSE ~ copyHeld[-t] /\ mutex' = mutex
  /\ Advance(t, "request")
  /\ UNCHANGED <<pc, got, program, log, ups>>

RequestStamp(t) ==
  /\ At(t, "request")
  /\ IF timeUp
       THEN requests' = requests + 1 /\ Advance(t, "stamp") /\ UNCHANGED <<serverUp, worker>>
       ELSE Killed(t) /\ UNCHANGED <<requests, step>>
  /\ UNCHANGED <<pc, got, mutex, conn, op, requested, copyHeld, nextId, serving, stamps, clock,
                 logPipe, file, timeUp, loggerUp, failed>>

\* The next timestamp in the pipe, whoever asked for it; none once the time
\* process is gone, and then the event is given up.
TakeStamp(t) ==
  /\ At(t, "stamp")
  /\ stamps # << >> \/ ~ timeUp
  /\ IF stamps # << >>
       THEN /\ got' = [got EXCEPT ![t] = Head(stamps)]
            /\ stamps' = Tail(stamps)
            /\ Advance(t, "write")
       ELSE Advance(t, "unlock") /\ UNCHANGED <<got, stamps>>
  /\ UNCHANGED <<pc, mutex, program, requests, serving, clock, logPipe, file, ups>>

\* One write() of a whole record, short enough to be atomic.
WriteRecord(t) ==
  /\ At(t, "write")
  /\ loggerUp => Len(logPipe) < LogCap
  /\ IF loggerUp
       THEN /\ logPipe' = Append(logPipe, [by |-> t, site |-> pc[t], stamp |-> got[t]])
            /\ Advance(t, "unlock")
            /\ UNCHANGED <<serverUp, worker>>
       ELSE Killed(t) /\ UNCHANGED <<logPipe, step>>
  /\ UNCHANGED <<pc, got, mutex, conn, op, requested, copyHeld, nextId, requests, serving, stamps,
                 clock, file, timeUp, loggerUp, failed>>

Unlock(t) ==
  /\ At(t, "unlock")
  /\ mutex' = IF t >= 0 THEN Free ELSE mutex
  /\ Advance(t, "lock")
  /\ pc' = [pc EXCEPT ![t] = After(t)]
  /\ UNCHANGED <<got, program, log, ups>>

log_event(t) ==
  Lock(t) \/ RequestStamp(t) \/ TakeStamp(t) \/ WriteRecord(t) \/ Unlock(t)

-----------------------------------------------------------------------------
(* main: the accept loop *)

\* accept, and the next id for the client.
Accept ==
  /\ serverUp /\ pc[Main] = "accept" /\ nextId <= Clients
  /\ nextId' = nextId + 1
  /\ pc' = [pc EXCEPT ![Main] = "spawn"]
  /\ UNCHANGED <<step, got, mutex, conn, op, requested, worker, copyHeld, log, ups>>

\* pthread_create; on failure the socket is closed and the id is not reused.
Spawn ==
  LET c == nextId - 1
  IN  /\ serverUp /\ pc[Main] = "spawn"
      /\ \/ pc' = [pc EXCEPT ![Main] = "accept", ![c] = "connected"]
         \/ "thread" \in Faults /\ pc' = [pc EXCEPT ![Main] = "accept"]
      /\ UNCHANGED <<step, got, mutex, program, log, ups>>

-----------------------------------------------------------------------------
(* handle_client: what is between its events *)

\* Mutant: a client that is gone kills with the first write.
WriteToGone(c, next) ==
  \/ /\ conn[c] = "open"
     /\ pc' = [pc EXCEPT ![c] = next]
     /\ UNCHANGED <<conn, serverUp>>
  \/ /\ conn[c] # "open"
     /\ serverUp' = FALSE
     /\ UNCHANGED <<conn, pc>>

\* A write() to the client, whose result nobody looks at.  A client that is gone
\* answers the first with RST; one on a connection that was reset is SIGPIPE.
WriteToClient(c, next) ==
  \/ /\ conn[c] # "reset"
     /\ pc' = [pc EXCEPT ![c] = next]
     /\ conn' = [conn EXCEPT ![c] = IF @ = "gone" THEN "reset" ELSE @]
     /\ UNCHANGED serverUp
  \/ /\ conn[c] = "reset"
     /\ serverUp' = FALSE
     /\ UNCHANGED <<conn, pc>>

\* The client's id, the first thing written to it.
Greet(c) ==
  /\ serverUp /\ pc[c] = "greet"
  /\ WriteToClient(c, "top")
  /\ UNCHANGED <<step, got, mutex, op, requested, worker, copyHeld, nextId, log, timeUp,
                 loggerUp, failed>>

\* Also what a client that is gone asked for before is read.
ReadOption(c, o) ==
  /\ serverUp /\ pc[c] = "top" /\ requested < MaxRequests
  /\ requested' = requested + 1
  /\ op' = [op EXCEPT ![c] = o]
  /\ pc' = [pc EXCEPT ![c] = "received"]
  /\ UNCHANGED <<step, got, mutex, conn, worker, copyHeld, nextId, log, ups>>

\* -1 is written back; at the end of the stream nothing is.
Leave(c) ==
  /\ serverUp /\ pc[c] = "top"
  /\ \/ WriteToClient(c, "disconnected")
     \/ /\ conn[c] # "open"
        /\ pc' = [pc EXCEPT ![c] = "disconnected"]
        /\ UNCHANGED <<conn, serverUp>>
  /\ UNCHANGED <<step, got, mutex, op, requested, worker, copyHeld, nextId, log, timeUp,
                 loggerUp, failed>>

\* mkfifo and fork.  The child of service 1 goes straight to its execl; that of
\* services 2 and 4 logs "created" first, as its parent does.
Serve(c) ==
  /\ serverUp /\ pc[c] = "serve"
  /\ \/ /\ worker' = [worker EXCEPT ![c] = "child"]
        /\ copyHeld' = [copyHeld EXCEPT ![c] = (mutex # Free)]
        /\ pc' = [pc EXCEPT ![c] = "created",
                            ![-c] = IF op[c] = "multiplication" THEN "exec" ELSE "created"]
     \/ /\ "serve" \in Faults
        /\ pc' = [pc EXCEPT ![c] = "error"]
        /\ UNCHANGED <<worker, copyHeld>>
  /\ UNCHANGED <<step, got, mutex, conn, op, requested, nextId, log, ups>>

\* execl of the worker program in the child, which exits when it fails.
Exec(c) ==
  /\ worker[c] = "child" /\ pc[-c] = "exec"
  /\ \/ worker' = [worker EXCEPT ![c] = "running"]
     \/ "exec" \in Faults /\ worker' = [worker EXCEPT ![c] = "done"]
  /\ pc' = [pc EXCEPT ![-c] = "none"]
  /\ UNCHANGED <<step, got, mutex, conn, op, requested, copyHeld, nextId, log, ups>>

\* Each side's open() of the two FIFOs waits for the other's.
Open(c) ==
  /\ serverUp /\ pc[c] = "exchange" /\ worker[c] = "running"
  /\ pc' = [pc EXCEPT ![c] = "forward"]
  /\ UNCHANGED <<step, got, mutex, program, log, ups>>

\* The request is written to a worker that reads it, or to nobody: SIGPIPE.
Forward(c) ==
  /\ serverUp /\ pc[c] = "forward"
  /\ \/ /\ worker[c] = "running"
        /\ pc' = [pc EXCEPT ![c] = "answer"]
        /\ UNCHANGED serverUp
     \/ /\ worker[c] = "done"
        /\ serverUp' = FALSE
        /\ UNCHANGED pc
  /\ UNCHANGED <<step, got, mutex, program, log, timeUp, loggerUp, failed>>

\* What the worker answered, if anything, is written to the client; an answer
\* without cells is no write at all.
Reply(c) ==
  /\ serverUp /\ pc[c] = "answer"
  /\ \/ WriteToClient(c, "completed")
     \/ pc' = [pc EXCEPT ![c] = "completed"] /\ UNCHANGED <<conn, serverUp>>
  /\ UNCHANGED <<step, got, mutex, op, requested, worker, copyHeld, nextId, log, timeUp,
                 loggerUp, failed>>

\* The worker has its request, answers it and exits.
WorkerEnds(c) ==
  /\ worker[c] = "running" /\ pc[c] \in {"answer", "completed", "reap"}
  /\ worker' = [worker EXCEPT ![c] = "done"]
  /\ UNCHANGED <<pc, step, got, mutex, conn, op, requested, copyHeld, nextId, log, ups>>

\* It exits without: its request breaks off because the server is dead, or by a
\* fault of its own.
WorkerAborts(c) ==
  /\ worker[c] = "running"
  /\ worker' = [worker EXCEPT ![c] = "done"]
  /\ \/ pc[c] = "forward" /\ ~ serverUp /\ UNCHANGED failed
     \/ "worker" \in Faults /\ failed' = failed \cup {"worker"}
  /\ UNCHANGED <<pc, step, got, mutex, conn, op, requested, copyHeld, nextId, log, serverUp,
                 timeUp, loggerUp>>

\* waitpid.
Reap(c) ==
  /\ serverUp /\ pc[c] = "reap" /\ worker[c] = "done"
  /\ worker' = [worker EXCEPT ![c] = "none"]
  /\ pc' = [pc EXCEPT ![c] = "top"]
  /\ UNCHANGED <<step, got, mutex, conn, op, requested, copyHeld, nextId, log, ups>>

\* A client closes its end or is killed.  The next write to it is answered by
\* RST, and its close sends one itself when it has words unread.
ClientGoes(c) ==
  /\ "client" \in Faults /\ conn[c] = "open"
  /\ \/ conn' = [conn EXCEPT ![c] = "gone"]
     \/ /\ pc[c] \notin {"none", "connected", "greet"}
        /\ conn' = [conn EXCEPT ![c] = "reset"]
  /\ UNCHANGED <<pc, step, got, mutex, op, requested, worker, copyHeld, nextId, log, ups>>

-----------------------------------------------------------------------------
(* time_process.c main *)

TimeRead ==
  /\ timeUp /\ ~ serving /\ requests > 0
  /\ requests' = requests - 1 /\ serving' = TRUE
  /\ UNCHANGED <<pc, step, got, mutex, program, stamps, clock, logPipe, file, ups>>

\* Mutant: every request is answered twice.
TimeAnswerTwice ==
  /\ timeUp /\ serving
  /\ serving' = FALSE
  /\ clock' = clock + 1
  /\ stamps' = stamps \o <<clock + 1, clock + 1>>
  /\ UNCHANGED <<pc, step, got, mutex, program, requests, logPipe, file, ups>>

TimeAnswer ==
  /\ timeUp /\ serving
  /\ serving' = FALSE
  /\ clock' = clock + 1
  /\ stamps' = Append(stamps, clock + 1)
  /\ UNCHANGED <<pc, step, got, mutex, program, requests, logPipe, file, ups>>

\* Mutant: the time process holds the write end of its own pipe.
TimeKeepsWriteEnd ==
  /\ timeUp /\ ~ serving /\ requests = 0 /\ ~ (PipesHeld \/ timeUp)
  /\ timeUp' = FALSE
  /\ UNCHANGED <<pc, step, got, mutex, program, log, serverUp, loggerUp, failed>>

\* read() returns 0.
TimeEnds ==
  /\ timeUp /\ ~ serving /\ requests = 0 /\ ~ PipesHeld
  /\ timeUp' = FALSE
  /\ UNCHANGED <<pc, step, got, mutex, program, log, serverUp, loggerUp, failed>>

(* logger.c main *)

\* Mutant: of the records one read() brings, only the first is written.
LoggerDrops ==
  /\ loggerUp /\ logPipe # << >>
  /\ file' = Append(file, Head(logPipe)) /\ logPipe' = << >>
  /\ UNCHANGED <<pc, step, got, mutex, program, requests, serving, stamps, clock, ups>>

LoggerWrite ==
  /\ loggerUp /\ logPipe # << >>
  /\ file' = Append(file, Head(logPipe)) /\ logPipe' = Tail(logPipe)
  /\ UNCHANGED <<pc, step, got, mutex, program, requests, serving, stamps, clock, ups>>

\* "The server closed the pipe.  This means the server is shutting down."
LoggerEnds ==
  /\ loggerUp /\ logPipe = << >> /\ ~ PipesHeld
  /\ loggerUp' = FALSE
  /\ UNCHANGED <<pc, step, got, mutex, program, log, serverUp, timeUp, failed>>

(* What may befall the processes *)

Fault ==
  /\ \/ /\ "stop" \in Faults /\ serverUp
        /\ serverUp' = FALSE /\ failed' = failed \cup {"stop"}
        /\ UNCHANGED <<timeUp, loggerUp>>
     \/ /\ "time" \in Faults /\ timeUp
        /\ timeUp' = FALSE /\ failed' = failed \cup {"time"}
        /\ UNCHANGED <<serverUp, loggerUp>>
     \/ /\ "logger" \in Faults /\ loggerUp
        /\ loggerUp' = FALSE /\ failed' = failed \cup {"logger"}
        /\ UNCHANGED <<serverUp, timeUp>>
  /\ UNCHANGED <<pc, step, got, mutex, program, log>>

-----------------------------------------------------------------------------

Handler(c) == Greet(c) \/ Serve(c) \/ Open(c) \/ Forward(c) \/ Reply(c) \/ Reap(c)

Client(c) == Leave(c) \/ ClientGoes(c) \/ \E o \in Operations : ReadOption(c, o)

Worker(c) == Exec(c) \/ WorkerEnds(c) \/ WorkerAborts(c)

Next ==
  \/ \E t \in Threads : log_event(t)
  \/ Accept \/ Spawn
  \/ \E c \in Ids : Handler(c) \/ Client(c) \/ Worker(c)
  \/ TimeRead \/ TimeAnswer \/ TimeEnds \/ LoggerWrite \/ LoggerEnds
  \/ Fault

Spec == Init /\ [][Next]_vars

\* Every thread and process that can run does, and log_mutex is granted in the
\* end to a thread that waits: each of the others makes a bounded number of
\* calls.  Clients need not connect, ask or go.
FairSpec ==
  /\ Spec
  /\ \A t \in Threads : WF_vars(log_event(t))
  /\ \A c \in Ids : WF_vars(Handler(c)) /\ WF_vars(Exec(c)) /\ WF_vars(WorkerEnds(c))
  /\ WF_vars(Spawn)
  /\ WF_vars(TimeRead \/ TimeAnswer \/ TimeEnds) /\ WF_vars(LoggerWrite \/ LoggerEnds)

-----------------------------------------------------------------------------
(* Safety *)

InLogEvent(t) == step[t] # "lock"

\* One thread of the server at a time is between lock and unlock of log_event,
\* so an answer of the time process goes to the thread that asked for it.
OneInside ==
  \A t, u \in ServerThreads : InLogEvent(t) /\ InLogEvent(u) => t = u

Written == file \o logPipe

\* The events of the server's own threads are in server.log in the order of
\* their timestamps.  (A record of a forked child may come before or after an
\* older one.)
ServerRecordsOrdered ==
  \A i, j \in 1 .. Len(Written) :
    /\ i < j
    /\ {Written[i].by, Written[j].by} \subseteq ServerThreads
    => Written[i].stamp < Written[j].stamp

\* No two records carry the same answer of the time process.
StampsUsedOnce ==
  \A i, j \in 1 .. Len(Written) : Written[i].stamp = Written[j].stamp => i = j

\* The last of t's records is of this site, or t has none.
LastIs(t, site) ==
  IF site = "nothing" THEN \A i \in 1 .. Len(Written) : Written[i].by # t
  ELSE \E i \in 1 .. Len(Written) :
         /\ Written[i].by = t /\ Written[i].site = site
         /\ \A j \in 1 .. Len(Written) : i < j => Written[j].by # t

\* What the last record of a client's thread may be, given where the thread is.
LastSite(t) ==
  CASE pc[t] \in {"connected", "none"} -> {"nothing"}
    [] pc[t] = "greet"                 -> {"connected"}
    [] pc[t] = "serve"                 -> {"received"}
    [] pc[t] \in {"exchange", "forward", "answer"} -> {"created"}
    [] pc[t] = "reap"                  -> {"completed"}
    [] pc[t] = "over"                  -> {"disconnected"}
    [] pc[t] \in {"top", "received", "disconnected"} ->
         {"connected", "completed", "error"} \cup
           (IF "input" \in Operations THEN {"received"} ELSE {})
    [] pc[t] \in {"created", "error"}  -> {"received"}
    [] pc[t] = "completed"             -> {"created"}

\* The log keeps up with the threads while the helpers live: a thread that is
\* past an event and out of log_event has its record in the pipe or the file, as
\* the last of its own, whatever the others and the children have written.
LogKeepsUp ==
  failed \cap {"time", "logger"} = {} =>
    \A c \in Ids : ~ InLogEvent(c) => \E site \in LastSite(c) : LastIs(c, site)

\* A write to this client ends the server: the connection was reset before, by
\* an earlier write to the client gone or by its close, and the thread is at its
\* echo of -1 or its answer.
KilledByClient(c) == conn[c] = "reset" /\ pc[c] \in {"top", "answer"}

\* So does one to this client's worker: it died by a fault of its own between
\* its open of the FIFOs and the end of its request.
KilledByWorker(c) == "worker" \in failed /\ worker[c] = "done" /\ pc[c] = "forward"

\* The end of a process has a cause of one of these kinds, whatever clients ask
\* for, whenever they go, and whichever call fails: a helper goes by a fault of
\* its own or after the server, and the server by a fault of its own, by one of
\* a helper, or by SIGPIPE at a client or worker in one of the two states above.
\* A client that only connects and goes, a failing mkfifo, fork, execl or
\* pthread_create, and a worker that dies later or earlier end nobody.
EndsHaveCauses ==
  /\ ~ timeUp => ~ serverUp \/ "time" \in failed
  /\ ~ loggerUp => ~ serverUp \/ "logger" \in failed
  /\ ~ serverUp => \/ failed \cap {"stop", "time", "logger"} # {}
                   \/ \E c \in Ids : KilledByClient(c) \/ KilledByWorker(c)

(* Liveness, under FairSpec *)

\* A worker the log says was started does start its program.
WorkerStarts ==
  \A c \in Ids : (pc[c] = "exchange") ~> (worker[c] # "child" \/ ~ serverUp)

\* When the server has stopped and no worker is left, both helpers come to
\* their end, the logger with nothing left unwritten.
HelpersEnd ==
  (~ PipesHeld) ~> (~ timeUp /\ ~ loggerUp /\ ("logger" \in failed \/ logPipe = << >>))

=============================================================================
