---------------------------- MODULE SearchDaemon ----------------------------
(***************************************************************************)
(* The search daemon of scripts/search_logs.sh: daemon-start makes a FIFO  *)
(* for requests and one for responses and leaves a worker behind, which    *)
(* opens the first, reads a line, opens the second, writes the matches,    *)
(* and begins again; daemon-query writes a line and reads a response;      *)
(* daemon-stop writes STOP, kills the worker and removes the FIFOs.        *)
(*                                                                         *)
(* Nothing keeps two of these scripts apart.  An open() waits for the      *)
(* other side; what is left in a FIFO is gone when all have closed it; a   *)
(* writer that loses its last reader is ended by SIGPIPE, the shells of    *)
(* the scripts included.  Left out is what meets a daemon-start between    *)
(* its rm and its second mkfifo, whose two FIFOs are one here.             *)
(***************************************************************************)
EXTENDS Integers, Sequences

CONSTANTS
  Queries,   \* daemon-query scripts, each run once
  Stop,      \* a daemon-stop, run once
  MaxStarts  \* bound: times daemon-start is run

Scripts == Queries \cup {Stop}
Workers == 1 .. MaxStarts

VARIABLES
  fifo,       \* number of the FIFOs at the two paths, 0 for none
  starts,     \* daemon-starts so far: they number workers and FIFOs
  pidFile,    \* the worker in WORKER_PID_FILE, 0 for none
  unwritten,  \* workers whose daemon-start has yet to write their pid
  worker,     \* per worker: where in its loop
  workerFifo, \* per worker: number of the FIFO it has open or is opening
  line,       \* per worker: the request_line it read
  script,     \* per script: where it is
  scriptFifo, \* per script: number of the FIFO it has open or is opening
  requests,   \* lines in a request FIFO
  responses,  \* pieces of answers in a response FIFO
  got,        \* per query: the pieces cat has read
  forgotten,  \* history: workers whose FIFOs or pid another script took away, or
              \* whose start was interrupted
  killed,     \* history: queries that were interrupted
  overlapped  \* history: scripts that did not run alone

workerVars == <<worker, workerFifo, line>>
scriptVars == <<script, scriptFifo, got>>
paths == <<fifo, starts, pidFile, unwritten>>
history == <<forgotten, killed, overlapped>>
vars == <<paths, workerVars, scriptVars, requests, responses, history>>

\* The pieces of the answer to request r.
Matches(r) == <<r, "matches">>
End(r) == <<r, "END_OF_RESULTS">>

WorkerPlaces == {"none", "top", "openRequest", "read", "openResponse", "send", "sendEnd", "ended"}

ScriptPlaces ==
  {"idle", "openRequest", "write", "openResponse", "cat", "kill", "remove", "done", "failed"}

TypeOK ==
  /\ fifo \in 0 .. MaxStarts /\ starts \in 0 .. MaxStarts /\ pidFile \in 0 .. MaxStarts
  /\ unwritten \subseteq Workers
  /\ worker \in [Workers -> WorkerPlaces]
  /\ workerFifo \in [Workers -> 0 .. MaxStarts]
  /\ \A w \in Workers : line[w] \in Scripts \cup {"none"}
  /\ script \in [Scripts -> ScriptPlaces]
  /\ scriptFifo \in [Scripts -> 0 .. MaxStarts]
  /\ requests \in [Workers -> Seq(Scripts)] /\ DOMAIN responses = Workers
  /\ forgotten \subseteq Workers /\ killed \subseteq Queries /\ overlapped \subseteq Scripts

Init ==
  /\ fifo = 0 /\ starts = 0 /\ pidFile = 0 /\ unwritten = {}
  /\ worker = [w \in Workers |-> "none"]
  /\ workerFifo = [w \in Workers |-> 0]
  /\ line = [w \in Workers |-> "none"]
  /\ script = [s \in Scripts |-> "idle"]
  /\ scriptFifo = [s \in Scripts |-> 0]
  /\ requests = [f \in Workers |-> <<>>]
  /\ responses = [f \in Workers |-> <<>>]
  /\ got = [q \in Queries |-> <<>>]
  /\ forgotten = {} /\ killed = {} /\ overlapped = {}

Active == {s \in Scripts : script[s] \notin {"idle", "done", "failed"}}

WorkersAt(place, f) == {w \in Workers : worker[w] = place /\ workerFifo[w] = f}
ScriptsAt(place, f) == {s \in Scripts : script[s] = place /\ scriptFifo[s] = f}

WorkerRuns(w) == worker[w] \notin {"none", "ended"}

-----------------------------------------------------------------------------
(* daemon-start *)

\* The FIFOs are made anew, and a worker is forked, which nobody can tell from
\* one at the top of its loop before it opens them.
StartDaemon ==
  /\ starts < MaxStarts
  /\ starts' = starts + 1 /\ fifo' = starts + 1 /\ unwritten' = unwritten \cup {starts + 1}
  /\ worker' = [worker EXCEPT ![starts + 1] = "top"]
  /\ forgotten' = forgotten \cup {w \in Workers : WorkerRuns(w)}
                  \cup (IF Stop \in Active THEN {starts + 1} ELSE {})
  /\ overlapped' = overlapped \cup Active
  /\ UNCHANGED <<pidFile, workerFifo, line, scriptVars, requests, responses, killed>>

\* echo $!: of two starts at once the one that comes last is in the file.
WritePid(w) ==
  /\ w \in unwritten /\ unwritten' = unwritten \ {w}
  /\ pidFile' = w
  /\ forgotten' = forgotten \cup {v \in Workers \ (unwritten \cup {w}) : WorkerRuns(v)}
  /\ overlapped' = overlapped \cup Active
  /\ UNCHANGED <<fifo, starts, workerVars, scriptVars, requests, responses, killed>>

\* A daemon-start is interrupted when it has removed the FIFOs, or, its worker
\* being in the background, before it has written the pid of that.
InterruptStart ==
  /\ \/ /\ fifo' = 0 /\ forgotten' = forgotten \cup {w \in Workers : WorkerRuns(w)}
        /\ UNCHANGED unwritten
     \/ \E w \in unwritten :
          /\ unwritten' = unwritten \ {w} /\ forgotten' = forgotten \cup {w}
          /\ UNCHANGED fifo
  /\ overlapped' = overlapped \cup Active
  /\ UNCHANGED <<starts, pidFile, workerVars, scriptVars, requests, responses, killed>>

Start == StartDaemon \/ InterruptStart \/ \E w \in Workers : WritePid(w)

-----------------------------------------------------------------------------
(* The worker *)

\* read < FIFO begins to open it; when there is none it fails, and the loop
\* tries again.
WorkerOpens(w) ==
  /\ worker[w] = "top" /\ fifo # 0
  /\ workerFifo' = [workerFifo EXCEPT ![w] = fifo]
  /\ worker' = [worker EXCEPT ![w] =
       IF ScriptsAt("write", fifo) # {} THEN "read" ELSE "openRequest"]
  /\ UNCHANGED <<paths, line, scriptVars, requests, responses, history>>

\* What is left of f when worker w closes it: nobody may have it open.
Leftover(w, f, lines) ==
  IF ScriptsAt("write", f) = {} /\ WorkersAt("read", f) \subseteq {w} THEN <<>> ELSE lines

\* One line, and the FIFO is closed again.  STOP ends the worker.
WorkerReads(w) ==
  LET f == workerFifo[w]
  IN  /\ worker[w] = "read" /\ requests[f] # <<>>
      /\ line' = [line EXCEPT ![w] = Head(requests[f])]
      /\ worker' = [worker EXCEPT ![w] =
           IF Head(requests[f]) = Stop THEN "ended" ELSE "openResponse"]
      /\ requests' = [requests EXCEPT ![f] = Leftover(w, f, Tail(@))]
      /\ workerFifo' = [workerFifo EXCEPT ![w] = fifo]
      /\ UNCHANGED <<paths, scriptVars, responses, history>>

\* The end of the file, without a line.
WorkerEof(w) ==
  LET f == workerFifo[w]
  IN  /\ worker[w] = "read" /\ requests[f] = <<>> /\ ScriptsAt("write", f) = {}
      /\ worker' = [worker EXCEPT ![w] = "top"]
      /\ UNCHANGED <<paths, workerFifo, line, scriptVars, requests, responses, history>>

\* open() of the response FIFO, with all the readers that wait for it.  Without
\* a FIFO a file is made, which nobody will read.
WorkerAnswers(w) ==
  LET f == workerFifo[w]
      waiting == ScriptsAt("openResponse", f)
  IN  /\ worker[w] = "openResponse"
      /\ IF f = 0
           THEN worker' = [worker EXCEPT ![w] = "top"] /\ UNCHANGED script
           ELSE /\ waiting \cup ScriptsAt("cat", f) # {}
                /\ worker' = [worker EXCEPT ![w] = "send"]
                /\ script' = [s \in Scripts |-> IF s \in waiting THEN "cat" ELSE script[s]]
      /\ UNCHANGED <<paths, workerFifo, line, scriptFifo, got, requests, responses, history>>

\* grep writes the matches, then echo the last line; each is ended by SIGPIPE
\* when nobody reads, echo together with the worker it is built into.
WorkerSends(w) ==
  LET f == workerFifo[w]
  IN  /\ worker[w] \in {"send", "sendEnd"}
      /\ IF ScriptsAt("cat", f) = {}
           THEN worker' = [worker EXCEPT ![w] = "ended"] /\ UNCHANGED responses
           ELSE /\ worker' = [worker EXCEPT ![w] = IF @ = "send" THEN "sendEnd" ELSE "top"]
                /\ responses' = [responses EXCEPT ![f] =
                     Append(@, IF worker[w] = "send" THEN Matches(line[w]) ELSE End(line[w]))]
      /\ UNCHANGED <<paths, workerFifo, line, scriptVars, requests, history>>

Work(w) ==
  WorkerOpens(w) \/ WorkerReads(w) \/ WorkerEof(w) \/ WorkerAnswers(w) \/ WorkerSends(w)

-----------------------------------------------------------------------------
(* daemon-query and daemon-stop *)

\* Mutant: a query opens the response first.
BeginWithResponse(s) ==
  /\ script[s] = "idle" /\ starts > 0
  /\ overlapped' = IF Active = {} THEN overlapped ELSE overlapped \cup Active \cup {s}
  /\ scriptFifo' = [scriptFifo EXCEPT ![s] = fifo]
  /\ script' = [script EXCEPT ![s] = IF s = Stop THEN "kill" ELSE "openResponse"]
  /\ forgotten' = IF s = Stop THEN forgotten \cup unwritten ELSE forgotten
  /\ UNCHANGED <<paths, workerVars, got, requests, responses, killed>>

\* Without a FIFO the line goes to a file: a query then has none to read and
\* fails, a stop goes on.
Begin(s) ==
  /\ script[s] = "idle" /\ starts > 0
  /\ overlapped' = IF Active = {} THEN overlapped ELSE overlapped \cup Active \cup {s}
  /\ scriptFifo' = [scriptFifo EXCEPT ![s] = fifo]
  /\ script' = [script EXCEPT ![s] =
       IF fifo # 0 THEN "openRequest" ELSE IF s = Stop THEN "kill" ELSE "failed"]
  /\ forgotten' = IF s = Stop THEN forgotten \cup unwritten ELSE forgotten
  /\ UNCHANGED <<paths, workerVars, got, requests, responses, killed>>

\* open() for writing, with the workers that wait for it, or have it open.
ScriptOpens(s) ==
  LET f == scriptFifo[s]
      waiting == WorkersAt("openRequest", f)
  IN  /\ script[s] = "openRequest"
      /\ waiting \cup WorkersAt("read", f) # {}
      /\ script' = [script EXCEPT ![s] = "write"]
      /\ worker' = [w \in Workers |-> IF w \in waiting THEN "read" ELSE worker[w]]
      /\ UNCHANGED <<paths, workerFifo, line, scriptFifo, got, requests, responses, history>>

\* The line is written and the FIFO closed; cat opens the other one.  SIGPIPE
\* ends the script when the worker closed its end meanwhile.
ScriptWrites(s) ==
  LET f == scriptFifo[s]
  IN  /\ script[s] = "write"
      /\ IF WorkersAt("read", f) # {}
           THEN /\ requests' = [requests EXCEPT ![f] = Append(@, s)]
                /\ script' = [script EXCEPT ![s] = IF s = Stop THEN "kill" ELSE "openResponse"]
           ELSE /\ requests' = [requests EXCEPT ![f] =
                     IF ScriptsAt("write", f) = {s} THEN <<>> ELSE @]
                /\ script' = [script EXCEPT ![s] = "failed"]
      /\ scriptFifo' = [scriptFifo EXCEPT ![s] = fifo]
      /\ UNCHANGED <<paths, workerVars, got, responses, history>>

Sending(f) == WorkersAt("send", f) \cup WorkersAt("sendEnd", f)

\* open() for reading; cat fails when the FIFO is gone.
CatOpens(q) ==
  LET f == scriptFifo[q]
  IN  /\ script[q] = "openResponse"
      /\ f = 0 \/ Sending(f) # {}
      /\ script' = [script EXCEPT ![q] = IF f = 0 THEN "failed" ELSE "cat"]
      /\ UNCHANGED <<paths, workerVars, scriptFifo, got, requests, responses, history>>

\* cat takes what is there, whoever it was meant for.
CatReads(q) ==
  LET f == scriptFifo[q]
  IN  /\ script[q] = "cat" /\ responses[f] # <<>>
      /\ got' = [got EXCEPT ![q] = @ \o responses[f]]
      /\ responses' = [responses EXCEPT ![f] = <<>>]
      /\ UNCHANGED <<paths, workerVars, script, scriptFifo, requests, history>>

\* Mutant: cat gives up when there is nothing to read.
CatEndsEarly(q) ==
  LET f == scriptFifo[q]
  IN  /\ script[q] = "cat" /\ responses[f] = <<>>
      /\ script' = [script EXCEPT ![q] = "done"]
      /\ UNCHANGED <<paths, workerVars, scriptFifo, got, requests, responses, history>>

CatEnds(q) ==
  LET f == scriptFifo[q]
  IN  /\ script[q] = "cat" /\ responses[f] = <<>> /\ Sending(f) = {}
      /\ script' = [script EXCEPT ![q] = "done"]
      /\ UNCHANGED <<paths, workerVars, scriptFifo, got, requests, responses, history>>

\* The user interrupts a query; what it had open is closed.
Interrupt(q) ==
  LET f == scriptFifo[q]
  IN  /\ q \in Active
      /\ script' = [script EXCEPT ![q] = "failed"]
      /\ killed' = killed \cup {q}
      /\ requests' = IF script[q] = "write" /\ ScriptsAt("write", f) = {q} /\ WorkersAt("read", f) = {}
                       THEN [requests EXCEPT ![f] = <<>>] ELSE requests
      /\ responses' = IF script[q] = "cat" /\ ScriptsAt("cat", f) = {q} /\ Sending(f) = {}
                        THEN [responses EXCEPT ![f] = <<>>] ELSE responses
      /\ UNCHANGED <<paths, workerVars, scriptFifo, got, forgotten, overlapped>>

\* Mutant: STOP is trusted to have arrived.
KillNobody ==
  /\ script[Stop] = "kill"
  /\ script' = [script EXCEPT ![Stop] = "remove"]
  /\ UNCHANGED <<paths, workerVars, scriptFifo, got, requests, responses, history>>

\* kill of the worker whose pid is in the file, if it is still there.
Kill ==
  /\ script[Stop] = "kill"
  /\ script' = [script EXCEPT ![Stop] = "remove"]
  /\ worker' = IF pidFile # 0 THEN [worker EXCEPT ![pidFile] = "ended"] ELSE worker
  /\ UNCHANGED <<paths, workerFifo, line, scriptFifo, got, requests, responses, history>>

\* rm of the FIFOs and of the pid file.
Remove ==
  /\ script[Stop] = "remove"
  /\ script' = [script EXCEPT ![Stop] = "done"]
  /\ fifo' = 0 /\ pidFile' = 0
  /\ UNCHANGED <<starts, unwritten, workerVars, scriptFifo, got, requests, responses, history>>

Run(s) ==
  \/ ScriptOpens(s) \/ ScriptWrites(s)
  \/ s \in Queries /\ (CatOpens(s) \/ CatReads(s) \/ CatEnds(s))
  \/ s = Stop /\ (Kill \/ Remove)

Next ==
  \/ Start
  \/ \E w \in Workers : Work(w)
  \/ \E s \in Scripts : Begin(s) \/ Run(s)
  \/ \E q \in Queries : Interrupt(q)

Spec == Init /\ [][Next]_vars

\* The scheduler runs the workers and the scripts that were begun.
FairSpec ==
  Spec /\ (\A w \in Workers : WF_vars(Work(w))) /\ (\A s \in Scripts : WF_vars(Run(s)))

-----------------------------------------------------------------------------

\* A query that ran alone and came to its end has its own answer, all of it and
\* nothing else, whatever earlier ones that overlapped left behind, or whatever
\* workers earlier daemon-starts did: but not after both, nor after one that was
\* interrupted.
AnswerIsOwn ==
  \A q \in Queries :
    /\ script[q] = "done" /\ q \notin overlapped
    /\ killed = {} /\ (forgotten = {} \/ overlapped = {})
    => got[q] = <<Matches(q), End(q)>>

\* A worker that runs is the one in the pid file, where daemon-stop finds it, but
\* for one whose start is about to write it, and those that were forgotten by a
\* second daemon-start, one at the same time as a stop, or one that was
\* interrupted: also when the STOP of a daemon-stop that removed the file was lost.
WorkerIsKnown ==
  \A w \in Workers : WorkerRuns(w) => w = pidFile \/ w \in unwritten \/ w \in forgotten

\* A script is not under way, or has not run alone, or after one that was
\* interrupted, or a daemon-start.
Settled(s) == s \notin Active \/ overlapped # {} \/ killed # {} \/ starts > 1

=============================================================================
