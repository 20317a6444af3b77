------------------------------ MODULE Session ------------------------------
(***************************************************************************)
(* One client, the thread of the server that serves it, and the worker     *)
(* process that thread starts for each request, one system call at a time. *)
(*                                                                         *)
(*   clinet.c main  --c2s-->  server.c handle_client  --req FIFO-->        *)
(*                  <--s2c--                          <--rsp FIFO--        *)
(*                                    multiplication_worker.c,             *)
(*                                    transposition_worker.c or            *)
(*                                    average_worker.c main                *)
(*                                                                         *)
(* All four channels carry 32-bit words with no framing: a request is an   *)
(* option, dimensions and matrices in an order both sides must agree on,   *)
(* and no return value of read() is looked at except at the top of the     *)
(* handler's loop.  One read() takes what is there, at most what it asked  *)
(* for, and blocks only when nothing is there and a writer is left.        *)
(***************************************************************************)
EXTENDS Matrices

CONSTANTS
  Shapes,      \* the <<rowsA, columnsA, columnsB>> a user may type
  Services,    \* what a user may type at the services menu
  MaxChoices,  \* bound: choices a user makes at the two menus before -1
  PipeCap,     \* words a FIFO holds before write() blocks
  SegCap,      \* words one segment of the connection carries
  Faults       \* which of AllFaults may happen

AllFaults == {"mkfifo", "fork", "exec", "thread", "kill"}

ASSUME SessionAssumption ==
  /\ Shapes \subseteq (Nat \X Nat \X Nat)
  /\ Services \subseteq Int
  /\ MaxChoices \in Nat
  /\ PipeCap \in Nat \ {0} /\ SegCap \in Nat \ {0}
  /\ Faults \subseteq AllFaults

ClientId == 1

VARIABLES
  cpc,      \* client: "id" | "menu" | "send" | "receive" | "exit" | "bye" | "gone"
  shape,    \* client: <<rowsA, columnsA, columnsB>>, zeros until filled
  service,  \* client: the service being used (option2)
  outbox,   \* client: the write()s of the request not yet made
  shown,    \* client: the last answer printed, and the one asked for
  choices,  \* bound: choices made so far
  c2s, s2c, \* the connection, one sequence of words per direction
  reset,    \* a write to the closed peer was answered by RST
  hpc,      \* handler: where handle_client is
  option,   \* handler: option
  inputs,   \* handler: the read()s of this request not yet made
  reg,      \* handler: rowsA, columnsA, matrixA, rowsB, columnsB, matrixB
  hout,     \* handler: the write()s not yet made
  fifos,    \* the FIFOs that exist in the directory
  opened,   \* how many of the two FIFOs both sides have opened
  req, rsp, \* contents of the request and the response FIFO
  wpc,      \* worker: "none" | "open" | "input" | "output" | "dead"
  winputs, wreg, wout, \* worker: as inputs, reg and hout
  cause     \* ghost: what has happened that no return value was checked for

client  == <<cpc, shape, service, outbox, shown, choices>>
net     == <<c2s, s2c, reset>>
handler == <<hpc, option, inputs, reg, hout>>
fifo    == <<fifos, opened, req, rsp>>
worker  == <<wpc, winputs, wreg, wout>>
vars    == <<client, net, handler, fifo, worker, cause>>

-----------------------------------------------------------------------------
(* Words and registers *)

\* One draw of fillMatrix: A is 1, 2, 3 ... and B follows.
FilledA(s) == [i \in 1 .. (s[1] * s[2]) |-> i]
FilledB(s) == [i \in 1 .. (s[2] * s[3]) |-> s[1] * s[2] + i]

NoShape == <<0, 0, 0>>
Empty(s) == \E i \in 1 .. 3 : s[i] = 0

OneMatrix == <<"rowsA", "columnsA", "A">>
TwoMatrices == <<"rowsA", "columnsA", "A", "rowsB", "columnsB", "B">>

\* The fields of a request as the client sends them, as the handler reads them
\* and forwards them, and as the worker reads them: four orders, in five files,
\* that nothing but their agreement keeps in step.
ClientFields(o) ==
  CASE o = 1        -> TwoMatrices
    [] o \in {2, 4} -> OneMatrix
    [] OTHER        -> << >>

HandlerFields(o) ==
  CASE o = 1        -> TwoMatrices
    [] o \in {2, 4} -> OneMatrix
    [] OTHER        -> <<"rowsB", "columnsB", "B">>

ForwardFields(o) == IF o = 1 THEN TwoMatrices ELSE OneMatrix

\* Mutant: the worker takes the columns for the rows.
WorkerFieldsSwapped(o) == IF o = 1 THEN TwoMatrices ELSE <<"columnsA", "rowsA", "A">>

WorkerFields(o) == IF o = 1 THEN TwoMatrices ELSE OneMatrix

Blank == [rowsA |-> 0, columnsA |-> 0, A |-> << >>,
          rowsB |-> 0, columnsB |-> 0, B |-> << >>]

\* Words a read() or write() of field f asks for; negative when the product
\* of the dimensions is, and such a call fails and moves nothing.
SizeOf(r, f) ==
  CASE f = "A" -> r.rowsA * r.columnsA
    [] f = "B" -> r.rowsB * r.columnsB
    [] OTHER   -> 1

Stored(r, f, words) ==
  LET padded == Padded(words, SizeOf(r, f))
  IN  [r EXCEPT ![f] = IF f \in {"A", "B"} THEN padded ELSE padded[1]]

\* The words of a field, and the write() calls that send the fields fs.
Words(r, f) == IF f \in {"A", "B"} THEN r[f] ELSE <<r[f]>>
Writes(r, fs) == [i \in 1 .. Len(fs) |-> Words(r, fs[i])]

\* A write() to the connection reaches the peer in segments; a write() to a
\* FIFO puts there what it takes now.  Either way w is cut after n words.
First(w, n) == SubSeq(w, 1, Smaller(n, Len(w)))
After(w, n) == IF Len(w) <= n THEN << >> ELSE <<SubSeq(w, n + 1, Len(w))>>

Overflow(w, cap) == IF Len(w) > cap THEN {"overflow"} ELSE {}

\* A read() of n words from buffer: when it returns, what it takes and leaves.
Readable(buffer, n, eof) == n <= 0 \/ buffer # << >> \/ eof
Taken(buffer, n) == SubSeq(buffer, 1, Smaller(n, Len(buffer)))
Left(buffer, n)  == IF n <= 0 THEN buffer ELSE SubSeq(buffer, n + 1, Len(buffer))

\* What a write() of w to a FIFO with this content can put there now.
Room(buffer, w) == Smaller(PipeCap - Len(buffer), Len(w))

\* Words of the result of operation o on the matrices of registers r, and the
\* result itself; a worker that gives up or exits writes none of it.
ReplySize(o, r) ==
  CASE o = 1 -> r.rowsA * r.columnsB
    [] o = 2 -> r.columnsA * r.rowsA
    [] o = 4 -> 2

Result(o, r) ==
  CASE o = 1 -> IF r.columnsA # r.rowsB THEN << >>
                ELSE Product(r.rowsA, r.columnsA, r.columnsB, r.A, r.B)
    [] o = 2 -> Transposed(r.rowsA, r.columnsA, r.A)
    [] o = 4 -> IF r.rowsA * r.columnsA < 0 THEN << >>
                ELSE Average(r.rowsA, r.columnsA, r.A)

ServerGone == hpc \in {"closed", "killed"}
ClientGone == cpc = "gone"

TypeOK ==
  /\ cpc \in {"id", "menu", "send", "receive", "exit", "bye", "gone"}
  /\ shape \in Shapes \cup {NoShape}
  /\ service \in Services \cup {0}
  /\ outbox \in Seq(Seq(Int))
  /\ DOMAIN shown = {"got", "want"}
  /\ choices \in 0 .. MaxChoices
  /\ c2s \in Seq(Int) /\ s2c \in Seq(Int) /\ reset \in BOOLEAN
  /\ hpc \in {"greet", "top", "input", "mkfifo", "fork", "open", "send", "receive",
              "reply", "finish", "reap", "shut", "closed", "killed"}
  /\ option \in Int
  /\ DOMAIN reg = DOMAIN Blank /\ DOMAIN wreg = DOMAIN Blank
  /\ hout \in Seq(Seq(Int)) /\ wout \in Seq(Seq(Int))
  /\ fifos \subseteq {"request", "response"}
  /\ opened \in 0 .. 2
  /\ req \in Seq(Int) /\ rsp \in Seq(Int)
  /\ Len(req) <= PipeCap /\ Len(rsp) <= PipeCap
  /\ wpc \in {"none", "open", "input", "output", "dead"}
  /\ cause \subseteq AllFaults \cup {"overflow", "unavailable", "early exit"}

Init ==
  /\ cpc = "id" /\ shape = NoShape /\ service = 0 /\ outbox = << >>
  /\ shown = [got |-> << >>, want |-> << >>] /\ choices = 0
  /\ c2s = << >> /\ s2c = << >> /\ reset = FALSE
  /\ hpc = "greet" /\ option = 1 /\ inputs = << >> /\ reg = Blank /\ hout = << >>
  /\ fifos = {} /\ opened = 0 /\ req = << >> /\ rsp = << >>
  /\ wpc = "none" /\ winputs = << >> /\ wreg = Blank /\ wout = << >>
  /\ cause = {}

-----------------------------------------------------------------------------
(* The client: clinet.c main *)

ClientReadId ==
  /\ cpc = "id"
  /\ Readable(s2c, 1, ServerGone)
  /\ cpc' = IF s2c = << >> THEN "gone" ELSE "menu"
  /\ s2c' = Left(s2c, 1)
  /\ UNCHANGED <<shape, service, outbox, shown, choices, c2s, reset, handler, fifo,
                 worker, cause>>

Choose ==
  /\ cpc = "menu"
  /\ choices < MaxChoices
  /\ choices' = choices + 1

\* Menu option 1: new dimensions, both matrices filled.  Nothing is sent.
Fill(s) ==
  /\ Choose
  /\ shape' = s
  /\ UNCHANGED <<cpc, service, outbox, shown, net, handler, fifo, worker, cause>>

Filled(s) ==
  [rowsA |-> s[1], columnsA |-> s[2], A |-> FilledA(s),
   rowsB |-> s[2], columnsB |-> s[3], B |-> FilledB(s)]

RequestOf(o, s) == Writes(Filled(s), ClientFields(o))

\* Menu option 2 with service o: the option goes first, and only services 1, 2
\* and 4 send their matrices; 3 and 5 print "Unavailable" and return.
UseService(o) ==
  LET writes == <<<<o>>>> \o RequestOf(o, shape)
  IN
  /\ Choose
  /\ ~ Empty(shape)
  /\ service' = o
  /\ outbox' = writes
  /\ cpc' = "send"
  /\ cause' = cause \cup (UNION {Overflow(writes[i], SegCap) : i \in DOMAIN writes})
                    \cup (IF o \in {3, 5} THEN {"unavailable"} ELSE {})
                    \cup (IF o = -1 THEN {"early exit"} ELSE {})
  /\ UNCHANGED <<shape, shown, net, handler, fifo, worker>>

\* Menu option -1.
Exit ==
  /\ cpc = "menu"
  /\ outbox' = <<<<-1>>>>
  /\ cpc' = "exit"
  /\ UNCHANGED <<shape, service, shown, choices, net, handler, fifo, worker, cause>>

\* One segment of a write() to the server.  After the server closed, the first
\* is answered by RST and the next raises SIGPIPE, which ends the client.
ClientWrite ==
  /\ cpc \in {"send", "exit"} /\ outbox # << >>
  /\ outbox' = After(Head(outbox), SegCap) \o Tail(outbox)
  /\ IF ServerGone
       THEN /\ cpc' = IF reset THEN "gone" ELSE cpc
            /\ reset' = TRUE
            /\ c2s' = c2s
       ELSE /\ c2s' = c2s \o First(Head(outbox), SegCap)
            /\ UNCHANGED <<cpc, reset>>
  /\ UNCHANGED <<shape, service, shown, choices, s2c, handler, fifo, worker, cause>>

\* The request is out: wait for the answer, for the echo of -1, or for nothing.
ClientSent ==
  /\ cpc \in {"send", "exit"} /\ outbox = << >>
  /\ cpc' = IF cpc = "exit" THEN "bye"
            ELSE IF service \in {1, 2, 4} THEN "receive" ELSE "menu"
  /\ UNCHANGED <<shape, service, outbox, shown, choices, net, handler, fifo, worker,
                 cause>>

Wanted(o, s) ==
  CASE o = 1 -> Product(s[1], s[2], s[3], FilledA(s), FilledB(s))
    [] o = 2 -> Transposed(s[1], s[2], FilledA(s))
    [] o = 4 -> Average(s[1], s[2], FilledA(s))

ClientReceive ==
  LET n == Len(Wanted(service, shape))
  IN  /\ cpc = "receive"
      /\ Readable(s2c, n, ServerGone)
      /\ shown' = [got |-> Padded(Taken(s2c, n), n), want |-> Wanted(service, shape)]
      /\ s2c' = Left(s2c, n)
      /\ cpc' = "menu"
      /\ UNCHANGED <<shape, service, outbox, choices, c2s, reset, handler, fifo, worker,
                     cause>>

\* read(serverStatus), then close: a close with words unread sends RST.
ClientLeave ==
  /\ cpc = "bye"
  /\ Readable(s2c, 1, ServerGone)
  /\ s2c' = Left(s2c, 1)
  /\ reset' = (reset \/ Len(s2c) > 1)
  /\ cpc' = "gone"
  /\ UNCHANGED <<shape, service, outbox, shown, choices, c2s, handler, fifo, worker,
                 cause>>

\* The client process is killed.
ClientKilled ==
  /\ "kill" \in Faults /\ cpc # "gone"
  /\ cpc' = "gone"
  /\ reset' = (reset \/ s2c # << >>)
  /\ cause' = cause \cup {"kill"}
  /\ UNCHANGED <<shape, service, outbox, shown, choices, c2s, s2c, handler, fifo, worker>>

-----------------------------------------------------------------------------
(* The handler: server.c handle_client, case 1, 2, 4, 3 and 5 of its switch *)

\* A write() of the words w to the client.  A client that is gone answers the
\* first with RST; the next raises SIGPIPE, whose default action ends the
\* whole server process.
WriteToClient(w, next) ==
  IF ~ ClientGone
    THEN s2c' = s2c \o w /\ hpc' = next /\ reset' = reset
    ELSE s2c' = s2c /\ hpc' = (IF reset THEN "killed" ELSE next) /\ reset' = TRUE

HandlerGreet ==
  /\ hpc = "greet"
  /\ WriteToClient(<<ClientId>>, "top")
  /\ UNCHANGED <<client, c2s, option, inputs, reg, hout, fifo, worker, cause>>

\* Mutant: case 5 falls through from 6.
ReadingOptionsAndSix == 1 .. 6

\* The cases of the switch that read matrices.
ReadingOptions == 1 .. 5

\* The top of the loop; the only read() whose return value is looked at.
HandlerReadOption ==
  /\ hpc = "top" /\ c2s # << >>
  /\ option' = Head(c2s) /\ c2s' = Tail(c2s)
  /\ IF Head(c2s) = -1
       THEN WriteToClient(<<-1>>, "shut") /\ UNCHANGED <<inputs, reg>>
       ELSE /\ UNCHANGED <<s2c, reset>>
            /\ IF Head(c2s) \in ReadingOptions
                 THEN hpc' = "input" /\ inputs' = HandlerFields(Head(c2s)) /\ reg' = Blank
                 ELSE UNCHANGED <<hpc, inputs, reg>>
  /\ UNCHANGED <<client, hout, fifo, worker, cause>>

\* Mutant: only a failing read() counts, not one that returns 0.
EndOfStreamMissed ==
  hpc = "top" /\ c2s = << >> /\ ClientGone /\ UNCHANGED vars

\* Mutant: the end of the stream is answered like -1.
EndOfStreamEchoed ==
  /\ hpc = "top" /\ c2s = << >> /\ ClientGone
  /\ WriteToClient(<<-1>>, "shut")
  /\ UNCHANGED <<client, c2s, option, inputs, reg, hout, fifo, worker, cause>>

HandlerEndOfStream ==
  /\ hpc = "top" /\ c2s = << >> /\ ClientGone
  /\ hpc' = "shut"
  /\ UNCHANGED <<client, net, option, inputs, reg, hout, fifo, worker, cause>>

\* close(client_sock): with words unread it sends RST.
HandlerClose ==
  /\ hpc = "shut"
  /\ hpc' = "closed"
  /\ reset' = (reset \/ c2s # << >>)
  /\ UNCHANGED <<client, c2s, s2c, option, inputs, reg, hout, fifo, worker, cause>>

\* One read() of the request; services 3 and 5 end with the last.
HandlerInput ==
  LET f == Head(inputs)
      n == SizeOf(reg, f)
  IN  /\ hpc = "input"
      /\ Readable(c2s, n, ClientGone)
      /\ reg' = Stored(reg, f, Taken(c2s, n))
      /\ c2s' = Left(c2s, n)
      /\ inputs' = Tail(inputs)
      /\ hpc' = IF Tail(inputs) # << >> THEN "input"
                ELSE IF option \in {1, 2, 4} THEN "mkfifo" ELSE "top"
      /\ UNCHANGED <<client, s2c, reset, option, hout, fifo, worker, cause>>

\* unlink and mkfifo of both names.  On failure the loop goes on with nothing
\* sent to the client.
HandlerMakeFifos ==
  /\ hpc = "mkfifo"
  /\ \/ fifos' = {"request", "response"} /\ hpc' = "fork" /\ cause' = cause
     \/ /\ "mkfifo" \in Faults
        /\ fifos' = {} /\ hpc' = "top" /\ cause' = cause \cup {"mkfifo"}
  /\ opened' = 0 /\ req' = << >> /\ rsp' = << >>
  /\ UNCHANGED <<client, net, option, inputs, reg, hout, worker>>

\* fork and, in the child, execl of the worker program.
HandlerFork ==
  /\ hpc = "fork"
  /\ winputs' = WorkerFields(option) /\ wreg' = Blank /\ wout' = << >>
  /\ \/ /\ hpc' = "open" /\ wpc' = "open"
        /\ UNCHANGED <<fifos, cause>>
     \/ /\ "exec" \in Faults
        /\ hpc' = "open" /\ wpc' = "dead" /\ cause' = cause \cup {"exec"}
        /\ fifos' = fifos
     \/ /\ "fork" \in Faults
        /\ hpc' = "top" /\ wpc' = wpc /\ cause' = cause \cup {"fork"}
        /\ fifos' = {}
  /\ UNCHANGED <<client, net, option, inputs, reg, hout, opened, req, rsp>>

\* The order in which each side opens its two FIFOs.  open() of a FIFO returns
\* when the other side opens it too, so both sides move together.
HandlerOpens == <<"response", "request">>

\* Mutant: the worker opens them the other way round.
WorkerOpensRequestFirst == <<"request", "response">>

WorkerOpens == <<"response", "request">>

Rendezvous ==
  /\ hpc = "open" /\ wpc = "open"
  /\ HandlerOpens[opened + 1] = WorkerOpens[opened + 1]
  /\ HandlerOpens[opened + 1] \in fifos
  /\ opened' = opened + 1
  /\ IF opened + 1 = 2
       THEN hpc' = "send" /\ wpc' = "input" /\ hout' = Writes(reg, ForwardFields(option))
       ELSE UNCHANGED <<hpc, wpc, hout>>
  /\ UNCHANGED <<client, net, option, inputs, reg, fifos, req, rsp, winputs, wreg, wout,
                 cause>>

\* A write() of the request, or as much of it as the FIFO takes now.  With the
\* worker gone it raises SIGPIPE, unless there is nothing to write.
HandlerSend ==
  LET room == Room(req, Head(hout))
  IN  /\ hpc = "send"
      /\ wpc # "dead" /\ Head(hout) # << >> => room > 0
      /\ IF wpc = "dead" /\ Head(hout) # << >>
           THEN hpc' = "killed" /\ UNCHANGED <<hout, req, cause>>
           ELSE /\ req' = req \o First(Head(hout), room)
                /\ hout' = After(Head(hout), room) \o Tail(hout)
                /\ hpc' = IF hout' = << >> THEN "receive" ELSE "send"
                /\ cause' = cause \cup Overflow(Head(hout), room)
      /\ UNCHANGED <<client, net, option, inputs, reg, fifos, opened, rsp, worker>>

\* One read() of the answer into a zeroed array.
HandlerReceive ==
  LET n == ReplySize(option, reg)
  IN  /\ hpc = "receive"
      /\ Readable(rsp, n, wpc = "dead")
      /\ hout' = <<Padded(Taken(rsp, n), n)>>
      /\ rsp' = Left(rsp, n)
      /\ cause' = cause \cup (IF n > SegCap THEN {"overflow"} ELSE {})
      /\ hpc' = "reply"
      /\ UNCHANGED <<client, net, option, inputs, reg, fifos, opened, req, worker>>

\* write() of the answer, a segment at a time.
HandlerReply ==
  /\ hpc = "reply"
  /\ hout' = After(Head(hout), SegCap)
  /\ WriteToClient(First(Head(hout), SegCap), IF hout' = << >> THEN "finish" ELSE "reply")
  /\ UNCHANGED <<client, c2s, option, inputs, reg, fifo, worker, cause>>

\* Services 2 and 4 close both FIFOs before waitpid; service 1 never does.
HandlerCloseFifos ==
  /\ hpc = "finish"
  /\ hpc' = "reap"
  /\ UNCHANGED <<client, net, option, inputs, reg, hout, fifo, worker, cause>>

ResponseOpen == ~ (hpc = "reap" /\ option # 1)

\* Mutant: the names are not unlinked.
ReapWithoutUnlink ==
  /\ hpc = "reap" /\ wpc = "dead"
  /\ wpc' = "none" /\ hpc' = "top"
  /\ UNCHANGED <<client, net, option, inputs, reg, hout, fifo, winputs, wreg, wout, cause>>

\* waitpid, then unlink of both names.
HandlerReap ==
  /\ hpc = "reap" /\ wpc = "dead"
  /\ wpc' = "none" /\ fifos' = {} /\ hpc' = "top"
  /\ UNCHANGED <<client, net, option, inputs, reg, hout, opened, req, rsp, winputs, wreg,
                 wout, cause>>

-----------------------------------------------------------------------------
(* The worker: main of the three worker programs *)

\* One read() of the request.  The transposition and average workers exit when
\* calloc of the matrix fails, the multiplication worker goes on.
WorkerInput ==
  LET f == Head(winputs)
      n == SizeOf(wreg, f)
  IN  /\ wpc = "input" /\ winputs # << >>
      /\ Readable(req, n, FALSE)
      /\ wreg' = Stored(wreg, f, Taken(req, n))
      /\ req' = Left(req, n)
      /\ winputs' = Tail(winputs)
      /\ wpc' = IF n < 0 /\ option # 1 THEN "dead" ELSE "input"
      /\ UNCHANGED <<client, net, handler, fifos, opened, rsp, wout, cause>>

\* The thread pool computes the result.  When a thread or the mutex cannot be
\* created the matrix is {0} and the write() of it fails; the average is 0.0.
WorkerCompute ==
  /\ wpc = "input" /\ winputs = << >>
  /\ \/ wout' = After(Result(option, wreg), 0) /\ cause' = cause
     \/ /\ "thread" \in Faults
        /\ wout' = IF option = 4 THEN <<<<0, 0>>>> ELSE << >>
        /\ cause' = cause \cup {"thread"}
  /\ wpc' = "output"
  /\ UNCHANGED <<client, net, handler, fifo, winputs, wreg>>

\* write() of the result, or as much as the FIFO takes now; SIGPIPE once the
\* handler closed the reading end.
WorkerOutput ==
  LET room == Room(rsp, Head(wout))
  IN  /\ wpc = "output" /\ wout # << >>
      /\ ResponseOpen => room > 0
      /\ IF ResponseOpen
           THEN /\ rsp' = rsp \o First(Head(wout), room)
                /\ wout' = After(Head(wout), room)
                /\ cause' = cause \cup Overflow(Head(wout), room)
                /\ wpc' = wpc
           ELSE wpc' = "dead" /\ UNCHANGED <<rsp, wout, cause>>
      /\ UNCHANGED <<client, net, handler, fifos, opened, req, winputs, wreg>>

WorkerExit ==
  /\ wpc = "output" /\ wout = << >>
  /\ wpc' = "dead"
  /\ UNCHANGED <<client, net, handler, fifo, winputs, wreg, wout, cause>>

-----------------------------------------------------------------------------
(* The whole *)

User ==
  \/ \E s \in Shapes : Fill(s)
  \/ \E o \in Services : UseService(o)
  \/ Exit

ClientIO == ClientReadId \/ ClientWrite \/ ClientSent \/ ClientReceive \/ ClientLeave

Handler ==
  \/ HandlerGreet \/ HandlerReadOption \/ HandlerEndOfStream \/ HandlerClose
  \/ HandlerInput \/ HandlerMakeFifos \/ HandlerFork \/ HandlerSend
  \/ HandlerReceive \/ HandlerReply \/ HandlerCloseFifos \/ HandlerReap

Worker == WorkerInput \/ WorkerCompute \/ WorkerOutput \/ WorkerExit

\* When the server process is killed its handler stops; an orphan worker may
\* go on, to no effect on the client.
Next ==
  \/ User \/ ClientIO \/ ClientKilled
  \/ Handler
  \/ Rendezvous
  \/ Worker

Spec == Init /\ [][Next]_vars

\* The scheduler keeps running every process that can run.  Nothing makes a
\* user choose.
FairSpec ==
  /\ Spec
  /\ WF_vars(ClientIO) /\ WF_vars(Handler) /\ WF_vars(Rendezvous) /\ WF_vars(Worker)

-----------------------------------------------------------------------------
(* Safety *)

\* An answer the client prints is the right one, unless a matrix did not fit
\* one segment or FIFO, service 3 or 5 or -1 was chosen before it, or a thread
\* of the pool could not be created.  No read() of either side checks how much
\* it got, so this rests on both sides' orders and sizes alone.
RightAnswer ==
  shown.got # shown.want => cause \cap {"overflow", "unavailable", "early exit", "thread"} # {}

System == ClientIO \/ Handler \/ Rendezvous \/ Worker

\* The system calls each side may be blocked in: a read() of what is not there
\* while its writer lives, a write() to a full FIFO, an open() of a FIFO that
\* the other side is not opening, waitpid of a worker that runs.
ClientBlocked ==
  cpc \in {"receive", "bye"} /\ s2c = << >> /\ ~ ServerGone

HandlerBlocked ==
  \/ hpc = "top" /\ c2s = << >> /\ ~ ClientGone
  \/ hpc = "input" /\ c2s = << >> /\ ~ ClientGone /\ SizeOf(reg, Head(inputs)) > 0
  \/ /\ hpc = "open"
     /\ wpc = "open" => \/ HandlerOpens[opened + 1] # WorkerOpens[opened + 1]
                        \/ HandlerOpens[opened + 1] \notin fifos
  \/ hpc = "send" /\ wpc # "dead" /\ Head(hout) # << >> /\ Len(req) = PipeCap
  \/ hpc = "receive" /\ wpc # "dead" /\ rsp = << >> /\ ReplySize(option, reg) > 0
  \/ hpc = "reap" /\ wpc # "dead"

WorkerBlocked ==
  \/ wpc \in {"none", "open", "dead"}
  \/ wpc = "input" /\ winputs # << >> /\ req = << >> /\ SizeOf(wreg, Head(winputs)) > 0
  \/ wpc = "output" /\ wout # << >> /\ ResponseOpen /\ Len(rsp) = PipeCap

Stuck == ClientBlocked /\ HandlerBlocked /\ WorkerBlocked

\* What can leave a client waiting for ever: a full FIFO, a stream out of step,
\* a dropped request (mkfifo, fork), a FIFO nobody opens (exec).  A dead thread,
\* a killed client and -1 chosen as a service never do.
HangCauses == {"overflow", "unavailable", "mkfifo", "fork", "exec"}

StuckHasCause == Stuck => cause \cap HangCauses # {}

\* The client is left waiting with nobody able to move only when every side is
\* blocked in a system call, and one of the HangCauses has happened.
HangHasCause ==
  cpc \in {"receive", "bye"} /\ ~ ENABLED System => Stuck /\ cause \cap HangCauses # {}

\* SIGPIPE ends the server, and every other client with it, only after a
\* matrix did not fit or the stream got out of step: a client that is killed at
\* any moment of an ordinary request does not take the server with it.
ServerSurvives ==
  hpc = "killed" => cause \cap {"overflow", "unavailable"} # {}

\* Back at the top of its loop, on every path, the handler has left no FIFO in
\* the directory and no worker unreaped, so the next request starts afresh.
CleanAtTop ==
  hpc \in {"top", "shut", "closed"} => fifos = {} /\ wpc = "none"

(* Liveness, under FairSpec *)

\* A client that typed -1 gets its echo and leaves.
ExitTerminates == (cpc = "bye") ~> (cpc = "gone")

\* The handler of a client that left closes its socket and returns.
HandlerEnds == (cpc = "gone") ~> ServerGone

(* What the system promises its user *)

Promise == INSTANCE MatrixService
             WITH matrices <- shape,
                  asked    <- IF cpc \in {"send", "receive"} /\ service \in {1, 2, 4}
                                THEN service ELSE 0,
                  answer   <- shown.got,
                  left     <- ClientGone

RefinesPromise == Promise!Spec

=============================================================================
