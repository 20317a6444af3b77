----------------------------- MODULE Descriptors -----------------------------
(***************************************************************************)
(* The descriptor table of the server, and the copies of it its workers    *)
(* inherit: nothing is close-on-exec, so a worker forked for one client    *)
(* holds the connections of the others and the ends of their FIFOs until   *)
(* it ends.                                                                *)
(*                                                                         *)
(* One handler per client, one worker per request.  A multiplication never *)
(* closes its two FIFO ends.  When the table is full accept() fails and    *)
(* main tries again; open() fails in a handler, which goes on with -1, or  *)
(* in a worker, which exits.                                               *)
(*                                                                         *)
(* Session has the data of the requests and the other failures; here a     *)
(* request, and the answer to it, is sent whole.                           *)
(***************************************************************************)
EXTENDS Integers, FiniteSets

CONSTANTS
  Clients,        \* each connects once
  MaxRequests,    \* bound: requests of a client
  MaxDescriptors, \* of a process, less those the server holds from its start
  ServerMayEnd    \* a signal may end the server at any moment

ASSUME DescriptorsAssumption ==
  /\ IsFiniteSet(Clients)
  /\ MaxRequests \in Nat /\ MaxDescriptors \in Nat
  /\ ServerMayEnd \in BOOLEAN

Requests == 1 .. MaxRequests
Operations == {"multiplication", "other"}

\* What a descriptor refers to: the connection of c, or the server's end of a
\* FIFO of the n-th request of c.
Connection(c) == <<c, 0, "connection">>
Response(c, n) == <<c, n, "response">>
Request(c, n) == <<c, n, "request">>

Files ==
  {Connection(c) : c \in Clients}
    \cup {Response(c, n) : c \in Clients, n \in Requests}
    \cup {Request(c, n) : c \in Clients, n \in Requests}

VARIABLES
  serverUp,
  table,   \* files the server has a descriptor for, a reserved one included
  handler, \* per client: place in handle_client
  request, \* per client: number of the request being served, or the last one
  asked,   \* per client and request: its operation
  sent,    \* per client: where the data is, "none" | "asked" | "answered"
  worker,  \* per client: place in the worker of the request, or "none"
  held,    \* per client: files its worker inherited
  refused  \* history: clients for whom an open() failed

vars == <<serverUp, table, handler, request, asked, sent, worker, held, refused>>

\* The request of c being served.
ResponseEnd(c) == Response(c, request[c])
RequestEnd(c) == Request(c, request[c])

\* A worker that has not ended holds what it inherited.
Working(c) == worker[c] \notin {"none", "ended"}

Held(f) == f \in table \/ \E c \in Clients : Working(c) /\ f \in held[c]

\* A descriptor reserved by an open() that waits is not inherited.
Reserved ==
  {ResponseEnd(c) : c \in {d \in Clients : handler[d] = "opening response"}}
    \cup {RequestEnd(c) : c \in {d \in Clients : handler[d] = "opening request"}}

Full == Cardinality(table) >= MaxDescriptors

TypeOK ==
  /\ serverUp \in BOOLEAN
  /\ table \subseteq Files
  /\ handler \in [Clients -> {"away", "top", "open response", "opening response",
                              "open request", "opening request", "send", "receive",
                              "close", "reap", "left", "gone"}]
  /\ request \in [Clients -> 0 .. MaxRequests]
  /\ asked \in [Clients -> [Requests -> Operations \cup {"none"}]]
  /\ sent \in [Clients -> {"none", "asked", "answered"}]
  /\ worker \in [Clients -> {"none", "response", "request", "read", "garbage", "ended"}]
  /\ held \in [Clients -> SUBSET Files]
  /\ refused \subseteq Clients

Init ==
  /\ serverUp = TRUE
  /\ table = {}
  /\ handler = [c \in Clients |-> "away"]
  /\ request = [c \in Clients |-> 0]
  /\ asked = [c \in Clients |-> [n \in Requests |-> "none"]]
  /\ sent = [c \in Clients |-> "none"]
  /\ worker = [c \in Clients |-> "none"]
  /\ held = [c \in Clients |-> {}]
  /\ refused = {}

-----------------------------------------------------------------------------
(* The server: main and a handler per client *)

Goto(c, from, to) == handler[c] = from /\ handler' = [handler EXCEPT ![c] = to]

\* accept(); with a full table it fails, and main tries again.
Accept(c) ==
  /\ serverUp /\ ~ Full
  /\ Goto(c, "away", "top")
  /\ table' = table \cup {Connection(c)}
  /\ UNCHANGED <<serverUp, request, asked, sent, worker, held, refused>>

\* Mutant: the server opens the FIFOs of the request, for both directions,
\* before it forks.
InheritedWithOwn(c) == (table \ Reserved) \cup {Request(c, request[c] + 1)}

\* What a child forked for the next request of c gets.
Inherited(c) == table \ Reserved

\* A request is read and a worker forked, which exits if it has no descriptor
\* left for its first open().
Ask(c, operation) ==
  /\ Goto(c, "top", "open response")
  /\ request[c] < MaxRequests
  /\ request' = [request EXCEPT ![c] = request[c] + 1]
  /\ asked' = [asked EXCEPT ![c][request[c] + 1] = operation]
  /\ sent' = [sent EXCEPT ![c] = "none"]
  /\ held' = [held EXCEPT ![c] = Inherited(c)]
  /\ IF Cardinality(Inherited(c)) >= MaxDescriptors
       THEN worker' = [worker EXCEPT ![c] = "ended"] /\ refused' = refused \cup {c}
       ELSE worker' = [worker EXCEPT ![c] = "response"] /\ UNCHANGED refused
  /\ UNCHANGED <<serverUp, table>>

\* The client said -1 or is gone.
Leave(c) ==
  /\ Goto(c, "top", "left")
  /\ table' = table \ {Connection(c)}
  /\ UNCHANGED <<serverUp, request, asked, sent, worker, held, refused>>

\* open() of the response FIFO takes a descriptor and waits, or fails at once;
\* the handler then goes on without it.
OpenResponse(c) ==
  /\ \/ /\ ~ Full /\ Goto(c, "open response", "opening response")
        /\ table' = table \cup {ResponseEnd(c)}
        /\ UNCHANGED refused
     \/ /\ Full /\ Goto(c, "open response", "open request")
        /\ refused' = refused \cup {c}
        /\ UNCHANGED table
  /\ UNCHANGED <<serverUp, request, asked, sent, worker, held>>

\* The same of the request FIFO.
OpenRequest(c) ==
  /\ \/ /\ ~ Full /\ Goto(c, "open request", "opening request")
        /\ table' = table \cup {RequestEnd(c)}
        /\ UNCHANGED refused
     \/ /\ Full /\ Goto(c, "open request", "send")
        /\ refused' = refused \cup {c}
        /\ UNCHANGED table
  /\ UNCHANGED <<serverUp, request, asked, sent, worker, held>>

\* Both sides are in open() of the response FIFO.  A worker without a descriptor
\* left for the next exits; that of a multiplication does not look, and may go on
\* with dimensions it never read.
ResponseOpens(c) ==
  /\ Goto(c, "opening response", "open request")
  /\ worker[c] = "response"
  /\ \/ /\ Cardinality(held[c]) + 1 < MaxDescriptors
        /\ worker' = [worker EXCEPT ![c] = "request"]
        /\ UNCHANGED refused
     \/ /\ Cardinality(held[c]) + 1 >= MaxDescriptors
        /\ \/ worker' = [worker EXCEPT ![c] = "ended"]
           \/ /\ asked[c][request[c]] = "multiplication"
              /\ worker' = [worker EXCEPT ![c] = "garbage"]
        /\ refused' = refused \cup {c}
  /\ UNCHANGED <<serverUp, table, request, asked, sent, held>>

RequestOpens(c) ==
  /\ Goto(c, "opening request", "send")
  /\ worker[c] = "request"
  /\ worker' = [worker EXCEPT ![c] = "read"]
  /\ UNCHANGED <<serverUp, table, request, asked, sent, held, refused>>

\* A write() to descriptor -1 fails and nobody looks.
Send(c) ==
  /\ Goto(c, "send", "receive")
  /\ sent' = [sent EXCEPT ![c] = IF RequestEnd(c) \in table THEN "asked" ELSE @]
  /\ UNCHANGED <<serverUp, table, request, asked, worker, held, refused>>

\* Mutant: the response FIFO was opened with O_NONBLOCK.
ReceiveEarly(c) ==
  /\ Goto(c, "receive", "close")
  /\ UNCHANGED <<serverUp, table, request, asked, sent, worker, held, refused>>

\* The read() of the answer returns with it, or with garbage, at the end of file,
\* which is the end of the worker, or at once from descriptor -1; the client is
\* then sent what is in the array.
Receive(c) ==
  /\ Goto(c, "receive", "close")
  /\ ResponseEnd(c) \in table => sent[c] = "answered" \/ worker[c] \in {"garbage", "ended"}
  /\ UNCHANGED <<serverUp, table, request, asked, sent, worker, held, refused>>

\* Mutant: every operation closes one end only.
CloseOne(c) ==
  /\ Goto(c, "close", "reap")
  /\ table' = table \ {RequestEnd(c)}
  /\ UNCHANGED <<serverUp, request, asked, sent, worker, held, refused>>

\* A multiplication closes nothing.
Close(c) ==
  /\ Goto(c, "close", "reap")
  /\ table' = IF asked[c][request[c]] = "multiplication" THEN table
              ELSE table \ {RequestEnd(c), ResponseEnd(c)}
  /\ UNCHANGED <<serverUp, request, asked, sent, worker, held, refused>>

\* waitpid().
Reap(c) ==
  /\ Goto(c, "reap", "top")
  /\ worker[c] = "ended"
  /\ worker' = [worker EXCEPT ![c] = "none"]
  /\ held' = [held EXCEPT ![c] = {}]
  /\ UNCHANGED <<serverUp, table, request, asked, sent, refused>>

\* A signal ends the server: SIGINT, or the SIGPIPE of any handler.
End ==
  /\ ServerMayEnd /\ serverUp
  /\ serverUp' = FALSE
  /\ table' = {}
  /\ handler' = [c \in Clients |-> "gone"]
  /\ UNCHANGED <<request, asked, sent, worker, held, refused>>

-----------------------------------------------------------------------------
(* The worker *)

\* Mutant: the worker reads to the end of the file before it computes.
WorkerReadsToEnd(c) ==
  /\ worker[c] = "read" /\ sent[c] = "asked"
  /\ ~ Held(RequestEnd(c))
  /\ sent' = [sent EXCEPT ![c] = "answered"]
  /\ worker' = [worker EXCEPT ![c] = "ended"]
  /\ UNCHANGED <<serverUp, table, handler, request, asked, held, refused>>

\* The request is read, the result computed and written, and the worker ends.
WorkerRead(c) ==
  /\ worker[c] = "read" /\ sent[c] = "asked"
  /\ sent' = [sent EXCEPT ![c] = "answered"]
  /\ worker' = [worker EXCEPT ![c] = "ended"]
  /\ UNCHANGED <<serverUp, table, handler, request, asked, held, refused>>

\* read() meets the end of the file when nobody holds the other end.  The
\* dimensions are then whatever was on the stack: the worker fails, or has a
\* result of any size to write.
WorkerEof(c) ==
  /\ worker[c] = "read" /\ sent[c] = "none"
  /\ ~ Held(RequestEnd(c))
  /\ \E outcome \in {"ended", "garbage"} : worker' = [worker EXCEPT ![c] = outcome]
  /\ UNCHANGED <<serverUp, table, handler, request, asked, sent, held, refused>>

\* A result larger than the FIFO: SIGPIPE when the last reader is gone.
WorkerGarbage(c) ==
  /\ worker[c] = "garbage"
  /\ ~ Held(ResponseEnd(c))
  /\ worker' = [worker EXCEPT ![c] = "ended"]
  /\ UNCHANGED <<serverUp, table, handler, request, asked, sent, held, refused>>

-----------------------------------------------------------------------------

\* What a handler does of itself, once it has a request.
Handle(c) ==
  \/ OpenResponse(c) \/ ResponseOpens(c) \/ OpenRequest(c) \/ RequestOpens(c)
  \/ Send(c) \/ Receive(c) \/ Close(c) \/ Reap(c)

Work(c) == WorkerRead(c) \/ WorkerEof(c) \/ WorkerGarbage(c)

Next ==
  \/ \E c \in Clients :
       \/ Accept(c) \/ Leave(c) \/ Handle(c) \/ Work(c)
       \/ \E operation \in Operations : Ask(c, operation)
  \/ End

Spec == Init /\ [][Next]_vars

\* The scheduler runs every handler and every worker.  A client need neither
\* connect, nor ask, nor leave.
FairSpec == Spec /\ \A c \in Clients : WF_vars(Handle(c)) /\ WF_vars(Work(c))

-----------------------------------------------------------------------------

\* While no open() failed for a client it is sent the answer of its worker, and
\* never the zeroes of a fresh matrix (server.c:213, 299, 392).
AnswersAreRight ==
  \A c \in Clients :
    handler[c] \in {"close", "reap"} /\ c \notin refused => sent[c] = "answered"

\* The FIFO ends that multiplications left open.
Leaked ==
  {f \in table : \E c \in Clients, n \in Requests :
     /\ f \in {Response(c, n), Request(c, n)}
     /\ asked[c][n] = "multiplication"
     /\ n < request[c] \/ handler[c] \in {"reap", "top", "left"}}

\* Three descriptors per client are enough for ever, but for what the
\* multiplications leak: no open() fails, in the server or in a worker with its
\* copy of the table, before they have used up all the others.
LimitNeedsLeaks ==
  serverUp /\ refused # {} =>
    Cardinality(Leaked) > MaxDescriptors - 3 * Cardinality(Clients)

\* Of any workers there is one whose request FIFO none of them holds the server's
\* end of: when the server is gone it sees the end of the file, and they end one
\* after the other.
NoCircularHold ==
  \A some \in SUBSET {c \in Clients : Working(c)} :
    some # {} => \E c \in some : \A d \in some : RequestEnd(c) \notin held[d]

\* A request returns, unless an open() failed for it: whatever other clients
\* do, and whatever their workers hold.
RequestsReturn ==
  \A c \in Clients :
    handler[c] = "open response" ~>
      handler[c] \in {"top", "gone"} \/ c \in refused

\* Workers do not outlive the server for ever, unless one of them is in open():
\* nobody will open the other side, and what it inherited keeps the others
\* waiting too.
OrphansEnd ==
  ~ serverUp ~>
    \/ \A c \in Clients : ~ Working(c)
    \/ \E c \in Clients : worker[c] \in {"response", "request"}

-----------------------------------------------------------------------------
(* The inductive invariant behind AnswersAreRight and NoCircularHold *)

Serving(c) == handler[c] \notin {"away", "top", "left", "gone"}

\* Nobody has a FIFO of a request that was not made yet.
Fresh ==
  /\ \A c \in Clients : Serving(c) => request[c] \in Requests
  /\ \A c \in Clients, n \in Requests : request[c] < n =>
       Request(c, n) \notin table /\ \A d \in Clients : Request(c, n) \notin held[d]

\* How far handler, worker and data of a request can be apart, while no open()
\* failed for its client.
Together(c) ==
  /\ handler[c] \in {"open response", "opening response"} =>
       worker[c] = "response" /\ sent[c] = "none"
  /\ handler[c] \in {"open request", "opening request"} =>
       worker[c] = "request" /\ sent[c] = "none"
  /\ handler[c] = "send" => worker[c] = "read" /\ sent[c] = "none"
  /\ handler[c] = "receive" =>
       \/ worker[c] = "read" /\ sent[c] = "asked"
       \/ worker[c] = "ended" /\ sent[c] = "answered"
  /\ handler[c] \in {"close", "reap"} => sent[c] = "answered"
  /\ handler[c] \in {"opening response", "open request", "opening request", "send", "receive"} =>
       ResponseEnd(c) \in table
  /\ handler[c] \in {"opening request", "send", "receive"} => RequestEnd(c) \in table

InStep == \A c \in Clients \ refused : Together(c)

Inductive == TypeOK /\ Fresh /\ InStep /\ NoCircularHold

=============================================================================
