-------------------------- MODULE DescriptorsProofs --------------------------
(***************************************************************************)
(* For any number of clients, requests and descriptors: a client for whom  *)
(* no open() failed is answered rightly, the workers that inherited each   *)
(* other's descriptors do not hold them in a circle, and an open() fails   *)
(* only when multiplications have leaked enough.                           *)
(*                                                                         *)
(* For any number of queries and daemon-starts: daemon-stop finds the      *)
(* worker of the search daemon, and a query that runs alone has its own    *)
(* answer.                                                                 *)
(***************************************************************************)
EXTENDS MCDescriptors, FiniteSetTheorems, SequenceTheorems, TLAPS

-----------------------------------------------------------------------------
(* The inductive invariant *)

\* The files of different clients, requests and ends are different.
LEMMA FilesDiffer ==
  ASSUME NEW c \in Clients, NEW d \in Clients, NEW m, NEW n
  PROVE  /\ Connection(c) # Request(d, n) /\ Connection(c) # Response(d, n)
         /\ Request(c, m) # Response(d, n)
         /\ Request(c, m) = Request(d, n) => c = d /\ m = n
         /\ Response(c, m) = Response(d, n) => c = d /\ m = n
  BY DEF Connection, Request, Response

\* A connection and the ends of a request are files.
LEMMA FilesOf ==
  ASSUME NEW c \in Clients
  PROVE  /\ Connection(c) \in Files
         /\ \A n \in Requests : Response(c, n) \in Files /\ Request(c, n) \in Files
  BY DEF Files

\* The invariant holds before the first client connects.
LEMMA InitInvariant == Init => Inductive
<1> SUFFICES ASSUME Init PROVE Inductive
  OBVIOUS
<1> USE DEF Init
<1>1. TypeOK
  BY DescriptorsAssumption DEF TypeOK
<1>2. Fresh /\ InStep
  BY DEF Fresh, InStep, Together, Serving
<1>3. NoCircularHold
  BY DEF NoCircularHold, Working
<1> QED
  BY <1>1, <1>2, <1>3 DEF Inductive

\* Every step is typed.
LEMMA TypeKept == Inductive /\ [Next]_vars => TypeOK'
<1> SUFFICES ASSUME Inductive, [Next]_vars PROVE TypeOK'
  OBVIOUS
<1> USE DescriptorsAssumption DEF Inductive, TypeOK, Goto
<1>1. ASSUME NEW c \in Clients, Serving(c) PROVE {ResponseEnd(c), RequestEnd(c)} \subseteq Files
  BY <1>1, FilesOf DEF Fresh, ResponseEnd, RequestEnd
<1>2. ASSUME NEW c \in Clients, Accept(c) PROVE TypeOK'
  BY <1>2, FilesOf DEF Accept
<1>3. ASSUME NEW c \in Clients, NEW operation \in Operations, Ask(c, operation) PROVE TypeOK'
  <2> USE <1>3 DEF Ask
  <2>1. request[c] + 1 \in Requests
    <3>1. request[c] \in 0 .. MaxRequests /\ MaxRequests \in Nat /\ request[c] < MaxRequests
      OBVIOUS
    <3> QED
      BY ONLY <3>1 DEF Requests
  <2>2. asked' \in [Clients -> [Requests -> Operations \cup {"none"}]]
    BY <2>1
  <2>3. held' \in [Clients -> SUBSET Files]
    BY DEF Inherited
  <2>4. request' \in [Clients -> 0 .. MaxRequests]
    <3>1. Requests \subseteq 0 .. MaxRequests
      BY ONLY DEF Requests
    <3> QED
      BY <2>1, <3>1
  <2>5. /\ handler' = [handler EXCEPT ![c] = "open response"]
        /\ sent' = [sent EXCEPT ![c] = "none"]
        /\ UNCHANGED <<serverUp, table>>
    OBVIOUS
  <2>6. \/ worker' = [worker EXCEPT ![c] = "ended"] /\ refused' = refused \cup {c}
        \/ worker' = [worker EXCEPT ![c] = "response"] /\ refused' = refused
    OBVIOUS
  <2> QED
    BY <2>2, <2>3, <2>4, <2>5, <2>6
<1>4. ASSUME NEW c \in Clients, Leave(c) PROVE TypeOK'
  BY <1>4 DEF Leave
<1>5. ASSUME NEW c \in Clients, Handle(c) PROVE TypeOK'
  <2>1. CASE OpenResponse(c)
    BY <1>1, <2>1 DEF OpenResponse, Serving
  <2>2. CASE OpenRequest(c)
    BY <1>1, <2>2 DEF OpenRequest, Serving
  <2>3. CASE ResponseOpens(c)
    BY <2>3 DEF ResponseOpens
  <2>4. CASE RequestOpens(c) \/ Send(c) \/ Receive(c)
    BY <2>4 DEF RequestOpens, Send, Receive
  <2>5. CASE Close(c) \/ Reap(c)
    BY <2>5 DEF Close, Reap
  <2> QED
    BY <1>5, <2>1, <2>2, <2>3, <2>4, <2>5 DEF Handle
<1>6. ASSUME NEW c \in Clients, Work(c) PROVE TypeOK'
  BY <1>6 DEF Work, WorkerRead, WorkerEof, WorkerGarbage
<1>7. CASE End
  BY <1>7 DEF End
<1>8. CASE UNCHANGED vars
  BY <1>8 DEF vars
<1> QED
  BY <1>2, <1>3, <1>4, <1>5, <1>6, <1>7, <1>8 DEF Next

\* No step gives anybody a FIFO of a request to come.
LEMMA FreshKept == Inductive /\ [Next]_vars => Fresh'
<1> SUFFICES ASSUME Inductive, [Next]_vars PROVE Fresh'
  OBVIOUS
<1> USE DEF Inductive, Goto
<1>1. ASSUME NEW c \in Clients, NEW operation \in Operations, Ask(c, operation) PROVE Fresh'
  <2>1. /\ handler' = [handler EXCEPT ![c] = "open response"]
        /\ request' = [request EXCEPT ![c] = request[c] + 1]
        /\ held' = [held EXCEPT ![c] = Inherited(c)] /\ table' = table
        /\ request[c] < MaxRequests
    BY <1>1 DEF Ask
  <2>2. request[c] + 1 \in Requests
    <3>1. request[c] \in 0 .. MaxRequests /\ MaxRequests \in Nat /\ request[c] < MaxRequests
      BY <2>1, DescriptorsAssumption DEF TypeOK
    <3> QED
      BY ONLY <3>1 DEF Requests
  <2>3. \A d \in Clients : Serving(d)' => request'[d] \in Requests
    BY <2>1, <2>2 DEF TypeOK, Fresh, Serving
  <2>4. ASSUME NEW d \in Clients, NEW n \in Requests, request'[d] < n
        PROVE  Request(d, n) \notin table' /\ \A e \in Clients : Request(d, n) \notin held'[e]
    <3>1. request[d] < n
      <4>1. /\ request[c] \in 0 .. MaxRequests /\ n \in 1 .. MaxRequests
            /\ MaxRequests \in Nat /\ request'[d] < n
        BY <2>4, DescriptorsAssumption DEF TypeOK, Requests
      <4>2. request'[d] = IF d = c THEN request[c] + 1 ELSE request[d]
        BY <2>1 DEF TypeOK
      <4> QED
        BY ONLY <4>1, <4>2
    <3>2. Request(d, n) \notin table /\ \A e \in Clients : Request(d, n) \notin held[e]
      BY <3>1 DEF Fresh
    <3>3. Inherited(c) \subseteq table
      BY DEF Inherited
    <3> QED
      BY <2>1, <3>2, <3>3 DEF TypeOK
  <2> QED
    BY <2>3, <2>4 DEF Fresh
<1>2. ASSUME NEW c \in Clients, Accept(c) PROVE Fresh'
  <2>1. \A d \in Clients, n \in Requests : Connection(c) # Request(d, n)
    BY FilesDiffer
  <2> QED
    BY <1>2, <2>1 DEF Accept, TypeOK, Fresh, Serving
<1>3. ASSUME NEW c \in Clients, OpenResponse(c) PROVE Fresh'
  <2>1. \A d \in Clients, n \in Requests : ResponseEnd(c) # Request(d, n)
    BY FilesDiffer DEF ResponseEnd
  <2> QED
    BY <1>3, <2>1 DEF OpenResponse, TypeOK, Fresh, Serving
<1>4. ASSUME NEW c \in Clients, OpenRequest(c) PROVE Fresh'
  <2>1. request[c] \in Requests
    BY <1>4 DEF OpenRequest, Fresh, Serving
  <2>2. \A d \in Clients, n \in Requests : RequestEnd(c) = Request(d, n) => ~ (request[d] < n)
    BY <2>1, FilesDiffer DEF RequestEnd, Requests
  <2>3. table' \subseteq table \cup {RequestEnd(c)} /\ UNCHANGED <<request, held>>
    BY <1>4 DEF OpenRequest
  <2>4. \A d \in Clients : Serving(d)' => Serving(d)
    BY <1>4 DEF OpenRequest, TypeOK, Serving
  <2> QED
    BY <2>2, <2>3, <2>4 DEF Fresh
<1>5. ASSUME NEW c \in Clients,
             Leave(c) \/ ResponseOpens(c) \/ RequestOpens(c) \/ Send(c) \/ Receive(c) \/ Close(c)
      PROVE  Fresh'
  <2>1. table' \subseteq table /\ UNCHANGED <<request, held>>
    BY <1>5 DEF Leave, ResponseOpens, RequestOpens, Send, Receive, Close
  <2>2. \A d \in Clients : Serving(d)' => Serving(d)
    BY <1>5 DEF Leave, ResponseOpens, RequestOpens, Send, Receive, Close, TypeOK, Serving
  <2> QED
    BY <2>1, <2>2 DEF Fresh
<1>6. ASSUME NEW c \in Clients, Reap(c) PROVE Fresh'
  BY <1>6 DEF Reap, TypeOK, Fresh, Serving
<1>7. ASSUME NEW c \in Clients, Work(c) PROVE Fresh'
  BY <1>7 DEF Work, WorkerRead, WorkerEof, WorkerGarbage, Fresh, Serving
<1>8. CASE End
  BY <1>8 DEF End, Fresh, Serving
<1>9. CASE UNCHANGED vars
  BY <1>9 DEF vars, Fresh, Serving
<1> QED
  BY <1>1, <1>2, <1>3, <1>4, <1>5, <1>6, <1>7, <1>8, <1>9 DEF Next, Handle

\* A step of one client's handler or worker leaves the request of another alone.
LEMMA OthersKeepTogether ==
  ASSUME Inductive, NEW c \in Clients, NEW d \in Clients, c # d, Together(d),
         \/ Accept(c) \/ Leave(c) \/ Handle(c) \/ Work(c)
         \/ \E operation \in Operations : Ask(c, operation)
  PROVE  Together(d)'
<1> DEFINE Untouched ==
      /\ handler'[d] = handler[d] /\ worker'[d] = worker[d] /\ sent'[d] = sent[d]
      /\ request'[d] = request[d]
      /\ table \ {Connection(c), RequestEnd(c), ResponseEnd(c)} \subseteq table'
<1>1. Untouched
  <2> USE DEF Inductive, TypeOK, Goto
  <2>1. CASE Accept(c) \/ Leave(c)
    BY <2>1 DEF Accept, Leave
  <2>2. CASE OpenResponse(c) \/ OpenRequest(c)
    BY <2>2 DEF OpenResponse, OpenRequest
  <2>3. CASE ResponseOpens(c)
    BY <2>3 DEF ResponseOpens
  <2>4. CASE RequestOpens(c) \/ Send(c) \/ Receive(c)
    BY <2>4 DEF RequestOpens, Send, Receive
  <2>5. CASE Close(c) \/ Reap(c)
    BY <2>5 DEF Close, Reap
  <2>6. CASE Work(c)
    BY <2>6 DEF Work, WorkerRead, WorkerEof, WorkerGarbage
  <2>7. CASE \E operation \in Operations : Ask(c, operation)
    <3> PICK operation \in Operations : Ask(c, operation)
      BY <2>7
    <3>1. /\ handler' = [handler EXCEPT ![c] = "open response"]
          /\ request' = [request EXCEPT ![c] = request[c] + 1]
          /\ sent' = [sent EXCEPT ![c] = "none"] /\ table' = table
          /\ \E w : worker' = [worker EXCEPT ![c] = w]
      BY DEF Ask
    <3> QED
      BY <3>1
  <2> QED
    BY <2>1, <2>2, <2>3, <2>4, <2>5, <2>6, <2>7 DEF Handle
<1>4. /\ ResponseEnd(d) \notin {Connection(c), RequestEnd(c), ResponseEnd(c)}
      /\ RequestEnd(d) \notin {Connection(c), RequestEnd(c), ResponseEnd(c)}
  BY FilesDiffer DEF ResponseEnd, RequestEnd
<1>5. ResponseEnd(d)' = ResponseEnd(d) /\ RequestEnd(d)' = RequestEnd(d)
  BY <1>1 DEF ResponseEnd, RequestEnd
<1>6. /\ ResponseEnd(d) \in table => ResponseEnd(d)' \in table'
      /\ RequestEnd(d) \in table => RequestEnd(d)' \in table'
  BY <1>1, <1>4, <1>5
<1> QED
  BY <1>1, <1>6 DEF Together

\* A step of a client's own handler, unless an open() fails in it.
LEMMA HandlerKeepsTogether ==
  ASSUME Inductive, NEW c \in Clients, Together(c), c \notin refused',
         \/ Accept(c) \/ Leave(c) \/ Handle(c)
         \/ \E operation \in Operations : Ask(c, operation)
  PROVE  Together(c)'
<1> USE DEF Inductive, TypeOK, Goto
<1>1. CASE Accept(c) \/ Leave(c) \/ Reap(c)
  BY <1>1 DEF Accept, Leave, Reap, Together
<1>2. CASE \E operation \in Operations : Ask(c, operation)
  <2> PICK operation \in Operations : Ask(c, operation)
    BY <1>2
  <2>1. handler'[c] = "open response" /\ sent'[c] = "none"
    BY DEF Ask
  <2>2. worker'[c] = "response"
    BY DEF Ask
  <2> QED
    BY <2>1, <2>2 DEF Together
<1>3. CASE OpenResponse(c)
  BY <1>3 DEF OpenResponse, Together, ResponseEnd
<1>4. CASE ResponseOpens(c)
  BY <1>4 DEF ResponseOpens, Together, ResponseEnd
<1>5. CASE OpenRequest(c)
  BY <1>5 DEF OpenRequest, Together, ResponseEnd, RequestEnd
<1>6. CASE RequestOpens(c)
  BY <1>6 DEF RequestOpens, Together, ResponseEnd, RequestEnd
<1>7. CASE Send(c)
  BY <1>7 DEF Send, Together, ResponseEnd, RequestEnd
<1>8. CASE Receive(c)
  BY <1>8 DEF Receive, Together
<1>9. CASE Close(c)
  BY <1>9 DEF Close, Together
<1> QED
  BY <1>1, <1>2, <1>3, <1>4, <1>5, <1>6, <1>7, <1>8, <1>9 DEF Handle

\* A step of its worker, for which the handler still has the other end open.
LEMMA WorkerKeepsTogether ==
  ASSUME Inductive, NEW c \in Clients, Together(c), Work(c)
  PROVE  Together(c)'
<1> USE DEF Inductive, TypeOK
<1>1. CASE WorkerRead(c)
  BY <1>1 DEF WorkerRead, Together, ResponseEnd, RequestEnd
<1>2. CASE WorkerEof(c)
  <2>1. RequestEnd(c) \notin table /\ worker[c] = "read" /\ sent[c] = "none"
    BY <1>2 DEF WorkerEof, Held
  <2>2. handler[c] \in {"away", "top", "left", "gone"}
    BY <2>1 DEF Together
  <2> QED
    BY <1>2, <2>2 DEF WorkerEof, Together
<1>3. CASE WorkerGarbage(c)
  BY <1>3 DEF WorkerGarbage, Together, ResponseEnd, RequestEnd
<1> QED
  BY <1>1, <1>2, <1>3 DEF Work

\* Handlers and workers stay together, whoever takes a step.
LEMMA InStepKept == Inductive /\ [Next]_vars => InStep'
<1> SUFFICES ASSUME Inductive, [Next]_vars PROVE InStep'
  OBVIOUS
<1>1. ASSUME NEW c \in Clients,
             \/ Accept(c) \/ Leave(c) \/ Handle(c) \/ Work(c)
             \/ \E operation \in Operations : Ask(c, operation)
      PROVE  InStep'
  <2>1. refused \subseteq refused'
    <3>1. CASE Handle(c)
      BY <3>1 DEF Handle, OpenResponse, ResponseOpens, OpenRequest, RequestOpens, Send, Receive,
                  Close, Reap
    <3>2. CASE Accept(c) \/ Leave(c) \/ Work(c)
      BY <3>2 DEF Accept, Leave, Work, WorkerRead, WorkerEof, WorkerGarbage
    <3>3. CASE \E operation \in Operations : Ask(c, operation)
      BY <3>3 DEF Ask
    <3> QED
      BY <1>1, <3>1, <3>2, <3>3
  <2>2. ASSUME NEW d \in Clients, d \notin refused' PROVE Together(d)'
    <3>1. Together(d)
      BY <2>1, <2>2 DEF Inductive, InStep
    <3>2. CASE d # c
      BY <1>1, <3>1, <3>2, OthersKeepTogether
    <3>3. CASE d = c
      BY <1>1, <2>2, <3>1, <3>3, HandlerKeepsTogether, WorkerKeepsTogether
    <3> QED
      BY <3>2, <3>3
  <2> QED
    BY <2>2 DEF InStep
<1>2. CASE End
  BY <1>2 DEF End, InStep, Together
<1>3. CASE UNCHANGED vars
  BY <1>3 DEF vars, Inductive, InStep, Together, ResponseEnd, RequestEnd
<1> QED
  BY <1>1, <1>2, <1>3 DEF Next

\* A worker that is forked is the one nobody else waits for; no other step gives
\* a worker anything.
LEMMA HoldsKept == Inductive /\ [Next]_vars => NoCircularHold'
<1> SUFFICES ASSUME Inductive, [Next]_vars PROVE NoCircularHold'
  OBVIOUS
<1> USE DEF Inductive
<1>1. ASSUME NEW c \in Clients, NEW operation \in Operations, Ask(c, operation)
      PROVE  NoCircularHold'
  <2>1. /\ request' = [request EXCEPT ![c] = request[c] + 1]
        /\ held' = [held EXCEPT ![c] = Inherited(c)]
        /\ request[c] < MaxRequests
        /\ \E w : worker' = [worker EXCEPT ![c] = w]
    BY <1>1 DEF Ask
  <2> DEFINE n == request[c] + 1
  <2>2. n \in Requests /\ request[c] < n
    <3>1. request[c] \in 0 .. MaxRequests /\ MaxRequests \in Nat /\ request[c] < MaxRequests
      BY <2>1, DescriptorsAssumption DEF TypeOK
    <3> QED
      BY ONLY <3>1 DEF Requests
  <2>3. RequestEnd(c)' = Request(c, n)
    BY <2>1 DEF RequestEnd, TypeOK
  <2> HIDE DEF n
  <2>4. \A d \in Clients : Request(c, n) \notin held'[d]
    BY <2>1, <2>2 DEF TypeOK, Fresh, Inherited
  <2>5. ASSUME NEW some \in SUBSET {d \in Clients : Working(d)'}, some # {}, c \notin some
        PROVE  \E d \in some : \A e \in some : RequestEnd(d)' \notin held'[e]
    <3>1. \A d \in some : d \in Clients /\ d # c
      BY <2>5
    <3>2. \A d \in some : Working(d) /\ RequestEnd(d)' = RequestEnd(d) /\ held'[d] = held[d]
      BY <2>1, <2>5, <3>1 DEF TypeOK, Working, RequestEnd
    <3>3. some \in SUBSET {d \in Clients : Working(d)}
      BY <3>1, <3>2
    <3> QED
      BY <2>5, <3>2, <3>3 DEF NoCircularHold
  <2>6. ASSUME NEW some \in SUBSET {d \in Clients : Working(d)'}, c \in some
        PROVE  \A e \in some : RequestEnd(c)' \notin held'[e]
    BY <2>3, <2>4, <2>6
  <2> QED
    BY <2>5, <2>6 DEF NoCircularHold
<1>2. ASSUME /\ request' = request
             /\ \A d \in Clients : held'[d] \subseteq held[d] /\ (Working(d)' => Working(d))
      PROVE  NoCircularHold'
  <2> SUFFICES ASSUME NEW some \in SUBSET {d \in Clients : Working(d)'}, some # {}
               PROVE  \E d \in some : \A e \in some : RequestEnd(d)' \notin held'[e]
    BY DEF NoCircularHold
  <2>1. some \in SUBSET {d \in Clients : Working(d)}
    BY <1>2
  <2>2. PICK d \in some : \A e \in some : RequestEnd(d) \notin held[e]
    BY <2>1 DEF NoCircularHold
  <2>3. RequestEnd(d)' = RequestEnd(d)
    BY <1>2 DEF RequestEnd
  <2> QED
    BY <1>2, <2>2, <2>3
<1>3. ASSUME NEW c \in Clients, Handle(c)
      PROVE  /\ request' = request
             /\ \A d \in Clients : held'[d] \subseteq held[d] /\ (Working(d)' => Working(d))
  BY <1>3 DEF Handle, OpenResponse, ResponseOpens, OpenRequest, RequestOpens, Send, Receive,
              Close, Reap, TypeOK, Working
<1>4. ASSUME NEW c \in Clients, Accept(c) \/ Leave(c) \/ Work(c)
      PROVE  /\ request' = request
             /\ \A d \in Clients : held'[d] \subseteq held[d] /\ (Working(d)' => Working(d))
  BY <1>4 DEF Accept, Leave, Work, WorkerRead, WorkerEof, WorkerGarbage, TypeOK, Working
<1>5. CASE End \/ UNCHANGED vars
  BY <1>2, <1>5 DEF End, vars, Working
<1> QED
  BY <1>1, <1>2, <1>3, <1>4, <1>5 DEF Next

\* The invariant the theorems below follow from.
LEMMA InductiveInvariant == Spec => []Inductive
<1>1. Inductive /\ [Next]_vars => Inductive'
  BY TypeKept, FreshKept, InStepKept, HoldsKept DEF Inductive
<1> QED
  BY <1>1, InitInvariant, PTL DEF Spec

-----------------------------------------------------------------------------
(* What it shows *)

\* For any number of clients, and whatever the others use up of the table, a
\* client for whom no open() failed is sent the answer of its worker.
THEOREM AnswersRight == Spec => []AnswersAreRight
<1>1. Inductive => AnswersAreRight
  BY DEF Inductive, InStep, Together, AnswersAreRight
<1> QED
  BY <1>1, InductiveInvariant, PTL

\* However many workers inherit each other's descriptors, they do not do so in a
\* circle: without a server they can all come to an end.
THEOREM NoCircle == Spec => []NoCircularHold
<1> QED
  BY InductiveInvariant, PTL DEF Inductive

\* The table and the places of handlers and workers have their types.
THEOREM TypeCorrect == Spec => []TypeOK
<1> QED
  BY InductiveInvariant, PTL DEF Inductive

-----------------------------------------------------------------------------
(* What the multiplications leak, and what is left for the others *)

\* An end of a request that is over is open only when a multiplication left it.
LeftOpen(c) ==
  \A n \in Requests :
    /\ {Response(c, n), Request(c, n)} \cap table # {}
    /\ n < request[c] \/ handler[c] \in {"away", "reap", "top", "left"}
    => asked[c][n] = "multiplication"

\* Nobody has the response FIFO of a request that was not made yet, either.
NoneAhead(c) == \A n \in Requests : request[c] < n => Response(c, n) \notin table

\* An end that is not opened yet is not there.
NotYet(c) ==
  /\ handler[c] = "open response" => ResponseEnd(c) \notin table
  /\ handler[c] \in {"open response", "opening response", "open request"} =>
       RequestEnd(c) \notin table

Ends == \A c \in Clients : LeftOpen(c) /\ NoneAhead(c) /\ NotYet(c)

\* What a worker that is to open its response FIFO inherited, the leaks of that
\* time included, without the two ends of its own request.
HeldCounted ==
  serverUp =>
    \A c \in Clients : worker[c] = "response" =>
      /\ Cardinality(held[c]) \in Nat
      /\ Cardinality(held[c]) + 2 <= Cardinality(Leaked) + 3 * Cardinality(Clients)

Counted == IsFiniteSet(table) /\ Ends /\ HeldCounted /\ LimitNeedsLeaks

\* Two finite sets are together no larger than their sizes.
LEMMA UnionSize ==
  ASSUME NEW S, IsFiniteSet(S), NEW T, IsFiniteSet(T)
  PROVE  /\ IsFiniteSet(S \cup T) /\ Cardinality(S \cup T) \in Nat
         /\ Cardinality(S) \in Nat /\ Cardinality(T) \in Nat
         /\ Cardinality(S \cup T) <= Cardinality(S) + Cardinality(T)
<1>1. IsFiniteSet(S \cup T) /\ IsFiniteSet(S \cap T)
  BY FS_Union, FS_Subset, S \cap T \in SUBSET S
<1>2. /\ Cardinality(S \cup T) \in Nat /\ Cardinality(S \cap T) \in Nat
      /\ Cardinality(S) \in Nat /\ Cardinality(T) \in Nat
  BY <1>1, FS_CardinalityType
<1>3. Cardinality(S \cup T) = Cardinality(S) + Cardinality(T) - Cardinality(S \cap T)
  BY FS_Union
<1> QED BY <1>1, <1>2, <1>3

\* Requests are numbers.
LEMMA Numbers ==
  ASSUME TypeOK, NEW c \in Clients, NEW n \in Requests
  PROVE  request[c] \in Int /\ n \in Int
<1>1. request[c] \in 0 .. MaxRequests /\ n \in 1 .. MaxRequests /\ MaxRequests \in Nat
  BY DescriptorsAssumption DEF TypeOK, Requests
<1> QED BY ONLY <1>1

\* A file of the server is a connection, an end of a request being served, or was
\* leaked.
LEMMA OwnOrLeaked ==
  ASSUME TypeOK, Fresh, Ends, NEW f \in table
  PROVE  \/ f \in Leaked
         \/ \E c \in Clients : f \in {Connection(c), ResponseEnd(c), RequestEnd(c)}
<1>1. CASE \E c \in Clients : f = Connection(c)
  BY <1>1
<1>2. ASSUME NEW c \in Clients, NEW n \in Requests, f \in {Response(c, n), Request(c, n)}
      PROVE  f \in Leaked \/ f \in {ResponseEnd(c), RequestEnd(c)}
  <2>1. request[c] \in Int /\ n \in Int
    BY Numbers
  <2>2. CASE n = request[c]
    BY <1>2, <2>2 DEF ResponseEnd, RequestEnd
  <2>3. CASE n < request[c]
    <3>1. asked[c][n] = "multiplication"
      BY <1>2, <2>3 DEF Ends, LeftOpen
    <3> QED BY <1>2, <2>3, <3>1, Zenon DEF Leaked
  <2>4. CASE request[c] < n
    BY <1>2, <2>4 DEF Fresh, Ends, NoneAhead
  <2> QED BY <2>1, <2>2, <2>3, <2>4
<1>3. f \in Files
  BY DEF TypeOK
<1>4. \/ \E c \in Clients : f = Connection(c)
      \/ \E c \in Clients, n \in Requests : f = Response(c, n)
      \/ \E c \in Clients, n \in Requests : f = Request(c, n)
  <2>1. \/ f \in {Connection(c) : c \in Clients}
        \/ f \in {Response(c, n) : c \in Clients, n \in Requests}
        \/ f \in {Request(c, n) : c \in Clients, n \in Requests}
    BY <1>3 DEF Files
  <2> QED BY <2>1
<1> QED BY <1>1, <1>2, <1>4

\* Of any files of the server: those that are not leaked are at most the
\* connections, and the ends that are among them.
LEMMA Within ==
  ASSUME TypeOK, Fresh, Ends, IsFiniteSet(table),
         NEW T \in SUBSET table, NEW R \in SUBSET Clients, NEW Q \in SUBSET Clients,
         \A c \in Clients : ResponseEnd(c) \in T \ Leaked => c \in R,
         \A c \in Clients : RequestEnd(c) \in T \ Leaked => c \in Q
  PROVE  /\ IsFiniteSet(T) /\ Cardinality(T) \in Nat /\ Cardinality(Leaked) \in Nat
         /\ Cardinality(T) <=
              Cardinality(Leaked) + Cardinality(Clients) + Cardinality(R) + Cardinality(Q)
<1> DEFINE conn == [c \in Clients |-> Connection(c)]
           resp == [c \in R |-> ResponseEnd(c)]
           req  == [c \in Q |-> RequestEnd(c)]
           Conns == {Connection(c) : c \in Clients}
           Resps == {ResponseEnd(c) : c \in R}
           Reqs  == {RequestEnd(c) : c \in Q}
<1>1. /\ IsFiniteSet(Clients) /\ IsFiniteSet(R) /\ IsFiniteSet(Q)
      /\ Cardinality(R) \in Nat /\ Cardinality(Q) \in Nat /\ Cardinality(Clients) \in Nat
  BY DescriptorsAssumption, FS_Subset, FS_CardinalityType
<1>2. /\ conn \in Surjection(Clients, Conns)
      /\ resp \in Surjection(R, Resps)
      /\ req \in Surjection(Q, Reqs)
  BY DEF Surjection
<1>3. T \subseteq ((Leaked \cup Conns) \cup Resps) \cup Reqs
  <2> SUFFICES ASSUME NEW f \in T PROVE f \in ((Leaked \cup Conns) \cup Resps) \cup Reqs
    OBVIOUS
  <2>1. CASE f \in Leaked
    BY <2>1
  <2>2. ASSUME NEW c \in Clients, f \notin Leaked,
               f \in {Connection(c), ResponseEnd(c), RequestEnd(c)}
        PROVE  f \in Conns \cup Resps \cup Reqs
    BY <2>2
  <2> QED BY <2>1, <2>2, OwnOrLeaked
<1> HIDE DEF conn, resp, req, Conns, Resps, Reqs
<1>4. IsFiniteSet(Conns) /\ Cardinality(Conns) \in Nat /\ Cardinality(Conns) <= Cardinality(Clients)
  BY <1>1, <1>2, FS_Surjection, FS_CardinalityType
<1>5. IsFiniteSet(Resps) /\ Cardinality(Resps) \in Nat /\ Cardinality(Resps) <= Cardinality(R)
  BY <1>1, <1>2, FS_Surjection, FS_CardinalityType
<1>6. IsFiniteSet(Reqs) /\ Cardinality(Reqs) \in Nat /\ Cardinality(Reqs) <= Cardinality(Q)
  BY <1>1, <1>2, FS_Surjection, FS_CardinalityType
<1>7. IsFiniteSet(Leaked)
  BY FS_Subset, Leaked \in SUBSET table DEF Leaked
<1>8. /\ IsFiniteSet(Leaked \cup Conns)
      /\ Cardinality(Leaked \cup Conns) \in Nat /\ Cardinality(Leaked) \in Nat
      /\ Cardinality(Leaked \cup Conns) <= Cardinality(Leaked) + Cardinality(Conns)
  BY <1>4, <1>7, UnionSize
<1>9. /\ IsFiniteSet((Leaked \cup Conns) \cup Resps)
      /\ Cardinality((Leaked \cup Conns) \cup Resps) \in Nat
      /\ Cardinality((Leaked \cup Conns) \cup Resps) <=
           Cardinality(Leaked \cup Conns) + Cardinality(Resps)
  BY <1>5, <1>8, UnionSize
<1>10. /\ IsFiniteSet(((Leaked \cup Conns) \cup Resps) \cup Reqs)
       /\ Cardinality(((Leaked \cup Conns) \cup Resps) \cup Reqs) \in Nat
       /\ Cardinality(((Leaked \cup Conns) \cup Resps) \cup Reqs) <=
            Cardinality((Leaked \cup Conns) \cup Resps) + Cardinality(Reqs)
  BY <1>6, <1>9, UnionSize
<1>11. /\ IsFiniteSet(T) /\ Cardinality(T) \in Nat
       /\ Cardinality(T) <= Cardinality(((Leaked \cup Conns) \cup Resps) \cup Reqs)
  BY <1>3, <1>10, FS_Subset, FS_CardinalityType
<1> QED BY <1>1, <1>4, <1>5, <1>6, <1>8, <1>9, <1>10, <1>11

\* A multiplication leaks for good, and nothing else unleaks: what is leaked stays
\* so while the server lives.
LEMMA LeaksStay ==
  ASSUME Inductive, Counted, [Next]_vars, serverUp'
  PROVE  Leaked \subseteq Leaked'
<1> SUFFICES ASSUME NEW f \in Leaked PROVE f \in Leaked'
  OBVIOUS
<1>0. PICK c \in Clients, n \in Requests :
        /\ f \in {Response(c, n), Request(c, n)} /\ asked[c][n] = "multiplication"
        /\ n < request[c] \/ handler[c] \in {"reap", "top", "left"}
  BY DEF Leaked
<1> DEFINE Still == /\ f \in table' /\ asked'[c][n] = "multiplication"
                    /\ n < request'[c] \/ handler'[c] \in {"reap", "top", "left"}
<1> SUFFICES Still
  BY <1>0 DEF Leaked
<1> USE DEF Inductive, Goto
<1>1. /\ request[c] \in Int /\ n \in Int /\ n <= request[c] /\ f \in table
      /\ n = request[c] => handler[c] \in {"reap", "top", "left"}
  <2>1. request[c] \in Int /\ n \in Int /\ f \in table
    BY Numbers DEF Leaked
  <2> QED BY <1>0, <2>1 DEF Fresh, Counted, Ends, NoneAhead
<1>2. \A d \in Clients : f # Connection(d)
  BY <1>0, FilesDiffer
<1>3. \A d \in Clients : f = ResponseEnd(d) \/ f = RequestEnd(d) => d = c /\ n = request[c]
  BY <1>0, FilesDiffer DEF ResponseEnd, RequestEnd
<1> USE DEF TypeOK
<1>4. ASSUME NEW d \in Clients, NEW operation \in Operations, Ask(d, operation)
      PROVE  Still
  <2>1. /\ table' = table /\ request' = [request EXCEPT ![d] = request[d] + 1]
        /\ asked' = [asked EXCEPT ![d][request[d] + 1] = operation]
        /\ handler' = [handler EXCEPT ![d] = "open response"]
    BY <1>4 DEF Ask
  <2>2. CASE d = c
    <3>1. request'[c] = request[c] + 1
      BY <2>1, <2>2
    <3>2. n # request[c] + 1
      BY ONLY <1>1
    <3>3. asked'[c][n] = asked[c][n]
      <4>1. asked'[c] = [asked[c] EXCEPT ![request[c] + 1] = operation]
        BY <2>1, <2>2
      <4> QED BY <3>2, <4>1
    <3>4. n < request'[c]
      BY ONLY <1>1, <3>1
    <3> QED BY <1>0, <1>1, <2>1, <3>3, <3>4
  <2>3. CASE d # c
    BY <1>0, <1>1, <2>1, <2>3
  <2> QED BY <2>2, <2>3
<1>5. ASSUME NEW d \in Clients, Accept(d) \/ Leave(d) \/ Reap(d)
      PROVE  Still
  BY <1>0, <1>1, <1>2, <1>5 DEF Accept, Leave, Reap
<1>6. ASSUME NEW d \in Clients,
             OpenResponse(d) \/ ResponseOpens(d) \/ OpenRequest(d) \/ RequestOpens(d) \/ Send(d)
               \/ Receive(d)
      PROVE  Still
  BY <1>0, <1>1, <1>6 DEF OpenResponse, ResponseOpens, OpenRequest, RequestOpens, Send, Receive
<1>7. ASSUME NEW d \in Clients, Close(d)
      PROVE  Still
  <2>1. handler[d] = "close"
    BY <1>7 DEF Close
  <2>2. f \in table'
    BY <1>1, <1>3, <1>7, <2>1 DEF Close
  <2> QED BY <1>0, <1>7, <2>2 DEF Close
<1>8. ASSUME NEW d \in Clients, Work(d)
      PROVE  Still
  BY <1>0, <1>1, <1>8 DEF Work, WorkerRead, WorkerEof, WorkerGarbage
<1>9. CASE End \/ UNCHANGED vars
  BY <1>0, <1>1, <1>9 DEF End, vars
<1> QED BY <1>4, <1>5, <1>6, <1>7, <1>8, <1>9 DEF Next, Handle

\* What a client without its own ends leaves for the leaks.
LEMMA Spare ==
  ASSUME Inductive, Counted, NEW T \in SUBSET table, NEW c \in Clients,
         RequestEnd(c) \notin T \ Leaked
  PROVE  /\ Cardinality(T) \in Nat /\ Cardinality(Leaked) \in Nat /\ Cardinality(Clients) \in Nat
         /\ Cardinality(T) + 1 <= Cardinality(Leaked) + 3 * Cardinality(Clients)
         /\ ResponseEnd(c) \notin T \ Leaked =>
              Cardinality(T) + 2 <= Cardinality(Leaked) + 3 * Cardinality(Clients)
<1>1. TypeOK /\ Fresh /\ Ends /\ IsFiniteSet(table)
  BY DEF Inductive, Counted
<1>2. /\ IsFiniteSet(Clients) /\ Cardinality(Clients) \in Nat
      /\ Clients \ {c} \in SUBSET Clients /\ Clients \in SUBSET Clients
      /\ Cardinality(Clients \ {c}) = Cardinality(Clients) - 1
  BY DescriptorsAssumption, FS_CardinalityType, FS_RemoveElement
<1>3. \A d \in Clients : RequestEnd(d) \in T \ Leaked => d \in Clients \ {c}
  OBVIOUS
<1>4. /\ Cardinality(T) \in Nat /\ Cardinality(Leaked) \in Nat
      /\ Cardinality(T) <= Cardinality(Leaked) + Cardinality(Clients) + Cardinality(Clients)
                             + Cardinality(Clients \ {c})
  BY <1>1, <1>2, <1>3, Within
<1>5. CASE ResponseEnd(c) \notin T \ Leaked
  <2>1. \A d \in Clients : ResponseEnd(d) \in T \ Leaked => d \in Clients \ {c}
    BY <1>5
  <2>2. Cardinality(T) <= Cardinality(Leaked) + Cardinality(Clients) + Cardinality(Clients \ {c})
                            + Cardinality(Clients \ {c})
    BY <1>1, <1>2, <1>3, <2>1, Within
  <2> QED BY <1>2, <1>4, <2>2
<1>6. CASE ResponseEnd(c) \in T \ Leaked
  BY <1>2, <1>4, <1>6
<1> QED BY <1>5, <1>6

\* The child forked for the next request of c inherits neither an end of it nor
\* one of the last request that was not leaked.
LEMMA InheritedCounted ==
  ASSUME Inductive, Counted, NEW c \in Clients, handler[c] = "top"
  PROVE  /\ Cardinality(Inherited(c)) \in Nat /\ Cardinality(Leaked) \in Nat
         /\ Cardinality(Clients) \in Nat
         /\ Cardinality(Inherited(c)) + 2 <= Cardinality(Leaked) + 3 * Cardinality(Clients)
<1>1. ASSUME NEW f \in {ResponseEnd(c), RequestEnd(c)}, f \in table PROVE f \in Leaked
  <2>1. request[c] \in Requests
    <3>1. f \in Files
      BY <1>1 DEF Inductive, TypeOK
    <3>2. \/ f \in {Connection(d) : d \in Clients}
          \/ f \in {Response(d, n) : d \in Clients, n \in Requests}
          \/ f \in {Request(d, n) : d \in Clients, n \in Requests}
      BY <3>1 DEF Files
    <3> QED BY <3>2, FilesDiffer DEF ResponseEnd, RequestEnd
  <2>2. asked[c][request[c]] = "multiplication"
    BY <1>1, <2>1 DEF Counted, Ends, LeftOpen, ResponseEnd, RequestEnd
  <2> QED BY <1>1, <2>1, <2>2 DEF Leaked, ResponseEnd, RequestEnd
<1>2. Inherited(c) \in SUBSET table
  BY DEF Inherited
<1> QED BY <1>1, <1>2, Spare

\* An open() that fails, of the server for want of a place in the table, or of a
\* worker for want of one in its copy, does so after enough leaks.
LEMMA RefusalCounted ==
  ASSUME Inductive, Counted, [Next]_vars, serverUp', refused' # {}
  PROVE  Cardinality(Leaked) > MaxDescriptors - 3 * Cardinality(Clients)
<1> DEFINE Enough == Cardinality(Leaked) > MaxDescriptors - 3 * Cardinality(Clients)
<1> USE DEF Goto
<1>1. MaxDescriptors \in Nat
  BY DescriptorsAssumption
<1>2. serverUp
  BY DEF Next, Accept, Ask, Leave, Handle, OpenResponse, ResponseOpens, OpenRequest, RequestOpens,
     Send, Receive, Close, Reap, Work, WorkerRead, WorkerEof, WorkerGarbage, End, vars
<1>3. CASE refused # {}
  BY <1>2, <1>3 DEF Counted, LimitNeedsLeaks
<1>4. ASSUME NEW c \in Clients, OpenResponse(c) \/ OpenRequest(c), refused' # refused
      PROVE  Enough
  <2>1. /\ Cardinality(table) >= MaxDescriptors
        /\ handler[c] \in {"open response", "open request"}
    BY <1>4 DEF OpenResponse, OpenRequest, Full
  <2>2. RequestEnd(c) \notin table \ Leaked
    BY <2>1 DEF Counted, Ends, NotYet
  <2>3. /\ Cardinality(table) \in Nat /\ Cardinality(Leaked) \in Nat /\ Cardinality(Clients) \in Nat
        /\ Cardinality(table) + 1 <= Cardinality(Leaked) + 3 * Cardinality(Clients)
    BY <2>2, Spare, table \in SUBSET table
  <2>4. Cardinality(table) >= MaxDescriptors
    BY <2>1
  <2> QED BY ONLY <1>1, <2>3, <2>4 DEF Enough
<1>5. ASSUME NEW c \in Clients, ResponseOpens(c), refused' # refused PROVE Enough
  <2>1. Cardinality(held[c]) + 1 >= MaxDescriptors /\ worker[c] = "response"
    BY <1>5 DEF ResponseOpens
  <2>2. /\ Cardinality(held[c]) \in Nat
        /\ Cardinality(held[c]) + 2 <= Cardinality(Leaked) + 3 * Cardinality(Clients)
    BY <1>2, <2>1 DEF Counted, HeldCounted
  <2>3. Cardinality(Leaked) \in Nat /\ Cardinality(Clients) \in Nat
    BY DescriptorsAssumption, FS_CardinalityType, FS_Subset, Leaked \in SUBSET table
       DEF Counted, Leaked
  <2> QED BY <1>1, <2>1, <2>2, <2>3
<1>6. ASSUME NEW c \in Clients, NEW operation \in Operations, Ask(c, operation), refused' # refused
      PROVE  Enough
  <2>1. Cardinality(Inherited(c)) >= MaxDescriptors /\ handler[c] = "top"
    BY <1>6 DEF Ask
  <2> QED BY <1>1, <2>1, InheritedCounted
<1>7. ASSUME NEW c \in Clients,
             \/ Accept(c) \/ Leave(c) \/ RequestOpens(c) \/ Send(c) \/ Receive(c) \/ Close(c)
             \/ Reap(c) \/ Work(c)
      PROVE  refused' = refused
  BY <1>7 DEF Accept, Leave, RequestOpens, Send, Receive, Close, Reap, Work, WorkerRead, WorkerEof,
     WorkerGarbage
<1>8. CASE End \/ UNCHANGED vars
  BY <1>3, <1>8 DEF End, vars
<1> QED BY <1>3, <1>4, <1>5, <1>6, <1>7, <1>8 DEF Next, Handle

\* Who does not move keeps its ends, if nobody opens them for it.
LEMMA OthersKeepEnds ==
  ASSUME Inductive, NEW c \in Clients, LeftOpen(c), NoneAhead(c), NotYet(c),
         handler'[c] = handler[c], request'[c] = request[c],
         \A n \in Requests : n <= request[c] => asked'[c][n] = asked[c][n],
         \A n \in Int : /\ Response(c, n) \in table' => Response(c, n) \in table
                        /\ Request(c, n) \in table' => Request(c, n) \in table
  PROVE  LeftOpen(c)' /\ NoneAhead(c)' /\ NotYet(c)'
<1>1. request[c] \in Int /\ Requests \subseteq Int
  <2>1. request[c] \in 0 .. MaxRequests /\ MaxRequests \in Nat
    BY DescriptorsAssumption DEF Inductive, TypeOK
  <2> QED BY ONLY <2>1 DEF Requests
<1>2. LeftOpen(c)'
  <2> SUFFICES ASSUME NEW n \in Requests,
                      {Response(c, n), Request(c, n)} \cap table' # {},
                      n < request'[c] \/ handler'[c] \in {"away", "reap", "top", "left"}
               PROVE  asked'[c][n] = "multiplication"
    BY DEF LeftOpen
  <2>1. {Response(c, n), Request(c, n)} \cap table # {}
    BY <1>1
  <2>2. asked[c][n] = "multiplication"
    BY <2>1 DEF LeftOpen
  <2>3. n <= request[c]
    BY <1>1, <2>1 DEF Inductive, Fresh, NoneAhead
  <2> QED BY <2>2, <2>3
<1>3. NoneAhead(c)'
  BY <1>1 DEF NoneAhead
<1>4. NotYet(c)'
  BY <1>1 DEF NotYet, ResponseEnd, RequestEnd
<1> QED BY <1>2, <1>3, <1>4

\* The files of a client that c's step can open.
LEMMA OnlyOwn ==
  ASSUME NEW c \in Clients, NEW d \in Clients, d # c,
         table' \subseteq table \cup {Connection(c), ResponseEnd(c), RequestEnd(c)}
  PROVE  \A n \in Int : /\ Response(d, n) \in table' => Response(d, n) \in table
                        /\ Request(d, n) \in table' => Request(d, n) \in table
BY FilesDiffer DEF ResponseEnd, RequestEnd

\* What c's own step does to its ends.
LEMMA OwnEndsKept ==
  ASSUME Inductive, Ends, NEW c \in Clients,
         \/ Accept(c) \/ Leave(c) \/ Handle(c)
         \/ \E operation \in Operations : Ask(c, operation)
  PROVE  LeftOpen(c)' /\ NoneAhead(c)' /\ NotYet(c)'
<1>1. request[c] \in Int /\ Requests \subseteq Int /\ request[c] < request[c] + 1
  <2>1. request[c] \in 0 .. MaxRequests /\ MaxRequests \in Nat
    BY DescriptorsAssumption DEF Inductive, TypeOK
  <2> QED BY ONLY <2>1 DEF Requests
<1>2. LeftOpen(c) /\ NoneAhead(c) /\ NotYet(c) /\ handler \in [Clients -> {"away", "top",
        "open response", "opening response", "open request", "opening request", "send",
        "receive", "close", "reap", "left", "gone"}]
  BY DEF Ends, Inductive, TypeOK
<1>3. \A m, n \in Int :
        /\ Response(c, m) # Request(c, n) /\ Connection(c) \notin {Request(c, n), Response(c, n)}
        /\ Request(c, m) = Request(c, n) \/ Response(c, m) = Response(c, n) => m = n
  BY FilesDiffer
<1> USE DEF Goto
<1>4. ASSUME NEW operation \in Operations, Ask(c, operation)
      PROVE  LeftOpen(c)' /\ NoneAhead(c)' /\ NotYet(c)'
  <2>1. /\ table' = table /\ handler[c] = "top" /\ handler'[c] = "open response"
        /\ request'[c] = request[c] + 1
        /\ asked'[c] = [asked[c] EXCEPT ![request[c] + 1] = operation]
    BY <1>2, <1>4 DEF Ask, Inductive, TypeOK
  <2>2. request[c] + 1 \in Requests
    <3>1. request[c] \in 0 .. MaxRequests /\ MaxRequests \in Nat /\ request[c] < MaxRequests
      BY <1>4, DescriptorsAssumption DEF Ask, Inductive, TypeOK
    <3> QED BY ONLY <3>1 DEF Requests
  <2>3. LeftOpen(c)'
    <3> SUFFICES ASSUME NEW n \in Requests, {Response(c, n), Request(c, n)} \cap table # {},
                        n < request'[c] \/ handler'[c] \in {"away", "reap", "top", "left"}
                 PROVE  asked'[c][n] = "multiplication"
      BY <2>1 DEF LeftOpen
    <3>1. n < request[c] + 1
      BY <2>1
    <3>2. n # request[c] + 1
      BY ONLY <1>1, <3>1, n \in Requests
    <3>3. asked[c][n] = "multiplication"
      BY <1>2, <2>1 DEF LeftOpen
    <3>4. asked[c] \in [Requests -> Operations \cup {"none"}]
      BY DEF Inductive, TypeOK
    <3> QED BY <2>1, <3>2, <3>3, <3>4
  <2>4. NoneAhead(c)'
    <3>1. \A n \in Requests : request[c] + 1 < n => request[c] < n
      BY ONLY <1>1
    <3> QED BY <1>2, <2>1, <3>1 DEF NoneAhead
  <2>5. NotYet(c)'
    <3>1. Response(c, request[c] + 1) \notin table /\ Request(c, request[c] + 1) \notin table
      BY <1>1, <1>2, <2>2 DEF NoneAhead, Inductive, Fresh
    <3> QED BY <2>1, <3>1 DEF NotYet, ResponseEnd, RequestEnd
  <2> QED BY <2>3, <2>4, <2>5
<1>5. CASE Accept(c) \/ Leave(c)
  <2>1. /\ handler'[c] \in {"top", "left"} /\ handler[c] \in {"away", "top"}
        /\ \A n \in Requests : /\ Response(c, n) \in table' => Response(c, n) \in table
                               /\ Request(c, n) \in table' => Request(c, n) \in table
        /\ request' = request /\ asked' = asked
    BY <1>1, <1>2, <1>3, <1>5 DEF Accept, Leave
  <2> QED BY <1>2, <2>1 DEF LeftOpen, NoneAhead, NotYet
<1>6. CASE OpenResponse(c)
  <2>1. /\ handler[c] = "open response" /\ handler'[c] \in {"opening response", "open request"}
        /\ table' \subseteq table \cup {ResponseEnd(c)}
        /\ request' = request /\ asked' = asked
    BY <1>2, <1>6 DEF OpenResponse
  <2>2. \A n \in Int : /\ n # request[c] /\ Response(c, n) \in table' => Response(c, n) \in table
                       /\ Request(c, n) \in table' => Request(c, n) \in table
    BY <1>1, <1>3, <2>1 DEF ResponseEnd
  <2>3. \A n \in Requests : n < request[c] \/ request[c] < n => n # request[c] /\ n \in Int
    BY ONLY <1>1
  <2>4. LeftOpen(c)'
    BY <1>2, <2>1, <2>2, <2>3 DEF LeftOpen
  <2>5. NoneAhead(c)'
    BY <1>2, <2>1, <2>2, <2>3 DEF NoneAhead
  <2>6. NotYet(c)'
    BY <1>1, <1>2, <2>1, <2>2 DEF NotYet, ResponseEnd, RequestEnd
  <2> QED BY <2>4, <2>5, <2>6
<1>7. CASE OpenRequest(c)
  <2>1. /\ handler[c] = "open request" /\ handler'[c] \in {"opening request", "send"}
        /\ table' \subseteq table \cup {RequestEnd(c)}
        /\ request' = request /\ asked' = asked
    BY <1>2, <1>7 DEF OpenRequest
  <2>2. \A n \in Int : /\ n # request[c] /\ Request(c, n) \in table' => Request(c, n) \in table
                       /\ Response(c, n) \in table' => Response(c, n) \in table
    BY <1>1, <1>3, <2>1 DEF RequestEnd
  <2>3. \A n \in Requests : n < request[c] \/ request[c] < n => n # request[c] /\ n \in Int
    BY ONLY <1>1
  <2>4. LeftOpen(c)'
    BY <1>2, <2>1, <2>2, <2>3 DEF LeftOpen
  <2>5. NoneAhead(c)'
    BY <1>2, <2>1, <2>2, <2>3 DEF NoneAhead
  <2>6. NotYet(c)'
    BY <1>1, <1>2, <2>1, <2>2 DEF NotYet, ResponseEnd, RequestEnd
  <2> QED BY <2>4, <2>5, <2>6
<1>8. CASE ResponseOpens(c) \/ RequestOpens(c) \/ Send(c) \/ Receive(c) \/ Reap(c)
  <2>1. /\ table' = table /\ request' = request /\ asked' = asked
        /\ handler'[c] \in {"open request", "send", "receive", "close", "top"}
        /\ handler'[c] = "open request" => handler[c] = "opening response"
        /\ handler'[c] = "top" => handler[c] = "reap"
    BY <1>2, <1>8 DEF ResponseOpens, RequestOpens, Send, Receive, Reap
  <2> QED BY <1>2, <2>1 DEF LeftOpen, NoneAhead, NotYet, ResponseEnd, RequestEnd
<1>9. CASE Close(c)
  <2>1. /\ handler[c] = "close" /\ handler'[c] = "reap" /\ table' \subseteq table
        /\ request' = request /\ asked' = asked
        /\ asked[c][request[c]] # "multiplication" =>
             ResponseEnd(c) \notin table' /\ RequestEnd(c) \notin table'
    BY <1>2, <1>9 DEF Close
  <2>2. LeftOpen(c)'
    <3> SUFFICES ASSUME NEW n \in Requests, {Response(c, n), Request(c, n)} \cap table' # {}
                 PROVE  asked[c][n] = "multiplication"
      BY <2>1 DEF LeftOpen
    <3>1. {Response(c, n), Request(c, n)} \cap table # {}
      BY <2>1
    <3>2. n <= request[c]
      <4>1. ~ (request[c] < n)
        BY <1>2, <3>1 DEF Inductive, Fresh, NoneAhead
      <4> QED BY ONLY <1>1, <4>1, n \in Requests
    <3>3. CASE n = request[c]
      BY <2>1, <3>3 DEF ResponseEnd, RequestEnd
    <3>4. CASE n # request[c]
      <4>1. n < request[c]
        BY ONLY <1>1, <3>2, <3>4, n \in Requests
      <4> QED BY <1>2, <3>1, <4>1 DEF LeftOpen
    <3> QED BY <3>3, <3>4
  <2> QED BY <1>2, <2>1, <2>2 DEF NoneAhead, NotYet
<1> QED BY <1>4, <1>5, <1>6, <1>7, <1>8, <1>9 DEF Handle

\* The ends of every client, whoever takes a step.
LEMMA EndsKept == Inductive /\ Ends /\ [Next]_vars => Ends'
<1> SUFFICES ASSUME Inductive, Ends, [Next]_vars, NEW d \in Clients
             PROVE  LeftOpen(d)' /\ NoneAhead(d)' /\ NotYet(d)'
  BY DEF Ends
<1>1. LeftOpen(d) /\ NoneAhead(d) /\ NotYet(d)
  BY DEF Ends
<1>2. ASSUME NEW c \in Clients, c # d,
             \/ Accept(c) \/ Leave(c) \/ Handle(c)
             \/ \E operation \in Operations : Ask(c, operation)
      PROVE  LeftOpen(d)' /\ NoneAhead(d)' /\ NotYet(d)'
  <2> USE DEF Inductive, TypeOK, Goto
  <2>1. /\ handler'[d] = handler[d] /\ request'[d] = request[d] /\ asked'[d] = asked[d]
        /\ table' \subseteq table \cup {Connection(c), ResponseEnd(c), RequestEnd(c)}
    <3>1. CASE Accept(c) \/ Leave(c)
      BY <1>2, <3>1 DEF Accept, Leave
    <3>2. CASE OpenResponse(c) \/ OpenRequest(c)
      BY <1>2, <3>2 DEF OpenResponse, OpenRequest
    <3>3. CASE ResponseOpens(c) \/ RequestOpens(c) \/ Send(c) \/ Receive(c) \/ Close(c) \/ Reap(c)
      BY <1>2, <3>3 DEF ResponseOpens, RequestOpens, Send, Receive, Close, Reap
    <3>4. ASSUME NEW operation \in Operations, Ask(c, operation)
          PROVE  /\ handler'[d] = handler[d] /\ request'[d] = request[d] /\ asked'[d] = asked[d]
                 /\ table' = table
      <4>1. /\ handler' = [handler EXCEPT ![c] = "open response"] /\ table' = table
            /\ request' = [request EXCEPT ![c] = request[c] + 1]
            /\ asked' = [asked EXCEPT ![c][request[c] + 1] = operation]
        BY <3>4 DEF Ask
      <4> QED BY <1>2, <4>1
    <3> QED BY <1>2, <3>1, <3>2, <3>3, <3>4 DEF Handle
  <2> QED BY <1>1, <1>2, <2>1, OnlyOwn, OthersKeepEnds
<1>3. CASE (\E c \in Clients : Work(c)) \/ UNCHANGED vars
  <2>1. UNCHANGED <<handler, request, asked, table>>
    BY <1>3 DEF Work, WorkerRead, WorkerEof, WorkerGarbage, vars
  <2> QED BY <1>1, <2>1 DEF LeftOpen, NoneAhead, NotYet, ResponseEnd, RequestEnd
<1>4. CASE End
  BY <1>4 DEF End, LeftOpen, NoneAhead, NotYet
<1> QED BY <1>2, <1>3, <1>4, OwnEndsKept DEF Next

\* A step opens one file at most.
LEMMA TableFinite == IsFiniteSet(table) /\ [Next]_vars => IsFiniteSet(table')
<1> SUFFICES ASSUME IsFiniteSet(table), [Next]_vars PROVE IsFiniteSet(table')
  OBVIOUS
<1>1. \/ table' \subseteq table
      \/ \E c \in Clients : \/ table' = table \cup {Connection(c)}
                            \/ table' = table \cup {ResponseEnd(c)}
                            \/ table' = table \cup {RequestEnd(c)}
  BY DEF Next, Accept, Ask, Leave, Handle, OpenResponse, ResponseOpens, OpenRequest, RequestOpens,
     Send, Receive, Close, Reap, Work, WorkerRead, WorkerEof, WorkerGarbage, End, vars
<1>2. CASE table' \subseteq table
  BY <1>2, FS_Subset
<1> QED BY <1>1, <1>2, FS_AddElement

\* A worker gets what it inherits when it is forked, and leaks only grow.
LEMMA HeldKept == Inductive /\ Counted /\ [Next]_vars => HeldCounted'
<1> SUFFICES ASSUME Inductive, Counted, [Next]_vars, serverUp', NEW c \in Clients,
                    worker'[c] = "response"
             PROVE  /\ Cardinality(held'[c]) \in Nat
                    /\ Cardinality(held'[c]) + 2 <= Cardinality(Leaked') + 3 * Cardinality(Clients)
  BY DEF HeldCounted
<1> USE DEF Goto
<1>1. /\ Cardinality(Leaked) \in Nat /\ Cardinality(Leaked') \in Nat
      /\ Cardinality(Clients) \in Nat /\ Cardinality(Leaked) <= Cardinality(Leaked')
  <2>1. IsFiniteSet(table')
    BY TableFinite DEF Counted
  <2>2. Leaked \subseteq Leaked' /\ Leaked' \subseteq table'
    BY LeaksStay DEF Leaked
  <2>3. IsFiniteSet(Leaked')
    BY <2>1, <2>2, FS_Subset
  <2>4. IsFiniteSet(Leaked) /\ Cardinality(Leaked) <= Cardinality(Leaked')
    BY <2>2, <2>3, FS_Subset
  <2> QED BY <2>3, <2>4, FS_CardinalityType, DescriptorsAssumption
<1>2. CASE worker[c] = "response" /\ held'[c] = held[c]
  <2>1. serverUp
    BY DEF Next, Accept, Ask, Leave, Handle, OpenResponse, ResponseOpens, OpenRequest, RequestOpens,
       Send, Receive, Close, Reap, Work, WorkerRead, WorkerEof, WorkerGarbage, End, vars
  <2>2. /\ Cardinality(held[c]) \in Nat
        /\ Cardinality(held[c]) + 2 <= Cardinality(Leaked) + 3 * Cardinality(Clients)
    BY <1>2, <2>1 DEF Counted, HeldCounted
  <2> QED BY <1>1, <1>2, <2>2
<1>3. ASSUME NEW operation \in Operations, Ask(c, operation)
      PROVE  /\ Cardinality(held'[c]) \in Nat
             /\ Cardinality(held'[c]) + 2 <= Cardinality(Leaked') + 3 * Cardinality(Clients)
  <2>1. held'[c] = Inherited(c) /\ handler[c] = "top"
    BY <1>3 DEF Ask, Inductive, TypeOK
  <2> QED BY <1>1, <2>1, InheritedCounted
<1>4. ASSUME NEW d \in Clients, d # c, NEW operation \in Operations, Ask(d, operation)
      PROVE  worker[c] = "response" /\ held'[c] = held[c]
  <2>1. held' = [held EXCEPT ![d] = Inherited(d)] /\ \E w : worker' = [worker EXCEPT ![d] = w]
    BY <1>4 DEF Ask
  <2> QED BY <1>4, <2>1 DEF Inductive, TypeOK
<1>5. ASSUME NEW d \in Clients, Accept(d) \/ Leave(d) \/ Handle(d) \/ Work(d)
      PROVE  worker[c] = "response" /\ held'[c] = held[c]
  BY <1>5 DEF Accept, Leave, Handle, OpenResponse, ResponseOpens, OpenRequest, RequestOpens,
     Send, Receive, Close, Reap, Work, WorkerRead, WorkerEof, WorkerGarbage, Inductive, TypeOK
<1>6. CASE End \/ UNCHANGED vars
  BY <1>2, <1>6 DEF End, vars
<1> QED BY <1>2, <1>3, <1>4, <1>5, <1>6 DEF Next

\* The whole count, kept by every step.
LEMMA CountedKept == Inductive /\ Counted /\ [Next]_vars => Counted'
<1> SUFFICES ASSUME Inductive, Counted, [Next]_vars PROVE Counted'
  OBVIOUS
<1>1. IsFiniteSet(table') /\ Ends' /\ HeldCounted'
  BY TableFinite, EndsKept, HeldKept DEF Counted
<1>2. LimitNeedsLeaks'
  <2> SUFFICES ASSUME serverUp', refused' # {}
               PROVE  Cardinality(Leaked') > MaxDescriptors - 3 * Cardinality(Clients)
    BY DEF LimitNeedsLeaks
  <2>1. Cardinality(Leaked) > MaxDescriptors - 3 * Cardinality(Clients)
    BY RefusalCounted
  <2>2. Leaked \subseteq Leaked' /\ Leaked' \subseteq table'
    BY LeaksStay DEF Leaked
  <2>3. IsFiniteSet(Leaked') /\ IsFiniteSet(Leaked) /\ Cardinality(Leaked) <= Cardinality(Leaked')
    BY <1>1, <2>2, FS_Subset
  <2>4. /\ Cardinality(Leaked) \in Nat /\ Cardinality(Leaked') \in Nat
        /\ Cardinality(Clients) \in Nat /\ MaxDescriptors \in Nat
    BY <2>3, FS_CardinalityType, DescriptorsAssumption
  <2> QED BY <2>1, <2>3, <2>4
<1> QED BY <1>1, <1>2 DEF Counted

\* The table is empty before the first client connects.
LEMMA InitCounted == Init => Counted
BY FS_EmptySet DEF Init, Counted, Ends, LeftOpen, NoneAhead, NotYet, HeldCounted, LimitNeedsLeaks

\* However large the table and however many the clients, no open() fails, in the
\* server or in a worker, before multiplications have leaked all descriptors but
\* three for each client.
THEOREM LimitExplained == Spec => []LimitNeedsLeaks
<1>1. Counted => LimitNeedsLeaks
  BY DEF Counted
<1> QED BY <1>1, InitCounted, CountedKept, InductiveInvariant, PTL DEF Spec


-----------------------------------------------------------------------------
(* The search daemon *)

Searchers == 1 .. MaxStarts
Scripts == Queries \cup {Stop}

SearcherPlaces == {"none", "top", "openRequest", "read", "openResponse", "send", "sendEnd", "ended"}
ScriptPlaces ==
  {"idle", "openRequest", "write", "openResponse", "cat", "kill", "remove", "done", "failed"}

Runs(w) == searcher[w] \notin {"none", "ended"}
Answering(w) == searcher[w] \in {"openResponse", "send", "sendEnd"}
Sending(w) == searcher[w] \in {"send", "sendEnd"}
Underway(s) == script[s] \notin {"idle", "done", "failed"}

\* Someone writes to, or reads from, FIFO f.
Written(f) == \E s \in Scripts : script[s] = "write" /\ scriptFifo[s] = f
Heard(f) == \E s \in Scripts : script[s] = "cat" /\ scriptFifo[s] = f

\* The pieces of the answer to q.
First(q) == <<q, "matches">>
Second(q) == <<q, "END_OF_RESULTS">>

SearchTypes ==
  /\ starts \in 0 .. MaxStarts /\ fifo \in {0, starts}
  /\ pidFile \in 0 .. starts /\ unwritten \subseteq 1 .. starts
  /\ searcher \in [Searchers -> SearcherPlaces] /\ workerFifo \in [Searchers -> 0 .. MaxStarts]
  /\ \A w \in Searchers : /\ searcher[w] = "none" <=> w > starts
                          /\ searcher[w] \in {"openRequest", "read", "send", "sendEnd"} => workerFifo[w] # 0
  /\ script \in [Scripts -> ScriptPlaces] /\ scriptFifo \in [Scripts -> 0 .. MaxStarts]
  /\ \A s \in Scripts : /\ scriptFifo[s] <= starts
                        /\ script[s] \in {"openRequest", "write", "cat"} => scriptFifo[s] # 0
  /\ \A q \in Queries : script[q] \notin {"kill", "remove"}
  /\ script[Stop] \notin {"openResponse", "cat"}
  /\ requests \in [Searchers -> Seq(Scripts)] /\ \A f \in Searchers : f > starts => requests[f] = << >>
  /\ DOMAIN line = Searchers /\ DOMAIN responses = Searchers /\ DOMAIN got = Queries

\* The worker in the pid file, or about to be, is the only one that is not
\* forgotten, and the last that was started; when the file is removed even that one
\* is gone.
Known ==
  /\ \A w \in Searchers : Runs(w) =>
       /\ w = pidFile \/ w \in unwritten \/ w \in forgotten
       /\ w = starts \/ w \in forgotten
  /\ Underway(Stop) => unwritten \subseteq forgotten
  /\ script[Stop] = "remove" => \A w \in Searchers : Runs(w) => w \in forgotten

\* Unless a query is interrupted, no answer is written to nobody.
Listened ==
  killed = {} =>
    /\ \A f \in Searchers : responses[f] # << >> => Heard(f)
    /\ \A w \in Searchers : Sending(w) => Heard(workerFifo[w])

\* A single worker: it is at the present FIFO, and so is a daemon-stop that has
\* not written; a line that is left there is followed by that of someone who
\* waits for an answer.
Pending ==
  forgotten = {} =>
    /\ \A w \in Searchers : Runs(w) /\ searcher[w] # "top" => workerFifo[w] = fifo
    /\ fifo # 0 /\ script[Stop] \in {"openRequest", "write"} => scriptFifo[Stop] = fifo
    /\ killed = {} /\ fifo # 0 /\ ~ Written(fifo) =>
         \/ requests[fifo] = << >> \/ Underway(Stop)
         \/ /\ \E s \in Scripts : script[s] = "openResponse" /\ scriptFifo[s] = fifo
            /\ \A w \in Searchers : ~ Answering(w)

\* A script that has not overlapped with another is the only one.
OneByOne ==
  /\ \A s \in Scripts : Underway(s) /\ s \notin overlapped => \A t \in Scripts : Underway(t) => t = s
  /\ \A q \in Queries : Underway(q) /\ q \notin overlapped => fifo # 0 /\ scriptFifo[q] = fifo

\* While scripts run one by one, workers answer only the one that runs, and a
\* line left behind is a STOP.
Tidy ==
  killed = {} /\ overlapped = {} =>
    /\ \A f \in Searchers : \/ requests[f] = << >>
                            \/ /\ requests[f] = <<Stop>>
                               /\ script[Stop] \notin {"idle", "openRequest", "write"}
                               /\ f # fifo \/ Underway(Stop)
                            \/ f = fifo /\ \E q \in Queries : Underway(q)
    /\ \A w \in Searchers : Answering(w) => workerFifo[w] = fifo /\ \E q \in Queries : Underway(q)

Calm == killed = {} /\ (forgotten = {} \/ overlapped = {})

\* Worker w has the line of q, and is the only one to answer.
Serves(w, q) ==
  /\ line[w] = q /\ workerFifo[w] = fifo
  /\ \A v \in Searchers : Answering(v) => v = w

\* A query that runs alone, from place to place.
Asking(q) ==
  /\ script[q] \in {"openRequest", "write"} =>
       /\ requests[fifo] = << >> /\ responses[fifo] = << >> /\ got[q] = << >>
       /\ \A w \in Searchers : Answering(w) => script[q] = "openRequest" /\ forgotten = {}
  /\ script[q] = "openResponse" =>
       /\ responses[fifo] = << >> /\ got[q] = << >>
       /\ \/ requests[fifo] = <<q>> /\ \A w \in Searchers : ~ Answering(w)
          \/ /\ requests[fifo] = << >>
             /\ \E w \in Searchers : searcher[w] = "openResponse" /\ Serves(w, q)
  /\ script[q] = "cat" =>
       /\ requests[fifo] = << >>
       /\ \/ /\ \E w \in Searchers : searcher[w] = "send" /\ Serves(w, q)
             /\ got[q] = << >> /\ responses[fifo] = << >>
          \/ /\ \E w \in Searchers : searcher[w] = "sendEnd" /\ Serves(w, q)
             /\ \/ got[q] = << >> /\ responses[fifo] = <<First(q)>>
                \/ got[q] = <<First(q)>> /\ responses[fifo] = << >>
          \/ /\ \A w \in Searchers : ~ Answering(w)
             /\ \/ got[q] = << >> /\ responses[fifo] = <<First(q), Second(q)>>
                \/ got[q] = <<First(q)>> /\ responses[fifo] = <<Second(q)>>
                \/ got[q] = <<First(q), Second(q)>> /\ responses[fifo] = << >>

Alone ==
  \A q \in Queries :
    /\ script[q] = "idle" => got[q] = << >>
    /\ Calm /\ q \notin overlapped =>
         /\ Underway(q) => Asking(q)
         /\ script[q] = "done" => got[q] = <<First(q), Second(q)>>

SearchInductive ==
  SearchTypes /\ Known /\ Listened /\ Pending /\ OneByOne /\ Tidy /\ Alone

\* One piece after the other, of an answer that has two.
LEMMA Pieces ==
  ASSUME NEW a, NEW b
  PROVE  /\ Append(<< >>, a) = <<a>> /\ Append(<<a>>, b) = <<a, b>>
         /\ << >> \o <<a>> = <<a>> /\ << >> \o <<a, b>> = <<a, b>>
         /\ <<a>> \o <<b>> = <<a, b>>
<1> DEFINE S == {a, b}
<1>1. <<a>> \in Seq(S) /\ <<b>> \in Seq(S) /\ <<a, b>> \in Seq(S)
  OBVIOUS
<1>2. Append(<<a>>, b) \in Seq(S) /\ (<<a>> \o <<b>>) \in Seq(S)
  BY <1>1
<1>3. Len(Append(<<a>>, b)) = 2 /\ Len(<<a>> \o <<b>>) = 2 /\ Len(<<a, b>>) = 2
  BY <1>1
<1>4. \A i \in 1 .. 2 : Append(<<a>>, b)[i] = <<a, b>>[i] /\ (<<a>> \o <<b>>)[i] = <<a, b>>[i]
  <2>1. \A i \in 1 .. 2 : i = 1 \/ i = 2
    OBVIOUS
  <2>2. Append(<<a>>, b)[1] = a /\ Append(<<a>>, b)[2] = b
    BY <1>1
  <2>3. (<<a>> \o <<b>>)[1] = a /\ (<<a>> \o <<b>>)[2] = b
    BY <1>1
  <2> QED BY <2>1, <2>2, <2>3
<1>5. << >> \o <<a>> = <<a>> /\ << >> \o <<a, b>> = <<a, b>> /\ Append(<< >>, a) = <<a>>
  BY <1>1
<1> HIDE DEF S
<1> QED BY <1>1, <1>2, <1>3, <1>4, <1>5, SeqEqual

\* Nothing is begun at first.
LEMMA InitSearch == Search!Init => SearchInductive
<1> SUFFICES ASSUME Search!Init PROVE SearchInductive
  OBVIOUS
<1> USE SearchAssumption DEF Search!Init, Search!Workers, Search!Scripts, Searchers, Scripts
<1>1. SearchTypes
  BY DEF SearchTypes, SearcherPlaces, ScriptPlaces
<1>2. Known /\ OneByOne
  BY DEF Known, OneByOne, Runs, Underway
<1>3. Listened /\ Pending
  BY DEF Listened, Pending, Sending, Runs
<1>4. Tidy /\ Alone
  BY DEF Tidy, Alone, Answering, Underway
<1> QED BY <1>1, <1>2, <1>3, <1>4 DEF SearchInductive

\* A query that is under way while a daemon is started has not run alone.
LEMMA StartDaemonKeeps == SearchInductive /\ Search!StartDaemon => SearchInductive'
<1> SUFFICES ASSUME SearchInductive, Search!StartDaemon PROVE SearchInductive'
  OBVIOUS
<1>1. /\ SearchTypes /\ Known /\ Listened /\ Pending /\ OneByOne /\ Tidy /\ Alone
  BY DEF SearchInductive
<1>2. /\ starts < MaxStarts /\ starts' = starts + 1 /\ fifo' = starts + 1 /\ pidFile' = pidFile
      /\ unwritten' = unwritten \cup {starts + 1}
      /\ searcher' = [searcher EXCEPT ![starts + 1] = "top"]
      /\ \A w \in Searchers : Runs(w) => w \in forgotten'
      /\ forgotten \subseteq forgotten' /\ overlapped \subseteq overlapped'
      /\ Underway(Stop) => starts + 1 \in forgotten'
      /\ \A s \in Scripts : Underway(s) => s \in overlapped'
  BY DEF Search!StartDaemon, Search!WorkerRuns, Search!Active, Search!Workers, Search!Scripts,
     Searchers, Scripts, Runs, Underway
<1>3. UNCHANGED <<workerFifo, line, script, scriptFifo, got, requests, responses, killed>>
  BY DEF Search!StartDaemon, Search!scriptVars
<1>4. SearchTypes'
  <2>1. searcher' \in [Searchers -> SearcherPlaces]
    BY <1>1, <1>2 DEF SearchTypes, SearcherPlaces
  <2>2. \A w \in Searchers : /\ searcher'[w] = "none" <=> w > starts + 1
                             /\ searcher'[w] \in {"openRequest", "read", "send", "sendEnd"} =>
                                  searcher'[w] = searcher[w]
    <3> SUFFICES ASSUME NEW w \in Searchers
                 PROVE  /\ searcher'[w] = "none" <=> w > starts + 1
                        /\ searcher'[w] \in {"openRequest", "read", "send", "sendEnd"} =>
                             searcher'[w] = searcher[w]
      OBVIOUS
    <3>1. w \in Int /\ starts \in Int /\ (searcher[w] = "none" <=> w > starts)
      BY <1>1, SearchAssumption DEF SearchTypes, Searchers
    <3>2. CASE w = starts + 1
      BY <1>1, <1>2, <3>1, <3>2 DEF SearchTypes
    <3>3. CASE w # starts + 1
      <4>1. searcher'[w] = searcher[w]
        BY <1>1, <1>2, <3>3 DEF SearchTypes
      <4> QED BY <3>1, <3>3, <4>1
    <3> QED BY <3>2, <3>3
  <2>3. /\ starts' \in 0 .. MaxStarts /\ starts < starts'
        /\ pidFile' \in 0 .. starts' /\ unwritten' \subseteq 1 .. starts'
    BY <1>1, <1>2, SearchAssumption DEF SearchTypes
  <2>4. \A f \in Searchers : f > starts' => requests'[f] = << >>
    BY <1>1, <1>2, <1>3, SearchAssumption DEF SearchTypes, Searchers
  <2>5. \A s \in Scripts : scriptFifo'[s] <= starts'
    BY <1>1, <1>2, <1>3, SearchAssumption DEF SearchTypes
  <2> QED BY <1>1, <1>2, <1>3, <2>1, <2>2, <2>3, <2>4, <2>5 DEF SearchTypes
<1>5. Known'
  <2>1. \A w \in Searchers : Runs(w)' => w = starts + 1 \/ Runs(w)
    BY <1>1, <1>2 DEF SearchTypes, Runs
  <2>2. \A w \in Searchers : Runs(w)' => w = starts + 1 \/ w \in forgotten'
    BY <1>2, <2>1
  <2>3. Underway(Stop)' => Underway(Stop) /\ unwritten' \subseteq forgotten'
    BY <1>1, <1>2, <1>3 DEF Known, Underway
  <2>4. script'[Stop] = "remove" => Underway(Stop)
    BY <1>3 DEF Underway
  <2> QED BY <1>2, <2>2, <2>3, <2>4 DEF Known
<1>6. Listened'
  BY <1>1, <1>2, <1>3, SearchAssumption DEF SearchTypes, Listened, Sending, Heard, Searchers
<1>7. Pending'
  <2> SUFFICES ASSUME forgotten' = {} PROVE Pending'
    BY DEF Pending
  <2>1. ~ Underway(Stop) /\ \A w \in Searchers : ~ Runs(w)
    BY <1>2
  <2>2. \A w \in Searchers : Runs(w)' => searcher'[w] = "top"
    BY <1>1, <1>2, <2>1 DEF SearchTypes, Runs
  <2>3. requests'[fifo'] = << >>
    BY <1>1, <1>2, <1>3, SearchAssumption DEF SearchTypes, Searchers
  <2>4. script'[Stop] \notin {"openRequest", "write"}
    BY <1>3, <2>1 DEF Underway
  <2> QED BY <2>2, <2>3, <2>4 DEF Pending
<1>8. OneByOne'
  BY <1>1, <1>2, <1>3, SearchAssumption DEF SearchTypes, OneByOne, Underway, Scripts
<1>9. Tidy'
  <2> SUFFICES ASSUME killed = {}, overlapped' = {} PROVE Tidy'
    BY <1>3 DEF Tidy
  <2>1. overlapped = {} /\ \A s \in Scripts : ~ Underway(s)
    BY <1>2
  <2>2. \A w \in Searchers : ~ Answering(w)
    BY <1>1, <2>1 DEF Tidy, Scripts
  <2>3. \A f \in Searchers : \/ requests[f] = << >>
                             \/ /\ requests[f] = <<Stop>>
                                /\ script[Stop] \notin {"idle", "openRequest", "write"}
    BY <1>1, <2>1 DEF Tidy, Scripts
  <2>4. fifo' \in Searchers /\ requests[fifo'] = << >>
    BY <1>1, <1>2, SearchAssumption DEF SearchTypes, Searchers
  <2>5. \A w \in Searchers : ~ Answering(w)'
    BY <1>1, <1>2, <2>2 DEF SearchTypes, Answering
  <2>6. \A f \in Searchers : requests[f] = << >> \/ f # fifo'
    BY <2>4
  <2> QED BY <1>3, <2>3, <2>5, <2>6 DEF Tidy
<1>10. Alone'
  BY <1>1, <1>2, <1>3, SearchAssumption DEF SearchTypes, Alone, Calm, Underway, Scripts
<1> QED BY <1>4, <1>5, <1>6, <1>7, <1>8, <1>9, <1>10 DEF SearchInductive

\* A daemon-start that comes to its end, or is interrupted before, leaves workers
\* where they are.
LEMMA StartEndsKeeps ==
  ASSUME SearchInductive, Search!InterruptStart \/ \E w \in Searchers : Search!WritePid(w)
  PROVE  SearchInductive'
<1>1. /\ SearchTypes /\ Known /\ Listened /\ Pending /\ OneByOne /\ Tidy /\ Alone
  BY DEF SearchInductive
<1>2. /\ UNCHANGED <<starts, searcher, workerFifo, line, script, scriptFifo, got>>
      /\ UNCHANGED <<requests, responses, killed>>
      /\ unwritten' \subseteq unwritten /\ forgotten \subseteq forgotten'
      /\ overlapped \subseteq overlapped' /\ \A s \in Scripts : Underway(s) => s \in overlapped'
  BY DEF Search!InterruptStart, Search!WritePid, Search!workerVars, Search!scriptVars, Search!Active,
     Search!Scripts, Scripts, Underway
<1>3. \/ /\ fifo' = 0 /\ pidFile' = pidFile /\ unwritten' = unwritten
         /\ \A w \in Searchers : Runs(w) => w \in forgotten'
      \/ \E w \in unwritten :
           /\ fifo' = fifo /\ pidFile' = pidFile /\ unwritten' = unwritten \ {w} /\ w \in forgotten'
      \/ \E w \in unwritten :
           /\ fifo' = fifo /\ pidFile' = w /\ unwritten' = unwritten \ {w}
           /\ \A v \in Searchers : Runs(v) /\ v \notin unwritten => v \in forgotten'
  BY DEF Search!InterruptStart, Search!WritePid, Search!WorkerRuns, Search!Workers, Searchers, Runs
<1>4. SearchTypes'
  BY <1>1, <1>2, <1>3 DEF SearchTypes
<1>5. Known'
  <2>1. \A w \in Searchers : Runs(w) => w = pidFile' \/ w \in unwritten' \/ w \in forgotten'
    BY <1>1, <1>2, <1>3 DEF Known
  <2>2. \A w \in Searchers : Runs(w)' <=> Runs(w)
    BY <1>2 DEF Runs
  <2>3. Underway(Stop)' <=> Underway(Stop)
    BY <1>2 DEF Underway
  <2> QED BY <1>1, <1>2, <2>1, <2>2, <2>3 DEF Known
<1>6. Listened'
  BY <1>1, <1>2 DEF Listened, Sending, Heard
<1>7. Pending'
  <2> SUFFICES ASSUME forgotten' = {} PROVE Pending'
    BY DEF Pending
  <2>1. CASE fifo' = fifo
    BY <1>1, <1>2, <2>1 DEF Pending, Runs, Written, Underway, Answering
  <2>2. CASE fifo' # fifo
    <3>1. fifo' = 0 /\ \A w \in Searchers : ~ Runs(w)
      BY <1>3, <2>2
    <3> QED BY <1>2, <3>1 DEF Pending, Runs
  <2> QED BY <2>1, <2>2
<1>8. OneByOne'
  BY <1>2 DEF OneByOne, Underway, Scripts
<1>9. Tidy'
  <2> SUFFICES ASSUME killed = {}, overlapped' = {} PROVE Tidy'
    BY <1>2 DEF Tidy
  <2>1. overlapped = {} /\ \A s \in Scripts : ~ Underway(s)
    BY <1>2
  <2>2. \A w \in Searchers : ~ Answering(w)
    BY <1>1, <2>1 DEF Tidy, Scripts
  <2>3. \A f \in Searchers : \/ requests[f] = << >>
                             \/ /\ requests[f] = <<Stop>> /\ f # fifo
                                /\ script[Stop] \notin {"idle", "openRequest", "write"}
    BY <1>1, <2>1 DEF Tidy, Scripts
  <2>4. \A f \in Searchers : f # fifo => f # fifo'
    BY <1>3, SearchAssumption DEF Searchers
  <2> QED BY <1>2, <2>2, <2>3, <2>4 DEF Tidy, Answering
<1>10. Alone'
  BY <1>1, <1>2 DEF Alone, Calm, Underway, Scripts, First, Second
<1> QED BY <1>4, <1>5, <1>6, <1>7, <1>8, <1>9, <1>10 DEF SearchInductive

\* A step of nobody that answers a query leaves it where it is.
LEMMA NobodyAnswers ==
  ASSUME NEW q \in Queries, Asking(q),
         fifo' = fifo, forgotten' = forgotten, script'[q] = script[q], got'[q] = got[q],
         requests'[fifo] = requests[fifo], responses'[fifo] = responses[fifo],
         \A v \in Searchers :
           /\ Answering(v)' <=> Answering(v)
           /\ Answering(v) => /\ searcher'[v] = searcher[v] /\ workerFifo'[v] = workerFifo[v]
                              /\ line'[v] = line[v]
  PROVE  Asking(q)'
<1>1. \A v \in Searchers : Answering(v) /\ Serves(v, q) => Serves(v, q)'
  BY DEF Serves
<1>2. ASSUME NEW v \in Searchers, searcher[v] \in {"openResponse", "send", "sendEnd"}, Serves(v, q)
      PROVE  searcher'[v] = searcher[v] /\ Serves(v, q)'
  BY <1>1, <1>2 DEF Answering
<1>3. /\ script'[q] = script[q] /\ got'[q] = got[q] /\ forgotten' = forgotten
      /\ requests'[fifo'] = requests[fifo] /\ responses'[fifo'] = responses[fifo]
  OBVIOUS
<1>4. (script[q] \in {"openRequest", "write"} =>
       /\ requests[fifo] = << >> /\ responses[fifo] = << >> /\ got[q] = << >>
       /\ \A w \in Searchers : Answering(w) => script[q] = "openRequest" /\ forgotten = {})'
  BY <1>3 DEF Asking
<1>5. (script[q] = "openResponse" =>
       /\ responses[fifo] = << >> /\ got[q] = << >>
       /\ \/ requests[fifo] = <<q>> /\ \A w \in Searchers : ~ Answering(w)
          \/ /\ requests[fifo] = << >>
             /\ \E w \in Searchers : searcher[w] = "openResponse" /\ Serves(w, q))'
  BY <1>2, <1>3 DEF Asking
<1> QED BY <1>2, <1>3, <1>4, <1>5 DEF Asking, First, Second

\* A worker that begins to read is at the present FIFO.
LEMMA WorkerOpensKeeps ==
  ASSUME SearchInductive, NEW w \in Searchers, Search!WorkerOpens(w)
  PROVE  SearchInductive'
<1>1. /\ SearchTypes /\ Known /\ Listened /\ Pending /\ OneByOne /\ Tidy /\ Alone
  BY DEF SearchInductive
<1>2. PICK place \in {"read", "openRequest"} :
        /\ searcher[w] = "top" /\ fifo # 0
        /\ workerFifo' = [workerFifo EXCEPT ![w] = fifo]
        /\ searcher' = [searcher EXCEPT ![w] = place]
  BY DEF Search!WorkerOpens
<1>3. /\ UNCHANGED <<fifo, starts, pidFile, unwritten, line, script, scriptFifo, got, requests, responses>>
      /\ UNCHANGED <<forgotten, killed, overlapped>>
  BY DEF Search!WorkerOpens, Search!scriptVars, Search!paths, Search!history
<1>4. \A v \in Searchers : v # w => searcher'[v] = searcher[v] /\ workerFifo'[v] = workerFifo[v]
  BY <1>1, <1>2 DEF SearchTypes
<1>5. searcher'[w] = place /\ workerFifo'[w] = fifo
  BY <1>1, <1>2 DEF SearchTypes
<1>6. \A v \in Searchers : /\ Runs(v)' <=> Runs(v)
                           /\ Answering(v)' <=> Answering(v)
                           /\ Answering(v) \/ Sending(v) => v # w
                           /\ Sending(v)' <=> Sending(v)
  BY <1>2, <1>4, <1>5 DEF Runs, Answering, Sending
<1>7. SearchTypes'
  BY <1>1, <1>2, <1>3, <1>4, <1>5, SearchAssumption DEF SearchTypes, SearcherPlaces
<1>8. Known'
  BY <1>1, <1>3, <1>6 DEF Known, Underway
<1>9. Listened'
  BY <1>1, <1>3, <1>4, <1>6 DEF Listened, Heard
<1>10. Pending'
  BY <1>1, <1>2, <1>3, <1>4, <1>5, <1>6 DEF Pending, Written, Underway
<1>11. OneByOne'
  BY <1>1, <1>3 DEF OneByOne, Underway
<1>12. Tidy'
  BY <1>1, <1>3, <1>4, <1>6 DEF Tidy, Underway
<1>13. Alone'
  <2>1. \A q \in Queries : Asking(q) => Asking(q)'
    BY <1>3, <1>4, <1>6, NobodyAnswers
  <2>2. (Calm' <=> Calm) /\ \A q \in Queries : Underway(q)' <=> Underway(q)
    BY <1>3 DEF Calm, Underway
  <2> QED BY <1>1, <1>3, <2>1, <2>2 DEF Alone, First, Second
<1> QED BY <1>7, <1>8, <1>9, <1>10, <1>11, <1>12, <1>13 DEF SearchInductive

\* The end of the file changes nothing but the place of the worker.
LEMMA WorkerEofKeeps ==
  ASSUME SearchInductive, NEW w \in Searchers, Search!WorkerEof(w)
  PROVE  SearchInductive'
<1>1. /\ SearchTypes /\ Known /\ Listened /\ Pending /\ OneByOne /\ Tidy /\ Alone
  BY DEF SearchInductive
<1>2. searcher[w] = "read" /\ searcher' = [searcher EXCEPT ![w] = "top"]
  BY DEF Search!WorkerEof
<1>3. /\ UNCHANGED <<fifo, starts, pidFile, unwritten, workerFifo, line, script, scriptFifo, got>>
      /\ UNCHANGED <<requests, responses, forgotten, killed, overlapped>>
  BY DEF Search!WorkerEof, Search!scriptVars, Search!paths, Search!history
<1>4. /\ \A v \in Searchers : v # w => searcher'[v] = searcher[v]
      /\ searcher'[w] = "top"
  BY <1>1, <1>2 DEF SearchTypes
<1>5. \A v \in Searchers : /\ Runs(v)' <=> Runs(v)
                           /\ Answering(v)' <=> Answering(v)
                           /\ Answering(v) \/ Sending(v) => v # w
                           /\ Sending(v)' <=> Sending(v)
  BY <1>2, <1>4 DEF Runs, Answering, Sending
<1>6. SearchTypes'
  BY <1>1, <1>2, <1>3, <1>4, SearchAssumption DEF SearchTypes, SearcherPlaces
<1>7. Known' /\ Listened'
  BY <1>1, <1>3, <1>5 DEF Known, Listened, Heard, Underway
<1>8. Pending'
  BY <1>1, <1>3, <1>4, <1>5 DEF Pending, Written, Underway
<1>9. OneByOne' /\ Tidy'
  BY <1>1, <1>3, <1>5 DEF OneByOne, Tidy, Underway
<1>10. Alone'
  <2>1. \A q \in Queries : Asking(q) => Asking(q)'
    BY <1>3, <1>4, <1>5, NobodyAnswers
  <2>2. (Calm' <=> Calm) /\ \A q \in Queries : Underway(q)' <=> Underway(q)
    BY <1>3 DEF Calm, Underway
  <2> QED BY <1>1, <1>3, <2>1, <2>2 DEF Alone, First, Second
<1> QED BY <1>6, <1>7, <1>8, <1>9, <1>10 DEF SearchInductive

\* While only one worker is not forgotten there is no other.
LEMMA SingleWorker ==
  ASSUME Known, forgotten = {}, NEW v \in Searchers, NEW w \in Searchers, Runs(v), Runs(w)
  PROVE  v = w
BY DEF Known

\* A worker that reads a query's line is at the FIFO where that query waits; one
\* that is left at another can only read a STOP.
LEMMA WorkerReadsKeeps ==
  ASSUME SearchInductive, NEW w \in Searchers, Search!WorkerReads(w)
  PROVE  SearchInductive'
<1> DEFINE f == workerFifo[w]
<1>1. /\ SearchTypes /\ Known /\ Listened /\ Pending /\ OneByOne /\ Tidy /\ Alone
  BY DEF SearchInductive
<1>2. /\ searcher[w] = "read" /\ requests[f] # << >>
      /\ line' = [line EXCEPT ![w] = Head(requests[f])]
      /\ workerFifo' = [workerFifo EXCEPT ![w] = fifo]
      /\ searcher' = [searcher EXCEPT ![w] =
           IF Head(requests[f]) = Stop THEN "ended" ELSE "openResponse"]
  BY DEF Search!WorkerReads
<1>3. PICK rest \in {<< >>, Tail(requests[f])} :
        /\ requests' = [requests EXCEPT ![f] = rest]
        /\ \/ rest = << >> \/ Written(f)
           \/ \E v \in Searchers : searcher[v] = "read" /\ v # w
  BY DEF Search!WorkerReads, Search!Leftover, Search!ScriptsAt, Search!WorkersAt, Search!Workers,
     Search!Scripts, Searchers, Scripts, Written
<1>4. /\ UNCHANGED <<fifo, starts, pidFile, unwritten, script, scriptFifo, got>>
      /\ UNCHANGED <<responses, forgotten, killed, overlapped>>
  BY DEF Search!WorkerReads, Search!scriptVars, Search!paths, Search!history
<1>5. f \in Searchers /\ f <= starts /\ requests[f] \in Seq(Scripts)
  BY <1>1, <1>2, SearchAssumption DEF SearchTypes, Searchers
<1>6. /\ rest \in Seq(Scripts) /\ requests'[f] = rest
      /\ \A g \in Searchers : g # f => requests'[g] = requests[g]
      /\ requests' \in [Searchers -> Seq(Scripts)]
  <2>1. \A s \in Seq(Scripts) : s # << >> => Tail(s) \in Seq(Scripts)
    OBVIOUS
  <2>2. rest \in Seq(Scripts)
    <3>1. Tail(requests[f]) \in Seq(Scripts) /\ << >> \in Seq(Scripts)
      BY <1>2, <1>5, <2>1
    <3> QED BY <1>3, <3>1
  <2> QED BY <1>1, <1>3, <1>5, <2>2 DEF SearchTypes
<1>7. \A v \in Searchers : v # w => /\ searcher'[v] = searcher[v] /\ workerFifo'[v] = workerFifo[v]
                                    /\ line'[v] = line[v]
  BY <1>1, <1>2 DEF SearchTypes
<1>8. /\ workerFifo'[w] = fifo /\ line'[w] = Head(requests[f])
      /\ searcher'[w] = IF Head(requests[f]) = Stop THEN "ended" ELSE "openResponse"
  BY <1>1, <1>2 DEF SearchTypes
<1>9. \A v \in Searchers : /\ Runs(v)' => Runs(v)
                           /\ Answering(v)' => Answering(v) \/ v = w
                           /\ Answering(v) => v # w /\ Answering(v)'
                           /\ Sending(v)' <=> Sending(v)
                           /\ Sending(v) => v # w
  BY <1>2, <1>7, <1>8 DEF Runs, Answering, Sending
<1>10. Runs(w)
  BY <1>2 DEF Runs
<1>11. SearchTypes'
  <2>1. searcher' \in [Searchers -> SearcherPlaces] /\ workerFifo' \in [Searchers -> 0 .. MaxStarts]
    BY <1>1, <1>2, SearchAssumption DEF SearchTypes, SearcherPlaces
  <2>2. DOMAIN line' = Searchers
    BY <1>1, <1>2 DEF SearchTypes
  <2>3. \A v \in Searchers : /\ searcher'[v] = "none" <=> v > starts
                             /\ searcher'[v] \in {"openRequest", "read", "send", "sendEnd"} => workerFifo'[v] # 0
    BY <1>1, <1>2, <1>7, <1>8 DEF SearchTypes
  <2>4. \A g \in Searchers : g > starts => requests'[g] = << >>
    BY <1>1, <1>5, <1>6, SearchAssumption DEF SearchTypes, Searchers
  <2> QED BY <1>1, <1>4, <1>6, <2>1, <2>2, <2>3, <2>4 DEF SearchTypes
<1>12. Known' /\ Listened'
  BY <1>1, <1>4, <1>7, <1>9 DEF Known, Listened, Heard, Underway
<1>13. Pending'
  <2> SUFFICES ASSUME forgotten = {} PROVE Pending'
    BY <1>4 DEF Pending
  <2>1. f = fifo /\ \A v \in Searchers : searcher[v] = "read" => v = w
    BY <1>1, <1>2, <1>10, SingleWorker DEF Pending, Runs
  <2>2. ~ Written(fifo) => requests'[fifo] = << >>
    BY <1>3, <1>6, <2>1
  <2>3. \A v \in Searchers : Runs(v)' /\ searcher'[v] # "top" => workerFifo'[v] = fifo
    BY <1>1, <1>7, <1>8, <1>9 DEF Pending
  <2> QED BY <1>1, <1>4, <2>2, <2>3 DEF Pending, Written, Underway
<1>14. OneByOne'
  BY <1>1, <1>4 DEF OneByOne, Underway
<1>15. ASSUME killed = {}, overlapped = {}
       PROVE  \/ requests[f] = <<Stop>>
              \/ f = fifo /\ \E q \in Queries : Underway(q)
  BY <1>1, <1>2, <1>5, <1>15 DEF Tidy
<1>16. Tidy'
  <2> SUFFICES ASSUME killed = {}, overlapped = {} PROVE Tidy'
    BY <1>4 DEF Tidy
  <2>1. CASE requests[f] = <<Stop>>
    <3>1. rest = << >> /\ ~ Answering(w)'
      BY <1>3, <1>8, <2>1 DEF Answering
    <3>2. \A v \in Searchers : Answering(v)' => Answering(v) /\ v # w
      BY <1>9, <3>1
    <3> QED BY <1>1, <1>4, <1>6, <1>7, <3>1, <3>2 DEF Tidy, Underway
  <2>2. CASE f = fifo /\ \E q \in Queries : Underway(q)
    BY <1>1, <1>4, <1>6, <1>7, <1>8, <1>9, <2>2 DEF Tidy, Underway
  <2> QED BY <1>15, <2>1, <2>2
<1>17. ASSUME NEW q \in Queries, Calm, q \notin overlapped, Underway(q) PROVE Asking(q)'
  <2>1. Asking(q) /\ fifo # 0
    BY <1>1, <1>17 DEF Alone, OneByOne
  <2>2. CASE f = fifo
    <3>1. script[q] = "openResponse" /\ requests[f] = <<q>> /\ \A v \in Searchers : ~ Answering(v)
      BY <1>1, <1>2, <1>17, <2>1, <2>2 DEF Asking, Underway, SearchTypes, ScriptPlaces, Scripts
    <3>2. Head(requests[f]) = q /\ q # Stop /\ rest = << >>
      BY <1>3, <3>1, SearchAssumption
    <3>3. searcher'[w] = "openResponse" /\ Serves(w, q)'
      BY <1>4, <1>8, <1>9, <3>1, <3>2 DEF Serves
    <3>4. requests'[fifo'] = << >> /\ responses'[fifo'] = << >> /\ got'[q] = << >>
      BY <1>4, <1>6, <2>1, <2>2, <3>1, <3>2 DEF Asking
    <3> QED BY <1>4, <3>1, <3>3, <3>4 DEF Asking
  <2>3. CASE f # fifo
    <3>1. requests[f] = <<Stop>>
      BY <1>1, <1>2, <1>10, <1>15, <1>17, <2>3 DEF Calm, Pending
    <3>2. ~ Answering(w)' /\ ~ Answering(w)
      BY <1>8, <1>9, <3>1 DEF Answering
    <3>3. \A v \in Searchers : (Answering(v)' <=> Answering(v)) /\ (Answering(v) => v # w)
      BY <1>9, <3>2
    <3>4. fifo \in Searchers
      BY <1>1, <2>1, SearchAssumption DEF SearchTypes, Searchers
    <3> QED BY <1>4, <1>6, <1>7, <2>1, <2>3, <3>3, <3>4, NobodyAnswers
  <2> QED BY <2>2, <2>3
<1>18. Alone'
  BY <1>1, <1>4, <1>17 DEF Alone, Calm, Underway, First, Second
<1> QED BY <1>11, <1>12, <1>13, <1>14, <1>16, <1>18 DEF SearchInductive

\* A worker that opens the response FIFO is heard by all that wait there, the
\* query that runs alone among them.
LEMMA WorkerAnswersKeeps ==
  ASSUME SearchInductive, NEW w \in Searchers, Search!WorkerAnswers(w)
  PROVE  SearchInductive'
<1> DEFINE f == workerFifo[w]
<1>1. /\ SearchTypes /\ Known /\ Listened /\ Pending /\ OneByOne /\ Tidy /\ Alone
  BY DEF SearchInductive
<1>2. /\ UNCHANGED <<fifo, starts, pidFile, unwritten, workerFifo, line, scriptFifo, got, requests>>
      /\ UNCHANGED <<responses, forgotten, killed, overlapped>>
  BY DEF Search!WorkerAnswers, Search!scriptVars, Search!paths, Search!history
<1>3. PICK place \in {"top", "send"} :
        /\ searcher[w] = "openResponse" /\ searcher' = [searcher EXCEPT ![w] = place]
        /\ place = "top" => f = 0 /\ script' = script
        /\ place = "send" =>
             /\ f # 0
             /\ script' = [s \in Scripts |->
                  IF script[s] = "openResponse" /\ scriptFifo[s] = f THEN "cat" ELSE script[s]]
             /\ \E s \in Scripts : script[s] \in {"openResponse", "cat"} /\ scriptFifo[s] = f
  <2> USE DEF Search!WorkerAnswers, Search!ScriptsAt, Search!Scripts, Scripts
  <2>1. CASE f = 0
    BY <2>1
  <2>2. CASE f # 0
    BY <2>2
  <2> QED BY <2>1, <2>2
<1>4. /\ searcher'[w] = place
      /\ \A v \in Searchers : v # w => searcher'[v] = searcher[v]
  BY <1>1, <1>3 DEF SearchTypes
<1>5. \A s \in Scripts : \/ script'[s] = script[s]
                         \/ /\ script[s] = "openResponse" /\ script'[s] = "cat"
                            /\ scriptFifo[s] = f /\ place = "send"
  BY <1>3
<1>6. \A v \in Searchers : /\ Runs(v)' <=> Runs(v)
                           /\ Answering(v)' <=> Answering(v) /\ (v = w => place = "send")
                           /\ Sending(v)' <=> Sending(v) \/ (v = w /\ place = "send")
  BY <1>3, <1>4 DEF Runs, Answering, Sending
<1>7. Answering(w) /\ Runs(w)
  BY <1>3 DEF Answering, Runs
<1>8. \A s \in Scripts : /\ Underway(s)' <=> Underway(s)
                         /\ script'[s] = "write" <=> script[s] = "write"
  BY <1>5 DEF Underway
<1>9. SearchTypes'
  <2>1. /\ searcher' \in [Searchers -> SearcherPlaces] /\ script' \in [Scripts -> ScriptPlaces]
        /\ script'[Stop] = script[Stop]
    BY <1>1, <1>3 DEF SearchTypes, SearcherPlaces, ScriptPlaces, Scripts
  <2>2. \A v \in Searchers : /\ searcher'[v] = "none" <=> v > starts
                             /\ searcher'[v] \in {"openRequest", "read", "send", "sendEnd"} =>
                                  workerFifo[v] # 0
    BY <1>1, <1>3, <1>4 DEF SearchTypes
  <2>3. /\ \A s \in Scripts : script'[s] \in {"openRequest", "write", "cat"} => scriptFifo[s] # 0
        /\ \A q \in Queries : script'[q] \notin {"kill", "remove"}
    BY <1>1, <1>3, <1>5 DEF SearchTypes, Scripts
  <2> QED BY <1>1, <1>2, <2>1, <2>2, <2>3 DEF SearchTypes
<1>10. Known'
  BY <1>1, <1>2, <1>3, <1>6 DEF Known, Scripts, SearchTypes, Underway
<1>11. Listened'
  <2>1. \A g \in Searchers : Heard(g) => Heard(g)'
    BY <1>2, <1>5 DEF Heard
  <2>2. place = "send" => Heard(f)'
    BY <1>2, <1>3 DEF Heard
  <2>3. \A v \in Searchers : Sending(v)' => Sending(v) \/ (v = w /\ place = "send")
    BY <1>6
  <2>4. \A v \in Searchers : Sending(v) => workerFifo[v] \in Searchers
    BY <1>1, SearchAssumption DEF SearchTypes, Sending, Searchers
  <2> QED BY <1>1, <1>2, <2>1, <2>2, <2>3, <2>4 DEF Listened
<1>12. Pending'
  <2>1. Written(fifo)' <=> Written(fifo)
    BY <1>2, <1>8 DEF Written
  <2> QED BY <1>1, <1>2, <1>3, <1>4, <1>5, <1>6, <1>7, <1>8, <2>1 DEF Pending, Scripts
<1>13. OneByOne'
  BY <1>1, <1>2, <1>8 DEF OneByOne, Scripts
<1>14. Tidy'
  BY <1>1, <1>2, <1>5, <1>6, <1>8 DEF Tidy, Scripts, SearchTypes
<1>15. ASSUME NEW q \in Queries, Calm, q \notin overlapped, Underway(q) PROVE Asking(q)'
  <2>1. Asking(q) /\ fifo # 0 /\ scriptFifo[q] = fifo
    BY <1>1, <1>15 DEF Alone, OneByOne
  <2>2. script[q] \in {"openRequest", "write", "openResponse", "cat"}
    BY <1>1, <1>15 DEF Underway, SearchTypes, ScriptPlaces, Scripts
  <2>3. CASE script[q] \in {"openRequest", "write"}
    <3>1. script'[q] = script[q] /\ \A v \in Searchers : Answering(v)' => Answering(v)
      BY <1>5, <1>6, <2>3 DEF Scripts
    <3> QED BY <1>2, <2>1, <2>3, <3>1 DEF Asking
  <2>4. CASE script[q] = "openResponse"
    <3>1. requests[fifo] = << >> /\ Serves(w, q)
      BY <1>7, <2>1, <2>4 DEF Asking, Serves
    <3>2. place = "send" /\ f = fifo
      BY <1>3, <2>1, <3>1 DEF Serves
    <3>3. script'[q] = "cat" /\ Serves(w, q)' /\ searcher'[w] = "send"
      BY <1>2, <1>3, <1>4, <1>6, <2>1, <2>4, <3>1, <3>2 DEF Serves, Scripts
    <3>4. requests'[fifo'] = << >> /\ responses'[fifo'] = << >> /\ got'[q] = << >>
      BY <1>2, <2>1, <2>4, <3>1 DEF Asking
    <3> QED BY <3>3, <3>4 DEF Asking
  <2>5. CASE script[q] = "cat"
    BY <1>3, <1>7, <2>1, <2>5 DEF Asking, Serves
  <2> QED BY <2>2, <2>3, <2>4, <2>5
<1>16. Alone'
  BY <1>1, <1>2, <1>5, <1>8, <1>15 DEF Alone, Calm, First, Second, Scripts, Underway
<1> QED BY <1>9, <1>10, <1>11, <1>12, <1>13, <1>14, <1>16 DEF SearchInductive

\* A worker sends one piece of the answer after the other, and goes to read the
\* next line; without a reader it ends.
LEMMA WorkerSendsKeeps ==
  ASSUME SearchInductive, NEW w \in Searchers, Search!WorkerSends(w)
  PROVE  SearchInductive'
<1> DEFINE f == workerFifo[w]
<1>1. /\ SearchTypes /\ Known /\ Listened /\ Pending /\ OneByOne /\ Tidy /\ Alone
  BY DEF SearchInductive
<1>2. /\ UNCHANGED <<fifo, starts, pidFile, unwritten, workerFifo, line, script, scriptFifo, got, requests>>
      /\ UNCHANGED <<forgotten, killed, overlapped>>
  BY DEF Search!WorkerSends, Search!scriptVars, Search!paths, Search!history
<1>3. searcher[w] \in {"send", "sendEnd"} /\ f \in Searchers
  BY <1>1, SearchAssumption DEF Search!WorkerSends, SearchTypes, Searchers
<1>4. PICK place \in {"sendEnd", "top", "ended"} :
        /\ searcher' = [searcher EXCEPT ![w] = place]
        /\ place = "ended" => ~ Heard(f) /\ responses' = responses
        /\ place # "ended" =>
             /\ Heard(f)
             /\ place = (IF searcher[w] = "send" THEN "sendEnd" ELSE "top")
             /\ responses' = [responses EXCEPT ![f] =
                  Append(@, IF searcher[w] = "send" THEN First(line[w]) ELSE Second(line[w]))]
  <2> USE DEF Search!WorkerSends, Search!ScriptsAt, Search!Scripts, Scripts, Heard, Search!Matches,
              Search!End, First, Second
  <2>1. CASE Search!ScriptsAt("cat", f) = {}
    BY <2>1
  <2>2. CASE Search!ScriptsAt("cat", f) # {}
    <3>1. Heard(f) /\ searcher' = [searcher EXCEPT ![w] = IF searcher[w] = "send" THEN "sendEnd" ELSE "top"]
      BY <1>1, <2>2 DEF SearchTypes
    <3>2. responses' = [responses EXCEPT ![f] =
            Append(@, IF searcher[w] = "send" THEN First(line[w]) ELSE Second(line[w]))]
      BY <2>2
    <3> QED BY <3>1, <3>2
  <2> QED BY <2>1, <2>2
<1>5. /\ searcher'[w] = place
      /\ \A v \in Searchers : v # w => searcher'[v] = searcher[v]
  BY <1>1, <1>4 DEF SearchTypes
<1>6. Sending(w) /\ Answering(w) /\ Runs(w)
  BY <1>3 DEF Sending, Answering, Runs
<1>7. \A v \in Searchers : /\ Runs(v)' <=> Runs(v) /\ (v = w => place # "ended")
                           /\ Answering(v)' <=> Answering(v) /\ (v = w => place = "sendEnd")
                           /\ Sending(v)' <=> Sending(v) /\ (v = w => place = "sendEnd")
  BY <1>4, <1>5, <1>6 DEF Runs, Answering, Sending
<1>8. DOMAIN responses' = Searchers /\ \A g \in Searchers : g # f => responses'[g] = responses[g]
  BY <1>1, <1>3, <1>4 DEF SearchTypes
<1>9. SearchTypes'
  <2>1. searcher' \in [Searchers -> SearcherPlaces]
    BY <1>1, <1>4 DEF SearchTypes, SearcherPlaces
  <2>2. \A v \in Searchers : /\ searcher'[v] = "none" <=> v > starts
                             /\ searcher'[v] \in {"openRequest", "read", "send", "sendEnd"} =>
                                  workerFifo[v] # 0
    BY <1>1, <1>3, <1>4, <1>5 DEF SearchTypes
  <2> QED BY <1>1, <1>2, <1>8, <2>1, <2>2 DEF SearchTypes
<1>10. Known' /\ OneByOne'
  BY <1>1, <1>2, <1>7 DEF Known, OneByOne, Underway
<1>11. killed = {} => place # "ended" /\ Heard(f)
  BY <1>1, <1>4, <1>6 DEF Listened
<1>12. Listened'
  <2>1. \A g \in Searchers : Heard(g)' <=> Heard(g)
    BY <1>2 DEF Heard
  <2>2. \A v \in Searchers : Sending(v)' => Sending(v)
    BY <1>7
  <2>3. \A v \in Searchers : Sending(v) => workerFifo[v] \in Searchers
    BY <1>1, SearchAssumption DEF SearchTypes, Sending, Searchers
  <2> QED BY <1>1, <1>2, <1>8, <1>11, <2>1, <2>2, <2>3 DEF Listened
<1>13. Pending'
  <2> SUFFICES ASSUME forgotten = {} PROVE Pending'
    BY <1>2 DEF Pending
  <2>1. \A v \in Searchers : Runs(v)' /\ searcher'[v] # "top" => Runs(v) /\ searcher[v] # "top"
    BY <1>3, <1>5, <1>7
  <2>2. killed = {} /\ fifo # 0 /\ ~ Written(fifo) => requests[fifo] = << >> \/ Underway(Stop)
    BY <1>1, <1>6 DEF Pending
  <2> QED BY <1>1, <1>2, <2>1, <2>2 DEF Pending, Written, Underway
<1>14. Tidy'
  BY <1>1, <1>2, <1>7 DEF Tidy, Underway
<1>15. ASSUME NEW q \in Queries, Calm, q \notin overlapped, Underway(q) PROVE Asking(q)'
  <2>1. Asking(q) /\ fifo # 0 /\ scriptFifo[q] = fifo
    BY <1>1, <1>15 DEF Alone, OneByOne
  <2>2. PICK s \in Scripts : script[s] = "cat"
    BY <1>11, <1>15 DEF Calm, Heard
  <2>3. s = q
    BY <1>1, <1>15, <2>2 DEF OneByOne, Underway, Scripts
  <2>4. Serves(w, q) /\ requests[fifo] = << >>
    BY <1>6, <2>1, <2>2, <2>3 DEF Asking, Serves
  <2>5. f = fifo /\ line[w] = q /\ \A v \in Searchers : Answering(v) => v = w
    BY <2>4 DEF Serves
  <2>6. CASE searcher[w] = "send"
    <3>1. got[q] = << >> /\ responses[fifo] = << >>
      BY <1>6, <2>1, <2>2, <2>3, <2>5, <2>6 DEF Asking, Serves
    <3>2. searcher'[w] = "sendEnd" /\ responses'[fifo] = <<First(q)>>
      BY <1>1, <1>3, <1>4, <1>5, <1>11, <1>15, <2>5, <2>6, <3>1 DEF Calm, SearchTypes
    <3>3. Serves(w, q)'
      BY <1>2, <1>7, <2>5 DEF Serves
    <3> QED BY <1>2, <2>2, <2>3, <2>4, <3>1, <3>2, <3>3 DEF Asking, First, Second
  <2>7. CASE searcher[w] = "sendEnd"
    <3>1. \/ got[q] = << >> /\ responses[fifo] = <<First(q)>>
          \/ got[q] = <<First(q)>> /\ responses[fifo] = << >>
      BY <1>6, <2>1, <2>2, <2>3, <2>5, <2>7 DEF Asking, Serves
    <3>2. searcher'[w] = "top" /\ responses'[fifo] = Append(responses[fifo], Second(q))
      BY <1>1, <1>3, <1>4, <1>5, <1>11, <1>15, <2>5, <2>7 DEF Calm, SearchTypes
    <3>3. \A v \in Searchers : ~ Answering(v)'
      BY <1>5, <1>7, <2>5, <3>2
    <3>4. \/ got[q] = << >> /\ responses'[fifo] = <<First(q), Second(q)>>
          \/ got[q] = <<First(q)>> /\ responses'[fifo] = <<Second(q)>>
      BY <3>1, <3>2, Pieces
    <3> QED BY <1>2, <2>2, <2>3, <2>4, <3>3, <3>4 DEF Asking, First, Second
  <2> QED BY <1>3, <2>6, <2>7
<1>16. Alone'
  BY <1>1, <1>2, <1>15 DEF Alone, Calm, First, Second, Underway
<1> QED BY <1>9, <1>10, <1>12, <1>13, <1>14, <1>16 DEF SearchInductive

\* A script that begins while another is under way does not run alone; one that
\* does finds the FIFOs of the present worker empty.
LEMMA BeginKeeps ==
  ASSUME SearchInductive, NEW s \in Scripts, Search!Begin(s)
  PROVE  SearchInductive'
<1>1. /\ SearchTypes /\ Known /\ Listened /\ Pending /\ OneByOne /\ Tidy /\ Alone
  BY DEF SearchInductive
<1>2. /\ UNCHANGED <<fifo, starts, pidFile, unwritten, searcher, workerFifo, line, got, requests, responses>>
      /\ UNCHANGED killed
      /\ forgotten' = IF s = Stop THEN forgotten \cup unwritten ELSE forgotten
  BY DEF Search!Begin, Search!workerVars, Search!paths
<1>3. PICK place \in {"openRequest", "kill", "failed"} :
        /\ script[s] = "idle"
        /\ script' = [script EXCEPT ![s] = place]
        /\ scriptFifo' = [scriptFifo EXCEPT ![s] = fifo]
        /\ place = "openRequest" <=> fifo # 0
        /\ place = "kill" => s = Stop
  BY DEF Search!Begin
<1>4. /\ overlapped \subseteq overlapped'
      /\ \/ overlapped' = overlapped /\ \A t \in Scripts : ~ Underway(t)
         \/ s \in overlapped' /\ \A t \in Scripts : Underway(t) => t \in overlapped'
  BY DEF Search!Begin, Search!Active, Search!Scripts, Scripts, Underway
<1>5. /\ script'[s] = place /\ scriptFifo'[s] = fifo
      /\ \A t \in Scripts : t # s => script'[t] = script[t] /\ scriptFifo'[t] = scriptFifo[t]
  BY <1>1, <1>3 DEF SearchTypes
<1>6. \A t \in Scripts : /\ Underway(t) => Underway(t)' /\ t # s
                         /\ Underway(t)' => Underway(t) \/ t = s
                         /\ script'[t] \in {"write", "openResponse", "cat"} =>
                              script'[t] = script[t] /\ t # s
                         /\ script[t] \in {"write", "openResponse", "cat"} =>
                              script'[t] = script[t] /\ t # s
  BY <1>3, <1>5 DEF Underway
<1>7. SearchTypes'
  <2>1. script' \in [Scripts -> ScriptPlaces] /\ scriptFifo' \in [Scripts -> 0 .. MaxStarts]
    BY <1>1, <1>3, SearchAssumption DEF SearchTypes, ScriptPlaces
  <2>2. \A t \in Scripts : /\ scriptFifo'[t] <= starts
                           /\ script'[t] \in {"openRequest", "write", "cat"} => scriptFifo'[t] # 0
    BY <1>1, <1>3, <1>5, SearchAssumption DEF SearchTypes
  <2>3. /\ \A q \in Queries : script'[q] \notin {"kill", "remove"}
        /\ script'[Stop] \notin {"openResponse", "cat"}
    BY <1>1, <1>3, <1>5, SearchAssumption DEF SearchTypes, Scripts
  <2> QED BY <1>1, <1>2, <2>1, <2>2, <2>3 DEF SearchTypes
<1>8. Known'
  <2>1. \A w \in Searchers : Runs(w)' <=> Runs(w)
    BY <1>2 DEF Runs
  <2>2. Underway(Stop)' => unwritten \subseteq forgotten'
    BY <1>1, <1>2, <1>6 DEF Known, Scripts
  <2>3. script'[Stop] = "remove" => script[Stop] = "remove"
    BY <1>3, <1>5 DEF Scripts
  <2> QED BY <1>1, <1>2, <2>1, <2>2, <2>3 DEF Known
<1>9. \A g : (Heard(g)' <=> Heard(g)) /\ (Written(g)' <=> Written(g))
  BY <1>5, <1>6 DEF Heard, Written
<1>10. Listened'
  BY <1>1, <1>2, <1>9 DEF Listened, Sending
<1>11. Pending'
  <2>1. \A t \in Scripts : script[t] = "openResponse" => script'[t] = script[t] /\ scriptFifo'[t] = scriptFifo[t]
    BY <1>5, <1>6
  <2>2. \/ scriptFifo'[Stop] = fifo
        \/ script'[Stop] = script[Stop] /\ scriptFifo'[Stop] = scriptFifo[Stop]
    <3>1. Stop \in Scripts
      BY DEF Scripts
    <3>2. CASE s = Stop
      BY <1>5, <3>2
    <3>3. CASE s # Stop
      BY <1>5, <3>1, <3>3
    <3> QED BY <3>2, <3>3
  <2>3. Underway(Stop) => Underway(Stop)'
    BY <1>6 DEF Scripts
  <2> QED BY <1>1, <1>2, <1>9, <2>1, <2>2, <2>3 DEF Pending, Runs, Answering
<1>12. OneByOne'
  <2>1. ASSUME NEW t \in Scripts, Underway(t)', t \notin overlapped'
        PROVE  t = s /\ \A u \in Scripts : ~ Underway(u)
    BY <1>4, <1>6, <2>1
  <2>2. Underway(s)' /\ s # Stop => fifo # 0
    BY <1>3, <1>5 DEF Underway
  <2> QED BY <1>2, <1>5, <1>6, <2>1, <2>2, SearchAssumption DEF OneByOne, Scripts
<1>13. ASSUME \A t \in Scripts : ~ Underway(t)
       PROVE  /\ killed = {} => \A g \in Searchers : responses[g] = << >>
              /\ killed = {} /\ overlapped = {} =>
                   /\ \A w \in Searchers : ~ Answering(w)
                   /\ \A g \in Searchers : \/ requests[g] = << >>
                                           \/ /\ requests[g] = <<Stop>> /\ g # fifo
                                              /\ script[Stop] \notin {"idle", "openRequest", "write"}
              /\ killed = {} /\ forgotten = {} /\ fifo # 0 => requests[fifo] = << >>
  <2>1. \A g : ~ Heard(g) /\ ~ Written(g)
    BY <1>13 DEF Heard, Written, Underway
  <2>2. ~ \E t \in Scripts : script[t] = "openResponse"
    BY <1>13 DEF Underway
  <2> QED BY <1>1, <1>13, <2>1, <2>2 DEF Listened, Tidy, Pending, Scripts
<1>14. Tidy'
  <2> SUFFICES ASSUME killed = {}, overlapped' = {} PROVE Tidy'
    BY <1>2 DEF Tidy
  <2>1. overlapped = {} /\ \A t \in Scripts : ~ Underway(t)
    BY <1>4
  <2>2. script[Stop] \notin {"idle", "openRequest", "write"} => script'[Stop] = script[Stop]
    BY <1>3, <1>5 DEF Scripts
  <2> QED BY <1>2, <1>13, <2>1, <2>2 DEF Tidy, Answering
<1>15. ASSUME NEW q \in Queries, Calm, q \notin overlapped', Underway(q)' PROVE Asking(q)'
  <2>1. q = s /\ \A t \in Scripts : ~ Underway(t)
    BY <1>4, <1>6, <1>15 DEF Scripts
  <2>2. place = "openRequest" /\ fifo # 0 /\ got[q] = << >>
    BY <1>1, <1>3, <1>5, <1>15, <2>1, SearchAssumption DEF Underway, Alone
  <2>3. fifo \in Searchers
    BY <1>1, <2>2, SearchAssumption DEF SearchTypes, Searchers
  <2>4. responses[fifo] = << >> /\ requests[fifo] = << >>
    BY <1>4, <1>13, <1>15, <2>1, <2>2, <2>3 DEF Calm
  <2>5. forgotten # {} => \A w \in Searchers : ~ Answering(w)
    BY <1>13, <1>15, <2>1 DEF Calm
  <2>6. forgotten' = forgotten
    BY <1>2, <2>1, SearchAssumption
  <2> QED BY <1>2, <1>5, <2>1, <2>2, <2>4, <2>5, <2>6 DEF Asking, Answering
<1>16. Alone'
  <2>1. Calm' => Calm
    BY <1>2, <1>4 DEF Calm
  <2>2. \A q \in Queries : script'[q] \in {"idle", "done"} => script'[q] = script[q] /\ got'[q] = got[q]
    BY <1>2, <1>3, <1>5 DEF Scripts
  <2> QED BY <1>1, <1>4, <1>15, <2>1, <2>2 DEF Alone, First, Second
<1> QED BY <1>7, <1>8, <1>10, <1>11, <1>12, <1>14, <1>16 DEF SearchInductive

\* A script that may write meets a reader; when it runs alone no worker answers.
LEMMA ScriptOpensKeeps ==
  ASSUME SearchInductive, NEW s \in Scripts, Search!ScriptOpens(s)
  PROVE  SearchInductive'
<1> DEFINE f == scriptFifo[s]
<1>1. /\ SearchTypes /\ Known /\ Listened /\ Pending /\ OneByOne /\ Tidy /\ Alone
  BY DEF SearchInductive
<1>2. /\ UNCHANGED <<fifo, starts, pidFile, unwritten, workerFifo, line, scriptFifo, got, requests, responses>>
      /\ UNCHANGED <<forgotten, killed, overlapped>>
  BY DEF Search!ScriptOpens, Search!paths, Search!history
<1>3. /\ script[s] = "openRequest" /\ script' = [script EXCEPT ![s] = "write"]
      /\ searcher' = [w \in Searchers |->
           IF searcher[w] = "openRequest" /\ workerFifo[w] = f THEN "read" ELSE searcher[w]]
      /\ \E w \in Searchers : searcher[w] \in {"openRequest", "read"}
  BY DEF Search!ScriptOpens, Search!WorkersAt, Search!Workers, Searchers
<1>4. /\ script'[s] = "write"
      /\ \A t \in Scripts : t # s => script'[t] = script[t]
  BY <1>1, <1>3 DEF SearchTypes
<1>5. \A w \in Searchers : \/ searcher'[w] = searcher[w]
                           \/ searcher[w] = "openRequest" /\ searcher'[w] = "read"
  BY <1>3
<1>6. \A w \in Searchers : /\ Runs(w)' <=> Runs(w)
                           /\ Answering(w)' <=> Answering(w)
                           /\ Sending(w)' <=> Sending(w)
                           /\ Answering(w) => searcher'[w] = searcher[w]
                           /\ searcher'[w] = "top" => searcher[w] = "top"
                           /\ searcher[w] = "top" => searcher'[w] = "top"
  BY <1>5 DEF Runs, Answering, Sending
<1>7. \A t \in Scripts : /\ Underway(t)' <=> Underway(t)
                         /\ script'[t] = "cat" <=> script[t] = "cat"
                         /\ script'[t] = "openResponse" <=> script[t] = "openResponse"
                         /\ script[t] = "write" => script'[t] = "write"
  BY <1>3, <1>4 DEF Underway
<1>8. Underway(s)
  BY <1>3 DEF Underway
<1>9. SearchTypes'
  <2>1. searcher' \in [Searchers -> SearcherPlaces]
    BY <1>1, <1>3 DEF SearchTypes, SearcherPlaces
  <2>2. script' \in [Scripts -> ScriptPlaces]
    BY <1>1, <1>3 DEF SearchTypes, ScriptPlaces
  <2>3. \A w \in Searchers : /\ searcher'[w] = "none" <=> w > starts
                             /\ searcher'[w] \in {"openRequest", "read", "send", "sendEnd"} =>
                                  workerFifo[w] # 0
    BY <1>1, <1>5 DEF SearchTypes
  <2>4. \A t \in Scripts : script'[t] \in {"openRequest", "write", "cat"} => scriptFifo[t] # 0
    BY <1>1, <1>3, <1>4 DEF SearchTypes
  <2>5. /\ \A q \in Queries : script'[q] \notin {"kill", "remove"}
        /\ script'[Stop] \notin {"openResponse", "cat"}
    BY <1>1, <1>4 DEF SearchTypes, Scripts
  <2> QED BY <1>1, <1>2, <2>1, <2>2, <2>3, <2>4, <2>5 DEF SearchTypes
<1>10. Known'
  BY <1>1, <1>2, <1>4, <1>6, <1>7 DEF Known, Scripts
<1>11. Listened'
  BY <1>1, <1>2, <1>6, <1>7 DEF Listened, Heard
<1>12. Pending'
  <2>1. Written(fifo) => Written(fifo)'
    BY <1>2, <1>7 DEF Written
  <2>2. script'[Stop] \in {"openRequest", "write"} => script[Stop] \in {"openRequest", "write"}
    BY <1>3, <1>4 DEF Scripts
  <2>3. Underway(Stop)' <=> Underway(Stop)
    BY <1>7 DEF Scripts
  <2>4. \A t \in Scripts : script[t] = "openResponse" => script'[t] = "openResponse"
    BY <1>7
  <2> QED BY <1>1, <1>2, <1>6, <2>1, <2>2, <2>3, <2>4 DEF Pending
<1>13. OneByOne'
  BY <1>1, <1>2, <1>7 DEF OneByOne, Scripts
<1>14. Tidy'
  <2>1. script[Stop] \notin {"idle", "openRequest", "write"} => script'[Stop] = script[Stop]
    BY <1>3, <1>4 DEF Scripts
  <2> QED BY <1>1, <1>2, <1>6, <1>7, <2>1 DEF Tidy, Scripts
<1>15. ASSUME NEW q \in Queries, Calm, q \notin overlapped, Underway(q) PROVE Asking(q)'
  <2>1. Asking(q) /\ q = s
    BY <1>1, <1>8, <1>15 DEF Alone, OneByOne, Scripts
  <2>2. \A w \in Searchers : ~ Answering(w)
    <3> SUFFICES ASSUME NEW w \in Searchers, Answering(w) PROVE FALSE
      OBVIOUS
    <3>1. forgotten = {} /\ Runs(w)
      BY <1>3, <2>1 DEF Asking, Answering, Runs
    <3>2. PICK v \in Searchers : searcher[v] \in {"openRequest", "read"}
      BY <1>3
    <3>3. v = w
      BY <1>1, <3>1, <3>2, SingleWorker DEF Runs
    <3> QED BY <3>2, <3>3 DEF Answering
  <2> QED BY <1>2, <1>3, <1>4, <1>6, <2>1, <2>2 DEF Asking
<1>16. Alone'
  <2>1. \A q \in Queries : script'[q] \in {"idle", "done"} => script'[q] = script[q]
    BY <1>4 DEF Scripts
  <2> QED BY <1>1, <1>2, <1>7, <1>15, <2>1 DEF Alone, Calm, First, Second, Scripts
<1> QED BY <1>9, <1>10, <1>11, <1>12, <1>13, <1>14, <1>16 DEF SearchInductive

\* A query that runs alone leaves its line for a worker that does not answer; a
\* script that loses its reader leaves nothing.
LEMMA ScriptWritesKeeps ==
  ASSUME SearchInductive, NEW s \in Scripts, Search!ScriptWrites(s)
  PROVE  SearchInductive'
<1> DEFINE f == scriptFifo[s]
<1>1. /\ SearchTypes /\ Known /\ Listened /\ Pending /\ OneByOne /\ Tidy /\ Alone
  BY DEF SearchInductive
<1>2. /\ UNCHANGED <<fifo, starts, pidFile, unwritten, searcher, workerFifo, line, got, responses>>
      /\ UNCHANGED <<forgotten, killed, overlapped>>
  BY DEF Search!ScriptWrites, Search!workerVars, Search!paths, Search!history
<1>3. script[s] = "write" /\ f \in Searchers /\ f <= starts /\ requests[f] \in Seq(Scripts)
  BY <1>1, SearchAssumption DEF Search!ScriptWrites, SearchTypes, Searchers
<1>4. PICK place \in {"kill", "openResponse", "failed"}, lines \in {<< >>, requests[f], Append(requests[f], s)} :
        /\ requests' = [requests EXCEPT ![f] = lines]
        /\ script' = [script EXCEPT ![s] = place]
        /\ place = "kill" => s = Stop
        /\ place = "openResponse" => s # Stop
        /\ \/ /\ place # "failed" /\ lines = Append(requests[f], s)
              /\ \E w \in Searchers : searcher[w] = "read" /\ workerFifo[w] = f
           \/ /\ place = "failed"
              /\ \/ lines = << >>
                 \/ /\ lines = requests[f]
                    /\ \E t \in Scripts : t # s /\ script[t] = "write" /\ scriptFifo[t] = f
  <2>1. CASE Search!WorkersAt("read", f) # {}
    <3>1. \E w \in Searchers : searcher[w] = "read" /\ workerFifo[w] = f
      BY <2>1 DEF Search!WorkersAt, Search!Workers, Searchers
    <3>2. /\ requests' = [requests EXCEPT ![f] = Append(requests[f], s)]
          /\ script' = [script EXCEPT ![s] = IF s = Stop THEN "kill" ELSE "openResponse"]
      BY <2>1 DEF Search!ScriptWrites
    <3> QED BY <3>1, <3>2
  <2>2. CASE Search!WorkersAt("read", f) = {}
    <3>1. /\ requests' = [requests EXCEPT ![f] =
               IF Search!ScriptsAt("write", f) = {s} THEN <<>> ELSE requests[f]]
          /\ script' = [script EXCEPT ![s] = "failed"]
      BY <2>2 DEF Search!ScriptWrites
    <3>2. Search!ScriptsAt("write", f) # {s} =>
            \E t \in Scripts : t # s /\ script[t] = "write" /\ scriptFifo[t] = f
      BY <1>3 DEF Search!ScriptsAt, Search!Scripts, Scripts
    <3> QED BY <3>1, <3>2
  <2> QED BY <2>1, <2>2
<1>5. scriptFifo' = [scriptFifo EXCEPT ![s] = fifo]
  BY DEF Search!ScriptWrites
<1>6. /\ script'[s] = place /\ scriptFifo'[s] = fifo
      /\ \A t \in Scripts : t # s => script'[t] = script[t] /\ scriptFifo'[t] = scriptFifo[t]
  BY <1>1, <1>4, <1>5 DEF SearchTypes
<1>7. lines \in Seq(Scripts)
  <2>1. \A t \in Seq(Scripts) : Append(t, s) \in Seq(Scripts)
    OBVIOUS
  <2>2. Append(requests[f], s) \in Seq(Scripts) /\ << >> \in Seq(Scripts)
    BY <1>3, <2>1
  <2> QED BY <1>3, <1>4, <2>2
<1>8. /\ requests'[f] = lines /\ requests' \in [Searchers -> Seq(Scripts)]
      /\ \A g \in Searchers : g # f => requests'[g] = requests[g]
  BY <1>1, <1>3, <1>4, <1>7 DEF SearchTypes
<1>9. \A t \in Scripts : /\ Underway(t)' <=> Underway(t) /\ (t = s => place # "failed")
                         /\ script'[t] = "cat" <=> script[t] = "cat"
                         /\ script[t] = "cat" => t # s
                         /\ script[t] = "openResponse" => t # s
                         /\ script'[t] = "write" <=> script[t] = "write" /\ t # s
  BY <1>3, <1>4, <1>6 DEF Underway
<1>10. Underway(s)
  BY <1>3 DEF Underway
<1>11. SearchTypes'
  <2>1. script' \in [Scripts -> ScriptPlaces] /\ scriptFifo' \in [Scripts -> 0 .. MaxStarts]
    BY <1>1, <1>4, <1>5, SearchAssumption DEF SearchTypes, ScriptPlaces
  <2>2. \A t \in Scripts : /\ scriptFifo'[t] <= starts
                           /\ script'[t] \in {"openRequest", "write", "cat"} => scriptFifo'[t] # 0
    BY <1>1, <1>4, <1>6, SearchAssumption DEF SearchTypes
  <2>3. /\ \A q \in Queries : script'[q] \notin {"kill", "remove"}
        /\ script'[Stop] \notin {"openResponse", "cat"}
    BY <1>1, <1>4, <1>6, SearchAssumption DEF SearchTypes, Scripts
  <2>4. \A g \in Searchers : g > starts => requests'[g] = << >>
    BY <1>1, <1>3, <1>8, SearchAssumption DEF SearchTypes, Searchers
  <2> QED BY <1>1, <1>2, <1>8, <2>1, <2>2, <2>3, <2>4 DEF SearchTypes
<1>12. Known'
  BY <1>1, <1>2, <1>4, <1>6, <1>9 DEF Known, Runs, Scripts
<1>13. Listened'
  <2>1. \A g : Heard(g)' <=> Heard(g)
    BY <1>6, <1>9 DEF Heard
  <2> QED BY <1>1, <1>2, <2>1 DEF Listened, Sending
<1>14. Pending'
  <2> SUFFICES ASSUME forgotten = {} PROVE Pending'
    BY <1>2 DEF Pending
  <2>1. fifo # 0 /\ script'[Stop] \in {"openRequest", "write"} => scriptFifo'[Stop] = fifo
    BY <1>1, <1>4, <1>6 DEF Pending, Scripts
  <2>2. ASSUME killed = {}, fifo # 0, ~ Written(fifo)'
        PROVE  \/ requests'[fifo] = << >> \/ Underway(Stop)'
               \/ /\ \E t \in Scripts : script'[t] = "openResponse" /\ scriptFifo'[t] = fifo
                  /\ \A w \in Searchers : ~ Answering(w)
    <3>1. CASE place # "failed"
      <4>1. PICK v \in Searchers : searcher[v] = "read"
        BY <1>4, <3>1
      <4>2. \A w \in Searchers : ~ Answering(w)
        BY <1>1, <4>1, SingleWorker DEF Answering, Runs
      <4>3. s = Stop => Underway(Stop)'
        BY <1>6, <1>9, <1>10, <3>1 DEF Scripts
      <4>4. s # Stop => script'[s] = "openResponse" /\ scriptFifo'[s] = fifo
        BY <1>4, <1>6, <3>1
      <4> QED BY <4>2, <4>3, <4>4
    <3>2. CASE place = "failed" /\ f = fifo
      <4>1. \A t \in Scripts : t # s => ~ (script[t] = "write" /\ scriptFifo[t] = fifo)
        BY <1>2, <1>6, <2>2 DEF Written
      <4> QED BY <1>4, <1>8, <3>2, <4>1
    <3>3. CASE place = "failed" /\ f # fifo
      <4>1. s # Stop
        BY <1>1, <1>3, <2>2, <3>3 DEF Pending
      <4>2. Underway(Stop) => Underway(Stop)'
        BY <1>9, <4>1 DEF Scripts
      <4>3. ~ Written(fifo)
        BY <1>2, <1>6, <2>2, <3>3 DEF Written
      <4>4. requests'[fifo] = requests[fifo]
        BY <1>1, <1>8, <2>2, <3>3, SearchAssumption DEF SearchTypes, Searchers
      <4>5. \A t \in Scripts : script[t] = "openResponse" =>
              script'[t] = script[t] /\ scriptFifo'[t] = scriptFifo[t]
        BY <1>6, <1>9
      <4> QED BY <1>1, <2>2, <4>2, <4>3, <4>4, <4>5 DEF Pending
    <3> QED BY <3>1, <3>2, <3>3
  <2> QED BY <1>1, <1>2, <2>1, <2>2 DEF Pending, Runs, Answering
<1>15. OneByOne'
  BY <1>1, <1>2, <1>6, <1>9 DEF OneByOne, Scripts
<1>16. ASSUME NEW q \in Queries, Calm, q \notin overlapped, Underway(q) PROVE q = s /\ Asking(q) /\ f = fifo
  BY <1>1, <1>10, <1>16 DEF Alone, OneByOne, Scripts
<1>17. Tidy'
  <2> SUFFICES ASSUME killed = {}, overlapped = {} PROVE Tidy'
    BY <1>2 DEF Tidy
  <2>1. \A t \in Scripts : Underway(t) => t = s
    BY <1>1, <1>10 DEF OneByOne
  <2>2. CASE s = Stop
    <3>1. \A g \in Searchers : requests[g] = << >>
      BY <1>1, <1>3, <2>1, <2>2, SearchAssumption DEF Tidy, Scripts
    <3>2. \A w \in Searchers : ~ Answering(w)
      BY <1>1, <2>1, <2>2, SearchAssumption DEF Tidy, Scripts
    <3>3. CASE place = "failed"
      <4>1. \A g \in Searchers : requests'[g] = << >>
        BY <1>4, <1>8, <3>1, <3>3, <1>3
      <4> QED BY <1>2, <3>2, <4>1 DEF Tidy, Answering
    <3>4. CASE place # "failed"
      <4>1. requests'[f] = <<Stop>>
        BY <1>3, <1>4, <1>8, <2>2, <3>1, <3>4, Pieces
      <4>2. script'[Stop] = "kill" /\ Underway(Stop)'
        BY <1>4, <1>6, <1>9, <1>10, <2>2, <3>4
      <4> QED BY <1>2, <1>8, <3>1, <3>2, <4>1, <4>2 DEF Tidy, Answering
    <3> QED BY <3>3, <3>4
  <2>3. CASE s # Stop
    <3>1. s \in Queries /\ Calm
      BY <2>3 DEF Scripts, Calm
    <3>2. Asking(s) /\ f = fifo
      BY <1>10, <1>16, <3>1
    <3>3. requests[fifo] = << >> /\ \A w \in Searchers : ~ Answering(w)
      BY <1>3, <3>2 DEF Asking
    <3>4. \A g \in Searchers : g # fifo => \/ requests[g] = << >>
                                           \/ /\ requests[g] = <<Stop>>
                                              /\ script[Stop] \notin {"idle", "openRequest", "write"}
      BY <1>1 DEF Tidy
    <3>5. script'[Stop] = script[Stop]
      BY <1>6, <2>3 DEF Scripts
    <3>6. CASE place = "failed"
      <4>1. requests'[fifo] = << >>
        BY <1>4, <1>8, <3>2, <3>3, <3>6
      <4> QED BY <1>2, <1>8, <3>2, <3>3, <3>4, <3>5, <4>1 DEF Tidy, Answering
    <3>7. CASE place # "failed"
      <4>1. Underway(s)'
        BY <1>9, <1>10, <3>7
      <4> QED BY <1>2, <1>8, <3>1, <3>2, <3>3, <3>4, <3>5, <4>1 DEF Tidy, Answering
    <3> QED BY <3>6, <3>7
  <2> QED BY <2>2, <2>3
<1>18. ASSUME NEW q \in Queries, Calm, q \notin overlapped, Underway(q)' PROVE Asking(q)'
  <2>1. q = s /\ Asking(q) /\ f = fifo /\ place # "failed"
    BY <1>9, <1>16, <1>18 DEF Scripts
  <2>2. place = "openResponse"
    BY <1>4, <2>1, SearchAssumption
  <2>3. /\ requests[fifo] = << >> /\ responses[fifo] = << >> /\ got[q] = << >>
        /\ \A w \in Searchers : ~ Answering(w)
    BY <1>3, <2>1 DEF Asking
  <2>4. requests'[fifo] = <<q>>
    BY <1>4, <1>8, <2>1, <2>3, Pieces
  <2> QED BY <1>2, <1>6, <2>1, <2>2, <2>3, <2>4 DEF Asking, Answering
<1>19. Alone'
  <2>1. \A q \in Queries : script'[q] \in {"idle", "done"} => script'[q] = script[q]
    BY <1>4, <1>6 DEF Scripts
  <2> QED BY <1>1, <1>2, <1>18, <2>1 DEF Alone, Calm, First, Second
<1> QED BY <1>11, <1>12, <1>13, <1>14, <1>15, <1>17, <1>19 DEF SearchInductive

\* A query that runs alone is not the one that opens a FIFO of an answer under way.
LEMMA CatOpensKeeps ==
  ASSUME SearchInductive, NEW q \in Queries, Search!CatOpens(q)
  PROVE  SearchInductive'
<1> DEFINE f == scriptFifo[q]
<1>1. /\ SearchTypes /\ Known /\ Listened /\ Pending /\ OneByOne /\ Tidy /\ Alone
  BY DEF SearchInductive
<1>2. /\ UNCHANGED <<fifo, starts, pidFile, unwritten, searcher, workerFifo, line, scriptFifo, got, requests>>
      /\ UNCHANGED <<responses, forgotten, killed, overlapped>>
  BY DEF Search!CatOpens, Search!workerVars, Search!paths, Search!history
<1>3. /\ script[q] = "openResponse"
      /\ \/ f = 0 /\ script' = [script EXCEPT ![q] = "failed"]
         \/ /\ f # 0 /\ script' = [script EXCEPT ![q] = "cat"]
            /\ \E w \in Searchers : Sending(w) /\ workerFifo[w] = f
  <2>1. CASE f = 0
    BY <2>1 DEF Search!CatOpens
  <2>2. CASE f # 0
    BY <2>2 DEF Search!CatOpens, Search!Sending, Search!WorkersAt, Search!Workers, Searchers, Sending
  <2> QED BY <2>1, <2>2
<1>4. /\ f = 0 => script'[q] = "failed"
      /\ f # 0 => script'[q] = "cat"
      /\ \A t \in Scripts : t # q => script'[t] = script[t]
      /\ q \in Scripts /\ q # Stop /\ script'[Stop] = script[Stop]
  BY <1>1, <1>3, SearchAssumption DEF SearchTypes, Scripts
<1>5. \A t \in Scripts : /\ Underway(t)' <=> Underway(t) /\ (t = q => f # 0)
                         /\ script[t] = "cat" => script'[t] = "cat"
                         /\ script'[t] = "write" <=> script[t] = "write"
  BY <1>3, <1>4 DEF Underway
<1>6. Underway(q)
  BY <1>3 DEF Underway
<1>7. SearchTypes'
  <2>1. script' \in [Scripts -> ScriptPlaces]
    BY <1>1, <1>3 DEF SearchTypes, ScriptPlaces
  <2>2. \A t \in Scripts : script'[t] \in {"openRequest", "write", "cat"} => scriptFifo[t] # 0
    BY <1>1, <1>4 DEF SearchTypes
  <2>3. \A t \in Queries : script'[t] \notin {"kill", "remove"}
    BY <1>1, <1>4 DEF SearchTypes, Scripts
  <2> QED BY <1>1, <1>2, <1>4, <2>1, <2>2, <2>3 DEF SearchTypes
<1>8. Known'
  BY <1>1, <1>2, <1>4 DEF Known, Runs, Underway
<1>9. Listened'
  <2>1. \A g : Heard(g) => Heard(g)'
    BY <1>2, <1>5 DEF Heard
  <2>2. \A w \in Searchers : Sending(w) => workerFifo[w] \in Searchers
    BY <1>1, SearchAssumption DEF SearchTypes, Sending, Searchers
  <2> QED BY <1>1, <1>2, <2>1, <2>2 DEF Listened, Sending
<1>10. Pending'
  <2> SUFFICES ASSUME forgotten = {} PROVE Pending'
    BY <1>2 DEF Pending
  <2>1. Written(fifo)' <=> Written(fifo)
    BY <1>2, <1>5 DEF Written
  <2>2. Underway(Stop)' <=> Underway(Stop)
    BY <1>2, <1>4 DEF Underway
  <2>3. ASSUME NEW t \in Scripts, fifo # 0, script[t] = "openResponse", scriptFifo[t] = fifo,
               \A w \in Searchers : ~ Answering(w)
        PROVE  script'[t] = "openResponse"
    <3>1. \A w \in Searchers : ~ Sending(w)
      BY <2>3 DEF Sending, Answering
    <3> QED BY <1>3, <1>4, <2>3, <3>1
  <2> QED BY <1>1, <1>2, <1>4, <2>1, <2>2, <2>3 DEF Pending, Runs, Answering
<1>11. OneByOne'
  BY <1>1, <1>2, <1>5 DEF OneByOne, Scripts
<1>12. q \notin overlapped => fifo # 0 /\ f = fifo
  BY <1>1, <1>6 DEF OneByOne
<1>13. Tidy'
  BY <1>1, <1>2, <1>4, <1>5, <1>12 DEF Tidy, Scripts, Answering
<1>14. ASSUME NEW r \in Queries, Calm, r \notin overlapped, Underway(r) PROVE FALSE
  <2>1. r = q /\ Asking(q)
    BY <1>1, <1>4, <1>6, <1>14 DEF Alone, OneByOne, Scripts
  <2>2. PICK w \in Searchers : Sending(w)
    BY <1>3, <1>12, <1>14, <2>1
  <2> QED BY <1>3, <2>1, <2>2 DEF Asking, Serves, Sending, Answering
<1>15. Alone'
  <2>1. \A r \in Queries : script'[r] \in {"idle", "done"} => script'[r] = script[r]
    BY <1>4 DEF Scripts
  <2>2. \A r \in Queries : Underway(r)' => Underway(r)
    BY <1>5 DEF Scripts
  <2> QED BY <1>1, <1>2, <1>14, <2>1, <2>2 DEF Alone, Calm, First, Second
<1> QED BY <1>7, <1>8, <1>9, <1>10, <1>11, <1>13, <1>15 DEF SearchInductive

\* What cat reads of the FIFO is what is missing of its answer.
LEMMA CatReadsKeeps ==
  ASSUME SearchInductive, NEW q \in Queries, Search!CatReads(q)
  PROVE  SearchInductive'
<1> DEFINE f == scriptFifo[q]
<1>1. /\ SearchTypes /\ Known /\ Listened /\ Pending /\ OneByOne /\ Tidy /\ Alone
  BY DEF SearchInductive
<1>2. /\ UNCHANGED <<fifo, starts, pidFile, unwritten, searcher, workerFifo, line, script, scriptFifo, requests>>
      /\ UNCHANGED <<forgotten, killed, overlapped>>
  BY DEF Search!CatReads, Search!workerVars, Search!paths, Search!history
<1>3. /\ script[q] = "cat" /\ responses[f] # << >>
      /\ got' = [got EXCEPT ![q] = got[q] \o responses[f]]
      /\ responses' = [responses EXCEPT ![f] = << >>]
  BY DEF Search!CatReads
<1>4. f \in Searchers
  BY <1>1, <1>3, SearchAssumption DEF SearchTypes, Searchers, Scripts
<1>5. /\ DOMAIN got' = Queries /\ got'[q] = got[q] \o responses[f]
      /\ \A r \in Queries : r # q => got'[r] = got[r]
      /\ DOMAIN responses' = Searchers /\ responses'[f] = << >>
      /\ \A g \in Searchers : g # f => responses'[g] = responses[g]
  BY <1>1, <1>3, <1>4 DEF SearchTypes
<1>6. Underway(q)
  BY <1>3 DEF Underway
<1>7. SearchTypes'
  BY <1>1, <1>2, <1>5 DEF SearchTypes
<1>8. Known' /\ Pending' /\ OneByOne' /\ Tidy'
  BY <1>1, <1>2 DEF Known, Pending, OneByOne, Tidy, Runs, Answering, Underway, Written
<1>9. Listened'
  BY <1>1, <1>2, <1>5 DEF Listened, Sending, Heard
<1>10. ASSUME NEW r \in Queries, Calm, r \notin overlapped, Underway(r) PROVE Asking(r)'
  <2>1. r = q /\ Asking(q) /\ f = fifo
    BY <1>1, <1>6, <1>10 DEF Alone, OneByOne, Scripts
  <2>2. /\ requests[fifo] = << >>
        /\ \/ /\ \E w \in Searchers : searcher[w] = "sendEnd" /\ Serves(w, q)
              /\ got[q] = << >> /\ responses[fifo] = <<First(q)>>
           \/ /\ \A w \in Searchers : ~ Answering(w)
              /\ \/ got[q] = << >> /\ responses[fifo] = <<First(q), Second(q)>>
                 \/ got[q] = <<First(q)>> /\ responses[fifo] = <<Second(q)>>
    BY <1>3, <2>1 DEF Asking
  <2>3. /\ requests'[fifo] = << >> /\ responses'[fifo] = << >> /\ script'[q] = "cat" /\ fifo' = fifo
        /\ \/ /\ \E w \in Searchers : searcher'[w] = "sendEnd" /\ Serves(w, q)'
              /\ got'[q] = <<First(q)>>
           \/ /\ \A w \in Searchers : ~ Answering(w)'
              /\ got'[q] = <<First(q), Second(q)>>
    <3>1. \A w \in Searchers : (Serves(w, q) => Serves(w, q)') /\ (Answering(w)' <=> Answering(w))
      BY <1>2 DEF Serves, Answering
    <3>2. CASE got[q] = << >> /\ responses[fifo] = <<First(q)>>
      <4>1. got'[q] = <<First(q)>>
        BY <1>5, <2>1, <3>2, Pieces
      <4> QED BY <1>2, <1>3, <1>5, <2>1, <2>2, <3>1, <3>2, <4>1
    <3>3. CASE \/ got[q] = << >> /\ responses[fifo] = <<First(q), Second(q)>>
               \/ got[q] = <<First(q)>> /\ responses[fifo] = <<Second(q)>>
      <4>1. got'[q] = <<First(q), Second(q)>>
        BY <1>5, <2>1, <3>3, Pieces
      <4>2. \A w \in Searchers : ~ Answering(w)
        <5>1. <<First(q)>> # <<First(q), Second(q)>> /\ <<First(q)>> # << >>
          OBVIOUS
        <5> QED BY <2>2, <3>3, <5>1
      <4> QED BY <1>2, <1>3, <1>5, <2>1, <2>2, <3>1, <4>1, <4>2
    <3> QED BY <2>2, <3>2, <3>3
  <2> QED BY <2>1, <2>3 DEF Asking, First, Second
<1>11. Alone'
  BY <1>1, <1>2, <1>3, <1>5, <1>10 DEF Alone, Calm, First, Second, Underway
<1> QED BY <1>7, <1>8, <1>9, <1>11 DEF SearchInductive

\* cat ends when nobody sends; a query that runs alone has then its two pieces.
LEMMA CatEndsKeeps ==
  ASSUME SearchInductive, NEW q \in Queries, Search!CatEnds(q)
  PROVE  SearchInductive'
<1> DEFINE f == scriptFifo[q]
<1>1. /\ SearchTypes /\ Known /\ Listened /\ Pending /\ OneByOne /\ Tidy /\ Alone
  BY DEF SearchInductive
<1>2. /\ UNCHANGED <<fifo, starts, pidFile, unwritten, searcher, workerFifo, line, scriptFifo, got, requests>>
      /\ UNCHANGED <<responses, forgotten, killed, overlapped>>
  BY DEF Search!CatEnds, Search!workerVars, Search!paths, Search!history
<1>3. /\ script[q] = "cat" /\ responses[f] = << >> /\ script' = [script EXCEPT ![q] = "done"]
      /\ \A w \in Searchers : Sending(w) => workerFifo[w] # f
  BY DEF Search!CatEnds, Search!Sending, Search!WorkersAt, Search!Workers, Searchers, Sending
<1>4. /\ script'[q] = "done" /\ \A t \in Scripts : t # q => script'[t] = script[t]
      /\ q \in Scripts /\ q # Stop /\ script'[Stop] = script[Stop]
  BY <1>1, <1>3, SearchAssumption DEF SearchTypes, Scripts
<1>5. \A t \in Scripts : /\ Underway(t)' <=> Underway(t) /\ t # q
                         /\ script'[t] = "write" <=> script[t] = "write"
                         /\ script'[t] = "openResponse" <=> script[t] = "openResponse"
                         /\ script'[t] = "cat" <=> script[t] = "cat" /\ t # q
  BY <1>3, <1>4 DEF Underway
<1>6. Underway(q)
  BY <1>3 DEF Underway
<1>7. SearchTypes'
  <2>1. script' \in [Scripts -> ScriptPlaces]
    BY <1>1, <1>3 DEF SearchTypes, ScriptPlaces
  <2>2. \A t \in Scripts : script'[t] \in {"openRequest", "write", "cat"} => scriptFifo[t] # 0
    BY <1>1, <1>4 DEF SearchTypes
  <2>3. \A t \in Queries : script'[t] \notin {"kill", "remove"}
    BY <1>1, <1>4 DEF SearchTypes, Scripts
  <2> QED BY <1>1, <1>2, <1>4, <2>1, <2>2, <2>3 DEF SearchTypes
<1>8. Known'
  BY <1>1, <1>2, <1>4 DEF Known, Runs, Underway
<1>9. Listened'
  <2>1. \A g : Heard(g) /\ g # f => Heard(g)'
    BY <1>2, <1>5 DEF Heard
  <2>2. \A w \in Searchers : Sending(w) => workerFifo[w] # f
    BY <1>3
  <2>3. \A g \in Searchers : responses[g] # << >> => g # f
    BY <1>3
  <2> QED BY <1>1, <1>2, <2>1, <2>2, <2>3 DEF Listened, Sending
<1>10. Pending'
  <2>1. (Written(fifo)' <=> Written(fifo)) /\ (Underway(Stop)' <=> Underway(Stop))
    BY <1>2, <1>4, <1>5 DEF Written, Underway
  <2> QED BY <1>1, <1>2, <1>4, <1>5, <2>1 DEF Pending, Runs, Answering
<1>11. OneByOne'
  BY <1>1, <1>2, <1>5 DEF OneByOne, Scripts
<1>12. ASSUME Calm, q \notin overlapped
       PROVE  /\ requests[fifo] = << >> /\ got[q] = <<First(q), Second(q)>>
              /\ \A w \in Searchers : ~ Answering(w)
  <2>1. Asking(q) /\ f = fifo
    BY <1>1, <1>6, <1>12 DEF Alone, OneByOne
  <2>2. \A w \in Searchers : searcher[w] \in {"send", "sendEnd"} => ~ Serves(w, q)
    BY <1>3, <2>1 DEF Serves, Sending
  <2> QED BY <1>3, <2>1, <2>2 DEF Asking
<1>13. Tidy'
  <2> SUFFICES ASSUME killed = {}, overlapped = {} PROVE Tidy'
    BY <1>2 DEF Tidy
  <2>1. requests[fifo] = << >> /\ \A w \in Searchers : ~ Answering(w)
    BY <1>12 DEF Calm
  <2> QED BY <1>1, <1>2, <1>4, <2>1 DEF Tidy, Answering
<1>14. \A r \in Queries : Calm /\ r \notin overlapped => ~ Underway(r)'
  BY <1>1, <1>4, <1>5, <1>6 DEF OneByOne, Scripts
<1>15. Alone'
  <2>1. \A r \in Queries : r # q => script'[r] = script[r]
    BY <1>4 DEF Scripts
  <2> QED BY <1>1, <1>2, <1>4, <1>12, <1>14, <2>1 DEF Alone, Calm, First, Second
<1> QED BY <1>7, <1>8, <1>9, <1>10, <1>11, <1>13, <1>15 DEF SearchInductive

\* After an interrupted query nothing is said of answers any more.
LEMMA InterruptKeeps ==
  ASSUME SearchInductive, NEW q \in Queries, Search!Interrupt(q)
  PROVE  SearchInductive'
<1> DEFINE f == scriptFifo[q]
<1>1. /\ SearchTypes /\ Known /\ Listened /\ Pending /\ OneByOne /\ Tidy /\ Alone
  BY DEF SearchInductive
<1>2. /\ UNCHANGED <<fifo, starts, pidFile, unwritten, searcher, workerFifo, line, scriptFifo, got>>
      /\ UNCHANGED <<forgotten, overlapped>> /\ killed' # {}
  BY DEF Search!Interrupt, Search!workerVars, Search!paths
<1>3. /\ Underway(q) /\ script' = [script EXCEPT ![q] = "failed"]
      /\ requests' = requests \/ requests' = [requests EXCEPT ![f] = << >>]
      /\ responses' = responses \/ responses' = [responses EXCEPT ![f] = << >>]
  BY DEF Search!Interrupt, Search!Active, Underway
<1>4. /\ script'[q] = "failed" /\ \A t \in Scripts : t # q => script'[t] = script[t]
      /\ q \in Scripts /\ q # Stop /\ script'[Stop] = script[Stop]
  BY <1>1, <1>3, SearchAssumption DEF SearchTypes, Scripts
<1>5. \A t \in Scripts : Underway(t)' => Underway(t)
  BY <1>4 DEF Underway
<1>6. SearchTypes'
  <2>1. script' \in [Scripts -> ScriptPlaces]
    BY <1>1, <1>3 DEF SearchTypes, ScriptPlaces
  <2>2. \A t \in Scripts : script'[t] \in {"openRequest", "write", "cat"} => scriptFifo[t] # 0
    BY <1>1, <1>4 DEF SearchTypes
  <2>3. \A t \in Queries : script'[t] \notin {"kill", "remove"}
    BY <1>1, <1>4 DEF SearchTypes, Scripts
  <2>4. << >> \in Seq(Scripts)
    OBVIOUS
  <2>5. /\ requests' \in [Searchers -> Seq(Scripts)]
        /\ \A g \in Searchers : g > starts => requests'[g] = << >>
    <3>1. [requests EXCEPT ![f] = << >>] \in [Searchers -> Seq(Scripts)]
      BY <1>1, <2>4 DEF SearchTypes
    <3>2. \A g \in Searchers : [requests EXCEPT ![f] = << >>][g] \in {<< >>, requests[g]}
      BY <1>1 DEF SearchTypes
    <3> QED BY <1>1, <1>3, <3>1, <3>2 DEF SearchTypes
  <2>6. DOMAIN responses' = Searchers
    BY <1>1, <1>3 DEF SearchTypes
  <2> QED BY <1>1, <1>2, <1>4, <2>1, <2>2, <2>3, <2>5, <2>6 DEF SearchTypes
<1>7. Known' /\ Pending'
  BY <1>1, <1>2, <1>4 DEF Known, Pending, Runs, Underway
<1>8. Listened' /\ Tidy'
  BY <1>2 DEF Listened, Tidy
<1>9. OneByOne'
  BY <1>1, <1>2, <1>5 DEF OneByOne, Scripts
<1>10. Alone'
  <2>1. \A r \in Queries : script'[r] = "idle" => script[r] = "idle"
    BY <1>4 DEF Scripts
  <2> QED BY <1>1, <1>2, <2>1 DEF Alone, Calm
<1> QED BY <1>6, <1>7, <1>8, <1>9, <1>10 DEF SearchInductive

\* After the kill of the worker in the pid file only forgotten ones run.
LEMMA KillKeeps ==
  ASSUME SearchInductive, Search!Kill
  PROVE  SearchInductive'
<1>1. /\ SearchTypes /\ Known /\ Listened /\ Pending /\ OneByOne /\ Tidy /\ Alone
  BY DEF SearchInductive
<1>2. /\ UNCHANGED <<fifo, starts, pidFile, unwritten, workerFifo, line, scriptFifo, got, requests>>
      /\ UNCHANGED <<responses, forgotten, killed, overlapped>>
  BY DEF Search!Kill, Search!paths, Search!history
<1>3. /\ script[Stop] = "kill" /\ script' = [script EXCEPT ![Stop] = "remove"]
      /\ searcher' = IF pidFile # 0 THEN [searcher EXCEPT ![pidFile] = "ended"] ELSE searcher
  BY DEF Search!Kill
<1>4. /\ script'[Stop] = "remove" /\ \A t \in Scripts : t # Stop => script'[t] = script[t]
      /\ Stop \in Scripts /\ \A q \in Queries : q \in Scripts /\ q # Stop
  BY <1>1, <1>3, SearchAssumption DEF SearchTypes, Scripts
<1>5. \A w \in Searchers : IF w = pidFile THEN searcher'[w] = "ended" ELSE searcher'[w] = searcher[w]
  BY <1>1, <1>3, SearchAssumption DEF SearchTypes, Searchers
<1>6. \A w \in Searchers : /\ Runs(w)' => Runs(w) /\ w # pidFile
                           /\ Answering(w)' => Answering(w)
                           /\ Sending(w)' => Sending(w)
                           /\ searcher'[w] = searcher[w] \/ ~ Runs(w)'
  BY <1>5 DEF Runs, Answering, Sending
<1>7. \A t \in Scripts : /\ Underway(t)' <=> Underway(t)
                         /\ script'[t] \in {"write", "openResponse", "cat"} => script'[t] = script[t]
                         /\ script[t] \in {"write", "openResponse", "cat"} => script'[t] = script[t]
  BY <1>3, <1>4 DEF Underway
<1>8. SearchTypes'
  <2>1. script' \in [Scripts -> ScriptPlaces]
    BY <1>1, <1>3 DEF SearchTypes, ScriptPlaces
  <2>2. searcher' \in [Searchers -> SearcherPlaces]
    <3>1. pidFile # 0 => [searcher EXCEPT ![pidFile] = "ended"] \in [Searchers -> SearcherPlaces]
      BY <1>1 DEF SearchTypes, SearcherPlaces
    <3> QED BY <1>1, <1>3, <3>1 DEF SearchTypes
  <2>3. \A w \in Searchers : /\ searcher'[w] = "none" <=> w > starts
                             /\ searcher'[w] \in {"openRequest", "read", "send", "sendEnd"} =>
                                  workerFifo[w] # 0
    <3>1. \A w \in Searchers : w = pidFile => ~ (w > starts)
      BY <1>1, SearchAssumption DEF SearchTypes, Searchers
    <3> QED BY <1>1, <1>5, <3>1 DEF SearchTypes
  <2>4. \A t \in Scripts : script'[t] \in {"openRequest", "write", "cat"} => scriptFifo[t] # 0
    BY <1>1, <1>4 DEF SearchTypes
  <2>5. \A t \in Queries : script'[t] \notin {"kill", "remove"}
    BY <1>1, <1>4 DEF SearchTypes
  <2> QED BY <1>1, <1>2, <1>4, <2>1, <2>2, <2>3, <2>4, <2>5 DEF SearchTypes
<1>9. Known'
  <2>1. Underway(Stop) /\ unwritten \subseteq forgotten
    BY <1>1, <1>3 DEF Known, Underway
  <2> QED BY <1>1, <1>2, <1>6, <2>1 DEF Known
<1>10. Listened'
  <2>1. \A g : Heard(g)' <=> Heard(g)
    BY <1>2, <1>7 DEF Heard
  <2>2. \A w \in Searchers : Sending(w)' => Sending(w)
    BY <1>6
  <2> QED BY <1>1, <1>2, <2>1, <2>2 DEF Listened
<1>11. Pending'
  <2>1. Written(fifo)' <=> Written(fifo)
    BY <1>2, <1>7 DEF Written
  <2>2. Underway(Stop)'
    BY <1>4 DEF Underway
  <2>3. \A w \in Searchers : Runs(w)' /\ searcher'[w] # "top" => Runs(w) /\ searcher[w] # "top"
    BY <1>6
  <2> QED BY <1>1, <1>2, <1>4, <2>2, <2>3 DEF Pending
<1>12. OneByOne'
  BY <1>1, <1>2, <1>4, <1>7 DEF OneByOne
<1>13. Tidy'
  <2>1. script'[Stop] \notin {"idle", "openRequest", "write"} /\ Underway(Stop)'
    BY <1>4 DEF Underway
  <2> QED BY <1>1, <1>2, <1>4, <1>6, <1>7, <2>1 DEF Tidy
<1>14. Alone'
  <2>1. \A q \in Queries : script'[q] = script[q] /\ (Underway(q)' => Underway(q))
    BY <1>4, <1>7
  <2>2. \A q \in Queries : q \notin overlapped => ~ Underway(q)
    BY <1>1, <1>3, <1>4 DEF OneByOne, Underway
  <2> QED BY <1>1, <1>2, <2>1, <2>2 DEF Alone, Calm, First, Second
<1> QED BY <1>8, <1>9, <1>10, <1>11, <1>12, <1>13, <1>14 DEF SearchInductive

\* The FIFOs and the pid file go together.
LEMMA RemoveKeeps ==
  ASSUME SearchInductive, Search!Remove
  PROVE  SearchInductive'
<1>1. /\ SearchTypes /\ Known /\ Listened /\ Pending /\ OneByOne /\ Tidy /\ Alone
  BY DEF SearchInductive
<1>2. /\ UNCHANGED <<starts, unwritten, searcher, workerFifo, line, scriptFifo, got, requests>>
      /\ UNCHANGED <<responses, forgotten, killed, overlapped>>
      /\ fifo' = 0 /\ pidFile' = 0
  BY DEF Search!Remove, Search!workerVars, Search!history
<1>3. script[Stop] = "remove" /\ script' = [script EXCEPT ![Stop] = "done"]
  BY DEF Search!Remove
<1>4. /\ script'[Stop] = "done" /\ \A t \in Scripts : t # Stop => script'[t] = script[t]
      /\ Stop \in Scripts /\ \A q \in Queries : q \in Scripts /\ q # Stop
  BY <1>1, <1>3, SearchAssumption DEF SearchTypes, Scripts
<1>5. Underway(Stop) /\ \A t \in Scripts : Underway(t)' => Underway(t)
  BY <1>3, <1>4 DEF Underway
<1>6. \A q \in Queries : q \notin overlapped => ~ Underway(q)
  BY <1>1, <1>4, <1>5 DEF OneByOne
<1>7. SearchTypes'
  <2>1. script' \in [Scripts -> ScriptPlaces]
    BY <1>1, <1>3 DEF SearchTypes, ScriptPlaces
  <2>2. \A t \in Scripts : script'[t] \in {"openRequest", "write", "cat"} => scriptFifo[t] # 0
    BY <1>1, <1>4 DEF SearchTypes
  <2>3. \A t \in Queries : script'[t] \notin {"kill", "remove"}
    BY <1>1, <1>4 DEF SearchTypes
  <2> QED BY <1>1, <1>2, <1>4, <2>1, <2>2, <2>3 DEF SearchTypes
<1>8. \A w \in Searchers : Runs(w) => w \in forgotten
  BY <1>1, <1>3 DEF Known
<1>9. Known' /\ Pending'
  BY <1>1, <1>2, <1>4, <1>8 DEF Known, Pending, Runs, Underway
<1>10. Listened'
  <2>1. \A g : Heard(g) => Heard(g)'
    BY <1>2, <1>3, <1>4 DEF Heard
  <2> QED BY <1>1, <1>2, <2>1 DEF Listened, Sending
<1>11. OneByOne'
  BY <1>1, <1>2, <1>4, <1>5, <1>6 DEF OneByOne
<1>12. Tidy'
  <2> SUFFICES ASSUME killed = {}, overlapped = {} PROVE Tidy'
    BY <1>2 DEF Tidy
  <2>1. \A w \in Searchers : ~ Answering(w)
    BY <1>1, <1>6 DEF Tidy
  <2>2. \A f \in Searchers : requests[f] = << >> \/ (requests[f] = <<Stop>> /\ f # 0)
    BY <1>1, <1>6, SearchAssumption DEF Tidy, Searchers
  <2> QED BY <1>2, <1>4, <2>1, <2>2 DEF Tidy, Answering
<1>13. Alone'
  <2>1. \A q \in Queries : script'[q] = script[q] /\ (Underway(q)' => Underway(q))
    BY <1>4, <1>5
  <2> QED BY <1>1, <1>2, <1>6, <2>1 DEF Alone, Calm, First, Second
<1> QED BY <1>7, <1>9, <1>10, <1>11, <1>12, <1>13 DEF SearchInductive

\* The invariant of the search daemon, for any queries and any number of starts.
LEMMA SearchInvariant == Search!Spec => []SearchInductive
<1>1. SearchInductive /\ [Search!Next]_(Search!vars) => SearchInductive'
  <2> SUFFICES ASSUME SearchInductive, [Search!Next]_(Search!vars) PROVE SearchInductive'
    OBVIOUS
  <2>1. CASE Search!Start
    BY <2>1, StartDaemonKeeps, StartEndsKeeps DEF Search!Start, Search!Workers, Searchers
  <2>2. ASSUME NEW w \in Searchers, Search!Work(w) PROVE SearchInductive'
    BY <2>2, WorkerOpensKeeps, WorkerReadsKeeps, WorkerEofKeeps, WorkerAnswersKeeps, WorkerSendsKeeps
    DEF Search!Work
  <2>3. ASSUME NEW s \in Scripts, Search!Begin(s) \/ Search!Run(s) PROVE SearchInductive'
    BY <2>3, BeginKeeps, ScriptOpensKeeps, ScriptWritesKeeps, CatOpensKeeps, CatReadsKeeps, CatEndsKeeps,
       KillKeeps, RemoveKeeps DEF Search!Run
  <2>4. ASSUME NEW q \in Queries, Search!Interrupt(q) PROVE SearchInductive'
    BY <2>4, InterruptKeeps
  <2>5. CASE UNCHANGED Search!vars
    BY <2>5 DEF Search!vars, Search!workerVars, Search!scriptVars, Search!paths, Search!history,
       SearchInductive, SearchTypes, Known, Listened, Pending, OneByOne, Tidy, Alone, Runs, Answering,
       Sending, Underway, Written, Heard, First, Second, Calm, Serves, Asking
  <2> QED BY <2>1, <2>2, <2>3, <2>4, <2>5
          DEF Search!Next, Search!Workers, Search!Scripts, Searchers, Scripts
<1> QED BY <1>1, InitSearch, PTL DEF Search!Spec

\* However often the daemon is started and whatever queries and a stop do
\* meanwhile, a worker that runs is in the pid file, where daemon-stop finds it, or
\* about to be, unless another start, a stop at the same time as its own start, or
\* an interrupted start forgot it.
THEOREM WorkersKnown == Search!Spec => []WorkerIsKnown
<1>1. SearchInductive => WorkerIsKnown
  BY DEF SearchInductive, Known, WorkerIsKnown, Search!WorkerIsKnown, Search!WorkerRuns, Search!Workers,
     Searchers, Runs
<1> QED BY <1>1, SearchInvariant, PTL

\* For any number of queries and daemon-starts, a query that ran alone and came
\* to its end has its own answer, if none was interrupted and not both a worker
\* was forgotten and scripts overlapped.
THEOREM AnswersAreOwn == Search!Spec => []AnswerIsOwn
<1>1. SearchInductive => AnswerIsOwn
  BY DEF SearchInductive, Alone, Calm, AnswerIsOwn, Search!AnswerIsOwn, Search!Matches, Search!End,
     First, Second
<1> QED BY <1>1, SearchInvariant, PTL

=============================================================================
