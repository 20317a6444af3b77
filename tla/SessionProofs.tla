--------------------------- MODULE SessionProofs ---------------------------
(***************************************************************************)
(* Proofs about a session.                                                 *)
(***************************************************************************)
EXTENDS Session, SequenceTheorems, TLAPS

-----------------------------------------------------------------------------
(* Nothing is left behind *)

\* The handler's FIFOs exist from mkfifo to unlink, its worker from fork to
\* waitpid.
Tidy ==
  /\ hpc \in {"greet", "top", "input", "mkfifo", "shut", "closed"} => fifos = {}
  /\ hpc \in {"greet", "top", "input", "mkfifo", "fork", "shut", "closed"} => wpc = "none"

\* Every step keeps it.
LEMMA TidyKept == Tidy /\ [Next]_vars => Tidy'
<1> SUFFICES ASSUME Tidy, [Next]_vars PROVE Tidy'
  OBVIOUS
<1>1. CASE UNCHANGED <<hpc, fifos, wpc>>
  BY <1>1 DEF Tidy
<1>2. CASE User \/ ClientIO \/ ClientKilled
  BY <1>1, <1>2 DEF User, Fill, UseService, Exit, Choose, ClientIO, ClientReadId, ClientWrite,
     ClientSent, ClientReceive, ClientLeave, ClientKilled, handler, fifo, worker
<1>3. CASE HandlerGreet \/ HandlerReadOption \/ HandlerReply
  BY <1>3 DEF Tidy, HandlerGreet, HandlerReadOption, HandlerReply, WriteToClient, fifo, worker
<1>4. CASE HandlerEndOfStream \/ HandlerClose \/ HandlerInput
  BY <1>4 DEF Tidy, HandlerEndOfStream, HandlerClose, HandlerInput, fifo, worker
<1>5. CASE HandlerMakeFifos
  BY <1>5 DEF Tidy, HandlerMakeFifos, worker
<1>6. CASE HandlerFork
  BY <1>6 DEF Tidy, HandlerFork
<1>7. CASE HandlerSend \/ HandlerReceive \/ HandlerCloseFifos
  BY <1>7 DEF Tidy, HandlerSend, HandlerReceive, HandlerCloseFifos, fifo, worker
<1>8. CASE HandlerReap
  BY <1>8 DEF Tidy, HandlerReap
<1>9. CASE Rendezvous
  BY <1>9 DEF Tidy, Rendezvous
<1>10. CASE Worker
  BY <1>10 DEF Tidy, Worker, WorkerInput, WorkerCompute, WorkerOutput, WorkerExit, handler, fifo
<1>11. CASE UNCHANGED vars
  BY <1>1, <1>11 DEF vars, handler, fifo, worker
<1> QED
  BY <1>2, <1>3, <1>4, <1>5, <1>6, <1>7, <1>8, <1>9, <1>10, <1>11 DEF Next, Handler

\* On every path back to the top of its loop the handler has unlinked its FIFOs
\* and reaped its worker (server.c, unlink and waitpid of the cases 1, 2 and 4).
THEOREM NothingLeftBehind == Spec => []CleanAtTop
<1>1. Init => Tidy
  BY DEF Init, Tidy
<1>2. Tidy => CleanAtTop
  BY DEF Tidy, CleanAtTop
<1> QED
  BY <1>1, <1>2, TidyKept, PTL DEF Spec

-----------------------------------------------------------------------------
(* The invariant.  A request is a stream of words, cut into fields; each side *)
(* of a channel is so many fields into it.                                   *)

\* Nothing that puts the two sides of a channel out of step has happened.
Clean == cause \cap {"overflow", "unavailable"} = {}
Early == "early exit" \in cause

\* The operations, their fields, and the words of the fields p + 1 .. q of r.
Served == {1, 2, 4}
Field(i) == TwoMatrices[i]
Count(o) == IF o = 1 THEN 6 ELSE 3

Mark(r, k) ==
  IF k <= 2 THEN k
  ELSE IF k = 3 THEN 2 + Len(r.A)
  ELSE IF k <= 5 THEN k - 1 + Len(r.A)
  ELSE 4 + Len(r.A) + Len(r.B)

Stream(r) ==
  [i \in 1 .. Mark(r, 6) |->
     IF i = 1 THEN r.rowsA ELSE IF i = 2 THEN r.columnsA
     ELSE IF i <= Mark(r, 3) THEN r.A[i - 2]
     ELSE IF i = Mark(r, 4) THEN r.rowsB ELSE IF i = Mark(r, 5) THEN r.columnsB
     ELSE r.B[i - Mark(r, 5)]]

Between(r, p, q) == SubSeq(Stream(r), Mark(r, p) + 1, Mark(r, q))

\* The writer has n - q fields of r left to write, the reader n - p to read,
\* and those it has read are r's.
ToWrite(r, n, q, out) == out = [i \in 1 .. (n - q) |-> Words(r, Field(q + i))]

ToRead(n, p, ins) == ins = [i \in 1 .. (n - p) |-> Field(p + i)]

Agrees(r, s, p) == \A i \in 1 .. p : s[Field(i)] = r[Field(i)]

Registers ==
  [rowsA : Nat, columnsA : Nat, A : Seq(Int), rowsB : Nat, columnsB : Nat, B : Seq(Int)]

\* p fields of r have been read, each with as many words as r says.
Partial(r, p) ==
  /\ r \in Registers
  /\ \A i \in 1 .. 6 : i > p => r[Field(i)] = Blank[Field(i)]
  /\ p >= 3 => Len(r.A) = r.rowsA * r.columnsA
  /\ p >= 6 => Len(r.B) = r.rowsB * r.columnsB

Noop(x) == x \notin 1 .. 5 /\ x # -1

\* The handler's place: it waits for an option, serves a request, or has left.
Waiting == {"top", "finish", "reap"}
Serving == {"mkfifo", "fork", "open", "send", "receive", "reply"}
Done == {"shut", "closed"}

\* The client's side.
ClientTypes ==
  /\ cpc \in {"id", "menu", "send", "receive", "exit", "bye", "gone"}
  /\ shape \in Shapes \cup {NoShape}
  /\ service \in Int
  /\ outbox \in Seq(Seq(Int))
  /\ c2s \in Seq(Int)
  /\ cpc = "receive" => service \in Served
  /\ cpc \in {"id", "menu", "receive", "bye"} => outbox = << >>
  /\ cpc \in {"send", "receive"} => ~ Empty(shape)

\* Before the client has its number.
Greeting ==
  /\ cpc = "id" => c2s = << >> /\ hpc \in {"greet", "top"}
  /\ cpc = "id" /\ hpc = "top" => s2c = <<ClientId>>
  /\ hpc = "greet" => cpc \in {"id", "gone"} /\ c2s = << >> /\ s2c = << >> /\ ~ reset

\* The client has no request on the way, none it has begun to write.
Unsent ==
  \/ ClientGone
  \/ outbox = << >>
  \/ cpc = "send" /\ outbox = <<<<service>>>> /\ (Noop(service) \/ (service = -1 /\ Early))
  \/ cpc = "exit" /\ outbox = <<<<-1>>>>
  \/ /\ cpc = "send" /\ service \in Served
     /\ outbox # << >> /\ Head(outbox) = <<service>>
     /\ ToWrite(Filled(shape), Count(service), 0, Tail(outbox))

\* It has written q fields of one after its option.
Written(q) ==
  /\ service \in Served /\ ~ Empty(shape)
  /\ \/ ClientGone
     \/ cpc \in {"send", "receive"} /\ ToWrite(Filled(shape), Count(service), q, outbox)

\* The words before the m-th mean nothing; there a request may begin, or -1 be.
Option(m) ==
  /\ \A i \in 1 .. m : Noop(c2s[i])
  /\ \/ m = Len(c2s) /\ Unsent
     \/ /\ m < Len(c2s) /\ c2s[m + 1] = service
        /\ \E q \in 0 .. Count(service) :
             /\ SubSeq(c2s, m + 2, Len(c2s)) = Between(Filled(shape), 0, q)
             /\ Written(q)
     \/ /\ m < Len(c2s) /\ c2s[m + 1] = -1
        /\ Early \/ cpc \in {"exit", "bye", "gone"}

AtOption == hpc \in Waiting => \E m \in 0 .. Len(c2s) : Option(m)

\* The handler has read p fields of the request; the rest may never come.
Reading(p) ==
  /\ ToRead(Count(option), p, inputs)
  /\ Partial(reg, p)
  /\ \/ ClientGone /\ c2s = << >>
     \/ \E q \in p .. Count(option) :
          /\ option = service
          /\ c2s = Between(Filled(shape), p, q)
          /\ Agrees(Filled(shape), reg, p)
          /\ Written(q)

AtInput ==
  hpc = "input" => option \in Served /\ \E p \in 0 .. (Count(option) - 1) : Reading(p)

\* The client waits for the request the handler has read.
Asking ==
  /\ cpc \in {"send", "receive"} /\ service = option /\ outbox = << >>
  /\ Agrees(Filled(shape), reg, Count(option))

InService ==
  hpc \in Serving =>
    /\ option \in Served /\ Partial(reg, Count(option))
    /\ c2s = << >>
    /\ ClientGone \/ Asking

\* What the client has not read yet is its answer, of the right length.
Sized(w, n) == w \in Seq({w[i] : i \in 1 .. n}) /\ Len(w) = n

Answered(w) ==
  /\ Sized(w, Len(Wanted(service, shape)))
  /\ "thread" \in cause \/ w = Wanted(service, shape)

Unread ==
  hpc \notin Done =>
    /\ cpc \in {"menu", "exit", "bye"} => s2c = << >>
    /\ cpc \in {"send", "receive"} /\ s2c # << >> =>
         /\ hpc \in Waiting /\ c2s = << >> /\ outbox = << >>
         /\ service \in Served /\ Answered(s2c)

\* RST is followed by no further write().
NoMoreWrites ==
  reset => hpc \in Done \/ (ClientGone /\ hpc \in Waiting /\ c2s = << >>)

Leaving == hpc \in Done => Early \/ cpc \in {"exit", "bye", "gone"}

\* The worker's side.
Starting ==
  /\ hpc \in {"fork", "open"} => req = << >> /\ rsp = << >>
  /\ hpc = "open" => wpc \in {"open", "dead"}
  /\ hpc = "open" /\ wpc = "open" =>
       ToRead(Count(option), 0, winputs) /\ wreg = Blank /\ wout = << >>

\* The worker has its answer in hand, or in the FIFO, once it has read all.
Computed(p) ==
  CASE wpc = "input"                   -> wout = << >> /\ rsp = << >>
    [] wpc = "output" /\ wout # << >>  ->
         /\ p = Count(option) /\ rsp = << >>
         /\ Len(wout) = 1 /\ Sized(wout[1], Len(wout[1])) /\ Len(wout[1]) \in Nat
         /\ "thread" \in cause \/ wout[1] = Result(option, reg)
    [] wpc \in {"output", "dead"} /\ wout = << >> ->
         /\ p = Count(option)
         /\ "thread" \in cause \/ rsp = Result(option, reg)
    [] OTHER                           -> FALSE

Passing(p, q) ==
  /\ ToRead(Count(option), p, winputs)
  /\ ToWrite(reg, Count(option), q, hout)
  /\ Mark(reg, p) <= Mark(reg, q)
  /\ req = Between(reg, p, q)
  /\ Partial(wreg, p) /\ Agrees(reg, wreg, p)
  /\ hpc = "send" <=> q < Count(option)

AtWork ==
  hpc \in {"send", "receive"} =>
    \E p \in 0 .. Count(option) : \E q \in 0 .. Count(option) : Passing(p, q) /\ Computed(p)

Replying ==
  hpc = "reply" =>
    /\ Len(hout) = 1 /\ Sized(hout[1], Len(hout[1])) /\ Len(hout[1]) \in 0 .. SegCap
    /\ ClientGone \/ Answered(hout[1])

Shown == Early \/ "thread" \in cause \/ shown.got = shown.want

Segmented == \A i \in 1 .. Len(outbox) : Len(outbox[i]) <= SegCap

ClientSide ==
  /\ Greeting /\ AtOption /\ AtInput /\ InService /\ Unread /\ NoMoreWrites /\ Leaving
  /\ Segmented /\ Replying /\ Shown

WorkerSide == Starting /\ AtWork

InStep == hpc # "killed" /\ ClientTypes /\ ClientSide /\ WorkerSide

IInv == Tidy /\ (Clean => InStep)

-----------------------------------------------------------------------------
(* Streams *)

LEMMA Fields ==
  /\ Field(1) = "rowsA" /\ Field(2) = "columnsA" /\ Field(3) = "A"
  /\ Field(4) = "rowsB" /\ Field(5) = "columnsB" /\ Field(6) = "B"
  BY DEF Field, TwoMatrices

\* The words of the six fields.
LEMMA FieldWords ==
  ASSUME NEW r \in Registers
  PROVE  /\ Words(r, Field(1)) = <<r.rowsA>> /\ Words(r, Field(2)) = <<r.columnsA>>
         /\ Words(r, Field(3)) = r.A
         /\ Words(r, Field(4)) = <<r.rowsB>> /\ Words(r, Field(5)) = <<r.columnsB>>
         /\ Words(r, Field(6)) = r.B
  BY Fields DEF Words

LEMMA RegisterTypes ==
  ASSUME NEW r \in Registers
  PROVE  /\ r.rowsA \in Nat /\ r.columnsA \in Nat /\ r.A \in Seq(Int) /\ Len(r.A) \in Nat
         /\ r.rowsB \in Nat /\ r.columnsB \in Nat /\ r.B \in Seq(Int) /\ Len(r.B) \in Nat
  BY DEF Registers

LEMMA MarkValues ==
  ASSUME NEW r \in Registers
  PROVE  /\ Mark(r, 0) = 0 /\ Mark(r, 1) = 1 /\ Mark(r, 2) = 2 /\ Mark(r, 3) = 2 + Len(r.A)
         /\ Mark(r, 4) = 3 + Len(r.A) /\ Mark(r, 5) = 4 + Len(r.A)
         /\ Mark(r, 6) = 4 + Len(r.A) + Len(r.B)
  BY RegisterTypes DEF Mark

\* The words of the stream by their place in it.
LEMMA StreamWords ==
  ASSUME NEW r \in Registers
  PROVE  /\ Stream(r)[1] = r.rowsA /\ Stream(r)[2] = r.columnsA
         /\ \A i \in 1 .. Len(r.A) : Stream(r)[2 + i] = r.A[i]
         /\ Stream(r)[3 + Len(r.A)] = r.rowsB /\ Stream(r)[4 + Len(r.A)] = r.columnsB
         /\ \A i \in 1 .. Len(r.B) : Stream(r)[4 + Len(r.A) + i] = r.B[i]
<1> DEFINE a == Len(r.A)
           b == Len(r.B)
<1>1. a \in Nat /\ b \in Nat
  BY RegisterTypes
<1>2. Stream(r) =
        [i \in 1 .. (4 + a + b) |->
           IF i = 1 THEN r.rowsA ELSE IF i = 2 THEN r.columnsA
           ELSE IF i <= 2 + a THEN r.A[i - 2]
           ELSE IF i = 3 + a THEN r.rowsB ELSE IF i = 4 + a THEN r.columnsB
           ELSE r.B[i - (4 + a)]]
  BY MarkValues DEF Stream
<1> HIDE DEF a, b
<1>3. /\ Stream(r)[1] = r.rowsA /\ Stream(r)[2] = r.columnsA
      /\ Stream(r)[3 + a] = r.rowsB /\ Stream(r)[4 + a] = r.columnsB
  BY <1>1, <1>2
<1>4. \A i \in 1 .. a : Stream(r)[2 + i] = r.A[i]
  BY <1>1, <1>2
<1>5. \A i \in 1 .. b : Stream(r)[4 + a + i] = r.B[i]
  BY <1>1, <1>2
<1> QED
  BY <1>3, <1>4, <1>5 DEF a, b

\* Each field takes its own words of the stream: w those after the m-th, to the n-th.
Takes(r, m, n, w) ==
  /\ m \in Nat /\ n \in Nat /\ w \in Seq(Int) /\ n = m + Len(w)
  /\ \A i \in 1 .. Len(w) : Stream(r)[m + i] = w[i]

LEMMA Marks ==
  ASSUME NEW r \in Registers, NEW k \in 0 .. 5
  PROVE  Takes(r, Mark(r, k), Mark(r, k + 1), Words(r, Field(k + 1)))
<1> DEFINE a == Len(r.A)
           b == Len(r.B)
<1>1. \A x \in Int : <<x>> \in Seq(Int) /\ Len(<<x>>) = 1 /\ <<x>>[1] = x
  OBVIOUS
<1>2. a \in Nat /\ b \in Nat
  BY RegisterTypes
<1>3. /\ Takes(r, 0, 1, <<r.rowsA>>) /\ Takes(r, 1, 2, <<r.columnsA>>)
      /\ Takes(r, 2, 2 + a, r.A)
      /\ Takes(r, 2 + a, 3 + a, <<r.rowsB>>) /\ Takes(r, 3 + a, 4 + a, <<r.columnsB>>)
      /\ Takes(r, 4 + a, 4 + a + b, r.B)
  <2>1. /\ a = Len(r.A) /\ b = Len(r.B)
        /\ \A i \in 1 .. a : Stream(r)[2 + i] = r.A[i]
        /\ \A i \in 1 .. b : Stream(r)[4 + a + i] = r.B[i]
        /\ Stream(r)[3 + a] = r.rowsB /\ Stream(r)[4 + a] = r.columnsB
        /\ Stream(r)[1] = r.rowsA /\ Stream(r)[2] = r.columnsA
    BY StreamWords
  <2> HIDE DEF a, b
  <2>2. /\ 2 + a \in Nat /\ 3 + a \in Nat /\ 4 + a \in Nat /\ 4 + a + b \in Nat
        /\ 3 + a = (2 + a) + 1 /\ 4 + a = (3 + a) + 1 /\ 4 + a + b = (4 + a) + b
    BY ONLY <1>2
  <2>3. \A i \in 1 .. 1 : i = 1
    OBVIOUS
  <2>4. Takes(r, 0, 1, <<r.rowsA>>) /\ Takes(r, 1, 2, <<r.columnsA>>)
    BY <1>1, <2>1, <2>3, RegisterTypes DEF Takes
  <2>5. Takes(r, 2 + a, 3 + a, <<r.rowsB>>) /\ Takes(r, 3 + a, 4 + a, <<r.columnsB>>)
    <3>1. \A i \in 1 .. 1 : (2 + a) + i = 3 + a /\ (3 + a) + i = 4 + a
      BY <1>2
    <3> QED
      BY <1>1, <2>1, <2>2, <2>3, <3>1, RegisterTypes DEF Takes
  <2>6. Takes(r, 2, 2 + a, r.A)
    BY <1>2, <2>1, <2>2, RegisterTypes, Zenon DEF Takes
  <2>7. Takes(r, 4 + a, 4 + a + b, r.B)
    BY <1>2, <2>1, <2>2, RegisterTypes, Zenon DEF Takes
  <2> QED
    BY <2>4, <2>5, <2>6, <2>7
<1>4. k + 1 \in 1 .. 6
  OBVIOUS
<1>5. CASE k = 0
  <2>1. k + 1 = 1
    BY <1>5
  <2> QED
    BY <1>3, <1>5, <2>1, MarkValues, FieldWords, Zenon
<1>6. CASE k = 1
  <2>1. k + 1 = 2
    BY <1>6
  <2> QED
    BY <1>3, <1>6, <2>1, MarkValues, FieldWords, Zenon
<1>7. CASE k = 2
  <2>1. k + 1 = 3
    BY <1>7
  <2> QED
    BY <1>3, <1>7, <2>1, MarkValues, FieldWords, Zenon
<1>8. CASE k = 3
  <2>1. k + 1 = 4
    BY <1>8
  <2> QED
    BY <1>3, <1>8, <2>1, MarkValues, FieldWords, Zenon
<1>9. CASE k = 4
  <2>1. k + 1 = 5
    BY <1>9
  <2> QED
    BY <1>3, <1>9, <2>1, MarkValues, FieldWords, Zenon
<1>10. CASE k = 5
  <2>1. k + 1 = 6
    BY <1>10
  <2> QED
    BY <1>3, <1>10, <2>1, MarkValues, FieldWords, Zenon
<1> QED
  BY <1>5, <1>6, <1>7, <1>8, <1>9, <1>10

LEMMA MarkTypes ==
  ASSUME NEW r \in Registers, NEW k \in 0 .. 6
  PROVE  Mark(r, k) \in Nat /\ Mark(r, k) <= Mark(r, 6)
<1> DEFINE a == Len(r.A)
           b == Len(r.B)
<1>1. a \in Nat /\ b \in Nat
  BY RegisterTypes
<1>2. /\ Mark(r, 0) = 0 /\ Mark(r, 1) = 1 /\ Mark(r, 2) = 2 /\ Mark(r, 3) = 2 + a
      /\ Mark(r, 4) = 3 + a /\ Mark(r, 5) = 4 + a /\ Mark(r, 6) = 4 + a + b
  BY MarkValues
<1> HIDE DEF a, b
<1> QED
  BY ONLY <1>1, <1>2, k \in 0 .. 6

LEMMA MarkOrder ==
  ASSUME NEW r \in Registers, NEW p \in 0 .. 6, NEW q \in 0 .. 6
  PROVE  p <= q => Mark(r, p) <= Mark(r, q)
<1> DEFINE a == Len(r.A)
           b == Len(r.B)
<1>1. a \in Nat /\ b \in Nat
  BY RegisterTypes
<1>2. /\ Mark(r, 0) = 0 /\ Mark(r, 1) = 1 /\ Mark(r, 2) = 2 /\ Mark(r, 3) = 2 + a
      /\ Mark(r, 4) = 3 + a /\ Mark(r, 5) = 4 + a /\ Mark(r, 6) = 4 + a + b
  BY MarkValues
<1> HIDE DEF a, b
<1> QED
  BY ONLY <1>1, <1>2, p \in 0 .. 6, q \in 0 .. 6

LEMMA StreamType ==
  ASSUME NEW r \in Registers
  PROVE  Stream(r) \in Seq(Int) /\ Len(Stream(r)) = Mark(r, 6)
<1>1. /\ r.rowsA \in Int /\ r.columnsA \in Int /\ r.rowsB \in Int /\ r.columnsB \in Int
      /\ \A i \in 1 .. Len(r.A) : r.A[i] \in Int
      /\ \A i \in 1 .. Len(r.B) : r.B[i] \in Int
  BY RegisterTypes, ElementOfSeq
<1> DEFINE a == Len(r.A)
           b == Len(r.B)
           f(i) == IF i = 1 THEN r.rowsA ELSE IF i = 2 THEN r.columnsA
                   ELSE IF i <= 2 + a THEN r.A[i - 2]
                   ELSE IF i = 3 + a THEN r.rowsB ELSE IF i = 4 + a THEN r.columnsB
                   ELSE r.B[i - (4 + a)]
<1>2. /\ a \in Nat /\ b \in Nat
      /\ 4 + a + b \in Nat
  <2>1. a \in Nat /\ b \in Nat
    BY RegisterTypes
  <2> HIDE DEF a, b
  <2> QED
    BY <2>1
<1>3. Stream(r) = [i \in 1 .. (4 + a + b) |-> f(i)] /\ Mark(r, 6) = 4 + a + b
  BY MarkValues DEF Stream
<1>4. \A i \in 1 .. (4 + a + b) : f(i) \in Int
  <2> HIDE DEF a, b
  <2>1. /\ \A i \in 1 .. a : r.A[i] \in Int
        /\ \A i \in 1 .. b : r.B[i] \in Int
    BY <1>1 DEF a, b
  <2> SUFFICES ASSUME NEW i \in 1 .. (4 + a + b) PROVE f(i) \in Int
    OBVIOUS
  <2>2. CASE i <= 2
    BY <1>1, <1>2, <2>2
  <2>3. CASE i > 2 /\ i <= 2 + a
    <3>1. i - 2 \in 1 .. a
      BY <1>2, <2>3
    <3> QED
      BY <1>2, <2>1, <2>3, <3>1
  <2>4. CASE i = 3 + a \/ i = 4 + a
    BY <1>1, <1>2, <2>4
  <2>5. CASE i > 4 + a
    <3>1. i - (4 + a) \in 1 .. b
      BY <1>2, <2>5
    <3> QED
      BY <1>2, <2>1, <2>5, <3>1
  <2> QED
    BY <1>2, <2>2, <2>3, <2>4, <2>5
<1> HIDE DEF a, b, f
<1>5. [i \in 1 .. (4 + a + b) |-> f(i)] \in Seq(Int)
  BY <1>2, <1>4
<1>6. Len([i \in 1 .. (4 + a + b) |-> f(i)]) = 4 + a + b
  BY <1>2
<1> QED
  BY <1>3, <1>5, <1>6

\* The words between two marks, and those of one field.
LEMMA BetweenType ==
  ASSUME NEW r \in Registers, NEW p \in 0 .. 6, NEW q \in 0 .. 6, Mark(r, p) <= Mark(r, q)
  PROVE  /\ Between(r, p, q) \in Seq(Int)
         /\ Len(Between(r, p, q)) = Mark(r, q) - Mark(r, p)
         /\ \A i \in 1 .. (Mark(r, q) - Mark(r, p)) :
              Between(r, p, q)[i] = Stream(r)[Mark(r, p) + i]
<1> DEFINE m == Mark(r, p)
           n == Mark(r, q)
           s == Stream(r)
<1>1. m \in Nat /\ n \in Nat /\ m <= n /\ n <= Len(s) /\ s \in Seq(Int)
  BY MarkTypes, StreamType
<1>2. Between(r, p, q) = SubSeq(s, m + 1, n)
  BY DEF Between
<1> HIDE DEF m, n, s
<1>3. \A i \in (m + 1) .. n : s[i] \in Int
  BY <1>1, ElementOfSeq
<1>4. m + 1 \in Int /\ n \in Int
  BY <1>1
<1>5. /\ SubSeq(s, m + 1, n) \in Seq(Int)
      /\ Len(SubSeq(s, m + 1, n)) = IF m + 1 <= n THEN n - (m + 1) + 1 ELSE 0
      /\ \A i \in 1 .. (n - (m + 1) + 1) : SubSeq(s, m + 1, n)[i] = s[(m + 1) + i - 1]
  BY <1>3, <1>4, SubSeqProperties
<1>6. /\ (IF m + 1 <= n THEN n - (m + 1) + 1 ELSE 0) = n - m
      /\ \A i \in 1 .. (n - m) : i \in 1 .. (n - (m + 1) + 1) /\ (m + 1) + i - 1 = m + i
  BY <1>1
<1> QED
  BY <1>2, <1>5, <1>6 DEF m, n, s

LEMMA OneField ==
  ASSUME NEW r \in Registers, NEW k \in 0 .. 5
  PROVE  /\ Between(r, k, k + 1) = Words(r, Field(k + 1))
         /\ Words(r, Field(k + 1)) \in Seq(Int)
         /\ Mark(r, k + 1) - Mark(r, k) = Len(Words(r, Field(k + 1)))
         /\ Len(Words(r, Field(k + 1))) \in Nat
<1> DEFINE m == Mark(r, k)
           n == Mark(r, k + 1)
           w == Words(r, Field(k + 1))
           t == Between(r, k, k + 1)
<1>1. /\ m \in Nat /\ n \in Nat /\ w \in Seq(Int) /\ n = m + Len(w)
      /\ \A i \in 1 .. Len(w) : Stream(r)[m + i] = w[i]
  BY Marks DEF Takes
<1>2. Len(w) \in Nat
  BY <1>1
<1> HIDE DEF w
<1>3. m <= n /\ n - m = Len(w)
  BY <1>1, <1>2
<1>4. k \in 0 .. 6 /\ k + 1 \in 0 .. 6
  OBVIOUS
<1>5. /\ t \in Seq(Int) /\ Len(t) = n - m
      /\ \A i \in 1 .. (n - m) : t[i] = Stream(r)[m + i]
  BY <1>3, <1>4, BetweenType
<1> HIDE DEF m, n, t
<1>6. t = w
  BY <1>1, <1>3, <1>5, SeqEqual
<1> QED
  BY <1>1, <1>2, <1>3, <1>6 DEF m, n, t, w

\* Streams are cut at any mark between.
LEMMA BetweenCut ==
  ASSUME NEW r \in Registers, NEW p \in 0 .. 6, NEW k \in 0 .. 6, NEW q \in 0 .. 6,
         Mark(r, p) <= Mark(r, k), Mark(r, k) <= Mark(r, q)
  PROVE  Between(r, p, q) = Between(r, p, k) \o Between(r, k, q)
<1> DEFINE x == Mark(r, p)
           y == Mark(r, k)
           z == Mark(r, q)
           s == Stream(r)
<1>1. /\ x \in Nat /\ y \in Nat /\ z \in Nat /\ x <= y /\ y <= z /\ z <= Len(s)
      /\ s \in Seq(Int) /\ Len(s) \in Nat
  <2>1. x \in Nat /\ y \in Nat /\ z \in Nat /\ x <= y /\ y <= z /\ z <= Mark(r, 6)
    BY MarkTypes
  <2>2. s \in Seq(Int) /\ Len(s) = Mark(r, 6)
    BY StreamType
  <2>3. Mark(r, 6) \in Nat
    BY MarkTypes
  <2> HIDE DEF x, y, z, s
  <2> QED
    BY <2>1, <2>2, <2>3
<1> HIDE DEF x, y, z, s
<1>2. x + 1 \in 1 .. Len(s) + 1 /\ y \in (x + 1) - 1 .. Len(s) /\ z \in y .. Len(s)
  BY <1>1
<1>3. SubSeq(s, x + 1, y) \o SubSeq(s, y + 1, z) = SubSeq(s, x + 1, z)
  BY <1>1, <1>2, ConcatAdjacentSubSeq
<1> QED
  BY <1>3 DEF Between, x, y, z, s

\* Nothing is between a mark and itself.
LEMMA BetweenEmpty ==
  ASSUME NEW r \in Registers, NEW p \in 0 .. 6, NEW q \in 0 .. 6, Mark(r, p) = Mark(r, q)
  PROVE  Between(r, p, q) = << >>
<1>1. Mark(r, p) \in Nat
  BY MarkTypes
<1>2. Len(Between(r, p, q)) = 0 /\ Between(r, p, q) \in Seq(Int)
  BY <1>1, BetweenType
<1> QED
  BY <1>2, EmptySeq

\* A write() of the next field leaves the channel one field on.
LEMMA WriteField ==
  ASSUME NEW r \in Registers, NEW p \in 0 .. 6, NEW q \in 0 .. 5, Mark(r, p) <= Mark(r, q)
  PROVE  /\ Between(r, p, q) \o Words(r, Field(q + 1)) = Between(r, p, q + 1)
         /\ Mark(r, p) <= Mark(r, q + 1)
<1>1. q \in 0 .. 6 /\ q + 1 \in 0 .. 6 /\ q <= q + 1
  OBVIOUS
<1>2. Mark(r, q) <= Mark(r, q + 1) /\ Mark(r, p) \in Nat /\ Mark(r, q) \in Nat
      /\ Mark(r, q + 1) \in Nat
  BY <1>1, MarkOrder, MarkTypes
<1>3. Between(r, p, q + 1) = Between(r, p, q) \o Between(r, q, q + 1)
  BY <1>1, <1>2, BetweenCut
<1>4. Between(r, q, q + 1) = Words(r, Field(q + 1))
  BY OneField
<1>5. Mark(r, p) <= Mark(r, q + 1)
  BY <1>2
<1> QED
  BY <1>3, <1>4, <1>5

\* The two parts of a concatenation.
LEMMA Parts ==
  ASSUME NEW s \in Seq(Int), NEW t \in Seq(Int)
  PROVE  /\ Len(s \o t) = Len(s) + Len(t) /\ Len(s) \in Nat /\ Len(t) \in Nat
         /\ SubSeq(s \o t, 1, Len(s)) = s
         /\ SubSeq(s \o t, Len(s) + 1, Len(s \o t)) = t
<1>1. Len(s) \in Nat /\ Len(t) \in Nat
  OBVIOUS
<1>2. s \o t \in Seq(Int) /\ Len(s \o t) = Len(s) + Len(t)
  BY ConcatProperties
<1>3. SubSeq(s \o t, 1, Len(s)) = s
  <2>1. CASE s = << >>
    <3>1. SubSeq(s \o t, 1, 0) = << >>
      BY SubSeqEmpty
    <3> QED
      BY <2>1, <3>1
  <2>2. CASE s # << >>
    <3>1. 1 \in 1 .. Len(s) /\ Len(s) \in 1 .. Len(s)
      BY <1>1, <2>2, EmptySeq
    <3> QED
      BY <3>1, SubSeqOfConcat1, SubSeqFull
  <2> QED
    BY <2>1, <2>2
<1>4. SubSeq(s \o t, Len(s) + 1, Len(s \o t)) = t
  <2>1. CASE t = << >>
    <3>1. Len(s \o t) \in Int /\ Len(s) + 1 \in Int /\ Len(s \o t) < Len(s) + 1
      BY <1>1, <1>2, <2>1
    <3>2. SubSeq(s \o t, Len(s) + 1, Len(s \o t)) = << >>
      BY <3>1, SubSeqEmpty
    <3> QED
      BY <2>1, <3>2
  <2>2. CASE t # << >>
    <3> DEFINE m == Len(s)
               n == Len(t)
    <3>1. m \in Nat /\ n \in Nat \ {0}
      BY <1>1, <2>2, EmptySeq
    <3>2. m + 1 \in m + 1 .. m + n /\ m + n \in m + 1 .. m + n
          /\ m + 1 - m = 1 /\ m + n - m = n
      <4> HIDE DEF m, n
      <4> QED
        BY ONLY <3>1
    <3>3. SubSeq(s \o t, m + 1, m + n) = SubSeq(t, m + 1 - m, m + n - m)
      BY <3>2, SubSeqOfConcat2
    <3>4. SubSeq(t, 1, n) = t
      BY SubSeqFull
    <3> QED
      BY <1>2, <3>2, <3>3, <3>4
  <2> QED
    BY <2>1, <2>2
<1> QED
  BY <1>1, <1>2, <1>3, <1>4

\* A read() of as many words as the next field has takes it, when they are there.
LEMMA ReadField ==
  ASSUME NEW r \in Registers, NEW p \in 0 .. 5, NEW q \in 0 .. 6,
         Mark(r, p + 1) <= Mark(r, q)
  PROVE  LET w == Words(r, Field(p + 1))
         IN  /\ Taken(Between(r, p, q), Len(w)) = w
             /\ Left(Between(r, p, q), Len(w)) = Between(r, p + 1, q)
<1> DEFINE w == Words(r, Field(p + 1))
           b == Between(r, p, q)
           t == Between(r, p + 1, q)
<1>1. p \in 0 .. 6 /\ p + 1 \in 0 .. 6 /\ p <= p + 1
  OBVIOUS
<1>2. Mark(r, p) <= Mark(r, p + 1)
  BY <1>1, MarkOrder
<1>3. b = Between(r, p, p + 1) \o t
  BY <1>1, <1>2, BetweenCut
<1>4. Between(r, p, p + 1) = w /\ w \in Seq(Int)
  BY OneField
<1>5. t \in Seq(Int)
  BY <1>1, BetweenType
<1> HIDE DEF w, b, t
<1>6. /\ b = w \o t
      /\ Len(b) = Len(w) + Len(t) /\ Len(w) \in Nat /\ Len(t) \in Nat
      /\ SubSeq(b, 1, Len(w)) = w
      /\ SubSeq(b, Len(w) + 1, Len(b)) = t
  BY <1>3, <1>4, <1>5, Parts
<1>7. Smaller(Len(w), Len(b)) = Len(w)
  <2> DEFINE x == Len(w)
             y == Len(t)
             z == Len(b)
  <2>1. x \in Nat /\ y \in Nat /\ z = x + y
    BY <1>6
  <2> HIDE DEF x, y, z
  <2>2. Smaller(x, z) = x
    BY ONLY <2>1 DEF Smaller
  <2> QED
    BY <2>2 DEF x, z
<1>8. Taken(b, Len(w)) = w
  BY <1>6, <1>7 DEF Taken
<1>9. Left(b, Len(w)) = t
  <2>1. CASE Len(w) <= 0
    <3>1. w = << >>
      BY <1>4, <1>6, <2>1, EmptySeq
    <3>2. b = t
      BY <1>5, <1>6, <3>1, ConcatEmptySeq
    <3> QED
      BY <2>1, <3>2 DEF Left
  <2>2. CASE ~ (Len(w) <= 0)
    BY <1>6, <2>2 DEF Left
  <2> QED
    BY <2>1, <2>2
<1> QED
  BY <1>8, <1>9 DEF w, b, t

\* And when anything is there, or the field is empty, they all are.
LEMMA WholeFields ==
  ASSUME NEW r \in Registers, NEW p \in 0 .. 5, NEW q \in 0 .. 6, Mark(r, p) <= Mark(r, q),
         Len(Words(r, Field(p + 1))) <= 0 \/ Between(r, p, q) # << >>
  PROVE  Mark(r, p + 1) <= Mark(r, q)
<1>1. p \in 0 .. 6 /\ p + 1 \in 0 .. 6
  OBVIOUS
<1>2. /\ Mark(r, p) \in Nat /\ Mark(r, q) \in Nat /\ Mark(r, p + 1) \in Nat
  BY <1>1, MarkTypes
<1>3. CASE Len(Words(r, Field(p + 1))) <= 0
  <2>1. Mark(r, p + 1) - Mark(r, p) = Len(Words(r, Field(p + 1)))
        /\ Len(Words(r, Field(p + 1))) \in Nat
    BY OneField
  <2> QED
    BY <1>2, <1>3, <2>1
<1>4. CASE Between(r, p, q) # << >>
  <2>1. Mark(r, p) # Mark(r, q)
    BY <1>1, <1>4, BetweenEmpty
  <2>2. ~ (q <= p)
    <3>1. q <= p => Mark(r, q) <= Mark(r, p)
      BY <1>1, MarkOrder
    <3> QED
      BY <1>2, <2>1, <3>1
  <2>3. p + 1 <= q
    BY <2>2
  <2> QED
    BY <1>1, <2>3, MarkOrder
<1> QED
  BY <1>3, <1>4

LEMMA PaddedWhole ==
  ASSUME NEW w \in Seq(Int)
  PROVE  Padded(w, Len(w)) = w
<1>1. w \in [1 .. Len(w) -> Int]
  OBVIOUS
<1> QED
  BY <1>1 DEF Padded

\* A read() asks for the words of the next field.
LEMMA RightSize ==
  ASSUME NEW n \in {3, 6}, NEW r, Partial(r, n), NEW s \in Registers,
         NEW p \in 0 .. (n - 1), Agrees(r, s, p)
  PROVE  SizeOf(s, Field(p + 1)) = Len(Words(r, Field(p + 1)))
<1>1. r \in Registers
  BY DEF Partial
<1>2. \A x \in Int : Len(<<x>>) = 1
  OBVIOUS
<1>3. CASE p = 2
  <2>1. Field(p + 1) = "A" /\ Words(r, Field(p + 1)) = r.A
    <3>1. p + 1 = 3
      BY <1>3
    <3> QED
      BY <1>1, <3>1, Fields, FieldWords
  <2>2. s.rowsA = r.rowsA /\ s.columnsA = r.columnsA
    BY <1>3, Fields DEF Agrees
  <2>3. Len(r.A) = r.rowsA * r.columnsA
    BY DEF Partial
  <2> QED
    BY <2>1, <2>2, <2>3 DEF SizeOf
<1>4. CASE p = 5
  <2>1. Field(p + 1) = "B" /\ Words(r, Field(p + 1)) = r.B
    <3>1. p + 1 = 6
      BY <1>4
    <3> QED
      BY <1>1, <3>1, Fields, FieldWords
  <2>2. s.rowsB = r.rowsB /\ s.columnsB = r.columnsB
    BY <1>4, Fields DEF Agrees
  <2>3. n = 6
    BY <1>4
  <2>4. Len(r.B) = r.rowsB * r.columnsB
    BY <2>3 DEF Partial
  <2> QED
    BY <2>1, <2>2, <2>4 DEF SizeOf
<1>5. CASE p \in {0, 1, 3, 4}
  <2>1. \E x \in Int : Words(r, Field(p + 1)) = <<x>>
    <3>1. p + 1 = 1 \/ p + 1 = 2 \/ p + 1 = 4 \/ p + 1 = 5
      BY <1>5
    <3> QED
      BY <1>1, <3>1, RegisterTypes, FieldWords
  <2>2. Field(p + 1) \notin {"A", "B"}
    <3>1. p + 1 = 1 \/ p + 1 = 2 \/ p + 1 = 4 \/ p + 1 = 5
      BY <1>5
    <3> QED
      BY <3>1, Fields
  <2>3. SizeOf(s, Field(p + 1)) = 1
    BY <2>2 DEF SizeOf
  <2> QED
    BY <1>2, <2>1, <2>3
<1>6. p \in {0, 1, 2, 3, 4, 5}
  OBVIOUS
<1> QED
  BY <1>3, <1>4, <1>5, <1>6

LEMMA FieldNumber ==
  ASSUME NEW p \in 0 .. 5
  PROVE  \/ p = 0 /\ Field(p + 1) = "rowsA"
         \/ p = 1 /\ Field(p + 1) = "columnsA"
         \/ p = 2 /\ Field(p + 1) = "A"
         \/ p = 3 /\ Field(p + 1) = "rowsB"
         \/ p = 4 /\ Field(p + 1) = "columnsB"
         \/ p = 5 /\ Field(p + 1) = "B"
<1>1. \/ p = 0 /\ p + 1 = 1
      \/ p = 1 /\ p + 1 = 2
      \/ p = 2 /\ p + 1 = 3
      \/ p = 3 /\ p + 1 = 4
      \/ p = 4 /\ p + 1 = 5
      \/ p = 5 /\ p + 1 = 6
  OBVIOUS
<1> QED
  BY <1>1, Fields

\* What a register holds after w was read into it.
LEMMA StoredValue ==
  ASSUME NEW s \in Registers, NEW p \in 0 .. 5, NEW w
  PROVE  LET n == SizeOf(s, Field(p + 1))
             x == IF p \in {2, 5} THEN Padded(w, n) ELSE Padded(w, 1)[1]
         IN  Stored(s, Field(p + 1), w) = [s EXCEPT ![Field(p + 1)] = x]
<1>1. CASE p \in {2, 5}
  <2>1. Field(p + 1) \in {"A", "B"}
    BY <1>1, FieldNumber
  <2> QED
    BY <1>1, <2>1 DEF Stored
<1>2. CASE p \notin {2, 5}
  <2>1. Field(p + 1) \notin {"A", "B"}
    BY <1>2, FieldNumber
  <2>2. SizeOf(s, Field(p + 1)) = 1
    BY <2>1 DEF SizeOf
  <2> QED
    BY <1>2, <2>1, <2>2 DEF Stored
<1> QED
  BY <1>1, <1>2

LEMMA FieldsDiffer ==
  /\ \A s \in Registers : \A i \in 1 .. 6 : Field(i) \in DOMAIN s
  /\ \A i, k \in 1 .. 6 : i # k => Field(i) # Field(k)
<1>1. \A s \in Registers : DOMAIN s = {"rowsA", "columnsA", "A", "rowsB", "columnsB", "B"}
  BY DEF Registers
<1>2. \A s \in Registers : \A i \in 1 .. 6 : Field(i) \in DOMAIN s
  BY <1>1, Fields
<1>3. \A i, k \in 1 .. 6 : i # k => Field(i) # Field(k)
  BY Fields
<1> QED
  BY <1>2, <1>3

\* A field that was read whole is the writer's.
LEMMA StoredAgrees ==
  ASSUME NEW r \in Registers, NEW s \in Registers, NEW p \in 0 .. 5, Agrees(r, s, p),
         SizeOf(s, Field(p + 1)) = Len(Words(r, Field(p + 1)))
  PROVE  Agrees(r, Stored(s, Field(p + 1), Words(r, Field(p + 1))), p + 1)
<1> DEFINE w == Words(r, Field(p + 1))
           x == IF p \in {2, 5} THEN Padded(w, Len(w)) ELSE Padded(w, 1)[1]
           t == [s EXCEPT ![Field(p + 1)] = x]
<1>1. Stored(s, Field(p + 1), w) = t
  BY StoredValue
<1>2. x = r[Field(p + 1)]
  <2>1. CASE p \in {2, 5}
    <3>1. w = r[Field(p + 1)]
      BY <2>1, FieldNumber DEF Words
    <3>2. Padded(w, Len(w)) = w
      BY OneField, PaddedWhole
    <3> QED
      BY <2>1, <3>1, <3>2
  <2>2. CASE p \notin {2, 5}
    <3>1. w = <<r[Field(p + 1)]>>
      BY <2>2, FieldNumber DEF Words
    <3>2. Len(w) = 1 /\ w[1] = r[Field(p + 1)]
      BY <3>1
    <3>3. Padded(w, 1)[1] = w[1]
      BY <3>2 DEF Padded
    <3> QED
      BY <2>2, <3>2, <3>3
  <2> QED
    BY <2>1, <2>2
<1> HIDE DEF x
<1>3. /\ t[Field(p + 1)] = x
      /\ \A i \in 1 .. 6 : i # p + 1 => t[Field(i)] = s[Field(i)]
  <2>1. p + 1 \in 1 .. 6
    OBVIOUS
  <2> QED
    BY <2>1, FieldsDiffer DEF t
<1> HIDE DEF t
<1>4. Agrees(r, t, p + 1)
  <2> SUFFICES ASSUME NEW i \in 1 .. (p + 1) PROVE t[Field(i)] = r[Field(i)]
    BY DEF Agrees
  <2>1. CASE i = p + 1
    BY <1>2, <1>3, <2>1
  <2>2. CASE i # p + 1
    <3>1. i \in 1 .. p /\ i \in 1 .. 6
      BY <2>2
    <3> QED
      BY <1>3, <2>2, <3>1 DEF Agrees
  <2> QED
    BY <2>1, <2>2
<1> QED
  BY <1>1, <1>4

LEMMA PaddedType ==
  ASSUME NEW w \in Seq(Int), NEW n \in Nat
  PROVE  Padded(w, n) \in Seq(Int) /\ Len(Padded(w, n)) = n
<1>1. \A i \in 1 .. n : (IF i <= Len(w) THEN w[i] ELSE 0) \in Int
  <2> SUFFICES ASSUME NEW i \in 1 .. n, i <= Len(w) PROVE w[i] \in Int
    OBVIOUS
  <2>1. Len(w) \in Nat
    OBVIOUS
  <2>2. i \in 1 .. Len(w)
    BY <2>1
  <2> QED
    BY <2>2, ElementOfSeq
<1> QED
  BY <1>1 DEF Padded

\* Whatever was read, even nothing, a register holds as much as it should.
LEMMA StoredPartial ==
  ASSUME NEW p \in 0 .. 5, NEW s, Partial(s, p), NEW w \in Seq(Int),
         p \notin {2, 5} => w = << >> \/ w[1] \in Nat
  PROVE  Partial(Stored(s, Field(p + 1), w), p + 1)
<1> DEFINE n == SizeOf(s, Field(p + 1))
           x == IF p \in {2, 5} THEN Padded(w, n) ELSE Padded(w, 1)[1]
           t == [s EXCEPT ![Field(p + 1)] = x]
<1>1. s \in Registers
  BY DEF Partial
<1>2. Stored(s, Field(p + 1), w) = t
  BY <1>1, StoredValue
<1>3. /\ t[Field(p + 1)] = x
      /\ \A i \in 1 .. 6 : i # p + 1 => t[Field(i)] = s[Field(i)]
  <2>1. p + 1 \in 1 .. 6
    OBVIOUS
  <2> QED
    BY <1>1, <2>1, FieldsDiffer DEF t
<1>4. CASE p \in {2, 5}
  <2>1. n = IF p = 2 THEN s.rowsA * s.columnsA ELSE s.rowsB * s.columnsB
    BY <1>4, FieldNumber DEF SizeOf
  <2>2. n \in Nat
    BY <1>1, <1>4, <2>1, RegisterTypes
  <2>3. x \in Seq(Int) /\ Len(x) = n
    BY <1>4, <2>2, PaddedType
  <2> HIDE DEF x
  <2>4. t \in Registers
    <3>1. Field(p + 1) \in {"A", "B"}
      BY <1>4, FieldNumber
    <3> QED
      BY <1>1, <2>3, <3>1 DEF Registers
  <2> HIDE DEF t, n
  <2>5. p = 2 => Len(t.A) = t.rowsA * t.columnsA
    <3> SUFFICES ASSUME p = 2 PROVE Len(t.A) = t.rowsA * t.columnsA
      OBVIOUS
    <3>1. t.A = x /\ t.rowsA = s.rowsA /\ t.columnsA = s.columnsA
      BY <1>3, Fields
    <3> QED
      BY <2>1, <2>3, <3>1
  <2>6. p = 5 => Len(t.B) = t.rowsB * t.columnsB /\ Len(t.A) = t.rowsA * t.columnsA
    <3> SUFFICES ASSUME p = 5
                 PROVE  Len(t.B) = t.rowsB * t.columnsB /\ Len(t.A) = t.rowsA * t.columnsA
      OBVIOUS
    <3>1. /\ t.B = x /\ t.rowsB = s.rowsB /\ t.columnsB = s.columnsB
          /\ t.A = s.A /\ t.rowsA = s.rowsA /\ t.columnsA = s.columnsA
      BY <1>3, Fields
    <3>2. Len(s.A) = s.rowsA * s.columnsA
      BY DEF Partial
    <3> QED
      BY <2>1, <2>3, <3>1, <3>2
  <2>7. \A i \in 1 .. 6 : i > p + 1 => t[Field(i)] = Blank[Field(i)]
    BY <1>3 DEF Partial
  <2> QED
    BY <1>2, <1>4, <2>4, <2>5, <2>6, <2>7 DEF Partial
<1>5. CASE p \notin {2, 5}
  <2>1. x \in Nat
    <3>1. w = << >> \/ Len(w) >= 1
      BY EmptySeq
    <3> QED
      BY <1>5, <3>1 DEF Padded
  <2> HIDE DEF x
  <2>2. t \in Registers
    <3>1. Field(p + 1) \in {"rowsA", "columnsA", "rowsB", "columnsB"}
      BY <1>5, FieldNumber
    <3> QED
      BY <1>1, <2>1, <3>1 DEF Registers
  <2> HIDE DEF t, n
  <2>3. p + 1 >= 3 => Len(t.A) = t.rowsA * t.columnsA
    <3> SUFFICES ASSUME p + 1 >= 3 PROVE Len(t.A) = t.rowsA * t.columnsA
      OBVIOUS
    <3>1. p >= 3
      BY <1>5
    <3>2. t.A = s.A /\ t.rowsA = s.rowsA /\ t.columnsA = s.columnsA
      BY <1>3, <3>1, Fields
    <3>3. Len(s.A) = s.rowsA * s.columnsA
      BY <3>1 DEF Partial
    <3> QED
      BY <3>2, <3>3
  <2>4. ~ (p + 1 >= 6)
    BY <1>5
  <2>5. \A i \in 1 .. 6 : i > p + 1 => t[Field(i)] = Blank[Field(i)]
    BY <1>3 DEF Partial
  <2> QED
    BY <1>2, <2>2, <2>3, <2>4, <2>5 DEF Partial
<1> QED
  BY <1>4, <1>5

-----------------------------------------------------------------------------
(* Words on the move *)

LEMMA SizedSeq ==
  ASSUME NEW n \in Nat, NEW w, w = [i \in 1 .. n |-> w[i]]
  PROVE  Sized(w, n)
<1> DEFINE S == {w[i] : i \in 1 .. n}
<1>1. \A i \in 1 .. n : w[i] \in S
  OBVIOUS
<1> HIDE DEF S
<1>2. w \in [1 .. n -> S]
  BY <1>1
<1>3. w \in Seq(S) /\ Len(w) = n
  BY <1>2
<1> QED
  BY <1>3 DEF Sized, S

\* A write() that fits goes whole.
LEMMA WholeWrite ==
  ASSUME NEW S, NEW w \in Seq(S), NEW n \in Int, Len(w) <= n
  PROVE  First(w, n) = w /\ After(w, n) = << >>
<1>1. Len(w) \in Nat
  OBVIOUS
<1>2. Smaller(n, Len(w)) = Len(w)
  BY <1>1 DEF Smaller
<1>3. SubSeq(w, 1, Len(w)) = w
  <2>1. CASE w = << >>
    BY <2>1
  <2>2. CASE w # << >>
    BY <2>2, SubSeqFull
  <2> QED
    BY <2>1, <2>2
<1> QED
  BY <1>2, <1>3 DEF First, After

\* A read() of as many words as are there takes them all.
LEMMA WholeRead ==
  ASSUME NEW n \in Nat, NEW w, Sized(w, n)
  PROVE  /\ Taken(w, n) = w /\ Padded(w, n) = w
         /\ Left(w, n) = << >>
<1> DEFINE S == {w[i] : i \in 1 .. n}
<1>1. w \in Seq(S) /\ Len(w) = n
  BY DEF Sized
<1> HIDE DEF S
<1>2. First(w, n) = w
  BY <1>1, WholeWrite
<1>3. Taken(w, n) = w
  BY <1>2 DEF Taken, First
<1>4. Padded(w, n) = w
  BY <1>1 DEF Padded
<1>5. Left(w, n) = << >>
  <2>1. CASE n <= 0
    BY <1>1, <2>1, EmptySeq DEF Left
  <2>2. CASE ~ (n <= 0)
    <3>1. SubSeq(w, n + 1, n) = << >>
      BY SubSeqEmpty
    <3> QED
      BY <1>1, <2>2, <3>1 DEF Left
  <2> QED
    BY <2>1, <2>2
<1> QED
  BY <1>3, <1>4, <1>5

\* Nothing is read from an empty channel.
LEMMA NothingRead ==
  ASSUME NEW n \in Nat
  PROVE  Taken(<< >>, n) = << >> /\ Left(<< >>, n) = << >>
<1>1. Smaller(n, Len(<< >>)) = 0
  BY DEF Smaller
<1>2. SubSeq(<< >>, 1, 0) = << >> /\ SubSeq(<< >>, n + 1, 0) = << >>
  BY SubSeqEmpty
<1> QED
  BY <1>1, <1>2 DEF Taken, Left

\* The array an answer was read into.
LEMMA PaddedSized ==
  ASSUME NEW n \in Nat, NEW w
  PROVE  Sized(Padded(w, n), n) /\ Len(Padded(w, n)) = n
<1>1. Padded(w, n) = [i \in 1 .. n |-> Padded(w, n)[i]]
  BY DEF Padded
<1>2. Sized(Padded(w, n), n)
  BY <1>1, SizedSeq
<1> QED
  BY <1>2 DEF Sized

-----------------------------------------------------------------------------
(* Requests and answers *)

\* The matrices of a client that filled them, none of them empty.
LEMMA FilledValues ==
  ASSUME NEW s \in Shapes \cup {NoShape}
  PROVE  /\ Partial(Filled(s), 6)
         /\ s[1] \in Nat /\ s[2] \in Nat /\ s[3] \in Nat
<1>1. s[1] \in Nat /\ s[2] \in Nat /\ s[3] \in Nat
  BY SessionAssumption DEF NoShape
<1> DEFINE x == s[1]
           y == s[2]
           z == s[3]
<1>2. x * y \in Nat /\ y * z \in Nat
  <2> HIDE DEF x, y, z
  <2> QED
    BY <1>1 DEF x, y, z
<1>3. FilledA(s) \in Seq(Int) /\ Len(FilledA(s)) = x * y
  BY <1>2 DEF FilledA
<1>4. FilledB(s) \in Seq(Int) /\ Len(FilledB(s)) = y * z
  <2>1. \A i \in 1 .. (y * z) : x * y + i \in Int
    BY <1>2
  <2>2. [i \in 1 .. (y * z) |-> x * y + i] \in Seq(Int)
        /\ Len([i \in 1 .. (y * z) |-> x * y + i]) = y * z
    BY <1>2, <2>1
  <2> QED
    BY <2>2 DEF FilledB
<1>5. /\ Filled(s).rowsA = x /\ Filled(s).columnsA = y /\ Filled(s).A = FilledA(s)
      /\ Filled(s).rowsB = y /\ Filled(s).columnsB = z /\ Filled(s).B = FilledB(s)
  BY DEF Filled
<1>6. Filled(s) \in Registers
  BY <1>1, <1>3, <1>4 DEF Filled, Registers
<1>7. \A i \in 1 .. 6 : ~ (i > 6)
  OBVIOUS
<1> QED
  BY <1>1, <1>3, <1>4, <1>5, <1>6, <1>7 DEF Partial

LEMMA Nonempty ==
  ASSUME NEW s \in Shapes \cup {NoShape}, ~ Empty(s), NEW p \in 0 .. 5
  PROVE  Len(Words(Filled(s), Field(p + 1))) >= 1
<1> DEFINE x == s[1]
           y == s[2]
           z == s[3]
           r == Filled(s)
<1>1. /\ Partial(r, 6) /\ x \in Nat \ {0} /\ y \in Nat \ {0} /\ z \in Nat \ {0}
  BY FilledValues DEF Empty
<1>2. x * y \in Nat \ {0} /\ y * z \in Nat \ {0}
  <2> HIDE DEF x, y, z
  <2> QED
    BY <1>1
<1>3. Len(r.A) = x * y /\ Len(r.B) = y * z
  BY <1>1 DEF Partial, Filled
<1>4. r \in Registers
  BY <1>1 DEF Partial
<1>5. \/ \E v : Words(r, Field(p + 1)) = <<v>>
      \/ Words(r, Field(p + 1)) = r.A \/ Words(r, Field(p + 1)) = r.B
  <2>1. p + 1 = 1 \/ p + 1 = 2 \/ p + 1 = 3 \/ p + 1 = 4 \/ p + 1 = 5 \/ p + 1 = 6
    OBVIOUS
  <2> QED
    BY <1>4, <2>1, FieldWords
<1>6. \A v : Len(<<v>>) = 1
  OBVIOUS
<1> DEFINE w == Words(r, Field(p + 1))
           m == x * y
           n == y * z
<1>7. Len(w) = 1 \/ Len(w) = m \/ Len(w) = n
  BY <1>3, <1>5, <1>6
<1>8. m \in Nat \ {0} /\ n \in Nat \ {0}
  BY <1>2
<1> HIDE DEF w, m, n
<1>9. Len(w) >= 1
  BY <1>7, <1>8
<1> QED
  BY <1>9 DEF w

\* The four orders of the fields agree.
LEMMA Requests ==
  ASSUME NEW o \in Served, NEW s
  PROVE  ToWrite(Filled(s), Count(o), 0, RequestOf(o, s))
<1>1. Len(ClientFields(o)) = Count(o) /\ \A i \in 1 .. Count(o) : ClientFields(o)[i] = Field(i)
  BY DEF ClientFields, OneMatrix, TwoMatrices, Count, Field, Served
<1>2. Count(o) \in Nat
  BY DEF Count
<1> QED
  BY <1>1, <1>2 DEF RequestOf, Writes, ToWrite

LEMMA Forwards ==
  ASSUME NEW o \in Served, NEW r
  PROVE  ToWrite(r, Count(o), 0, Writes(r, ForwardFields(o)))
<1>1. /\ Len(ForwardFields(o)) = Count(o)
      /\ \A i \in 1 .. Count(o) : ForwardFields(o)[i] = Field(i)
  BY DEF ForwardFields, OneMatrix, TwoMatrices, Count, Field, Served
<1>2. Count(o) \in Nat
  BY DEF Count
<1> QED
  BY <1>1, <1>2 DEF Writes, ToWrite

LEMMA Readers ==
  ASSUME NEW o \in Served
  PROVE  ToRead(Count(o), 0, HandlerFields(o)) /\ ToRead(Count(o), 0, WorkerFields(o))
<1>1. TwoMatrices = [i \in 1 .. 6 |-> Field(0 + i)] /\ OneMatrix = [i \in 1 .. 3 |-> Field(0 + i)]
  BY DEF OneMatrix, TwoMatrices, Field
<1>2. HandlerFields(o) = (IF o = 1 THEN TwoMatrices ELSE OneMatrix)
  BY DEF HandlerFields, Served
<1>3. ToRead(6, 0, TwoMatrices) /\ ToRead(3, 0, OneMatrix)
  BY <1>1 DEF ToRead
<1> QED
  BY <1>2, <1>3 DEF Count, WorkerFields

\* The next write() and the next read() of a request.
LEMMA NextWrite ==
  ASSUME NEW n \in {3, 6}, NEW q \in 0 .. n, NEW r, NEW out, ToWrite(r, n, q, out)
  PROVE  /\ out = << >> <=> q = n
         /\ out # << >> =>
              /\ q \in 0 .. 5 /\ q + 1 \in 0 .. n
              /\ Head(out) = Words(r, Field(q + 1)) /\ ToWrite(r, n, q + 1, Tail(out))
<1>1. out = [i \in 1 .. (n - q) |-> Words(r, Field(q + i))] /\ n - q \in Nat
  BY DEF ToWrite
<1>2. Len(out) = n - q /\ (out = << >> <=> q = n)
  BY <1>1
<1>3. ASSUME out # << >> PROVE Head(out) = Words(r, Field(q + 1))
  <2>1. 1 \in 1 .. (n - q)
    BY <1>2, <1>3
  <2> QED
    BY <1>1, <2>1
<1>4. ASSUME out # << >> PROVE ToWrite(r, n, q + 1, Tail(out))
  <2>1. Tail(out) = [i \in 1 .. (n - (q + 1)) |-> out[i + 1]]
    BY <1>1, <1>2, <1>4
  <2>2. \A i \in 1 .. (n - (q + 1)) : i + 1 \in 1 .. (n - q) /\ q + (i + 1) = (q + 1) + i
    OBVIOUS
  <2> QED
    BY <1>1, <2>1, <2>2 DEF ToWrite
<1> QED
  BY <1>2, <1>3, <1>4

LEMMA NextRead ==
  ASSUME NEW n \in {3, 6}, NEW p \in 0 .. n, NEW ins, ToRead(n, p, ins)
  PROVE  /\ ins = << >> <=> p = n
         /\ ins # << >> =>
              /\ p \in 0 .. (n - 1) /\ p \in 0 .. 5 /\ p + 1 \in 0 .. n
              /\ Head(ins) = Field(p + 1) /\ ToRead(n, p + 1, Tail(ins))
<1>1. ins = [i \in 1 .. (n - p) |-> Field(p + i)] /\ n - p \in Nat
  BY DEF ToRead
<1>2. Len(ins) = n - p /\ (ins = << >> <=> p = n)
  BY <1>1
<1>3. ASSUME ins # << >> PROVE Head(ins) = Field(p + 1)
  <2>1. 1 \in 1 .. (n - p)
    BY <1>2, <1>3
  <2> QED
    BY <1>1, <2>1
<1>4. ASSUME ins # << >> PROVE ToRead(n, p + 1, Tail(ins))
  <2>1. Tail(ins) = [i \in 1 .. (n - (p + 1)) |-> ins[i + 1]]
    BY <1>1, <1>2, <1>4
  <2>2. \A i \in 1 .. (n - (p + 1)) : i + 1 \in 1 .. (n - p) /\ p + (i + 1) = (p + 1) + i
    OBVIOUS
  <2> QED
    BY <1>1, <2>1, <2>2 DEF ToRead
<1> QED
  BY <1>2, <1>3, <1>4

\* The answer a client waits for: as many words as the handler reads of it.
LEMMA WantedAnswer ==
  ASSUME NEW o \in Served, NEW s \in Shapes \cup {NoShape}, ~ Empty(s)
  PROVE  /\ Len(Wanted(o, s)) \in Nat \ {0}
         /\ Sized(Wanted(o, s), Len(Wanted(o, s)))
         /\ \A r \in Registers : Agrees(Filled(s), r, Count(o)) =>
              /\ ReplySize(o, r) = Len(Wanted(o, s))
              /\ Result(o, r) = Wanted(o, s)
<1> DEFINE x == s[1]
           y == s[2]
           z == s[3]
<1>1. x \in Nat \ {0} /\ y \in Nat \ {0} /\ z \in Nat \ {0}
  BY FilledValues DEF Empty
<1>2. x * y \in Nat \ {0} /\ y * x \in Nat \ {0} /\ x * z \in Nat \ {0} /\ x * y = y * x
  <2> HIDE DEF x, y, z
  <2> QED
    BY <1>1
<1>3. /\ Filled(s).rowsA = x /\ Filled(s).columnsA = y /\ Filled(s).A = FilledA(s)
      /\ Filled(s).rowsB = y /\ Filled(s).columnsB = z /\ Filled(s).B = FilledB(s)
  BY DEF Filled
<1>4. \A r : Agrees(Filled(s), r, 3) => r.rowsA = x /\ r.columnsA = y /\ r.A = FilledA(s)
  BY <1>3, Fields DEF Agrees
<1>5. \A r : Agrees(Filled(s), r, 6) =>
        /\ r.rowsA = x /\ r.columnsA = y /\ r.A = FilledA(s)
        /\ r.rowsB = y /\ r.columnsB = z /\ r.B = FilledB(s)
  BY <1>3, Fields DEF Agrees
<1> HIDE DEF x, y, z
<1>6. CASE o = 1
  <2> DEFINE w == Product(x, y, z, FilledA(s), FilledB(s))
             n == x * z
  <2>1. w = [i \in 1 .. n |-> w[i]]
    BY DEF Product
  <2>2. Wanted(o, s) = w
    BY <1>6 DEF Wanted, x, y, z
  <2>3. \A r : Agrees(Filled(s), r, Count(o)) => ReplySize(o, r) = n /\ Result(o, r) = w
    BY <1>5, <1>6 DEF Count, ReplySize, Result
  <2> HIDE DEF w, n
  <2>4. n \in Nat \ {0} /\ Sized(w, n)
    BY <1>2, <2>1, SizedSeq DEF n
  <2> QED
    BY <2>2, <2>3, <2>4 DEF Sized
<1>7. CASE o = 2
  <2> DEFINE w == Transposed(x, y, FilledA(s))
             n == x * y
  <2>1. w = [i \in 1 .. n |-> w[i]]
    BY DEF Transposed
  <2>2. Wanted(o, s) = w
    BY <1>7 DEF Wanted, x, y, z
  <2>3. \A r : Agrees(Filled(s), r, Count(o)) => ReplySize(o, r) = y * x /\ Result(o, r) = w
    BY <1>4, <1>7 DEF Count, ReplySize, Result
  <2> HIDE DEF w, n
  <2>4. n \in Nat \ {0} /\ Sized(w, n) /\ y * x = n
    BY <1>2, <2>1, SizedSeq DEF n
  <2> QED
    BY <2>2, <2>3, <2>4 DEF Sized
<1>8. CASE o = 4
  <2> DEFINE w == Average(x, y, FilledA(s))
  <2>1. w = [i \in 1 .. 2 |-> w[i]] /\ 2 \in Nat
    BY DEF Average
  <2>2. Wanted(o, s) = w
    BY <1>8 DEF Wanted, x, y, z
  <2>3. \A r : Agrees(Filled(s), r, Count(o)) => ReplySize(o, r) = 2 /\ Result(o, r) = w
    <3>1. ~ (x * y < 0)
      BY <1>2
    <3> QED
      BY <1>4, <1>8, <3>1 DEF Count, ReplySize, Result
  <2> HIDE DEF w
  <2>4. Sized(w, 2)
    BY <2>1, SizedSeq
  <2> QED
    BY <2>2, <2>3, <2>4 DEF Sized
<1> QED
  BY <1>6, <1>7, <1>8 DEF Served

\* Whatever was received, the handler reads and the worker writes words.
LEMMA AnyAnswer ==
  ASSUME NEW o \in Served, NEW r, Partial(r, Count(o))
  PROVE  /\ ReplySize(o, r) \in Nat
         /\ Len(Result(o, r)) \in Nat /\ Sized(Result(o, r), Len(Result(o, r)))
<1>1. r \in Registers
  BY DEF Partial
<1> DEFINE x == r.rowsA
           y == r.columnsA
           z == r.columnsB
           w == Result(o, r)
<1>2. x \in Nat /\ y \in Nat /\ z \in Nat
  BY <1>1, RegisterTypes
<1>3. x * y \in Nat /\ y * x \in Nat /\ x * z \in Nat
  <2> HIDE DEF x, y, z
  <2> QED
    BY <1>2
<1>4. ReplySize(o, r) \in Nat
  BY <1>3 DEF ReplySize, Served
<1>5. \E n \in Nat : w = [i \in 1 .. n |-> w[i]]
  <2> HIDE DEF x, y, z
  <2>1. CASE w = << >>
    <3>1. << >> = [i \in 1 .. 0 |-> << >>[i]]
      OBVIOUS
    <3> QED
      BY <2>1, <3>1
  <2>2. CASE w # << >> /\ o = 1
    <3> DEFINE v == Product(x, y, z, r.A, r.B)
               n == x * z
    <3>1. w = v
      BY <2>2 DEF Result, x, y, z
    <3>2. v = [i \in 1 .. n |-> v[i]]
      BY DEF Product
    <3> HIDE DEF v, n
    <3>3. n \in Nat
      BY <1>3 DEF n
    <3> QED
      BY <3>1, <3>2, <3>3
  <2>3. CASE o = 2
    BY <1>3, <2>3 DEF Result, Transposed, x, y
  <2>4. CASE w # << >> /\ o = 4
    <3> DEFINE v == Average(x, y, r.A)
    <3>1. w = v
      BY <2>4 DEF Result, x, y
    <3>2. v = [i \in 1 .. 2 |-> v[i]]
      BY DEF Average
    <3> HIDE DEF v
    <3> QED
      BY <3>1, <3>2
  <2> QED
    BY <2>1, <2>2, <2>3, <2>4 DEF Served
<1> HIDE DEF w
<1>6. \E n \in Nat : Sized(w, n)
  BY <1>5, SizedSeq
<1>7. Len(w) \in Nat /\ Sized(w, Len(w))
  BY <1>6 DEF Sized
<1> QED
  BY <1>4, <1>7 DEF w

-----------------------------------------------------------------------------
(* What a step leaves alone *)

AtFifos == {"fork", "open", "send", "receive"}

\* The worker's side, when neither it nor the FIFOs are touched.
LEMMA WorkerKept ==
  ASSUME WorkerSide, UNCHANGED <<option, reg, hout, req, rsp, wpc, winputs, wreg, wout>>,
         hpc' = hpc \/ hpc' \notin AtFifos,
         "thread" \in cause => "thread" \in cause'
  PROVE  WorkerSide'
<1>1. CASE hpc' \notin AtFifos
  BY <1>1 DEF WorkerSide, Starting, AtWork, AtFifos
<1>2. CASE hpc' = hpc
  <2>1. Starting'
    BY <1>2 DEF WorkerSide, Starting
  <2>2. \A p : Computed(p) => Computed(p)'
    BY DEF Computed
  <2>3. \A p, q : Passing(p, q) => Passing(p, q)'
    BY <1>2 DEF Passing
  <2>4. AtWork'
    BY <1>2, <2>2, <2>3 DEF WorkerSide, AtWork
  <2> QED
    BY <2>1, <2>4 DEF WorkerSide
<1> QED
  BY <1>1, <1>2

\* The client's side, when the client, its connection and the request the
\* handler holds are left alone.
LEMMA ClientKept ==
  ASSUME ClientTypes, ClientSide, UNCHANGED <<client, net, option, inputs, reg>>,
         hpc' = hpc \/ (hpc \in Serving /\ hpc' \in Serving),
         Replying' \/ (hpc' = "reply" => hpc = "reply" /\ hout' = hout),
         Early' <=> Early, "thread" \in cause => "thread" \in cause'
  PROVE  ClientTypes' /\ ClientSide'
<1> USE DEF client, net
<1>1. ClientTypes'
  BY DEF ClientTypes, Empty
<1>2. Greeting' /\ Leaving' /\ NoMoreWrites'
  BY DEF ClientSide, Greeting, Leaving, NoMoreWrites, Serving, Done, Waiting, ClientGone
<1>3. AtOption'
  <2>1. hpc' \in Waiting => hpc \in Waiting
    BY DEF Waiting, Serving
  <2>2. \A q : Written(q) => Written(q)'
    BY DEF Written, ClientGone, Empty
  <2>3. Unsent => Unsent'
    BY DEF Unsent, ClientGone
  <2>4. \A m : Option(m) => Option(m)'
    BY <2>2, <2>3 DEF Option
  <2> QED
    BY <2>1, <2>4 DEF ClientSide, AtOption
<1>4. AtInput'
  <2>1. \A q : Written(q) => Written(q)'
    BY DEF Written, ClientGone, Empty
  <2>2. \A p : Reading(p) => Reading(p)'
    BY <2>1 DEF Reading, ClientGone
  <2> QED
    BY <2>2 DEF ClientSide, AtInput, Serving
<1>5. InService'
  BY DEF ClientSide, InService, Serving, Asking, ClientGone
<1>6. \A w : Answered(w) => Answered(w)'
  BY DEF Answered
<1>7. Unread'
  BY <1>6 DEF ClientSide, Unread, Serving, Done, Waiting
<1>8. Replying'
  BY <1>6 DEF ClientSide, Replying, ClientGone
<1>9. Segmented' /\ Shown'
  BY DEF ClientSide, Segmented, Shown
<1> QED
  BY <1>1, <1>2, <1>3, <1>4, <1>5, <1>7, <1>8, <1>9 DEF ClientSide

\* Back towards the top of the loop: a request that is done, or dropped.
LEMMA ClientWaits ==
  ASSUME ClientTypes, ClientSide, UNCHANGED <<client, net>>,
         hpc \in Serving \cup {"finish", "reap"}, hpc' \in Waiting,
         Early' <=> Early, "thread" \in cause => "thread" \in cause'
  PROVE  ClientTypes' /\ ClientSide'
<1> USE DEF client, net
<1>1. ClientTypes'
  BY DEF ClientTypes, Empty
<1>2. Greeting' /\ Leaving'
  BY DEF ClientSide, Greeting, Leaving, Serving, Done, Waiting
<1>3. NoMoreWrites'
  BY DEF ClientSide, NoMoreWrites, Serving, Done, Waiting, ClientGone
<1>4. AtOption'
  <2>1. CASE hpc \in Serving
    <3>1. c2s' = << >> /\ Unsent'
      BY <2>1 DEF ClientSide, InService, Asking, Unsent, ClientGone
    <3>2. Option(0)' /\ 0 \in 0 .. Len(c2s')
      BY <3>1 DEF Option
    <3> QED
      BY <3>2 DEF AtOption
  <2>2. CASE hpc \in {"finish", "reap"}
    <3>1. \A q : Written(q) => Written(q)'
      BY DEF Written, ClientGone, Empty
    <3>2. Unsent => Unsent'
      BY DEF Unsent, ClientGone
    <3>3. \A m : Option(m) => Option(m)'
      BY <3>1, <3>2 DEF Option
    <3> QED
      BY <2>2, <3>3 DEF ClientSide, AtOption, Waiting
  <2> QED
    BY <2>1, <2>2
<1>5. AtInput' /\ InService' /\ Replying'
  BY DEF AtInput, InService, Replying, Waiting, Serving
<1>6. Unread'
  <2>1. \A w : Answered(w) => Answered(w)'
    BY DEF Answered
  <2> QED
    BY <2>1 DEF ClientSide, Unread, Serving, Done, Waiting
<1>7. Segmented' /\ Shown'
  BY DEF ClientSide, Segmented, Shown
<1> QED
  BY <1>1, <1>2, <1>3, <1>4, <1>5, <1>6, <1>7 DEF ClientSide

-----------------------------------------------------------------------------
(* The steps of the worker *)

\* The worker has work only while the handler writes the request or waits.
LEMMA WorkerPlace ==
  ASSUME Tidy, WorkerSide, wpc \in {"input", "output"}
  PROVE  hpc \in {"send", "receive"} \/ hpc \notin AtFifos
  BY DEF Tidy, WorkerSide, Starting, AtFifos

LEMMA WorkerInputStep ==
  ASSUME Tidy, InStep, WorkerInput
  PROVE  WorkerSide'
<1> USE DEF client, net, handler
<1>1. CASE hpc \notin AtFifos
  BY <1>1 DEF WorkerSide, Starting, AtWork, AtFifos, WorkerInput
<1>2. CASE hpc \in {"send", "receive"}
  <2> DEFINE n == Count(option)
  <2>1. PICK p \in 0 .. n, q \in 0 .. n : Passing(p, q) /\ Computed(p)
    BY <1>2 DEF InStep, WorkerSide, AtWork
  <2>2. /\ option \in Served /\ Partial(reg, n) /\ n \in {3, 6}
    BY <1>2 DEF InStep, ClientSide, InService, Serving, Count
  <2> HIDE DEF n
  <2>3. /\ wpc = "input" /\ winputs # << >>
        /\ ToRead(n, p, winputs) /\ ToWrite(reg, n, q, hout) /\ Mark(reg, p) <= Mark(reg, q)
        /\ req = Between(reg, p, q) /\ Partial(wreg, p) /\ Agrees(reg, wreg, p)
        /\ hpc = "send" <=> q < n
    BY <2>1 DEF Passing, WorkerInput, n
  <2>4. /\ p \in 0 .. (n - 1) /\ p \in 0 .. 5 /\ p + 1 \in 0 .. n /\ q \in 0 .. 6
        /\ Head(winputs) = Field(p + 1) /\ ToRead(n, p + 1, Tail(winputs))
    BY <2>2, <2>3, NextRead
  <2> DEFINE f == Head(winputs)
             k == SizeOf(wreg, f)
             w == Words(reg, Field(p + 1))
  <2>5. reg \in Registers /\ wreg \in Registers
    BY <2>2, <2>3 DEF Partial
  <2>6. k = Len(w)
    BY <2>2, <2>3, <2>4, <2>5, RightSize
  <2>7. w \in Seq(Int) /\ Len(w) \in Nat
    BY <2>4, <2>5, OneField
  <2>8. /\ Readable(req, k, FALSE) /\ wreg' = Stored(wreg, f, Taken(req, k))
        /\ req' = Left(req, k) /\ winputs' = Tail(winputs)
        /\ wpc' = IF k < 0 /\ option # 1 THEN "dead" ELSE "input"
        /\ UNCHANGED <<hpc, option, reg, hout, rsp, wout, cause>>
    BY DEF WorkerInput
  <2> HIDE DEF k, w, f
  <2>9. Mark(reg, p + 1) <= Mark(reg, q)
    <3>1. Len(w) <= 0 \/ Between(reg, p, q) # << >>
      BY <2>3, <2>6, <2>8 DEF Readable
    <3> QED
      BY <2>3, <2>4, <2>5, <3>1, WholeFields DEF w
  <2>10. Taken(req, k) = w /\ Left(req, k) = Between(reg, p + 1, q)
    BY <2>3, <2>4, <2>5, <2>6, <2>9, ReadField DEF w
  <2>11. wpc' = "input"
    BY <2>6, <2>7, <2>8
  <2>12. Agrees(reg, wreg', p + 1)
    BY <2>3, <2>4, <2>5, <2>6, <2>8, <2>10, StoredAgrees DEF k, w, f
  <2>13. Partial(wreg', p + 1)
    <3>1. p \notin {2, 5} => w = << >> \/ w[1] \in Nat
      <4>1. p \notin {2, 5} => p + 1 = 1 \/ p + 1 = 2 \/ p + 1 = 4 \/ p + 1 = 5
        BY <2>4
      <4>2. \A x \in Nat : <<x>>[1] \in Nat
        OBVIOUS
      <4> QED
        BY <2>5, <4>1, <4>2, FieldWords, RegisterTypes DEF w
    <3> QED
      BY <2>3, <2>4, <2>7, <2>8, <2>10, <3>1, StoredPartial DEF f
  <2>14. Passing(p + 1, q)'
    BY <2>3, <2>4, <2>8, <2>9, <2>10, <2>12, <2>13 DEF Passing, n
  <2>15. Computed(p + 1)'
    BY <2>1, <2>3, <2>8, <2>11 DEF Computed
  <2>16. hpc' = hpc /\ Count(option)' = n
    BY <2>8 DEF n
  <2> QED
    BY <1>2, <2>4, <2>14, <2>15, <2>16 DEF WorkerSide, Starting, AtWork
<1> QED
  BY <1>1, <1>2, WorkerPlace DEF InStep, WorkerInput

\* The result of the registers the worker read is that of those the handler sent.
LEMMA SameResult ==
  ASSUME NEW o \in Served, NEW r, NEW s, Agrees(r, s, Count(o))
  PROVE  Result(o, s) = Result(o, r)
<1>1. CASE o = 1
  <2>1. /\ s.rowsA = r.rowsA /\ s.columnsA = r.columnsA /\ s.A = r.A
        /\ s.rowsB = r.rowsB /\ s.columnsB = r.columnsB /\ s.B = r.B
    BY <1>1, Fields DEF Agrees, Count
  <2> QED
    BY <1>1, <2>1 DEF Result
<1>2. CASE o \in {2, 4}
  <2>1. s.rowsA = r.rowsA /\ s.columnsA = r.columnsA /\ s.A = r.A
    BY <1>2, Fields DEF Agrees, Count
  <2> QED
    BY <1>2, <2>1 DEF Result
<1> QED
  BY <1>1, <1>2 DEF Served

LEMMA AfterNone ==
  ASSUME NEW S, NEW w \in Seq(S)
  PROVE  After(w, 0) = IF w = << >> THEN << >> ELSE <<w>>
<1>1. Len(w) \in Nat /\ (Len(w) <= 0 <=> w = << >>) /\ 0 + 1 = 1
  BY EmptySeq
<1>2. w # << >> => SubSeq(w, 1, Len(w)) = w
  BY SubSeqFull
<1>3. w # << >> => SubSeq(w, 0 + 1, Len(w)) = w
  BY <1>1, <1>2
<1> QED
  BY <1>1, <1>3 DEF After

LEMMA WorkerComputeStep ==
  ASSUME Tidy, InStep, WorkerCompute
  PROVE  WorkerSide'
<1> USE DEF client, net, handler, fifo
<1>1. CASE hpc \notin AtFifos
  BY <1>1 DEF WorkerSide, Starting, AtWork, AtFifos, WorkerCompute
<1>2. CASE hpc \in {"send", "receive"}
  <2> DEFINE n == Count(option)
             w == Result(option, wreg)
  <2>1. PICK p \in 0 .. n, q \in 0 .. n : Passing(p, q) /\ Computed(p)
    BY <1>2 DEF InStep, WorkerSide, AtWork
  <2>2. /\ option \in Served /\ Partial(reg, n) /\ n \in {3, 6}
    BY <1>2 DEF InStep, ClientSide, InService, Serving, Count
  <2>3. /\ wpc = "input" /\ winputs = << >> /\ wpc' = "output"
        /\ UNCHANGED <<hpc, option, reg, hout, req, rsp, winputs, wreg>>
        /\ \/ wout' = After(w, 0) /\ cause' = cause
           \/ /\ wout' = IF option = 4 THEN <<<<0, 0>>>> ELSE << >>
              /\ cause' = cause \cup {"thread"}
    BY DEF WorkerCompute
  <2>4. ToRead(n, p, winputs) /\ Agrees(reg, wreg, p) /\ wout = << >> /\ rsp = << >>
    BY <2>1, <2>3 DEF Passing, Computed
  <2>5. p = n
    BY <2>2, <2>3, <2>4, NextRead
  <2>6. w = Result(option, reg) /\ Len(w) \in Nat /\ Sized(w, Len(w))
    BY <2>2, <2>4, <2>5, SameResult, AnyAnswer
  <2> HIDE DEF n, w
  <2>7. Computed(p)'
    <3>1. CASE "thread" \in cause'
      <4>1. \/ wout' = << >>
            \/ Len(wout') = 1 /\ Sized(wout'[1], Len(wout'[1])) /\ Len(wout'[1]) \in Nat
        <5>1. CASE wout' = After(w, 0)
          <6>1. w \in Seq({w[i] : i \in 1 .. Len(w)})
            BY <2>6 DEF Sized
          <6>2. wout' = << >> \/ wout' = <<w>>
            BY <5>1, <6>1, AfterNone
          <6> QED
            BY <2>6, <6>2
        <5>2. CASE wout' = <<<<0, 0>>>>
          <6>1. <<0, 0>> = [i \in 1 .. 2 |-> <<0, 0>>[i]] /\ Len(<<0, 0>>) = 2
            OBVIOUS
          <6>2. Sized(<<0, 0>>, 2)
            BY <6>1, SizedSeq
          <6> QED
            BY <5>2, <6>1, <6>2
        <5> QED
          BY <2>3, <5>1, <5>2
      <4> QED
        BY <2>3, <2>4, <2>5, <3>1, <4>1 DEF Computed, n
    <3>2. CASE "thread" \notin cause'
      <4>1. wout' = After(w, 0)
        BY <2>3, <3>2
      <4>2. w \in Seq({w[i] : i \in 1 .. Len(w)})
        BY <2>6 DEF Sized
      <4>3. CASE w = << >>
        <5>1. wout' = << >>
          BY <4>1, <4>2, <4>3, AfterNone
        <5> QED
          BY <2>3, <2>4, <2>5, <2>6, <4>3, <5>1 DEF Computed, n
      <4>4. CASE w # << >>
        <5>1. wout' = <<w>>
          BY <4>1, <4>2, <4>4, AfterNone
        <5> QED
          BY <2>3, <2>4, <2>5, <2>6, <5>1 DEF Computed, n
      <4> QED
        BY <4>3, <4>4
    <3> QED
      BY <3>1, <3>2
  <2>8. Passing(p, q)'
    BY <2>1, <2>3 DEF Passing
  <2> QED
    BY <1>2, <2>3, <2>7, <2>8 DEF WorkerSide, Starting, AtWork, n
<1> QED
  BY <1>1, <1>2, WorkerPlace DEF InStep, WorkerCompute

LEMMA WorkerOutputStep ==
  ASSUME Tidy, InStep, Clean', WorkerOutput
  PROVE  WorkerSide'
<1> USE DEF client, net, handler
<1>1. CASE hpc \notin AtFifos
  BY <1>1 DEF WorkerSide, Starting, AtWork, AtFifos, WorkerOutput
<1>2. CASE hpc \in {"send", "receive"}
  <2> DEFINE n == Count(option)
             h == Head(wout)
             room == Room(rsp, h)
  <2>1. PICK p \in 0 .. n, q \in 0 .. n : Passing(p, q) /\ Computed(p)
    BY <1>2 DEF InStep, WorkerSide, AtWork
  <2>2. /\ wpc = "output" /\ wout # << >> /\ wpc' = wpc
        /\ rsp' = rsp \o First(h, room) /\ wout' = After(h, room)
        /\ cause' = cause \cup Overflow(h, room)
        /\ UNCHANGED <<hpc, option, reg, hout, req, winputs, wreg>>
    BY <1>2 DEF WorkerOutput, ResponseOpen
  <2>3. /\ p = n /\ rsp = << >> /\ Len(wout) = 1
        /\ Sized(wout[1], Len(wout[1])) /\ Len(wout[1]) \in Nat
        /\ "thread" \in cause \/ wout[1] = Result(option, reg)
    BY <2>1, <2>2 DEF Computed
  <2>4. h = wout[1]
    BY <2>3
  <2> DEFINE S == {h[i] : i \in 1 .. Len(h)}
  <2>5. h \in Seq(S) /\ Len(h) \in Nat
    BY <2>3, <2>4 DEF Sized
  <2>6. room \in Int
    BY <2>3, <2>5, SessionAssumption DEF Room, Smaller
  <2> HIDE DEF n, h, room, S
  <2>7. Len(h) <= room
    <3>1. "overflow" \notin cause'
      BY DEF Clean
    <3>2. ~ (Len(h) > room)
      BY <2>2, <3>1 DEF Overflow
    <3> QED
      BY <2>5, <2>6, <3>2
  <2>8. First(h, room) = h /\ After(h, room) = << >>
    BY <2>5, <2>6, <2>7, WholeWrite
  <2>9. rsp' = h /\ wout' = << >>
    BY <2>2, <2>3, <2>5, <2>8
  <2>10. Computed(p)'
    BY <2>2, <2>3, <2>4, <2>9 DEF Computed, n
  <2>11. Passing(p, q)'
    BY <2>1, <2>2 DEF Passing
  <2> QED
    BY <1>2, <2>2, <2>10, <2>11 DEF WorkerSide, Starting, AtWork, n
<1> QED
  BY <1>1, <1>2, WorkerPlace DEF InStep, WorkerOutput

LEMMA WorkerExitStep ==
  ASSUME Tidy, InStep, WorkerExit
  PROVE  WorkerSide'
<1> USE DEF client, net, handler, fifo
<1>1. CASE hpc \notin AtFifos
  BY <1>1 DEF WorkerSide, Starting, AtWork, AtFifos, WorkerExit
<1>2. CASE hpc \in {"send", "receive"}
  <2>1. /\ wpc = "output" /\ wout = << >> /\ wpc' = "dead"
        /\ UNCHANGED <<hpc, option, reg, hout, req, rsp, winputs, wreg, wout, cause>>
    BY DEF WorkerExit
  <2>2. \A p : Computed(p) => Computed(p)'
    BY <2>1 DEF Computed
  <2>3. \A p, q : Passing(p, q) => Passing(p, q)'
    BY <2>1 DEF Passing
  <2> QED
    BY <1>2, <2>1, <2>2, <2>3 DEF InStep, WorkerSide, Starting, AtWork
<1> QED
  BY <1>1, <1>2, WorkerPlace DEF InStep, WorkerExit

\* None of them touches the client's side.
LEMMA WorkerSteps ==
  ASSUME Tidy, InStep, Clean', Worker
  PROVE  InStep'
<1>1. UNCHANGED <<client, net, handler>>
  BY DEF Worker, WorkerInput, WorkerCompute, WorkerOutput, WorkerExit
<1>5. (Early' <=> Early) /\ ("thread" \in cause => "thread" \in cause')
  <2>1. cause' = cause \/ cause' = cause \cup {"thread"} \/ cause' = cause \cup {"overflow"}
    BY DEF Worker, WorkerInput, WorkerCompute, WorkerOutput, WorkerExit, Overflow
  <2> QED
    BY <2>1 DEF Early
<1>2. UNCHANGED <<hpc, option, inputs, reg, hout>>
  BY <1>1 DEF handler
<1>3. ClientTypes' /\ ClientSide'
  BY <1>1, <1>5, <1>2, ClientKept DEF InStep
<1>4. WorkerSide'
  BY WorkerInputStep, WorkerComputeStep, WorkerOutputStep, WorkerExitStep DEF Worker
<1> QED
  BY <1>2, <1>3, <1>4 DEF InStep

-----------------------------------------------------------------------------
(* The steps of the handler that serve a request *)

LEMMA HandlerMakeFifosStep ==
  ASSUME InStep, HandlerMakeFifos
  PROVE  InStep'
<1> USE DEF HandlerMakeFifos
<1>1. /\ UNCHANGED <<client, net, option, inputs, reg, hout>>
      /\ hpc = "mkfifo" /\ hpc' \in {"fork", "top"}
  BY DEF worker
<1>2. (Early' <=> Early) /\ ("thread" \in cause => "thread" \in cause')
  BY DEF Early
<1>3. CASE hpc' = "fork"
  <2>1. ClientTypes' /\ ClientSide'
    BY <1>1, <1>2, <1>3, ClientKept DEF InStep, Serving
  <2>2. WorkerSide'
    BY <1>3 DEF WorkerSide, Starting, AtWork
  <2> QED
    BY <1>3, <2>1, <2>2 DEF InStep
<1>4. CASE hpc' = "top"
  <2>1. ClientTypes' /\ ClientSide'
    BY <1>1, <1>2, <1>4, ClientWaits DEF InStep, Serving, Waiting
  <2>2. WorkerSide'
    BY <1>4 DEF WorkerSide, Starting, AtWork
  <2> QED
    BY <1>4, <2>1, <2>2 DEF InStep
<1> QED
  BY <1>1, <1>3, <1>4

LEMMA HandlerForkStep ==
  ASSUME InStep, HandlerFork
  PROVE  InStep'
<1> USE DEF HandlerFork
<1>1. /\ UNCHANGED <<client, net, option, inputs, reg, hout, req, rsp>>
      /\ hpc = "fork" /\ hpc' \in {"open", "top"}
  OBVIOUS
<1>2. (Early' <=> Early) /\ ("thread" \in cause => "thread" \in cause')
  BY DEF Early
<1>3. CASE hpc' = "open"
  <2>1. ClientTypes' /\ ClientSide'
    BY <1>1, <1>2, <1>3, ClientKept DEF InStep, Serving
  <2>2. option \in Served
    BY <1>1 DEF InStep, ClientSide, InService, Serving
  <2>3. ToRead(Count(option), 0, WorkerFields(option))
    BY <2>2, Readers
  <2>4. Starting'
    BY <1>1, <1>3, <2>3 DEF InStep, WorkerSide, Starting
  <2>5. WorkerSide'
    BY <1>3, <2>4 DEF WorkerSide, AtWork
  <2> QED
    BY <1>3, <2>1, <2>5 DEF InStep
<1>4. CASE hpc' = "top"
  <2>1. ClientTypes' /\ ClientSide'
    BY <1>1, <1>2, <1>4, ClientWaits DEF InStep, Serving, Waiting
  <2>2. WorkerSide'
    BY <1>4 DEF WorkerSide, Starting, AtWork
  <2> QED
    BY <1>4, <2>1, <2>2 DEF InStep
<1> QED
  BY <1>1, <1>3, <1>4

LEMMA RendezvousStep ==
  ASSUME InStep, Rendezvous
  PROVE  InStep'
<1> USE DEF Rendezvous
<1>1. /\ UNCHANGED <<client, net, option, inputs, reg, req, rsp, winputs, wreg, wout, cause>>
      /\ hpc = "open" /\ wpc = "open" /\ hpc' \in {"open", "send"}
  OBVIOUS
<1>2. (Early' <=> Early) /\ ("thread" \in cause => "thread" \in cause')
  BY <1>1 DEF Early
<1>3. ClientTypes' /\ ClientSide'
  BY <1>1, <1>2, ClientKept DEF InStep, Serving
<1>4. CASE opened + 1 # 2
  <2>1. UNCHANGED <<hpc, wpc, hout>>
    BY <1>4
  <2>2. WorkerSide'
    BY <1>1, <2>1, WorkerKept DEF InStep
  <2> QED
    BY <1>1, <1>3, <2>2 DEF InStep
<1>5. CASE opened + 1 = 2
  <2> DEFINE n == Count(option)
  <2>1. hpc' = "send" /\ wpc' = "input" /\ hout' = Writes(reg, ForwardFields(option))
    BY <1>5
  <2>2. /\ ToRead(n, 0, winputs) /\ wreg = Blank /\ wout = << >> /\ req = << >> /\ rsp = << >>
    BY <1>1 DEF InStep, WorkerSide, Starting
  <2>3. option \in Served /\ Partial(reg, n) /\ n \in {3, 6}
    BY <1>1 DEF InStep, ClientSide, InService, Serving, Count
  <2>4. ToWrite(reg, n, 0, hout')
    BY <2>1, <2>3, Forwards
  <2> HIDE DEF n
  <2>5. req = Between(reg, 0, 0) /\ Mark(reg, 0) <= Mark(reg, 0)
    <3>1. reg \in Registers
      BY <2>3 DEF Partial
    <3> QED
      BY <2>2, <3>1, BetweenEmpty, MarkTypes
  <2>6. Partial(wreg, 0) /\ Agrees(reg, wreg, 0)
    <3>1. Blank \in Registers
      BY DEF Blank, Registers
    <3> QED
      BY <2>2, <3>1 DEF Partial, Agrees
  <2>7. Passing(0, 0)'
    BY <1>1, <2>1, <2>2, <2>3, <2>4, <2>5, <2>6 DEF Passing, n
  <2>8. Computed(0)'
    BY <1>1, <2>1, <2>2 DEF Computed
  <2>9. 0 \in 0 .. Count(option)'
    BY <1>1, <2>3 DEF n
  <2>10. WorkerSide'
    BY <2>1, <2>7, <2>8, <2>9 DEF WorkerSide, Starting, AtWork
  <2> QED
    BY <2>1, <1>3, <2>10 DEF InStep
<1> QED
  BY <1>4, <1>5

LEMMA HandlerSendStep ==
  ASSUME InStep, Clean', HandlerSend
  PROVE  InStep'
<1> DEFINE n == Count(option)
           h == Head(hout)
           room == Room(req, h)
<1>1. /\ hpc = "send"
      /\ UNCHANGED <<client, net, option, inputs, reg, rsp, wpc, winputs, wreg, wout>>
      /\ IF wpc = "dead" /\ h # << >>
           THEN hpc' = "killed" /\ UNCHANGED <<hout, req, cause>>
           ELSE /\ req' = req \o First(h, room)
                /\ hout' = After(h, room) \o Tail(hout)
                /\ hpc' = IF hout' = << >> THEN "receive" ELSE "send"
                /\ cause' = cause \cup Overflow(h, room)
  BY DEF HandlerSend, worker
<1>2. PICK p \in 0 .. n, q \in 0 .. n : Passing(p, q) /\ Computed(p)
  BY <1>1 DEF InStep, WorkerSide, AtWork
<1>3. option \in Served /\ Partial(reg, n) /\ n \in {3, 6}
  BY <1>1 DEF InStep, ClientSide, InService, Serving, Count
<1> HIDE DEF n
<1>4. /\ ToRead(n, p, winputs) /\ ToWrite(reg, n, q, hout) /\ Mark(reg, p) <= Mark(reg, q)
      /\ req = Between(reg, p, q) /\ Partial(wreg, p) /\ Agrees(reg, wreg, p) /\ q < n
  BY <1>1, <1>2 DEF Passing, n
<1>5. /\ q \in 0 .. 5 /\ q + 1 \in 0 .. n /\ p \in 0 .. 6 /\ q \in 0 .. 6
      /\ hout # << >> /\ h = Words(reg, Field(q + 1)) /\ ToWrite(reg, n, q + 1, Tail(hout))
  BY <1>3, <1>4, NextWrite
<1>6. reg \in Registers
  BY <1>3 DEF Partial
<1>7. /\ h \in Seq(Int) /\ Len(h) \in Nat /\ Mark(reg, q + 1) - Mark(reg, q) = Len(h)
      /\ Mark(reg, q) \in Nat /\ Mark(reg, q + 1) \in Nat
  <2>1. q + 1 \in 0 .. 6
    BY <1>3, <1>5
  <2> QED
    BY <1>5, <1>6, <2>1, OneField, MarkTypes
<1>8. ~ (wpc = "dead" /\ h # << >>)
  <2> SUFFICES ASSUME wpc = "dead" PROVE h = << >>
    OBVIOUS
  <2>1. p = n
    BY <1>2 DEF Computed, n
  <2>2. Mark(reg, q + 1) <= Mark(reg, n)
    BY <1>3, <1>5, <1>6, MarkOrder
  <2>3. Mark(reg, n) \in Nat /\ Mark(reg, n) <= Mark(reg, q)
    BY <1>3, <1>4, <1>6, <2>1, MarkTypes
  <2>4. Len(h) = 0
    BY <1>7, <2>2, <2>3
  <2> QED
    BY <1>7, <2>4, EmptySeq
<1>9. room \in Int
  <2>1. Len(req) \in Nat
    BY <1>4, <1>5, <1>6, BetweenType
  <2> QED
    BY <1>7, <2>1, SessionAssumption DEF Room, Smaller
<1> HIDE DEF h, room
<1>10. Len(h) <= room
  <2>1. "overflow" \notin cause'
    BY DEF Clean
  <2>2. ~ (Len(h) > room)
    BY <1>1, <1>8, <2>1 DEF Overflow
  <2> QED
    BY <1>7, <1>9, <2>2
<1>11. First(h, room) = h /\ After(h, room) = << >>
  BY <1>7, <1>9, <1>10, WholeWrite
<1>12. req' = Between(reg, p, q + 1) /\ Mark(reg, p) <= Mark(reg, q + 1)
  BY <1>1, <1>4, <1>5, <1>6, <1>8, <1>11, WriteField
<1>13. hout' = Tail(hout)
  <2>1. << >> \o Tail(hout) = Tail(hout)
    BY <1>3, <1>5 DEF ToWrite
  <2> QED
    BY <1>1, <1>8, <1>11, <2>1
<1>14. hpc' \in {"send", "receive"} /\ (hpc' = "send" <=> q + 1 < n)
  <2>1. hout' = << >> <=> q + 1 = n
    BY <1>3, <1>5, <1>13, NextWrite
  <2> QED
    BY <1>1, <1>3, <1>5, <1>8, <2>1
<1>15. (Early' <=> Early) /\ ("thread" \in cause <=> "thread" \in cause')
  <2>1. cause' = cause \/ cause' = cause \cup {"overflow"}
    BY <1>1 DEF Overflow
  <2> QED
    BY <2>1 DEF Early
<1>16. ClientTypes' /\ ClientSide'
  BY <1>1, <1>14, <1>15, ClientKept DEF InStep, Serving
<1>17. Passing(p, q + 1)'
  BY <1>1, <1>4, <1>5, <1>12, <1>13, <1>14 DEF Passing, n
<1>18. Computed(p)'
  BY <1>1, <1>2, <1>15 DEF Computed
<1>19. WorkerSide'
  BY <1>1, <1>5, <1>14, <1>17, <1>18 DEF WorkerSide, Starting, AtWork, n
<1> QED
  BY <1>14, <1>16, <1>19 DEF InStep

LEMMA HandlerReceiveStep ==
  ASSUME InStep, Clean', HandlerReceive
  PROVE  InStep'
<1> DEFINE n == Count(option)
           k == ReplySize(option, reg)
           w == Padded(Taken(rsp, k), k)
<1>1. /\ hpc = "receive" /\ hpc' = "reply"
      /\ Readable(rsp, k, wpc = "dead") /\ hout' = <<w>>
      /\ cause' = cause \cup (IF k > SegCap THEN {"overflow"} ELSE {})
      /\ UNCHANGED <<client, net, option, inputs, reg>>
  BY DEF HandlerReceive
<1>2. PICK p \in 0 .. n, q \in 0 .. n : Passing(p, q) /\ Computed(p)
  BY <1>1 DEF InStep, WorkerSide, AtWork
<1>3. option \in Served /\ Partial(reg, n) /\ reg \in Registers
  BY <1>1 DEF InStep, ClientSide, InService, Serving, Partial
<1>4. k \in Nat
  BY <1>3, AnyAnswer
<1> HIDE DEF n, k
<1>5. Sized(w, k) /\ Len(w) = k
  BY <1>4, PaddedSized
<1>6. Len(w) <= SegCap
  <2>1. "overflow" \notin cause'
    BY DEF Clean
  <2> QED
    BY <1>1, <1>4, <1>5, <2>1, SessionAssumption
<1>7. (Early' <=> Early) /\ ("thread" \in cause <=> "thread" \in cause')
  <2>1. cause' = cause \/ cause' = cause \cup {"overflow"}
    BY <1>1
  <2> QED
    BY <2>1 DEF Early
<1>8. ASSUME ~ ClientGone PROVE Answered(hout[1])'
  <2> DEFINE v == Wanted(service, shape)
  <2>1. /\ service = option /\ Agrees(Filled(shape), reg, n)
        /\ ~ Empty(shape) /\ shape \in Shapes \cup {NoShape}
    BY <1>1, <1>8 DEF InStep, ClientTypes, ClientSide, InService, Serving, Asking, n
  <2>2. k = Len(v) /\ k # 0 /\ Result(option, reg) = v
    BY <1>3, <2>1, WantedAnswer DEF n, k
  <2> HIDE DEF v
  <2>3. "thread" \in cause \/ w = v
    <3> SUFFICES ASSUME "thread" \notin cause PROVE w = v
      OBVIOUS
    <3>1. rsp # << >> \/ wpc = "dead"
      BY <1>1, <1>4, <2>2 DEF Readable
    <3>2. rsp = v
      BY <1>2, <2>2, <3>1 DEF Computed
    <3>3. Sized(v, k)
      BY <1>3, <2>1, <2>2, WantedAnswer DEF v
    <3> QED
      BY <1>4, <3>2, <3>3, WholeRead
  <2>4. Wanted(service', shape') = v
    BY <1>1 DEF v, client
  <2> HIDE DEF w
  <2>5. hout'[1] = w
    BY <1>1
  <2>6. Sized(hout'[1], Len(Wanted(service', shape')))
    BY <1>5, <2>2, <2>4, <2>5
  <2>7. "thread" \in cause' \/ hout'[1] = Wanted(service', shape')
    BY <1>7, <2>3, <2>4, <2>5
  <2> QED
    BY <2>6, <2>7 DEF Answered
<1>9. Replying'
  <2>1. Len(hout') = 1 /\ hout'[1] = w
    BY <1>1
  <2>2. ClientGone' <=> ClientGone
    BY <1>1 DEF ClientGone, client
  <2> HIDE DEF w
  <2>3. Sized(hout'[1], Len(hout'[1])) /\ Len(hout'[1]) \in 0 .. SegCap
    BY <1>4, <1>5, <1>6, <2>1, SessionAssumption
  <2> QED
    BY <1>8, <2>1, <2>2, <2>3 DEF Replying
<1>10. ClientTypes' /\ ClientSide'
  BY <1>1, <1>7, <1>9, ClientKept DEF InStep, Serving
<1>11. WorkerSide'
  BY <1>1 DEF WorkerSide, Starting, AtWork
<1> QED
  BY <1>1, <1>10, <1>11 DEF InStep

\* While a request is served nothing is unread on the connection, no RST has
\* come, and the client, if it is there, waits.
LEMMA QuietConnection ==
  ASSUME InStep, hpc \in Serving
  PROVE  c2s = << >> /\ ~ reset /\ (ClientGone \/ (Asking /\ s2c = << >>))
<1>1. hpc \notin Waiting /\ hpc \notin Done
  BY DEF Serving, Waiting, Done
<1>2. c2s = << >> /\ (ClientGone \/ Asking)
  BY DEF InStep, ClientSide, InService
<1>3. ~ reset
  BY <1>1 DEF InStep, ClientSide, NoMoreWrites
<1>4. Asking => s2c = << >>
  BY <1>1 DEF InStep, ClientSide, Unread, Asking
<1> QED
  BY <1>2, <1>3, <1>4

LEMMA HandlerReplyStep ==
  ASSUME InStep, HandlerReply
  PROVE  InStep'
<1> DEFINE w == Head(hout)
<1>1. hpc = "reply"
  BY DEF HandlerReply
<1>2. c2s = << >> /\ ~ reset /\ (ClientGone \/ (Asking /\ s2c = << >>)) /\ option \in Served
  BY <1>1, QuietConnection DEF Serving, InStep, ClientSide, InService
<1>3. /\ Len(w) \in Nat /\ Len(w) <= SegCap /\ Sized(w, Len(w))
      /\ ClientGone \/ Answered(w)
  <2>1. /\ Len(hout) = 1 /\ Sized(hout[1], Len(hout[1])) /\ Len(hout[1]) \in 0 .. SegCap
        /\ ClientGone \/ Answered(hout[1])
    BY <1>1 DEF InStep, ClientSide, Replying
  <2>2. w = hout[1]
    BY <2>1
  <2> HIDE DEF w
  <2> QED
    BY <2>1, <2>2, SessionAssumption
<1> DEFINE S == {w[i] : i \in 1 .. Len(w)}
<1>4. w \in Seq(S)
  BY <1>3 DEF Sized
<1> HIDE DEF S
<1>5. First(w, SegCap) = w /\ After(w, SegCap) = << >>
  BY <1>3, <1>4, WholeWrite, SessionAssumption
<1>6. /\ hpc' = "finish"
      /\ IF ~ ClientGone THEN s2c' = s2c \o w /\ reset' = reset
                         ELSE s2c' = s2c /\ reset' = TRUE
      /\ UNCHANGED <<client, c2s, option, inputs, reg, cause>>
  BY <1>2, <1>5 DEF HandlerReply, WriteToClient
<1>7. ClientTypes' /\ Greeting' /\ Leaving' /\ Segmented' /\ Shown'
  BY <1>1, <1>6 DEF InStep, ClientTypes, ClientSide, Empty, Greeting, Leaving, Segmented, Shown,
     Done, Early, client
<1>8. NoMoreWrites'
  BY <1>2, <1>6 DEF NoMoreWrites, ClientGone, Waiting, client
<1>9. AtOption'
  <2>1. Unsent'
    BY <1>2, <1>6 DEF Asking, Unsent, ClientGone, client
  <2>2. Option(0)' /\ 0 \in 0 .. Len(c2s')
    BY <1>2, <1>6, <2>1 DEF Option
  <2> QED
    BY <2>2 DEF AtOption
<1>10. Unread'
  <2>1. CASE ClientGone
    BY <1>6, <2>1 DEF Unread, ClientGone, client
  <2>2. CASE ~ ClientGone
    <3>1. s2c' = w
      BY <1>2, <1>4, <1>6, <2>2
    <3>2. Answered(w) /\ cpc \in {"send", "receive"} /\ service \in Served /\ outbox = << >>
      BY <1>2, <1>3, <2>2 DEF Asking
    <3>3. Answered(s2c)'
      BY <1>6, <3>1, <3>2 DEF Answered, client
    <3> QED
      BY <1>2, <1>6, <3>2, <3>3 DEF Unread, Waiting, client
  <2> QED
    BY <2>1, <2>2
<1>11. AtInput' /\ InService' /\ Replying'
  BY <1>6 DEF AtInput, InService, Replying, Serving
<1>12. WorkerSide'
  BY <1>6 DEF WorkerSide, Starting, AtWork
<1> QED
  BY <1>6, <1>7, <1>8, <1>9, <1>10, <1>11, <1>12 DEF InStep, ClientSide

LEMMA HandlerEndStep ==
  ASSUME InStep, HandlerCloseFifos \/ HandlerReap
  PROVE  InStep'
<1>1. /\ hpc \in {"finish", "reap"} /\ hpc' \in {"reap", "top"}
      /\ UNCHANGED <<client, net, cause>>
  BY DEF HandlerCloseFifos, HandlerReap
<1>2. ClientTypes' /\ ClientSide'
  BY <1>1, ClientWaits DEF InStep, Waiting, Early
<1>3. WorkerSide'
  BY <1>1 DEF WorkerSide, Starting, AtWork
<1> QED
  BY <1>1, <1>2, <1>3 DEF InStep

-----------------------------------------------------------------------------
(* The steps of the handler that greet the client and read its requests *)

LEMMA HandlerGreetStep ==
  ASSUME InStep, HandlerGreet
  PROVE  InStep'
<1>1. /\ hpc = "greet" /\ cpc \in {"id", "gone"} /\ c2s = << >> /\ s2c = << >> /\ ~ reset
  BY DEF HandlerGreet, InStep, ClientSide, Greeting
<1>2. /\ hpc' = "top" /\ UNCHANGED <<client, c2s, option, inputs, reg, hout, cause>>
      /\ IF ~ ClientGone THEN s2c' = <<ClientId>> /\ reset' = reset
                         ELSE s2c' = s2c /\ reset' = TRUE
  BY <1>1 DEF HandlerGreet, WriteToClient
<1> USE DEF client
<1>3. ClientTypes' /\ Greeting' /\ Leaving' /\ Segmented' /\ Shown'
  BY <1>1, <1>2 DEF InStep, ClientTypes, ClientSide, Empty, Greeting, Leaving, Segmented, Shown,
     Done, Early, ClientGone
<1>4. AtOption'
  <2>1. Unsent'
    BY <1>1, <1>2 DEF InStep, ClientTypes, Unsent, ClientGone
  <2>2. Option(0)' /\ 0 \in 0 .. Len(c2s')
    BY <1>1, <1>2, <2>1 DEF Option
  <2> QED
    BY <2>2 DEF AtOption
<1>5. Unread' /\ NoMoreWrites'
  BY <1>1, <1>2 DEF Unread, NoMoreWrites, ClientGone, Waiting
<1>6. AtInput' /\ InService' /\ Replying' /\ WorkerSide'
  BY <1>2 DEF AtInput, InService, Replying, Serving, WorkerSide, Starting, AtWork
<1> QED
  BY <1>2, <1>3, <1>4, <1>5, <1>6 DEF InStep, ClientSide

LEMMA HandlerLeaveStep ==
  ASSUME InStep, HandlerEndOfStream \/ HandlerClose
  PROVE  InStep'
<1>1. /\ hpc' \in Done /\ UNCHANGED <<client, c2s, s2c, cause>>
      /\ hpc \in Done \/ ClientGone
      /\ hpc # "greet"
  BY DEF HandlerEndOfStream, HandlerClose, Done, net
<1> USE DEF client
<1>2. ClientTypes' /\ Segmented' /\ Shown'
  BY <1>1 DEF InStep, ClientTypes, ClientSide, Empty, Segmented, Shown, Early
<1>3. Greeting' /\ Leaving'
  BY <1>1 DEF InStep, ClientSide, Greeting, Leaving, Done, Early, ClientGone
<1>4. AtOption' /\ AtInput' /\ InService' /\ Replying' /\ Unread' /\ NoMoreWrites'
  BY <1>1 DEF AtOption, AtInput, InService, Replying, Unread, NoMoreWrites, Done, Serving, Waiting
<1>5. WorkerSide' /\ hpc' # "killed"
  BY <1>1 DEF WorkerSide, Starting, AtWork, Done
<1> QED
  BY <1>2, <1>3, <1>4, <1>5 DEF InStep, ClientSide

\* What the handler may find at the head of the stream.
LEMMA HandlerReadOptionStep ==
  ASSUME InStep, HandlerReadOption
  PROVE  InStep'
<1> USE DEF client
<1> DEFINE x == Head(c2s)
<1>1. /\ hpc = "top" /\ c2s # << >> /\ option' = x /\ c2s' = Tail(c2s)
      /\ UNCHANGED <<client, hout, fifo, worker, cause>>
  BY DEF HandlerReadOption
<1>2. c2s \in Seq(Int) /\ Len(c2s) \in Nat \ {0} /\ x = c2s[1] /\ x \in Int
  BY <1>1, EmptySeq DEF InStep, ClientTypes
<1>3. /\ Len(c2s') = Len(c2s) - 1 /\ c2s' \in Seq(Int)
      /\ \A i \in 1 .. Len(c2s') : c2s'[i] = c2s[i + 1]
  BY <1>1, <1>2
<1>4. ~ reset
  BY <1>1 DEF InStep, ClientSide, NoMoreWrites, Done
<1>5. PICK m \in 0 .. Len(c2s) : Option(m)
  BY <1>1 DEF InStep, ClientSide, AtOption, Waiting
<1>6. ClientTypes' /\ Segmented' /\ Shown'
  BY <1>1, <1>3 DEF InStep, ClientTypes, ClientSide, Empty, Segmented, Shown, Early
<1>7. cpc # "id"
  BY <1>1 DEF InStep, ClientSide, Greeting
<1>8. cpc \in {"send", "receive"} => s2c = << >>
  BY <1>1 DEF InStep, ClientSide, Unread, Done
<1> HIDE DEF x
<1>9. CASE x = -1
  <2>1. hpc' = "shut"
    BY <1>1, <1>4, <1>9 DEF HandlerReadOption, WriteToClient, x
  <2>2. m = 0
    <3> SUFFICES ASSUME m # 0 PROVE FALSE
      OBVIOUS
    <3>1. 1 \in 1 .. m
      BY <1>2
    <3> QED
      BY <1>2, <1>5, <1>9, <3>1 DEF Option, Noop
  <2>3. Early \/ cpc \in {"exit", "bye", "gone"}
    <3>1. ~ (m = Len(c2s))
      BY <1>2, <2>2
    <3>2. ~ (service = x /\ \E q \in 0 .. Count(service) : Written(q))
      BY <1>9 DEF Written, Served
    <3> QED
      BY <1>2, <1>5, <2>2, <3>1, <3>2 DEF Option
  <2>4. Greeting' /\ Leaving'
    BY <1>1, <1>7, <2>1, <2>3 DEF Greeting, Leaving, Done, Early
  <2>5. AtOption' /\ AtInput' /\ InService' /\ Replying' /\ Unread' /\ NoMoreWrites'
    BY <2>1
    DEF AtOption, AtInput, InService, Replying, Unread, NoMoreWrites, Done, Serving, Waiting
  <2>6. WorkerSide'
    BY <2>1 DEF WorkerSide, Starting, AtWork
  <2> QED
    BY <1>6, <2>1, <2>4, <2>5, <2>6 DEF InStep, ClientSide
<1>10. CASE m > 0
  <2>1. 1 \in 1 .. m
    BY <1>2, <1>10
  <2>2. Noop(x)
    BY <1>2, <1>5, <2>1 DEF Option
  <2>3. hpc' = hpc /\ UNCHANGED <<s2c, reset, inputs, reg>>
    BY <1>2, <2>2 DEF HandlerReadOption, Noop, ReadingOptions, x
  <2>4. Option(m - 1)' /\ m - 1 \in 0 .. Len(c2s')
    <3>1. m - 1 \in 0 .. Len(c2s')
      BY <1>2, <1>3, <1>10
    <3>2. \A i \in 1 .. (m - 1) : Noop(c2s'[i])
      <4> SUFFICES ASSUME NEW i \in 1 .. (m - 1) PROVE Noop(c2s'[i])
        OBVIOUS
      <4>1. i \in 1 .. Len(c2s') /\ i + 1 \in 1 .. m
        BY <1>2, <1>3
      <4> QED
        BY <1>3, <1>5, <4>1 DEF Option
    <3>3. m = Len(c2s) => m - 1 = Len(c2s')
      BY <1>2, <1>3
    <3>4. m < Len(c2s) => m - 1 < Len(c2s') /\ c2s'[(m - 1) + 1] = c2s[m + 1]
      <4> SUFFICES ASSUME m < Len(c2s)
                   PROVE  m - 1 < Len(c2s') /\ c2s'[(m - 1) + 1] = c2s[m + 1]
        OBVIOUS
      <4>1. m \in 1 .. Len(c2s') /\ (m - 1) + 1 = m /\ m - 1 < Len(c2s')
        BY <1>2, <1>3, <1>10
      <4> QED
        BY <1>3, <4>1
    <3>5. m < Len(c2s) => SubSeq(c2s', (m - 1) + 2, Len(c2s')) = SubSeq(c2s, m + 2, Len(c2s))
      BY <1>1, <1>2, <1>3, <1>10
    <3>6. Unsent => Unsent'
      BY <1>1 DEF Unsent, ClientGone, Early
    <3>7. \A q : Written(q) => Written(q)'
      BY <1>1 DEF Written, ClientGone, Empty
    <3>8. Early => Early'
      BY <1>1 DEF Early
    <3> QED
      BY <1>1, <1>5, <3>1, <3>2, <3>3, <3>4, <3>5, <3>6, <3>7, <3>8 DEF Option
  <2>5. AtOption'
    BY <2>4 DEF AtOption
  <2>6. Greeting' /\ Leaving' /\ NoMoreWrites'
    BY <1>1, <1>4, <1>7, <2>3 DEF Greeting, Leaving, NoMoreWrites, Done
  <2>7. Unread'
    BY <1>1, <1>8, <2>3 DEF InStep, ClientSide, Unread, Done
  <2>8. AtInput' /\ InService' /\ Replying' /\ WorkerSide'
    BY <1>1, <2>3 DEF AtInput, InService, Replying, Serving, WorkerSide, Starting, AtWork
  <2> QED
    BY <1>1, <1>6, <2>3, <2>5, <2>6, <2>7, <2>8 DEF InStep, ClientSide
<1>11. CASE m = 0 /\ x # -1
  <2>1. PICK q \in 0 .. Count(service) :
          /\ x = service /\ Written(q)
          /\ SubSeq(c2s, 2, Len(c2s)) = Between(Filled(shape), 0, q)
    <3>1. ~ (m = Len(c2s)) /\ 0 + 1 = 1 /\ 0 + 2 = 2
      BY <1>2, <1>11
    <3> QED
      BY <1>2, <1>5, <1>11, <3>1 DEF Option
  <2>2. x \in Served
    BY <2>1 DEF Written
  <2>3. hpc' = "input" /\ inputs' = HandlerFields(x) /\ reg' = Blank /\ UNCHANGED <<s2c, reset>>
    BY <1>11, <2>2 DEF HandlerReadOption, Served, ReadingOptions, x
  <2>4. Tail(c2s) = SubSeq(c2s, 2, Len(c2s))
    BY <1>1, <1>2, TailIsSubSeq
  <2>5. ToRead(Count(x), 0, HandlerFields(x))
    BY <2>2, Readers
  <2>6. Partial(Blank, 0) /\ Agrees(Filled(shape), Blank, 0)
    <3>1. Blank \in Registers
      BY DEF Blank, Registers
    <3> QED
      BY <3>1 DEF Partial, Agrees
  <2>7. Written(q)'
    BY <1>1, <2>1 DEF Written, ClientGone, Empty
  <2>8. Reading(0)'
    BY <1>1, <2>1, <2>3, <2>4, <2>5, <2>6, <2>7 DEF Reading
  <2>9. AtInput'
    <3>1. 0 \in 0 .. (Count(option') - 1)
      BY DEF Count
    <3> QED
      BY <1>1, <2>2, <2>8, <3>1 DEF AtInput
  <2>10. Greeting' /\ Leaving' /\ NoMoreWrites'
    BY <1>1, <1>4, <1>7, <2>3 DEF Greeting, Leaving, NoMoreWrites, Done
  <2>11. Unread'
    BY <1>1, <1>8, <2>3 DEF InStep, ClientSide, Unread, Done
  <2>12. AtOption' /\ InService' /\ Replying' /\ WorkerSide'
    BY <2>3 DEF AtOption, Waiting, InService, Replying, Serving, WorkerSide, Starting, AtWork
  <2> QED
    BY <1>6, <2>3, <2>9, <2>10, <2>11, <2>12 DEF InStep, ClientSide
<1> QED
  BY <1>2, <1>9, <1>10, <1>11

LEMMA HandlerInputStep ==
  ASSUME InStep, HandlerInput
  PROVE  InStep'
<1> USE DEF client
<1> DEFINE n == Count(option)
           f == Head(inputs)
           k == SizeOf(reg, f)
           F == Filled(shape)
<1>1. /\ hpc = "input" /\ Readable(c2s, k, ClientGone)
      /\ reg' = Stored(reg, f, Taken(c2s, k)) /\ c2s' = Left(c2s, k) /\ inputs' = Tail(inputs)
      /\ hpc' = IF inputs' # << >> THEN "input"
                ELSE IF option \in {1, 2, 4} THEN "mkfifo" ELSE "top"
      /\ UNCHANGED <<client, s2c, reset, option, hout, cause>>
  BY DEF HandlerInput
<1>2. option \in Served /\ n \in {3, 6}
  BY <1>1 DEF InStep, ClientSide, AtInput, Count
<1>3. PICK p \in 0 .. (n - 1) : Reading(p)
  BY <1>1 DEF InStep, ClientSide, AtInput
<1> HIDE DEF n
<1>4. ToRead(n, p, inputs) /\ Partial(reg, p) /\ p \in 0 .. n /\ reg \in Registers
  BY <1>2, <1>3 DEF Reading, Partial, n
<1>5. /\ p \in 0 .. 5 /\ p + 1 \in 0 .. n /\ f = Field(p + 1)
      /\ ToRead(n, p + 1, inputs') /\ (inputs' = << >> <=> p + 1 = n)
  <2>1. inputs # << >>
    BY <1>2, <1>3, <1>4, NextRead
  <2>2. p + 1 \in 0 .. n /\ ToRead(n, p + 1, inputs')
    BY <1>1, <1>2, <1>4, <2>1, NextRead
  <2> QED
    BY <1>2, <1>4, <2>1, <2>2, NextRead
<1>6. k \in Nat
  <2>1. p = 2 => f = "A"
    BY <1>5, FieldNumber
  <2>2. p = 5 => f = "B"
    BY <1>5, FieldNumber
  <2>3. p \notin {2, 5} => f \notin {"A", "B"}
    BY <1>5, FieldNumber
  <2>4. /\ reg.rowsA \in Nat /\ reg.columnsA \in Nat /\ reg.rowsB \in Nat
        /\ reg.columnsB \in Nat
    BY <1>4, RegisterTypes
  <2> QED
    BY <2>1, <2>2, <2>3, <2>4 DEF SizeOf
<1> HIDE DEF f, k, F
<1> DEFINE Cut == ClientGone /\ c2s' = << >>
           Flow == \E q \in (p + 1) .. n :
                     /\ option = service /\ Written(q)
                     /\ c2s' = Between(F, p + 1, q) /\ Agrees(F, reg', p + 1)
<1>7. Partial(reg', p + 1) /\ (Cut \/ Flow)
  <2>1. CASE ClientGone /\ c2s = << >>
    <3>1. Taken(c2s, k) = << >> /\ c2s' = << >>
      BY <1>1, <1>6, <2>1, NothingRead
    <3>2. << >> \in Seq(Int)
      OBVIOUS
    <3> QED
      BY <1>1, <1>4, <1>5, <2>1, <3>1, <3>2, StoredPartial
  <2>2. CASE ~ (ClientGone /\ c2s = << >>)
    <3>1. PICK q \in p .. n :
            /\ option = service /\ Written(q)
            /\ c2s = Between(F, p, q) /\ Agrees(F, reg, p)
      BY <1>3, <2>2 DEF Reading, n, F
    <3> DEFINE w == Words(F, Field(p + 1))
    <3>2. /\ ~ Empty(shape) /\ shape \in Shapes \cup {NoShape}
      BY <3>1 DEF Written, InStep, ClientTypes
    <3>3. Partial(F, 6) /\ F \in Registers
      BY <3>2, FilledValues DEF F, Partial
    <3>4. w \in Seq(Int) /\ Len(w) \in Nat /\ Len(w) >= 1
      BY <1>5, <3>2, <3>3, OneField, Nonempty DEF F
    <3>5. k = Len(w)
      <4>1. p \in 0 .. (6 - 1)
        BY <1>5
      <4> QED
        BY <1>4, <1>5, <3>1, <3>3, <4>1, RightSize DEF k
    <3> HIDE DEF w
    <3>6. c2s # << >>
      BY <1>1, <2>2, <3>4, <3>5 DEF Readable
    <3>7. q \in 0 .. 6 /\ p \in 0 .. 6 /\ p + 1 \in 0 .. 6
      BY <1>2, <1>5
    <3>8. q # p
      BY <1>5, <3>1, <3>3, <3>6, <3>7, BetweenEmpty
    <3>9. q \in (p + 1) .. n /\ p + 1 <= q
      BY <1>2, <1>5, <3>8
    <3>10. Mark(F, p + 1) <= Mark(F, q)
      BY <3>3, <3>7, <3>9, MarkOrder
    <3>11. Taken(c2s, k) = w /\ c2s' = Between(F, p + 1, q)
      BY <1>1, <1>5, <3>1, <3>3, <3>5, <3>7, <3>10, ReadField DEF w
    <3>12. Agrees(F, reg', p + 1)
      BY <1>1, <1>4, <1>5, <3>1, <3>3, <3>5, <3>11, StoredAgrees DEF k, w
    <3>13. Partial(reg', p + 1)
      <4>1. p \notin {2, 5} => w = << >> \/ w[1] \in Nat
        <5>1. p \notin {2, 5} => p + 1 = 1 \/ p + 1 = 2 \/ p + 1 = 4 \/ p + 1 = 5
          BY <1>5
        <5>2. \A x \in Nat : <<x>>[1] \in Nat
          OBVIOUS
        <5> QED
          BY <3>3, <5>1, <5>2, FieldWords, RegisterTypes DEF w
      <4> QED
        BY <1>1, <1>4, <1>5, <3>4, <3>11, <4>1, StoredPartial
    <3> QED
      BY <3>1, <3>9, <3>11, <3>12, <3>13
  <2> QED
    BY <2>1, <2>2
<1>8. /\ ClientGone' <=> ClientGone
      /\ \A q : Written(q) => Written(q)'
      /\ F = Filled(shape)' /\ n = Count(option)'
  BY <1>1 DEF ClientGone, Written, Empty, F, n
<1>9. cpc \in {"send", "receive"} => s2c = << >>
  BY <1>1 DEF InStep, ClientSide, Unread, Done, Waiting
<1>10. ~ reset /\ cpc # "id"
  BY <1>1 DEF InStep, ClientSide, NoMoreWrites, Greeting, Done, Waiting
<1>11. c2s' \in Seq(Int)
  <2>1. CASE Cut
    BY <2>1
  <2>2. CASE Flow
    <3>1. PICK q \in (p + 1) .. n : Written(q) /\ c2s' = Between(F, p + 1, q)
      BY <2>2
    <3>2. F \in Registers
      BY <3>1, FilledValues DEF Written, InStep, ClientTypes, F, Partial
    <3>3. q \in 0 .. 6 /\ p + 1 \in 0 .. 6 /\ p + 1 <= q
      BY <1>2, <1>5
    <3> QED
      BY <3>1, <3>2, <3>3, MarkOrder, BetweenType
  <2> QED
    BY <1>7, <2>1, <2>2
<1>12. ClientTypes' /\ Segmented' /\ Shown'
  BY <1>1, <1>11 DEF InStep, ClientTypes, ClientSide, Empty, Segmented, Shown, Early
<1>13. hpc' = (IF p + 1 = n THEN "mkfifo" ELSE "input")
  BY <1>1, <1>2, <1>5 DEF Served
<1>14. Greeting' /\ Leaving' /\ NoMoreWrites'
  BY <1>1, <1>10, <1>13 DEF Greeting, Leaving, NoMoreWrites, Done
<1>15. Unread'
  BY <1>1, <1>9, <1>13 DEF InStep, ClientSide, Unread, Done
<1>16. AtInput'
  <2> SUFFICES ASSUME p + 1 # n PROVE AtInput'
    BY <1>13 DEF AtInput
  <2>1. p + 1 \in 0 .. (n - 1)
    BY <1>2, <1>5
  <2>2. Reading(p + 1)'
    <3>1. CASE Cut
      BY <1>5, <1>7, <1>8, <3>1 DEF Reading
    <3>2. CASE Flow
      BY <1>1, <1>5, <1>7, <1>8, <3>2 DEF Reading
    <3> QED
      BY <1>7, <3>1, <3>2
  <2> QED
    BY <1>1, <1>2, <1>8, <2>1, <2>2 DEF AtInput
<1>17. InService'
  <2> SUFFICES ASSUME p + 1 = n PROVE InService'
    BY <1>13 DEF InService, Serving
  <2>1. CASE Cut
    BY <1>1, <1>2, <1>7, <1>8, <2>1 DEF InService
  <2>2. CASE Flow /\ ~ ClientGone
    <3>1. /\ option = service /\ Written(n)
          /\ c2s' = Between(F, n, n) /\ Agrees(F, reg', n)
      BY <1>2, <2>2
    <3>2. F \in Registers
      BY <3>1, FilledValues DEF Written, InStep, ClientTypes, F, Partial
    <3>3. c2s' = << >>
      BY <1>2, <3>1, <3>2, BetweenEmpty
    <3>4. cpc \in {"send", "receive"} /\ outbox = << >>
      <4>1. cpc \in {"send", "receive"} /\ ToWrite(F, n, n, outbox)
        BY <2>2, <3>1 DEF Written, F, n
      <4> QED
        BY <1>2, <4>1, NextWrite
    <3>5. Asking'
      BY <1>1, <1>8, <3>1, <3>4 DEF Asking
    <3> QED
      BY <1>1, <1>2, <1>7, <1>8, <3>3, <3>5 DEF InService
  <2>3. CASE Flow /\ ClientGone
    <3>1. Written(n) /\ c2s' = Between(F, n, n)
      BY <1>2, <2>3
    <3>2. F \in Registers
      BY <3>1, FilledValues DEF Written, InStep, ClientTypes, F, Partial
    <3>3. c2s' = << >>
      BY <1>2, <3>1, <3>2, BetweenEmpty
    <3> QED
      BY <1>1, <1>2, <1>7, <1>8, <2>3, <3>3 DEF InService
  <2> QED
    BY <1>7, <2>1, <2>2, <2>3
<1>18. AtOption' /\ Replying' /\ WorkerSide'
  BY <1>13 DEF AtOption, Waiting, Replying, WorkerSide, Starting, AtWork
<1> QED
  BY <1>12, <1>13, <1>14, <1>15, <1>16, <1>17, <1>18 DEF InStep, ClientSide

-----------------------------------------------------------------------------
(* The steps of the client.  None touches the handler, the FIFOs or the worker. *)

\* While the client is at its menus, or leaves, the handler holds no request.
LEMMA NoRequest ==
  ASSUME InStep, cpc \in {"id", "menu", "exit", "bye"}
  PROVE  /\ hpc \notin Serving /\ hpc # "input"
         /\ \A q : ~ Written(q)
<1>1. \A q : ~ Written(q)
  BY DEF Written, ClientGone
<1>2. hpc \notin Serving
  BY DEF InStep, ClientSide, InService, Asking, ClientGone
<1>3. hpc # "input"
  BY <1>1 DEF InStep, ClientSide, AtInput, Reading, ClientGone
<1> QED
  BY <1>1, <1>2, <1>3

\* The worker's side is as before.
LEMMA WorkerStays ==
  ASSUME InStep, UNCHANGED <<handler, fifo, worker>>, "thread" \in cause => "thread" \in cause'
  PROVE  WorkerSide' /\ hpc' # "killed"
  BY WorkerKept DEF InStep, handler, fifo, worker

LEMMA ClientReadIdStep ==
  ASSUME InStep, ClientReadId
  PROVE  InStep'
<1> USE DEF handler
<1>1. /\ cpc = "id" /\ Readable(s2c, 1, ServerGone) /\ s2c' = Left(s2c, 1)
      /\ cpc' = IF s2c = << >> THEN "gone" ELSE "menu"
      /\ UNCHANGED <<shape, service, outbox, shown, c2s, reset, handler, cause>>
  BY DEF ClientReadId
<1>2. c2s = << >> /\ outbox = << >> /\ hpc = "top" /\ s2c = <<ClientId>>
  <2>1. c2s = << >> /\ hpc \in {"greet", "top"} /\ outbox = << >>
    BY <1>1 DEF InStep, ClientTypes, ClientSide, Greeting
  <2>2. ~ ServerGone
    BY <2>1 DEF ServerGone
  <2>3. s2c # << >>
    BY <1>1, <2>2 DEF Readable
  <2> QED
    BY <1>1, <2>1, <2>3 DEF InStep, ClientSide, Greeting
<1>3. s2c' = << >> /\ cpc' = "menu"
  <2>1. Len(<<ClientId>>) = 1 /\ SubSeq(<<ClientId>>, 1 + 1, 1) = << >>
    BY SubSeqEmpty
  <2> QED
    BY <1>1, <1>2, <2>1 DEF Left
<1>4. ClientTypes' /\ Greeting' /\ Leaving' /\ Segmented' /\ Shown'
  BY <1>1, <1>2, <1>3 DEF InStep, ClientTypes, ClientSide, Empty, Greeting, Leaving, Segmented,
     Shown, Done, Early
<1>5. NoMoreWrites' /\ Unread'
  BY <1>1, <1>2, <1>3 DEF InStep, ClientSide, NoMoreWrites, Unread, Done, ClientGone
<1>6. AtOption'
  <2>1. Unsent'
    BY <1>1, <1>2 DEF Unsent
  <2>2. Option(0)' /\ 0 \in 0 .. Len(c2s')
    BY <1>1, <1>2, <2>1 DEF Option
  <2> QED
    BY <2>2 DEF AtOption
<1>7. AtInput' /\ InService' /\ Replying'
  BY <1>1, <1>2 DEF AtInput, InService, Replying, Serving
<1>8. WorkerSide' /\ hpc' # "killed"
  BY <1>1, WorkerStays DEF ClientReadId
<1> QED
  BY <1>4, <1>5, <1>6, <1>7, <1>8 DEF InStep, ClientSide

\* At its menus the client changes its matrices, its request, nothing else.
LEMMA MenuStep ==
  ASSUME InStep, cpc = "menu", cpc' \in {"menu", "send", "exit"},
         UNCHANGED <<shown, net, handler, fifo, worker>>, Early => Early',
         "thread" \in cause => "thread" \in cause', ClientTypes', Segmented', Unsent'
  PROVE  InStep'
<1> USE DEF handler, net
<1>1. hpc \notin Serving /\ hpc # "input" /\ (\A q : ~ Written(q)) /\ cpc # "id"
  BY NoRequest
<1>2. Greeting' /\ Leaving'
  BY DEF InStep, ClientSide, Greeting, Leaving, Done
<1>3. NoMoreWrites' /\ Shown'
  BY DEF InStep, ClientSide, NoMoreWrites, Shown, Done, ClientGone, Waiting
<1>4. Unread'
  BY DEF InStep, ClientSide, Unread
<1>5. AtOption'
  <2> SUFFICES ASSUME hpc \in Waiting PROVE \E m \in 0 .. Len(c2s) : Option(m)'
    BY DEF AtOption
  <2>1. PICK m \in 0 .. Len(c2s) : Option(m)
    BY DEF InStep, ClientSide, AtOption
  <2>2. \/ m = Len(c2s)
        \/ m < Len(c2s) /\ c2s[m + 1] = -1 /\ Early
    BY <1>1, <2>1 DEF Option
  <2>3. Option(m)'
    BY <2>1, <2>2 DEF Option
  <2> QED
    BY <2>3
<1>6. AtInput' /\ InService' /\ Replying'
  BY <1>1 DEF AtInput, InService, Replying, Serving
<1>7. WorkerSide' /\ hpc' # "killed"
  BY WorkerStays
<1> QED
  BY <1>2, <1>3, <1>4, <1>5, <1>6, <1>7 DEF InStep, ClientSide

LEMMA FirstAndRest ==
  ASSUME NEW S, NEW a \in S, NEW t \in Seq(S)
  PROVE  /\ <<a>> \o t \in Seq(S) /\ <<a>> \o t # << >>
         /\ Head(<<a>> \o t) = a /\ Tail(<<a>> \o t) = t
<1>1. <<a>> \in Seq(S) /\ Len(<<a>>) = 1 /\ <<a>>[1] = a
  OBVIOUS
<1>2. <<a>> \o t \in Seq(S) /\ Len(<<a>> \o t) = 1 + Len(t) /\ Len(t) \in Nat
  BY <1>1, ConcatProperties
<1>3. (<<a>> \o t)[1] = a /\ \A i \in 1 .. Len(t) : (<<a>> \o t)[i + 1] = t[i]
  BY <1>1, <1>2
<1>4. Tail(<<a>> \o t) = t
  <2>1. Tail(<<a>> \o t) \in Seq(S) /\ Len(Tail(<<a>> \o t)) = Len(t)
        /\ \A i \in 1 .. Len(t) : Tail(<<a>> \o t)[i] = t[i]
    BY <1>2, <1>3
  <2> QED
    BY <2>1, SeqEqual
<1> QED
  BY <1>2, <1>3, <1>4

LEMMA UserStep ==
  ASSUME InStep, Clean', User
  PROVE  InStep'
<1> USE DEF client
<1>1. CASE \E s \in Shapes : Fill(s)
  <2>1. PICK s \in Shapes : Fill(s)
    BY <1>1
  <2>2. /\ cpc = "menu" /\ outbox = << >> /\ shape' = s
        /\ UNCHANGED <<cpc, service, outbox, shown, net, handler, fifo, worker, cause>>
    BY <2>1 DEF Fill, Choose, InStep, ClientTypes
  <2>3. ClientTypes' /\ Segmented' /\ Unsent'
    BY <2>2 DEF InStep, ClientTypes, ClientSide, Segmented, Unsent, net
  <2> QED
    BY <2>2, <2>3, MenuStep DEF Early
<1>2. CASE Exit
  <2>1. /\ cpc = "menu" /\ outbox' = <<<<-1>>>> /\ cpc' = "exit"
        /\ UNCHANGED <<shape, service, shown, net, handler, fifo, worker, cause>>
    BY <1>2 DEF Exit
  <2>2. Len(<<-1>>) = 1 /\ 1 <= SegCap
    BY SessionAssumption
  <2>3. ClientTypes' /\ Segmented' /\ Unsent'
    <3>1. <<<<-1>>>> \in Seq(Seq(Int)) /\ \A i \in 1 .. Len(<<<<-1>>>>) : <<<<-1>>>>[i] = <<-1>>
      OBVIOUS
    <3>2. ClientTypes'
      BY <2>1, <3>1 DEF InStep, ClientTypes, net
    <3>3. Segmented'
      BY <2>1, <2>2, <3>1 DEF Segmented
    <3>4. Unsent'
      BY <2>1 DEF Unsent
    <3> QED
      BY <3>2, <3>3, <3>4
  <2> QED
    BY <2>1, <2>3, MenuStep DEF Early
<1>3. CASE \E o \in Services : UseService(o)
  <2>1. PICK o \in Services : UseService(o)
    BY <1>3
  <2> DEFINE F == Filled(shape)
             out == RequestOf(o, shape)
             ws == <<<<o>>>> \o out
             over == UNION {Overflow(ws[i], SegCap) : i \in DOMAIN ws}
  <2>2. /\ cpc = "menu" /\ outbox' = ws /\ cpc' = "send" /\ service' = o /\ ~ Empty(shape)
        /\ cause' = cause \cup over
                          \cup (IF o \in {3, 5} THEN {"unavailable"} ELSE {})
                          \cup (IF o = -1 THEN {"early exit"} ELSE {})
        /\ UNCHANGED <<shape, shown, net, handler, fifo, worker>>
    <3>1. /\ cpc = "menu" /\ outbox' = ws /\ cpc' = "send" /\ service' = o /\ ~ Empty(shape)
          /\ UNCHANGED <<shape, shown, net, handler, fifo, worker>>
      BY <2>1 DEF UseService, Choose
    <3>2. cause' = cause \cup over
                         \cup (IF o \in {3, 5} THEN {"unavailable"} ELSE {})
                         \cup (IF o = -1 THEN {"early exit"} ELSE {})
      BY <2>1 DEF UseService
    <3> QED
      BY <3>1, <3>2
  <2> HIDE DEF over
  <2>3. o \in Int /\ o \notin {3, 5}
    <3>1. o \in {3, 5} => "unavailable" \in cause'
      BY <2>2
    <3> QED
      BY <3>1, SessionAssumption DEF Clean
  <2>4. out = << >> \/ (o \in Served /\ ToWrite(F, Count(o), 0, out))
    <3>1. CASE o \in Served
      BY <3>1, Requests
    <3>2. CASE o \notin Served
      <4>1. Len(ClientFields(o)) = 0
        BY <3>2 DEF ClientFields, Served
      <4> QED
        BY <4>1 DEF RequestOf, Writes
    <3> QED
      BY <3>1, <3>2
  <2>5. out \in Seq(Seq(Int)) /\ (o \notin Served => out = << >>)
    <3>1. CASE o \in Served
      <4>1. out = [i \in 1 .. (Count(o) - 0) |-> Words(F, Field(0 + i))]
        BY <3>1, Requests DEF ToWrite
      <4>2. Count(o) \in {3, 6}
        BY DEF Count
      <4>3. F \in Registers
        BY FilledValues DEF InStep, ClientTypes, Partial
      <4>4. \A i \in 1 .. Count(o) : Words(F, Field(i)) \in Seq(Int)
        <5> SUFFICES ASSUME NEW i \in 1 .. Count(o) PROVE Words(F, Field(i)) \in Seq(Int)
          OBVIOUS
        <5>1. i - 1 \in 0 .. 5 /\ (i - 1) + 1 = i
          BY <4>2
        <5> QED
          BY <4>3, <5>1, OneField
      <4> HIDE DEF F, out
      <4>5. Count(o) - 0 = Count(o) /\ \A i \in 1 .. Count(o) : 0 + i = i
        BY <4>2
      <4>6. out = [i \in 1 .. Count(o) |-> Words(F, Field(i))]
        BY <4>1, <4>5
      <4> QED
        BY <3>1, <4>2, <4>4, <4>6
    <3>2. CASE o \notin Served
      <4>1. Len(ClientFields(o)) = 0
        BY <3>2 DEF ClientFields, Served
      <4> QED
        BY <4>1 DEF RequestOf, Writes
    <3> QED
      BY <3>1, <3>2
  <2> HIDE DEF out, F
  <2>7. ws \in Seq(Seq(Int)) /\ ws # << >> /\ Head(ws) = <<o>> /\ Tail(ws) = out
    <3>1. <<o>> \in Seq(Int)
      BY <2>3
    <3> QED
      BY <2>5, <3>1, FirstAndRest
  <2> HIDE DEF ws
  <2>8. Segmented'
    <3>1. "overflow" \notin cause'
      BY DEF Clean
    <3>2. "overflow" \notin over
      BY <2>2, <3>1
    <3>3. \A i \in 1 .. Len(ws) : Len(ws[i]) <= SegCap
      <4> SUFFICES ASSUME NEW i \in 1 .. Len(ws) PROVE Len(ws[i]) <= SegCap
        OBVIOUS
      <4>1. ws[i] \in Seq(Int) /\ i \in DOMAIN ws
        BY <2>7, ElementOfSeq
      <4>2. Len(ws[i]) \in Nat
        BY <4>1
      <4>3. "overflow" \notin Overflow(ws[i], SegCap)
        BY <3>2, <4>1 DEF over
      <4> QED
        BY <4>2, <4>3, SessionAssumption DEF Overflow
    <3> QED
      BY <2>2, <3>3 DEF Segmented
  <2>9. ClientTypes'
    BY <2>2, <2>3, <2>7 DEF InStep, ClientTypes, Empty, net
  <2>10. Unsent'
    <3>1. CASE o \in Served
      BY <2>2, <2>4, <2>5, <2>7, <3>1, Requests DEF Unsent, F, out
    <3>2. CASE o \notin Served
      <4>1. ws = <<<<o>>>>
        <5>1. << >> \in Seq(Seq(Int)) /\ <<<<o>>>> \o << >> = <<<<o>>>>
          OBVIOUS
        <5> QED
          BY <2>5, <3>2, <5>1 DEF ws
      <4>2. o = -1 => Early'
        BY <2>2 DEF Early
      <4>3. o # -1 => Noop(o)
        BY <2>3, <3>2 DEF Noop, Served
      <4> QED
        BY <2>2, <4>1, <4>2, <4>3 DEF Unsent
    <3> QED
      BY <3>1, <3>2
  <2>11. Early => Early'
    BY <2>2 DEF Early
  <2>12. "thread" \in cause => "thread" \in cause'
    BY <2>2
  <2> QED
    BY <2>2, <2>8, <2>9, <2>10, <2>11, <2>12, MenuStep
<1> QED
  BY <1>1, <1>2, <1>3 DEF User

\* When the handler has left, little matters of the client.
LEMMA AfterDone ==
  ASSUME InStep, hpc \in Done, UNCHANGED <<handler, fifo, worker>>,
         "thread" \in cause => "thread" \in cause',
         cpc' # "id", ClientTypes', Leaving', Segmented', Shown'
  PROVE  InStep'
<1> USE DEF handler
<1>1. Greeting'
  BY DEF InStep, ClientSide, Greeting, Done
<1>2. AtOption' /\ AtInput' /\ InService' /\ Replying' /\ Unread' /\ NoMoreWrites'
  BY DEF AtOption, AtInput, InService, Replying, Unread, NoMoreWrites, Done, Serving, Waiting
<1>3. WorkerSide' /\ hpc' # "killed"
  BY WorkerStays
<1> QED
  BY <1>1, <1>2, <1>3 DEF InStep, ClientSide

LEMMA ClientSentStep ==
  ASSUME InStep, ClientSent
  PROVE  InStep'
<1> USE DEF handler, net
<1>1. /\ cpc \in {"send", "exit"} /\ outbox = << >>
      /\ cpc' = IF cpc = "exit" THEN "bye"
                ELSE IF service \in {1, 2, 4} THEN "receive" ELSE "menu"
      /\ UNCHANGED <<shape, service, outbox, shown, c2s, s2c, reset, handler, fifo>>
      /\ UNCHANGED <<worker, cause>>
  BY DEF ClientSent
<1>2. /\ cpc = "exit" => cpc' = "bye"
      /\ cpc = "send" => IF service \in Served THEN cpc' = "receive" ELSE cpc' = "menu"
      /\ cpc' \in {"bye", "receive", "menu"}
  BY <1>1 DEF Served
<1>3. ClientTypes' /\ Greeting' /\ Leaving' /\ Segmented' /\ Shown'
  BY <1>1, <1>2 DEF InStep, ClientTypes, ClientSide, Empty, Greeting, Leaving, Segmented, Shown,
     Done, Early
<1>4. \A q : Written(q) => Written(q)'
  BY <1>1, <1>2 DEF Written, ClientGone, Empty
<1>5. AtOption'
  <2>1. \A m : Option(m) => Option(m)'
    <3>1. Unsent'
      BY <1>1 DEF Unsent
    <3> QED
      BY <1>1, <1>2, <1>4, <3>1 DEF Option, Early
  <2> QED
    BY <1>1, <2>1 DEF InStep, ClientSide, AtOption
<1>6. AtInput'
  <2>1. \A p : Reading(p) => Reading(p)'
    BY <1>1, <1>2, <1>4 DEF Reading, ClientGone
  <2> QED
    BY <1>1, <2>1 DEF InStep, ClientSide, AtInput
<1>7. InService'
  BY <1>1, <1>2 DEF InStep, ClientSide, InService, Asking, ClientGone
<1>8. \A w : Answered(w) => Answered(w)'
  BY <1>1 DEF Answered
<1>9. Unread' /\ NoMoreWrites'
  BY <1>1, <1>2, <1>8 DEF InStep, ClientSide, Unread, NoMoreWrites, ClientGone
<1>10. Replying'
  BY <1>1, <1>2, <1>8 DEF InStep, ClientSide, Replying, ClientGone
<1>11. WorkerSide' /\ hpc' # "killed"
  BY <1>1, WorkerStays
<1> QED
  BY <1>3, <1>5, <1>6, <1>7, <1>9, <1>10, <1>11 DEF InStep, ClientSide

LEMMA ClientReceiveStep ==
  ASSUME InStep, ClientReceive
  PROVE  InStep'
<1> USE DEF handler
<1> DEFINE v == Wanted(service, shape)
           n == Len(v)
<1>1. /\ cpc = "receive" /\ cpc' = "menu" /\ Readable(s2c, n, ServerGone)
      /\ shown' = [got |-> Padded(Taken(s2c, n), n), want |-> v]
      /\ s2c' = Left(s2c, n)
      /\ UNCHANGED <<shape, service, outbox, c2s, reset, handler, fifo, worker, cause>>
  BY DEF ClientReceive
<1>2. /\ service \in Served /\ outbox = << >> /\ ~ Empty(shape) /\ shape \in Shapes \cup {NoShape}
  BY <1>1 DEF InStep, ClientTypes
<1>3. n \in Nat /\ n # 0
  BY <1>2, WantedAnswer
<1> HIDE DEF n, v
<1>4. ClientTypes' /\ Segmented' /\ cpc' # "id"
  BY <1>1, <1>2 DEF InStep, ClientTypes, ClientSide, Segmented
<1>5. CASE hpc \in Done
  <2>1. Early
    BY <1>1, <1>5 DEF InStep, ClientSide, Leaving
  <2>2. Leaving' /\ Shown'
    BY <1>1, <2>1 DEF Leaving, Shown, Early
  <2> QED
    BY <1>1, <1>4, <1>5, <2>2, AfterDone
<1>6. CASE hpc \notin Done
  <2>1. s2c # << >>
    BY <1>1, <1>3, <1>6 DEF Readable, ServerGone, Done, InStep
  <2>2. hpc \in Waiting /\ c2s = << >> /\ Answered(s2c)
    BY <1>1, <1>6, <2>1 DEF InStep, ClientSide, Unread
  <2>3. Sized(s2c, n) /\ ("thread" \in cause \/ s2c = v)
    BY <2>2 DEF Answered, n, v
  <2>4. Padded(Taken(s2c, n), n) = s2c /\ s2c' = << >>
    BY <1>1, <1>3, <2>3, WholeRead
  <2>5. Shown'
    BY <1>1, <2>3, <2>4 DEF Shown
  <2>6. AtOption'
    <3>1. Unsent'
      BY <1>1, <1>2 DEF Unsent
    <3>2. Option(0)' /\ 0 \in 0 .. Len(c2s')
      BY <1>1, <2>2, <3>1 DEF Option
    <3> QED
      BY <3>2 DEF AtOption
  <2>7. Greeting' /\ Leaving' /\ NoMoreWrites' /\ Unread'
    BY <1>1, <1>6, <2>2, <2>4 DEF InStep, ClientSide, Greeting, Leaving, NoMoreWrites, Unread,
       Done, Waiting, ClientGone
  <2>8. AtInput' /\ InService' /\ Replying'
    BY <1>1, <2>2 DEF AtInput, InService, Replying, Serving, Waiting
  <2>9. WorkerSide' /\ hpc' # "killed"
    BY <1>1, WorkerStays
  <2> QED
    BY <1>4, <2>5, <2>6, <2>7, <2>8, <2>9 DEF InStep, ClientSide
<1> QED
  BY <1>5, <1>6

LEMMA ClientLeaveStep ==
  ASSUME InStep, ClientLeave
  PROVE  InStep'
<1>1. /\ cpc = "bye" /\ cpc' = "gone" /\ Readable(s2c, 1, ServerGone)
      /\ UNCHANGED <<shape, service, outbox, shown, c2s, handler, fifo, worker, cause>>
  BY DEF ClientLeave
<1>2. hpc \in Done
  <2> SUFFICES ASSUME hpc \notin Done PROVE FALSE
    OBVIOUS
  <2>1. s2c = << >>
    BY <1>1 DEF InStep, ClientSide, Unread
  <2> QED
    BY <1>1, <2>1 DEF Readable, ServerGone, Done, InStep
<1>3. ClientTypes' /\ Leaving' /\ Segmented' /\ Shown'
  BY <1>1 DEF InStep, ClientTypes, ClientSide, Leaving, Segmented, Shown, Early
<1> QED
  BY <1>1, <1>2, <1>3, AfterDone

LEMMA ClientKilledStep ==
  ASSUME InStep, ClientKilled
  PROVE  InStep'
<1> USE DEF handler, ClientGone
<1>1. /\ cpc # "gone" /\ cpc' = "gone" /\ reset' = (reset \/ s2c # << >>)
      /\ cause' = cause \cup {"kill"}
      /\ UNCHANGED <<shape, service, outbox, shown, c2s, s2c, handler, fifo, worker>>
  BY DEF ClientKilled
<1>2. (Early => Early') /\ ("thread" \in cause => "thread" \in cause')
  BY <1>1 DEF Early
<1>3. ClientTypes' /\ Leaving' /\ Segmented' /\ Shown'
  BY <1>1, <1>2 DEF InStep, ClientTypes, ClientSide, Leaving, Segmented, Shown
<1>4. \A q : Written(q) => Written(q)'
  BY <1>1 DEF Written, Empty
<1>5. AtOption'
  <2>1. \A m : Option(m) => Option(m)'
    <3>1. Unsent'
      BY <1>1 DEF Unsent
    <3> QED
      BY <1>1, <1>4, <3>1 DEF Option
  <2> QED
    BY <1>1, <2>1 DEF InStep, ClientSide, AtOption
<1>6. AtInput'
  <2>1. \A p : Reading(p) => Reading(p)'
    BY <1>1, <1>4 DEF Reading
  <2> QED
    BY <1>1, <2>1 DEF InStep, ClientSide, AtInput
<1>7. InService' /\ Replying' /\ Unread'
  BY <1>1 DEF InStep, ClientSide, InService, Replying, Unread
<1>8. NoMoreWrites' /\ Greeting'
  <2>1. reset => hpc \in Done
    BY <1>1 DEF InStep, ClientSide, NoMoreWrites
  <2>2. s2c # << >> /\ hpc \notin Done => hpc \in Waiting /\ c2s = << >>
    BY <1>1 DEF InStep, ClientTypes, ClientSide, Unread, Greeting, Waiting
  <2>3. NoMoreWrites'
    BY <1>1, <2>1, <2>2 DEF NoMoreWrites
  <2>4. hpc = "greet" => s2c = << >> /\ c2s = << >> /\ ~ reset
    BY DEF InStep, ClientSide, Greeting
  <2>5. Greeting'
    BY <1>1, <2>4 DEF Greeting
  <2> QED
    BY <2>3, <2>5
<1>9. WorkerSide' /\ hpc' # "killed"
  BY <1>1, <1>2, WorkerStays
<1> QED
  BY <1>3, <1>5, <1>6, <1>7, <1>8, <1>9 DEF InStep, ClientSide

LEMMA ConcatWords ==
  ASSUME NEW s \in Seq(Int), NEW t \in Seq(Int)
  PROVE  /\ s \o t \in Seq(Int) /\ Len(s \o t) = Len(s) + Len(t)
         /\ Len(s) \in Nat /\ Len(t) \in Nat
         /\ \A i \in 1 .. Len(s) : (s \o t)[i] = s[i]
         /\ \A i \in 1 .. Len(t) : (s \o t)[Len(s) + i] = t[i]
  BY ConcatProperties

\* A word put at the end of the stream.
LEMMA StreamGrows ==
  ASSUME NEW s \in Seq(Int), NEW t \in Seq(Int), NEW m \in 0 .. Len(s)
  PROVE  /\ s \o t \in Seq(Int) /\ Len(s \o t) = Len(s) + Len(t)
         /\ \A i \in 1 .. Len(s) : (s \o t)[i] = s[i]
         /\ \A i \in 1 .. Len(t) : (s \o t)[Len(s) + i] = t[i]
         /\ m < Len(s) => SubSeq(s \o t, m + 2, Len(s \o t)) = SubSeq(s, m + 2, Len(s)) \o t
<1> DEFINE u == s \o t
<1>1. /\ u \in Seq(Int) /\ Len(u) = Len(s) + Len(t) /\ Len(s) \in Nat /\ Len(t) \in Nat
      /\ \A i \in 1 .. Len(s) : u[i] = s[i]
      /\ \A i \in 1 .. Len(t) : u[Len(s) + i] = t[i]
  BY ConcatWords
<1>2. ASSUME m < Len(s) PROVE SubSeq(u, m + 2, Len(u)) = SubSeq(s, m + 2, Len(s)) \o t
  <2> DEFINE x == SubSeq(s, m + 2, Len(s))
             y == SubSeq(u, m + 2, Len(u))
             k == Len(s) - (m + 1)
             l == Len(t)
  <2>1. m + 2 \in Int /\ m \in Nat /\ k \in Nat /\ m + 2 + k = Len(s) + 1 /\ l \in Nat
        /\ Len(u) = m + 1 + k + l
    BY <1>1, <1>2
  <2>2. /\ x \in Seq(Int) /\ Len(x) = k /\ \A i \in 1 .. k : x[i] = s[m + 1 + i]
    BY <1>1, <1>2
  <2> HIDE DEF u
  <2>3. /\ y \in Seq(Int) /\ Len(y) = k + l /\ \A i \in 1 .. (k + l) : y[i] = u[m + 1 + i]
    BY <1>1, <2>1
  <2> HIDE DEF x, y, k, l
  <2>4. /\ x \o t \in Seq(Int) /\ Len(x \o t) = k + l
        /\ \A i \in 1 .. k : (x \o t)[i] = x[i]
        /\ \A i \in 1 .. l : (x \o t)[k + i] = t[i]
    <3>1. l = Len(t)
      BY DEF l
    <3>2. Len(x) = k
      BY <2>2
    <3>3. /\ x \o t \in Seq(Int) /\ Len(x \o t) = Len(x) + Len(t)
          /\ \A i \in 1 .. Len(x) : (x \o t)[i] = x[i]
          /\ \A i \in 1 .. Len(t) : (x \o t)[Len(x) + i] = t[i]
      BY <2>2, ConcatWords
    <3> QED
      BY <3>1, <3>2, <3>3
  <2>5. \A i \in 1 .. (k + l) : y[i] = (x \o t)[i]
    <3> SUFFICES ASSUME NEW i \in 1 .. (k + l) PROVE y[i] = (x \o t)[i]
      OBVIOUS
    <3>1. CASE i <= k
      <4>1. m + 1 + i \in 1 .. Len(s) /\ i \in 1 .. k
        BY <1>1, <2>1, <3>1
      <4> QED
        BY <1>1, <2>2, <2>3, <2>4, <4>1
    <3>2. CASE i > k
      <4>1. i - k \in 1 .. l /\ m + 1 + i = Len(s) + (i - k) /\ k + (i - k) = i
        BY ONLY <2>1, <3>2, Len(s) \in Nat, i \in 1 .. (k + l)
      <4>2. u[m + 1 + i] = t[i - k]
        BY <1>1, <4>1 DEF l
      <4>3. (x \o t)[i] = t[i - k]
        BY <2>4, <4>1
      <4> QED
        BY <2>3, <4>2, <4>3
    <3>3. i <= k \/ i > k
      BY ONLY <2>1, i \in 1 .. (k + l)
    <3> QED
      BY <3>1, <3>2, <3>3
  <2>6. y = x \o t
    BY <2>3, <2>4, <2>5, SeqEqual
  <2> QED
    BY <2>6 DEF x, y
<1> QED
  BY <1>1, <1>2

LEMMA ClientWriteStep ==
  ASSUME InStep, ClientWrite
  PROVE  InStep'
<1> USE DEF handler
<1> DEFINE h == Head(outbox)
           F == Filled(shape)
           n == Count(service)
<1>1. /\ cpc \in {"send", "exit"} /\ outbox # << >>
      /\ outbox' = After(h, SegCap) \o Tail(outbox)
      /\ IF ServerGone
           THEN cpc' = (IF reset THEN "gone" ELSE cpc) /\ c2s' = c2s
           ELSE c2s' = c2s \o First(h, SegCap) /\ UNCHANGED <<cpc, reset>>
      /\ UNCHANGED <<shape, service, shown, s2c, handler, fifo, worker, cause>>
  BY DEF ClientWrite
<1>2. /\ outbox \in Seq(Seq(Int)) /\ h \in Seq(Int) /\ h = outbox[1] /\ 1 \in 1 .. Len(outbox)
      /\ c2s \in Seq(Int) /\ Len(c2s) \in Nat /\ Tail(outbox) \in Seq(Seq(Int))
      /\ Len(Tail(outbox)) = Len(outbox) - 1 /\ Len(outbox) \in Nat
      /\ \A i \in 1 .. Len(Tail(outbox)) : Tail(outbox)[i] = outbox[i + 1]
  <2>1. outbox \in Seq(Seq(Int)) /\ c2s \in Seq(Int)
    BY DEF InStep, ClientTypes
  <2>2. Len(outbox) \in Nat \ {0}
    BY <1>1, <2>1, EmptySeq
  <2> QED
    BY <1>1, <2>1, <2>2
<1> HIDE DEF h
<1>3. First(h, SegCap) = h /\ After(h, SegCap) = << >>
  <2>1. Len(h) <= SegCap
    BY <1>2 DEF InStep, ClientSide, Segmented
  <2> QED
    BY <1>2, <2>1, WholeWrite, SessionAssumption
<1>4. outbox' = Tail(outbox)
  BY <1>1, <1>2, <1>3
<1>5. Segmented' /\ Shown'
  <2>1. Segmented'
    <3> SUFFICES ASSUME NEW i \in 1 .. Len(outbox') PROVE Len(outbox'[i]) <= SegCap
      BY DEF Segmented
    <3>1. outbox'[i] = outbox[i + 1] /\ i + 1 \in 1 .. Len(outbox)
      BY <1>2, <1>4
    <3> QED
      BY <3>1 DEF InStep, ClientSide, Segmented
  <2> QED
    BY <1>1, <2>1 DEF InStep, ClientSide, Shown, Early
<1>6. c2s' \in Seq(Int)
  <2>1. c2s \o h \in Seq(Int)
    BY <1>2, ConcatProperties
  <2> QED
    BY <1>1, <1>2, <1>3, <2>1
<1>7. ClientTypes'
  BY <1>1, <1>2, <1>4, <1>6 DEF InStep, ClientTypes, Empty
<1>8. CASE hpc \in Done
  <2>1. Leaving' /\ cpc' # "id"
    BY <1>1, <1>8 DEF InStep, ClientSide, Leaving, Early
  <2> QED
    BY <1>1, <1>5, <1>7, <1>8, <2>1, AfterDone
<1>9. CASE hpc \notin Done
  <2>1. /\ c2s' = c2s \o h /\ UNCHANGED <<cpc, reset>>
    BY <1>1, <1>3, <1>9 DEF ServerGone, Done, InStep
  <2>2. ~ ClientGone /\ cpc # "id" /\ cpc # "receive" /\ hpc # "greet"
    BY <1>1 DEF ClientGone, InStep, ClientSide, Greeting
  <2>3. hpc \notin Serving
    BY <1>1, <2>2 DEF InStep, ClientSide, InService, Asking
  <2>4. Greeting' /\ Leaving' /\ NoMoreWrites'
    BY <1>1, <1>9, <2>1, <2>2 DEF InStep, ClientSide, Greeting, Leaving, NoMoreWrites, ClientGone,
       Done
  <2>5. Unread'
    <3>1. s2c = << >>
      BY <1>1, <1>9 DEF InStep, ClientSide, Unread
    <3> QED
      BY <1>1, <2>1, <3>1 DEF Unread
  <2>6. ASSUME NEW q \in 0 .. n, Written(q)
        PROVE  /\ q \in 0 .. 5 /\ q + 1 \in 0 .. n /\ h = Words(F, Field(q + 1))
               /\ Written(q + 1)' /\ F \in Registers /\ n \in {3, 6}
    <3>1. ToWrite(F, n, q, outbox) /\ n \in {3, 6}
      BY <2>2, <2>6 DEF Written, Count
    <3> HIDE DEF n, F
    <3>2. /\ q \in 0 .. 5 /\ q + 1 \in 0 .. n /\ h = Words(F, Field(q + 1))
          /\ ToWrite(F, n, q + 1, outbox')
      <4>1. q \in 0 .. n /\ Head(outbox) = h
        BY <2>6 DEF h
      <4>2. outbox # << >>
        BY <1>1
      <4>3. /\ q \in 0 .. 5 /\ q + 1 \in 0 .. n /\ Head(outbox) = Words(F, Field(q + 1))
            /\ ToWrite(F, n, q + 1, Tail(outbox))
        BY <3>1, <4>1, <4>2, NextWrite
      <4> QED
        BY <1>4, <4>1, <4>3
    <3>3. Written(q + 1)'
      <4>1. service \in Served /\ ~ Empty(shape) /\ cpc \in {"send", "receive"}
        BY <1>1, <2>2, <2>6 DEF Written
      <4>2. ToWrite(Filled(shape'), Count(service'), q + 1, outbox')
        BY <1>1, <3>2 DEF F, n
      <4>3. ~ Empty(shape')
        BY <1>1, <4>1
      <4> QED
        BY <1>1, <2>1, <4>1, <4>2, <4>3 DEF Written, Empty
    <3>4. F \in Registers
      BY FilledValues DEF InStep, ClientTypes, F, Partial
    <3> QED
      BY <3>1, <3>2, <3>3, <3>4
  <2>7. AtInput'
    <3> SUFFICES ASSUME hpc = "input" PROVE AtInput'
      BY <1>1 DEF AtInput
    <3>1. PICK p \in 0 .. (Count(option) - 1) : Reading(p)
      BY DEF InStep, ClientSide, AtInput
    <3>2. PICK q \in p .. Count(option) :
            /\ option = service /\ Written(q)
            /\ c2s = Between(F, p, q) /\ Agrees(F, reg, p)
      BY <2>2, <3>1 DEF Reading
    <3>3. q \in 0 .. n /\ n \in {3, 6}
      BY <3>2 DEF Count
    <3>4. /\ q \in 0 .. 5 /\ q + 1 \in 0 .. n /\ h = Words(F, Field(q + 1))
          /\ Written(q + 1)' /\ F \in Registers
      BY <2>6, <3>2, <3>3
    <3> HIDE DEF F
    <3>5. p \in 0 .. 6 /\ q \in 0 .. 6 /\ p <= q /\ q + 1 \in p .. Count(option)
      BY <3>2, <3>3, <3>4 DEF n
    <3>6. c2s' = Between(F, p, q + 1)
      BY <2>1, <3>2, <3>4, <3>5, MarkOrder, WriteField
    <3>7. F' = F
      BY <1>1 DEF F
    <3>8. Reading(p)'
      BY <1>1, <3>1, <3>2, <3>4, <3>5, <3>6, <3>7 DEF Reading, F
    <3> QED
      BY <1>1, <3>8 DEF InStep, ClientSide, AtInput
  <2>8. AtOption'
    <3> SUFFICES ASSUME hpc \in Waiting PROVE \E m \in 0 .. Len(c2s') : Option(m)'
      BY <1>1 DEF AtOption
    <3>1. PICK m \in 0 .. Len(c2s) : Option(m)
      BY DEF InStep, ClientSide, AtOption
    <3>2. /\ Len(c2s') = Len(c2s) + Len(h) /\ Len(h) \in Nat
          /\ \A i \in 1 .. Len(c2s) : c2s'[i] = c2s[i]
          /\ \A i \in 1 .. Len(h) : c2s'[Len(c2s) + i] = h[i]
          /\ m < Len(c2s) => SubSeq(c2s', m + 2, Len(c2s')) = SubSeq(c2s, m + 2, Len(c2s)) \o h
      <4>1. Len(h) \in Nat
        BY <1>2
      <4> QED
        BY <1>2, <2>1, <4>1, StreamGrows
    <3>3. m \in 0 .. Len(c2s')
      BY <1>2, <3>2
    <3>4. \A i \in 1 .. m : Noop(c2s'[i])
      <4> SUFFICES ASSUME NEW i \in 1 .. m PROVE Noop(c2s'[i])
        OBVIOUS
      <4>1. i \in 1 .. Len(c2s)
        BY <1>2
      <4> QED
        BY <3>1, <3>2, <4>1 DEF Option
    <3>5. ASSUME m < Len(c2s) PROVE m < Len(c2s') /\ c2s'[m + 1] = c2s[m + 1]
      <4>1. m + 1 \in 1 .. Len(c2s) /\ m < Len(c2s')
        BY <1>2, <3>2, <3>5
      <4> QED
        BY <3>2, <4>1
    <3>6. CASE m < Len(c2s) /\ c2s[m + 1] = -1 /\ (Early \/ cpc \in {"exit", "bye", "gone"})
      BY <1>1, <2>1, <3>3, <3>4, <3>5, <3>6 DEF Option, Early
    <3>7. CASE /\ m < Len(c2s) /\ c2s[m + 1] = service
               /\ \E q \in 0 .. n : SubSeq(c2s, m + 2, Len(c2s)) = Between(F, 0, q) /\ Written(q)
      <4>1. PICK q \in 0 .. n : SubSeq(c2s, m + 2, Len(c2s)) = Between(F, 0, q) /\ Written(q)
        BY <3>7
      <4>2. /\ q \in 0 .. 5 /\ q + 1 \in 0 .. n /\ h = Words(F, Field(q + 1))
            /\ Written(q + 1)' /\ F \in Registers
        BY <2>6, <4>1
      <4> HIDE DEF F
      <4>3. Between(F, 0, q) \o h = Between(F, 0, q + 1)
        <5>1. 0 \in 0 .. 6 /\ q \in 0 .. 6 /\ 0 <= q
          BY <4>2
        <5> QED
          BY <4>2, <5>1, MarkOrder, WriteField
      <4>4. SubSeq(c2s', m + 2, Len(c2s')) = Between(Filled(shape'), 0, q + 1)
        BY <1>1, <3>2, <3>7, <4>1, <4>3 DEF F
      <4>5. q + 1 \in 0 .. Count(service')
        BY <1>1, <4>2 DEF n
      <4> QED
        BY <1>1, <3>3, <3>4, <3>5, <3>7, <4>2, <4>4, <4>5 DEF Option
    <3>8. CASE m = Len(c2s) /\ Unsent
      <4>1. outbox # << >> /\ ~ ClientGone
        BY <1>1, <2>2
      <4>2. CASE cpc = "send" /\ outbox = <<<<service>>>>
                 /\ (Noop(service) \/ (service = -1 /\ Early))
        <5>1. h = <<service>> /\ outbox' = << >>
          BY <1>4, <4>2 DEF h
        <5>2. Len(c2s') = m + 1 /\ c2s'[m + 1] = service
          BY <1>2, <3>2, <3>8, <5>1
        <5>3. CASE service = -1 /\ Early
          <6>1. m < Len(c2s')
            BY <1>2, <5>2
          <6> QED
            BY <1>1, <3>3, <3>4, <5>2, <5>3, <6>1 DEF Option, Early
        <5>4. CASE Noop(service)
          <6>1. \A i \in 1 .. (m + 1) : Noop(c2s'[i])
            <7> SUFFICES ASSUME NEW i \in 1 .. (m + 1) PROVE Noop(c2s'[i])
              OBVIOUS
            <7>1. i \in 1 .. m \/ i = m + 1
              BY <1>2
            <7> QED
              BY <3>4, <5>2, <5>4, <7>1
          <6>2. Unsent'
            BY <5>1 DEF Unsent
          <6>3. m + 1 \in 0 .. Len(c2s')
            BY <1>2, <5>2
          <6>4. Option(m + 1)'
            BY <5>2, <6>1, <6>2 DEF Option
          <6> QED
            BY <6>3, <6>4
        <5> QED
          BY <4>2, <5>3, <5>4
      <4>3. CASE cpc = "exit" /\ outbox = <<<<-1>>>>
        <5>1. h = <<-1>>
          BY <4>3 DEF h
        <5>2. Len(c2s') = m + 1 /\ c2s'[m + 1] = -1
          BY <1>2, <3>2, <3>8, <5>1
        <5> QED
          <6>1. m < Len(c2s')
            BY <1>2, <5>2
          <6> QED
            BY <1>1, <2>1, <3>3, <3>4, <4>3, <5>2, <6>1 DEF Option
      <4>4. CASE /\ cpc = "send" /\ service \in Served
                 /\ Head(outbox) = <<service>> /\ ToWrite(F, n, 0, Tail(outbox))
        <5>1. h = <<service>>
          BY <4>4 DEF h
        <5>2. Len(c2s') = m + 1 /\ c2s'[m + 1] = service
          BY <1>2, <3>2, <3>8, <5>1
        <5>3. ~ Empty(shape) /\ shape \in Shapes \cup {NoShape}
          BY <4>4 DEF InStep, ClientTypes
        <5>4. Written(0)'
          BY <1>1, <1>4, <2>1, <4>4, <5>3 DEF Written, Empty
        <5>5. SubSeq(c2s', m + 2, Len(c2s')) = << >>
          <6>1. m + 2 \in Int /\ Len(c2s') \in Int /\ Len(c2s') < m + 2
            BY <1>2, <5>2
          <6> QED
            BY <6>1, SubSeqEmpty
        <5>6. Between(F, 0, 0) = << >>
          <6>1. F \in Registers
            BY <5>3, FilledValues DEF Partial
          <6> QED
            BY <6>1, BetweenEmpty
        <5>7. 0 \in 0 .. n /\ m < Len(c2s')
          BY <1>2, <5>2 DEF Count
        <5> QED
          BY <1>1, <3>3, <3>4, <5>2, <5>4, <5>5, <5>6, <5>7 DEF Option
      <4> QED
        BY <3>8, <4>1, <4>2, <4>3, <4>4 DEF Unsent
    <3> QED
      BY <3>1, <3>6, <3>7, <3>8 DEF Option
  <2>9. InService' /\ Replying'
    BY <1>1, <2>3 DEF InService, Replying, Serving
  <2>10. WorkerSide' /\ hpc' # "killed"
    BY <1>1, WorkerStays
  <2> QED
    BY <1>5, <1>7, <2>4, <2>5, <2>7, <2>8, <2>9, <2>10 DEF InStep, ClientSide
<1> QED
  BY <1>8, <1>9

-----------------------------------------------------------------------------
(* The invariant holds *)

LEMMA Begins == Init => IInv
<1> SUFFICES ASSUME Init PROVE IInv
  OBVIOUS
<1> USE DEF Init
<1>1. Tidy /\ hpc # "killed"
  BY DEF Tidy
<1>2. ClientTypes
  BY DEF ClientTypes
<1>3. /\ Greeting /\ AtOption /\ AtInput /\ InService /\ Unread /\ NoMoreWrites /\ Leaving
      /\ Replying /\ Shown
  BY DEF Greeting, AtOption, AtInput, InService, Unread, NoMoreWrites, Leaving, Replying, Shown,
     Waiting, Serving, Done
<1>4. Segmented
  BY DEF Segmented
<1>5. WorkerSide
  BY DEF WorkerSide, Starting, AtWork
<1> QED
  BY <1>1, <1>2, <1>3, <1>4, <1>5 DEF IInv, InStep, ClientSide

\* What happened is never forgotten.
LEMMA CauseGrows == [Next]_vars => cause \subseteq cause'
<1> SUFFICES ASSUME [Next]_vars PROVE cause \subseteq cause'
  OBVIOUS
<1>1. CASE User \/ ClientKilled \/ UNCHANGED vars
  BY <1>1 DEF User, Fill, UseService, Exit, ClientKilled, vars
<1>2. CASE ClientIO
  BY <1>2 DEF ClientIO, ClientReadId, ClientWrite, ClientSent, ClientReceive, ClientLeave
<1>3. CASE Handler
  BY <1>3 DEF Handler, HandlerGreet, HandlerReadOption, HandlerEndOfStream, HandlerClose,
     HandlerInput, HandlerMakeFifos, HandlerFork, HandlerSend, HandlerReceive, HandlerReply,
     HandlerCloseFifos, HandlerReap
<1>4. CASE Rendezvous \/ Worker
  BY <1>4 DEF Rendezvous, Worker, WorkerInput, WorkerCompute, WorkerOutput, WorkerExit
<1> QED
  BY <1>1, <1>2, <1>3, <1>4 DEF Next

LEMMA Stutters == InStep /\ UNCHANGED vars => InStep'
<1> SUFFICES ASSUME InStep, UNCHANGED vars PROVE InStep'
  OBVIOUS
<1>1. UNCHANGED <<client, net, handler, fifo, worker, cause>>
  BY DEF vars
<1>2. UNCHANGED <<hpc, option, inputs, reg, hout>>
  BY <1>1 DEF handler
<1>3. ClientTypes' /\ ClientSide'
  BY <1>1, <1>2, ClientKept DEF InStep, Early
<1>4. WorkerSide' /\ hpc' # "killed"
  BY <1>1, WorkerStays
<1> QED
  BY <1>3, <1>4 DEF InStep

LEMMA Continues == IInv /\ [Next]_vars => IInv'
<1> SUFFICES ASSUME IInv, [Next]_vars PROVE IInv'
  OBVIOUS
<1>1. Tidy /\ Tidy'
  BY TidyKept DEF IInv
<1> SUFFICES ASSUME Clean' PROVE InStep'
  BY <1>1 DEF IInv
<1>2. InStep
  BY CauseGrows DEF IInv, Clean
<1>3. CASE User \/ ClientIO \/ ClientKilled
  BY <1>2, <1>3, UserStep, ClientReadIdStep, ClientWriteStep, ClientSentStep, ClientReceiveStep,
     ClientLeaveStep, ClientKilledStep DEF ClientIO
<1>4. CASE Handler
  BY <1>2, <1>4, HandlerGreetStep, HandlerReadOptionStep, HandlerLeaveStep, HandlerInputStep,
     HandlerMakeFifosStep, HandlerForkStep, HandlerSendStep, HandlerReceiveStep,
     HandlerReplyStep, HandlerEndStep DEF Handler
<1>5. CASE Rendezvous
  BY <1>2, <1>5, RendezvousStep
<1>6. CASE Worker
  BY <1>1, <1>2, <1>6, WorkerSteps
<1>7. CASE UNCHANGED vars
  BY <1>2, <1>7, Stutters
<1> QED
  BY <1>3, <1>4, <1>5, <1>6, <1>7 DEF Next

LEMMA Invariant == Spec => []IInv
  BY Begins, Continues, PTL DEF Spec

\* SIGPIPE ends the server only after a matrix did not fit a segment or a FIFO,
\* or the stream was put out of step by an unavailable service (server.c, the
\* write()s of handle_client).
THEOREM SurvivesOrdinaryRequests == Spec => []ServerSurvives
<1>1. IInv => ServerSurvives
  BY DEF IInv, InStep, Clean, ServerSurvives
<1> QED
  BY <1>1, Invariant, PTL

\* For matrices of every shape, FIFOs and segments of every size and every
\* order of the steps: an answer printed is the right one, unless a write() was
\* cut, service 3, 5 or -1 was chosen, or a thread could not be created
\* (clinet.c, server.c and the three workers, whose read()s check nothing).
THEOREM AnswersAreRight == Spec => []RightAnswer
<1>1. IInv => RightAnswer
  BY DEF IInv, InStep, ClientSide, Shown, Early, Clean, RightAnswer
<1> QED
  BY <1>1, Invariant, PTL

-----------------------------------------------------------------------------
(* A client is left waiting only for a cause *)

\* Between fork and the second open() both names exist, and only a failed exec
\* keeps the worker from opening them.
Opening ==
  /\ hpc \in {"fork", "open"} => fifos = {"request", "response"}
  /\ hpc = "fork" => opened = 0
  /\ hpc = "open" =>
       opened \in {0, 1} /\ (wpc = "open" \/ (wpc = "dead" /\ "exec" \in cause))

\* A client that is still there gets its answer only when the worker has
\* nothing left to do but exit.
Finishing ==
  hpc \in {"reply", "finish", "reap"} =>
    ClientGone \/ (wpc \in {"output", "dead"} /\ wout = << >>)

\* No request was dropped.
Undropped == cause \cap {"mkfifo", "fork"} = {}

\* The client has sent a request, or -1, that is answered.
Asked ==
  /\ outbox = << >>
  /\ (cpc \in {"send", "receive"} /\ service \in Served) \/ cpc \in {"exit", "bye"}

\* What it asked is on its way to the handler, or the answer is on its way back.
Owed ==
  hpc \in Waiting /\ Asked => s2c # << >> \/ \E i \in 1 .. Len(c2s) : ~ Noop(c2s[i])

Progress ==
  /\ Opening
  /\ Clean => Finishing
  /\ Clean /\ Undropped => Owed

LEMMA OpeningKept == Opening /\ [Next]_vars => Opening'
<1> SUFFICES ASSUME Opening, [Next]_vars PROVE Opening'
  OBVIOUS
<1>1. "exec" \in cause => "exec" \in cause'
  BY CauseGrows
<1>2. CASE UNCHANGED <<hpc, fifos, opened, wpc>>
  BY <1>1, <1>2 DEF Opening
<1>3. CASE User \/ ClientIO \/ ClientKilled \/ UNCHANGED vars
  BY <1>2, <1>3 DEF User, Fill, UseService, Exit, ClientIO, ClientReadId, ClientWrite,
     ClientSent, ClientReceive, ClientLeave, ClientKilled, handler, fifo, worker, vars
<1>4. CASE HandlerMakeFifos
  BY <1>4 DEF Opening, HandlerMakeFifos
<1>5. CASE HandlerFork
  BY <1>5 DEF Opening, HandlerFork
<1>6. CASE hpc' \notin {"fork", "open"}
  BY <1>6 DEF Opening
<1>7. CASE HandlerGreet \/ HandlerReadOption \/ HandlerEndOfStream \/ HandlerClose \/ HandlerInput
  <2>1. hpc' \notin {"fork", "open"}
    BY <1>7 DEF HandlerGreet, HandlerReadOption, HandlerEndOfStream, HandlerClose, HandlerInput,
       WriteToClient
  <2> QED
    BY <1>6, <2>1
<1>8. CASE HandlerSend \/ HandlerReceive \/ HandlerReply \/ HandlerCloseFifos \/ HandlerReap
  <2>1. hpc' \notin {"fork", "open"}
    BY <1>8 DEF HandlerSend, HandlerReceive, HandlerReply, HandlerCloseFifos, HandlerReap,
       WriteToClient
  <2> QED
    BY <1>6, <2>1
<1>9. CASE Rendezvous
  <2>1. hpc = "open" /\ wpc = "open" /\ opened' = opened + 1 /\ UNCHANGED fifos
    BY <1>9 DEF Rendezvous
  <2>2. IF opened + 1 = 2 THEN hpc' = "send" ELSE UNCHANGED <<hpc, wpc>>
    BY <1>9 DEF Rendezvous
  <2>3. fifos = {"request", "response"} /\ opened \in {0, 1}
    BY <2>1 DEF Opening
  <2>4. opened + 1 # 2 => opened' = 1
    BY <2>1, <2>3
  <2> QED
    BY <2>1, <2>2, <2>3, <2>4 DEF Opening
<1>10. CASE Worker
  <2>1. wpc \in {"input", "output"} /\ UNCHANGED <<hpc, fifos, opened>>
    BY <1>10 DEF Worker, WorkerInput, WorkerCompute, WorkerOutput, WorkerExit, handler, fifo
  <2>2. hpc # "open"
    BY <2>1 DEF Opening
  <2> QED
    BY <2>1, <2>2 DEF Opening
<1> QED
  BY <1>3, <1>4, <1>5, <1>7, <1>8, <1>9, <1>10 DEF Next, Handler

\* The answer is read only when the worker has written it, or has ended.
LEMMA AnswerRead ==
  ASSUME InStep, HandlerReceive, ~ ClientGone
  PROVE  wpc \in {"output", "dead"} /\ wout = << >>
<1> DEFINE n == Count(option)
           k == ReplySize(option, reg)
<1>1. hpc = "receive" /\ Readable(rsp, k, wpc = "dead")
  BY DEF HandlerReceive
<1>2. PICK p \in 0 .. n, q \in 0 .. n : Passing(p, q) /\ Computed(p)
  BY <1>1 DEF InStep, WorkerSide, AtWork
<1>3. option \in Served /\ Partial(reg, n) /\ reg \in Registers
  BY <1>1 DEF InStep, ClientSide, InService, Serving, Partial
<1>4. /\ service = option /\ Agrees(Filled(shape), reg, n)
      /\ ~ Empty(shape) /\ shape \in Shapes \cup {NoShape}
  BY <1>1 DEF InStep, ClientTypes, ClientSide, InService, Serving, Asking
<1>5. k \in Nat \ {0}
  BY <1>3, <1>4, WantedAnswer
<1> HIDE DEF n, k
<1>6. rsp # << >> \/ wpc = "dead"
  BY <1>1, <1>5 DEF Readable
<1> QED
  BY <1>2, <1>6 DEF Computed

LEMMA FinishingKept ==
  ASSUME InStep, Finishing, [Next]_vars
  PROVE  Finishing'
<1> USE DEF ClientGone
<1>1. CASE User \/ ClientIO \/ ClientKilled \/ UNCHANGED vars
  <2>1. UNCHANGED <<hpc, wpc, wout>> /\ (cpc = "gone" => cpc' = "gone")
    BY <1>1 DEF User, Fill, UseService, Exit, Choose, ClientIO, ClientReadId, ClientWrite,
       ClientSent, ClientReceive, ClientLeave, ClientKilled, handler, worker, client, vars
  <2> QED
    BY <2>1 DEF Finishing
<1>2. CASE HandlerReceive
  <2>1. UNCHANGED <<cpc, wpc, wout>>
    BY <1>2 DEF HandlerReceive, client, worker
  <2> QED
    BY <1>2, <2>1, AnswerRead DEF Finishing
<1>3. CASE HandlerReply \/ HandlerCloseFifos
  <2>1. hpc \in {"reply", "finish"} /\ UNCHANGED <<cpc, wpc, wout>>
    BY <1>3 DEF HandlerReply, HandlerCloseFifos, client, worker
  <2> QED
    BY <2>1 DEF Finishing
<1>4. CASE \/ HandlerGreet \/ HandlerReadOption \/ HandlerEndOfStream \/ HandlerClose
           \/ HandlerInput \/ HandlerMakeFifos
  <2>1. hpc' \notin {"reply", "finish", "reap"}
    BY <1>4 DEF HandlerGreet, HandlerReadOption, HandlerEndOfStream, HandlerClose, HandlerInput,
       HandlerMakeFifos, WriteToClient
  <2> QED
    BY <2>1 DEF Finishing
<1>5. CASE HandlerFork \/ HandlerSend \/ HandlerReap \/ Rendezvous
  <2>1. hpc' \notin {"reply", "finish", "reap"}
    BY <1>5 DEF HandlerFork, HandlerSend, HandlerReap, Rendezvous
  <2> QED
    BY <2>1 DEF Finishing
<1>6. CASE Worker
  <2>1. UNCHANGED <<hpc, cpc>>
    BY <1>6 DEF Worker, WorkerInput, WorkerCompute, WorkerOutput, WorkerExit, handler, client
  <2>2. wpc \in {"output", "dead"} /\ wout = << >> => wpc' = "dead" /\ wout' = << >>
    BY <1>6 DEF Worker, WorkerInput, WorkerCompute, WorkerOutput, WorkerExit
  <2> QED
    BY <2>1, <2>2 DEF Finishing
<1> QED
  BY <1>1, <1>2, <1>3, <1>4, <1>5, <1>6 DEF Next, Handler

\* A request leaves the client's hands only into the stream.
LEMMA OwedAfterWrite ==
  ASSUME InStep, ClientWrite, hpc \in Waiting, Asked'
  PROVE  \E i \in 1 .. Len(c2s') : ~ Noop(c2s'[i])
<1> DEFINE h == Head(outbox)
<1>1. /\ cpc \in {"send", "exit"} /\ outbox # << >> /\ outbox' = << >>
      /\ outbox' = After(h, SegCap) \o Tail(outbox)
      /\ c2s' = c2s \o First(h, SegCap) /\ UNCHANGED <<cpc, shape, service>>
  BY DEF ClientWrite, ServerGone, Waiting, Asked
<1>2. /\ outbox \in Seq(Seq(Int)) /\ h \in Seq(Int) /\ 1 \in 1 .. Len(outbox)
      /\ c2s \in Seq(Int) /\ h = outbox[1] /\ Tail(outbox) \in Seq(Seq(Int))
  <2>1. outbox \in Seq(Seq(Int)) /\ c2s \in Seq(Int)
    BY DEF InStep, ClientTypes
  <2>2. Len(outbox) \in Nat \ {0}
    BY <1>1, <2>1, EmptySeq
  <2> QED
    BY <1>1, <2>1, <2>2
<1> HIDE DEF h
<1>3. First(h, SegCap) = h /\ After(h, SegCap) = << >>
  <2>1. Len(h) <= SegCap
    BY <1>2 DEF InStep, ClientSide, Segmented
  <2> QED
    BY <1>2, <2>1, WholeWrite, SessionAssumption
<1>4. Tail(outbox) = << >> /\ c2s' = c2s \o h
  BY <1>1, <1>2, <1>3
<1>5. /\ Len(c2s') = Len(c2s) + Len(h) /\ Len(c2s) \in Nat /\ Len(h) \in Nat
      /\ \A i \in 1 .. Len(c2s) : c2s'[i] = c2s[i]
      /\ \A i \in 1 .. Len(h) : c2s'[Len(c2s) + i] = h[i]
  BY <1>2, <1>4, ConcatWords
<1>6. ASSUME NEW m \in 0 .. (Len(c2s) - 1), ~ Noop(c2s[m + 1])
      PROVE  \E i \in 1 .. Len(c2s') : ~ Noop(c2s'[i])
  <2>1. m + 1 \in 1 .. Len(c2s) /\ m + 1 \in 1 .. Len(c2s')
    BY <1>5
  <2> QED
    BY <1>5, <1>6, <2>1
<1>7. PICK m \in 0 .. Len(c2s) : Option(m)
  BY DEF InStep, ClientSide, AtOption
<1>8. CASE m < Len(c2s)
  <2>1. m \in 0 .. (Len(c2s) - 1)
    BY <1>5, <1>8
  <2>2. c2s[m + 1] = -1 \/ (c2s[m + 1] = service /\ service \in Served)
    BY <1>7, <1>8 DEF Option, Written
  <2>3. ~ Noop(c2s[m + 1])
    BY <2>2 DEF Noop, Served
  <2> QED
    BY <1>6, <2>1, <2>3
<1>9. CASE ~ (m < Len(c2s))
  <2>1. Unsent
    BY <1>7, <1>9 DEF Option
  <2>2. service \in Served \/ cpc = "exit"
    BY <1>1 DEF Asked
  <2>3. CASE cpc = "exit"
    <3>1. outbox = <<<<-1>>>>
      BY <1>1, <2>1, <2>3 DEF Unsent, ClientGone
    <3>2. h = <<-1>> /\ Len(h) = 1 /\ h[1] = -1
      BY <1>2, <3>1
    <3>3. Len(c2s) + 1 \in 1 .. Len(c2s') /\ c2s'[Len(c2s) + 1] = -1
      BY <1>5, <3>2
    <3> QED
      BY <3>3 DEF Noop
  <2>4. CASE cpc # "exit"
    <3>1. service \in Served /\ ~ Noop(service) /\ service # -1
      BY <2>2, <2>4 DEF Served, Noop
    <3>2. ToWrite(Filled(shape), Count(service), 0, Tail(outbox))
      BY <1>1, <2>1, <2>4, <3>1 DEF Unsent, ClientGone
    <3>3. Count(service) \in {3, 6}
      BY DEF Count
    <3>4. 0 \in 0 .. Count(service) /\ Count(service) # 0
      BY <3>3
    <3>5. Tail(outbox) # << >>
      BY <3>2, <3>3, <3>4, NextWrite
    <3> QED
      BY <1>4, <3>5
  <2> QED
    BY <2>3, <2>4
<1> QED
  BY <1>8, <1>9

\* The client's other steps ask nothing new.
LEMMA OwedByClient ==
  ASSUME InStep, Owed, User \/ ClientIO \/ ClientKilled
  PROVE  Owed'
<1>1. CASE ClientWrite
  <2>1. UNCHANGED hpc
    BY <1>1 DEF ClientWrite, handler
  <2> QED
    BY <1>1, <2>1, OwedAfterWrite DEF Owed
<1>2. CASE ClientSent
  <2>1. UNCHANGED <<hpc, c2s, s2c, outbox, service>> /\ outbox = << >>
    BY <1>2 DEF ClientSent, handler, net
  <2>2. Asked' => Asked
    BY <1>2, <2>1 DEF ClientSent, Asked, Served
  <2> QED
    BY <2>1, <2>2 DEF Owed
<1>3. CASE User
  <2>1. cpc' = "menu" \/ outbox' # << >>
    <3>1. CASE \E s \in Shapes : Fill(s)
      BY <3>1 DEF Fill, Choose
    <3>2. CASE Exit
      BY <3>2 DEF Exit
    <3>3. CASE \E o \in Services : UseService(o)
      <4>1. PICK o \in Services : UseService(o)
        BY <3>3
      <4>2. outbox' = <<<<o>>>> \o RequestOf(o, shape)
        BY <4>1 DEF UseService
      <4>3. Len(RequestOf(o, shape)) \in Nat
        BY DEF RequestOf, Writes, ClientFields, OneMatrix, TwoMatrices
      <4>4. Len(<<<<o>>>> \o RequestOf(o, shape)) = 1 + Len(RequestOf(o, shape))
        OBVIOUS
      <4> QED
        BY <4>2, <4>3, <4>4
    <3> QED
      BY <1>3, <3>1, <3>2, <3>3 DEF User
  <2> QED
    BY <2>1 DEF Owed, Asked
<1>4. CASE ClientReadId \/ ClientReceive \/ ClientLeave \/ ClientKilled
  BY <1>4 DEF ClientReadId, ClientReceive, ClientLeave, ClientKilled, Owed, Asked
<1> QED
  BY <1>1, <1>2, <1>3, <1>4 DEF ClientIO

\* The handler takes no request it does not go on to serve.
LEMMA OwedAfterOption ==
  ASSUME InStep, Owed, HandlerReadOption
  PROVE  Owed'
<1>1. SUFFICES ASSUME hpc' \in Waiting, Asked', s2c' = << >>
               PROVE  \E i \in 1 .. Len(c2s') : ~ Noop(c2s'[i])
  BY DEF Owed
<1>2. /\ hpc = "top" /\ c2s # << >> /\ c2s' = Tail(c2s) /\ c2s \in Seq(Int)
      /\ UNCHANGED <<cpc, service, outbox>>
  BY DEF HandlerReadOption, client, InStep, ClientTypes
<1>3. Head(c2s) # -1 /\ Head(c2s) \notin 1 .. 5 /\ UNCHANGED s2c
  BY <1>1 DEF HandlerReadOption, WriteToClient, Waiting, ReadingOptions
<1>4. Len(c2s) \in Nat \ {0} /\ Head(c2s) = c2s[1]
      /\ Len(c2s') = Len(c2s) - 1 /\ \A i \in 1 .. Len(c2s') : c2s'[i] = c2s[i + 1]
  BY <1>2, EmptySeq
<1>5. PICK i \in 1 .. Len(c2s) : ~ Noop(c2s[i])
  BY <1>1, <1>2, <1>3 DEF Owed, Asked, Waiting
<1>6. i # 1
  BY <1>3, <1>4, <1>5 DEF Noop
<1>7. i - 1 \in 1 .. Len(c2s') /\ (i - 1) + 1 = i
  BY <1>4, <1>6
<1>8. ~ Noop(c2s'[i - 1])
  BY <1>4, <1>5, <1>7
<1> QED
  BY <1>7, <1>8

\* Its answer is not empty.
LEMMA OwedAfterReply ==
  ASSUME InStep, HandlerReply
  PROVE  Owed'
<1>1. hpc = "reply" /\ UNCHANGED <<cpc, shape, service, outbox>>
  BY DEF HandlerReply, client
<1>2. CASE ClientGone
  BY <1>1, <1>2 DEF ClientGone, Owed, Asked
<1>3. CASE ~ ClientGone
  <2> DEFINE w == Head(hout)
  <2>1. Len(hout) = 1 /\ Len(hout[1]) \in 0 .. SegCap /\ Answered(hout[1])
    BY <1>1, <1>3 DEF InStep, ClientSide, Replying
  <2>2. w = hout[1]
    BY <2>1
  <2>3. /\ service \in Served /\ ~ Empty(shape) /\ shape \in Shapes \cup {NoShape}
        /\ s2c \in Seq(Int)
    BY <1>1, <1>3, QuietConnection DEF InStep, ClientTypes, ClientSide, InService, Serving, Asking
  <2>4. Len(Wanted(service, shape)) \in Nat \ {0}
    BY <2>3, WantedAnswer
  <2> DEFINE S == {w[i] : i \in 1 .. Len(w)}
  <2>5. w \in Seq(S) /\ Len(w) \in Nat \ {0} /\ Len(w) <= SegCap
    BY <2>1, <2>2, <2>4, SessionAssumption DEF Answered, Sized
  <2> HIDE DEF S, w
  <2>6. First(w, SegCap) = w
    BY <2>5, WholeWrite, SessionAssumption
  <2>7. s2c' = s2c \o w
    BY <1>3, <2>6 DEF HandlerReply, WriteToClient, w
  <2>8. s2c = << >>
    BY <1>1, <1>3, QuietConnection DEF Serving
  <2>9. s2c' # << >>
    BY <2>5, <2>7, <2>8
  <2> QED
    BY <2>9 DEF Owed
<1> QED
  BY <1>2, <1>3

LEMMA OwedKept ==
  ASSUME InStep, Owed, Undropped', [Next]_vars
  PROVE  Owed'
<1>1. CASE User \/ ClientIO \/ ClientKilled
  BY <1>1, OwedByClient
<1>2. CASE hpc' \notin Waiting
  BY <1>2 DEF Owed
<1>3. CASE HandlerReadOption
  BY <1>3, OwedAfterOption
<1>4. CASE HandlerReply
  BY <1>4, OwedAfterReply
<1>5. CASE HandlerGreet
  <2>1. cpc \in {"id", "gone"} /\ UNCHANGED cpc
    BY <1>5 DEF HandlerGreet, client, InStep, ClientSide, Greeting
  <2> QED
    BY <2>1 DEF Owed, Asked
<1>6. CASE HandlerInput
  <2>1. option \in {1, 2, 4}
    BY <1>6 DEF HandlerInput, InStep, ClientSide, AtInput, Served
  <2>2. hpc' \in {"input", "mkfifo"}
    BY <1>6, <2>1 DEF HandlerInput
  <2> QED
    BY <1>2, <2>2 DEF Waiting
<1>7. CASE HandlerMakeFifos \/ HandlerFork
  <2>1. hpc' \in {"fork", "open"}
    BY <1>7 DEF HandlerMakeFifos, HandlerFork, Undropped
  <2> QED
    BY <1>2, <2>1 DEF Waiting
<1>8. CASE HandlerEndOfStream \/ HandlerClose \/ HandlerSend \/ HandlerReceive \/ Rendezvous
  <2>1. hpc' \notin Waiting
    BY <1>8 DEF HandlerEndOfStream, HandlerClose, HandlerSend, HandlerReceive, Rendezvous, Waiting
  <2> QED
    BY <1>2, <2>1
<1>9. CASE HandlerCloseFifos \/ HandlerReap \/ Worker \/ UNCHANGED vars
  <2>1. /\ UNCHANGED <<cpc, service, outbox, c2s, s2c>>
        /\ hpc' \in Waiting => hpc \in Waiting
    BY <1>9 DEF HandlerCloseFifos, HandlerReap, Worker, WorkerInput, WorkerCompute, WorkerOutput,
       WorkerExit, Waiting, client, net, handler, vars
  <2> QED
    BY <2>1 DEF Owed, Asked
<1> QED
  BY <1>1, <1>3, <1>4, <1>5, <1>6, <1>7, <1>8, <1>9 DEF Next, Handler

LEMMA ProgressInvariant == Spec => [](IInv /\ Progress)
<1>1. Init => IInv /\ Progress
  BY Begins DEF Init, Progress, Opening, Finishing, Owed, Asked, Waiting
<1>2. IInv /\ Progress /\ [Next]_vars => (IInv /\ Progress)'
  <2> SUFFICES ASSUME IInv, Progress, [Next]_vars PROVE IInv' /\ Progress'
    OBVIOUS
  <2>1. IInv' /\ Opening'
    BY Continues, OpeningKept DEF Progress
  <2>2. /\ Clean' => Clean
        /\ Undropped' => Undropped
    BY CauseGrows DEF Clean, Undropped
  <2>3. ASSUME Clean' PROVE InStep /\ Finishing
    BY <2>2, <2>3 DEF IInv, Progress
  <2>4. Clean' => Finishing'
    BY <2>3, FinishingKept
  <2>5. Clean' /\ Undropped' => Owed'
    BY <2>2, <2>3, OwedKept DEF Progress
  <2> QED
    BY <2>1, <2>4, <2>5 DEF Progress
<1> QED
  BY <1>1, <1>2, PTL DEF Spec

\* The reads of a request that has been written out never block.
LEMMA InputNotBlocked ==
  ASSUME InStep, ClientBlocked, hpc = "input"
  PROVE  c2s # << >>
<1> DEFINE n == Count(option)
           F == Filled(shape)
<1>1. cpc \in {"receive", "bye"} /\ outbox = << >> /\ ~ ClientGone
  BY DEF ClientBlocked, ClientGone, InStep, ClientTypes
<1>2. PICK p \in 0 .. (n - 1) : Reading(p)
  BY DEF InStep, ClientSide, AtInput
<1>3. PICK q \in p .. n : /\ option = service /\ c2s = Between(F, p, q) /\ Written(q)
  BY <1>1, <1>2 DEF Reading
<1>4. n \in {3, 6}
  BY DEF Count
<1>5. ToWrite(F, n, q, outbox) /\ shape \in Shapes \cup {NoShape} /\ ~ Empty(shape)
  BY <1>1, <1>3 DEF Written, InStep, ClientTypes
<1>6. F \in Registers
  BY <1>5, FilledValues DEF Partial
<1>7. Len(Words(F, Field(p + 1))) >= 1
  <2>1. p \in 0 .. 5
    BY <1>4
  <2> QED
    BY <1>5, <2>1, Nonempty
<1> HIDE DEF n, F
<1>8. q = n
  <2>1. q \in 0 .. n
    BY <1>2, <1>3, <1>4
  <2> QED
    BY <1>1, <1>4, <1>5, <2>1, NextWrite
<1>9. /\ p \in 0 .. 5 /\ p \in 0 .. 6 /\ p + 1 \in 0 .. 6 /\ n \in 0 .. 6 /\ p + 1 <= n
  BY <1>2, <1>4
<1>10. /\ Mark(F, p) \in Nat /\ Mark(F, p + 1) \in Nat /\ Mark(F, n) \in Nat
       /\ Mark(F, p + 1) <= Mark(F, n)
       /\ Mark(F, p + 1) - Mark(F, p) = Len(Words(F, Field(p + 1)))
       /\ Len(Words(F, Field(p + 1))) \in Nat
  BY <1>6, <1>9, MarkTypes, MarkOrder, OneField
<1>11. Mark(F, p) <= Mark(F, n) /\ Mark(F, n) - Mark(F, p) >= 1
  BY <1>7, <1>10
<1>12. Len(Between(F, p, n)) = Mark(F, n) - Mark(F, p)
  BY <1>6, <1>9, <1>11, BetweenType
<1>13. Len(c2s) >= 1
  BY <1>3, <1>8, <1>11, <1>12
<1> QED
  BY <1>13

\* Once the handler has written the whole request, the worker's reads do not
\* block either.
LEMMA WorkerNotStarved ==
  ASSUME InStep, hpc = "receive", wpc = "input", winputs # << >>, req = << >>
  PROVE  ~ (SizeOf(wreg, Head(winputs)) > 0)
<1> DEFINE n == Count(option)
<1>1. PICK p \in 0 .. n, q \in 0 .. n : Passing(p, q) /\ Computed(p)
  BY DEF InStep, WorkerSide, AtWork
<1>2. n \in {3, 6} /\ Partial(reg, n) /\ reg \in Registers
  BY DEF InStep, ClientSide, InService, Serving, Partial, Count
<1>3. /\ ToRead(n, p, winputs) /\ Mark(reg, p) <= Mark(reg, q) /\ req = Between(reg, p, q)
      /\ Partial(wreg, p) /\ Agrees(reg, wreg, p) /\ ~ (q < n)
  BY <1>1 DEF Passing
<1> HIDE DEF n
<1>4. q = n
  BY <1>1, <1>2, <1>3
<1>5. /\ p \in 0 .. (n - 1) /\ p \in 0 .. 5 /\ p + 1 \in 0 .. n /\ Head(winputs) = Field(p + 1)
  BY <1>1, <1>2, <1>3, NextRead
<1>6. wreg \in Registers
  BY <1>3 DEF Partial
<1>7. SizeOf(wreg, Field(p + 1)) = Len(Words(reg, Field(p + 1)))
  BY <1>2, <1>3, <1>5, <1>6, RightSize
<1>8. p \in 0 .. 6 /\ p + 1 \in 0 .. 6 /\ n \in 0 .. 6 /\ p + 1 <= n
  BY <1>2, <1>5
<1>9. /\ Mark(reg, p) \in Nat /\ Mark(reg, p + 1) \in Nat /\ Mark(reg, n) \in Nat
      /\ Mark(reg, p + 1) <= Mark(reg, n)
      /\ Mark(reg, p + 1) - Mark(reg, p) = Len(Words(reg, Field(p + 1)))
  BY <1>2, <1>5, <1>8, MarkTypes, MarkOrder, OneField
<1>10. Mark(reg, n) - Mark(reg, p) = 0
  <2>1. Len(Between(reg, p, n)) = Mark(reg, n) - Mark(reg, p)
    BY <1>2, <1>3, <1>4, <1>8, BetweenType
  <2>2. Len(req) = 0
    OBVIOUS
  <2> QED
    BY <1>3, <1>4, <2>1, <2>2
<1>11. Len(Words(reg, Field(p + 1))) <= 0
  BY <1>9, <1>10
<1> QED
  BY <1>5, <1>7, <1>11

\* With no cause, a client that waits is waiting for somebody who can move.
LEMMA SomebodyMoves ==
  ASSUME InStep, Opening, Finishing, Owed, "exec" \notin cause, Stuck
  PROVE  FALSE
<1>1. /\ cpc \in {"receive", "bye"} /\ s2c = << >> /\ ~ ClientGone
      /\ HandlerBlocked /\ WorkerBlocked
  BY DEF Stuck, ClientBlocked, ClientGone
<1>2. PipeCap \in Nat \ {0} /\ PipeCap # Len(<< >>)
  BY SessionAssumption
<1>3. ASSUME hpc \in {"send", "receive"}
      PROVE  /\ wpc \in {"input", "output", "dead"}
             /\ wpc = "output" /\ wout # << >> => rsp = << >>
  <2>1. PICK p : Computed(p)
    BY <1>3 DEF InStep, WorkerSide, AtWork
  <2> QED
    BY <2>1 DEF Computed
<1>4. CASE hpc = "top" /\ c2s = << >>
  <2>1. Asked
    BY <1>1 DEF Asked, InStep, ClientTypes
  <2>2. PICK i \in 1 .. Len(c2s) : TRUE
    BY <1>1, <1>4, <2>1 DEF Owed, Waiting
  <2> QED
    BY <1>4, <2>2
<1>5. CASE hpc = "input" /\ c2s = << >>
  BY <1>1, <1>5, InputNotBlocked DEF Stuck
<1>6. CASE /\ hpc = "open"
           /\ wpc = "open" => \/ HandlerOpens[opened + 1] # WorkerOpens[opened + 1]
                              \/ HandlerOpens[opened + 1] \notin fifos
  <2>1. wpc = "open" /\ opened \in {0, 1} /\ fifos = {"request", "response"}
    BY <1>6 DEF Opening
  <2>2. /\ HandlerOpens[opened + 1] = WorkerOpens[opened + 1]
        /\ HandlerOpens[opened + 1] \in fifos
    BY <2>1 DEF HandlerOpens, WorkerOpens
  <2> QED
    BY <1>6, <2>1, <2>2
<1>7. CASE hpc = "send" /\ wpc # "dead" /\ Len(req) = PipeCap
  <2>1. req # << >>
    BY <1>2, <1>7
  <2>2. wpc = "output" /\ wout # << >> /\ Len(rsp) = PipeCap
    BY <1>1, <1>3, <1>7, <2>1 DEF WorkerBlocked
  <2> QED
    BY <1>2, <1>3, <1>7, <2>2
<1>8. CASE hpc = "receive" /\ wpc # "dead" /\ rsp = << >>
  <2>1. wpc = "input" /\ winputs # << >> /\ req = << >> /\ SizeOf(wreg, Head(winputs)) > 0
    BY <1>1, <1>2, <1>3, <1>8 DEF WorkerBlocked
  <2> QED
    BY <1>8, <2>1, WorkerNotStarved
<1>9. CASE hpc = "reap" /\ wpc # "dead"
  <2>1. wpc = "output" /\ wout = << >>
    BY <1>1, <1>9 DEF Finishing
  <2> QED
    BY <1>1, <2>1 DEF WorkerBlocked
<1> QED
  BY <1>1, <1>4, <1>5, <1>6, <1>7, <1>8, <1>9 DEF HandlerBlocked

\* For every shape, FIFO and segment size and every order of the steps: client,
\* handler and worker are all blocked in system calls at once only after a
\* write() was cut, service 3 or 5 was chosen, or mkfifo, fork or exec failed
\* (clinet.c, server.c and the three workers; none of their read()s has a
\* timeout).
THEOREM DeadlocksHaveCauses == Spec => []StuckHasCause
<1>1. IInv /\ Progress => StuckHasCause
  <2> SUFFICES ASSUME IInv, Progress, Stuck, cause \cap HangCauses = {} PROVE FALSE
    BY DEF StuckHasCause
  <2>1. Clean /\ Undropped /\ "exec" \notin cause
    BY DEF HangCauses, Clean, Undropped
  <2>2. InStep /\ Opening /\ Finishing /\ Owed
    BY <2>1 DEF IInv, Progress
  <2> QED
    BY <2>1, <2>2, SomebodyMoves
<1> QED
  BY <1>1, ProgressInvariant, PTL

\* Stuck is what stops every action but the user's.
StopsOnlyWhenStuck == cpc \in {"receive", "bye"} /\ ~ ENABLED System => Stuck

\* So a hang has a cause.  That System is disabled only when Stuck holds is a
\* fact about ENABLED; the run of HangHasCause evaluates it in every state.
THEOREM HangsHaveCauses == Spec /\ []StopsOnlyWhenStuck => []HangHasCause
<1>1. StuckHasCause /\ StopsOnlyWhenStuck => HangHasCause
  BY DEF StuckHasCause, StopsOnlyWhenStuck, HangHasCause
<1> QED
  BY <1>1, DeadlocksHaveCauses, PTL

-----------------------------------------------------------------------------
(* The session implements the service it promises *)

\* Nothing the promise makes an exception for has happened.
Harmless == cause \cap {"overflow", "unavailable", "early exit", "thread"} = {}

\* The promise computes results as the session's Matrices does.
LEMMA SameOperations ==
  ASSUME NEW x, NEW y, NEW z, NEW a, NEW b
  PROVE  /\ Promise!Product(x, y, z, a, b) = Product(x, y, z, a, b)
         /\ Promise!Transposed(x, y, a) = Transposed(x, y, a)
         /\ Promise!Average(x, y, a) = Average(x, y, a)
<1> USE DEF Magnitude, Promise!Magnitude, MapThenSumSet, Promise!MapThenSumSet,
            MapThenFoldSet, Promise!MapThenFoldSet
<1>1. Promise!Product(x, y, z, a, b) = Product(x, y, z, a, b)
  BY DEF Product, Promise!Product, Cell, Promise!Cell
<1>2. Promise!Transposed(x, y, a) = Transposed(x, y, a)
  BY DEF Transposed, Promise!Transposed
<1>3. Promise!Average(x, y, a) = Average(x, y, a)
  BY DEF Average, Promise!Average
<1> QED
  BY <1>1, <1>2, <1>3

LEMMA PromiseBegins == Init => Promise!Init
  BY DEF Init, Promise!Init, ClientGone, NoShape

LEMMA PromiseContinues ==
  ASSUME IInv, IInv', Harmless, Harmless', [Next]_vars
  PROVE  [Promise!Next]_(Promise!state)
<1> USE DEF Promise!state, ClientGone
<1>1. InStep
  BY DEF IInv, Clean, Harmless
<1>2. CASE UNCHANGED client
  BY <1>2 DEF client
<1>3. CASE \E s \in Shapes : Fill(s)
  <2>1. Promise!FillIn
    BY <1>3 DEF Fill, Choose, Promise!FillIn
  <2> QED
    BY <2>1 DEF Promise!Next
<1>4. CASE \E o \in Services : UseService(o)
  <2>1. PICK o \in Services : UseService(o)
    BY <1>4
  <2>2. /\ cpc = "menu" /\ cpc' = "send" /\ service' = o /\ UNCHANGED <<shape, shown>>
        /\ \A i \in 1 .. 3 : shape[i] # 0
    BY <2>1 DEF UseService, Choose, Empty
  <2>3. CASE o \in {1, 2, 4}
    <3>1. Promise!Ask
      BY <2>2, <2>3 DEF Promise!Ask
    <3> QED
      BY <3>1 DEF Promise!Next
  <2>4. CASE o \notin {1, 2, 4}
    BY <2>2, <2>4
  <2> QED
    BY <2>3, <2>4
<1>5. CASE Exit
  BY <1>5 DEF Exit
<1>6. CASE cpc # "gone" /\ cpc' = "gone" /\ UNCHANGED <<shape, shown>>
  <2>1. Promise!Leave
    BY <1>6 DEF Promise!Leave
  <2> QED
    BY <2>1 DEF Promise!Next
<1>7. CASE ClientReadId \/ ClientWrite \/ ClientLeave \/ ClientKilled
  <2>1. UNCHANGED <<shape, service, shown>>
    BY <1>7 DEF ClientReadId, ClientWrite, ClientLeave, ClientKilled
  <2>2. cpc # "gone" /\ (cpc' = "gone" \/ cpc' = cpc \/ (cpc = "id" /\ cpc' = "menu"))
    BY <1>7 DEF ClientReadId, ClientWrite, ClientLeave, ClientKilled
  <2> QED
    BY <1>6, <2>1, <2>2
<1>8. CASE ClientSent
  BY <1>8 DEF ClientSent
<1>9. CASE ClientReceive
  <2>1. /\ cpc = "receive" /\ cpc' = "menu" /\ UNCHANGED <<shape, service>>
        /\ shown'.want = Wanted(service, shape)
    BY <1>9 DEF ClientReceive
  <2>2. service \in {1, 2, 4}
    BY <1>1, <2>1 DEF InStep, ClientTypes, Served
  <2>3. shown'.got = shown'.want
    BY DEF IInv, InStep, ClientSide, Shown, Early, Clean, Harmless
  <2>4. Wanted(service, shape) = Promise!ResultOf(service, shape)
    BY <2>2, SameOperations DEF Wanted, FilledA, FilledB, Promise!ResultOf
  <2>5. Promise!Answer
    BY <2>1, <2>2, <2>3, <2>4 DEF Promise!Answer
  <2> QED
    BY <2>5 DEF Promise!Next
<1>10. CASE Handler
  BY <1>2, <1>10 DEF Handler, HandlerGreet, HandlerReadOption, HandlerEndOfStream, HandlerClose,
     HandlerInput, HandlerMakeFifos, HandlerFork, HandlerSend, HandlerReceive, HandlerReply,
     HandlerCloseFifos, HandlerReap
<1>11. CASE Rendezvous \/ Worker
  BY <1>2, <1>11 DEF Rendezvous, Worker, WorkerInput, WorkerCompute, WorkerOutput, WorkerExit
<1> QED
  BY <1>2, <1>3, <1>4, <1>5, <1>7, <1>8, <1>9, <1>10, <1>11 DEF Next, User, ClientIO, vars

\* As long as no write() is cut, no thread fails and nobody chooses 3, 5 or -1
\* as a service, every step of the session is one of the promise: each answer
\* is ResultOf what was asked, and no request is answered twice or unasked,
\* whatever else fails.
THEOREM KeepsItsPromise ==
  Spec /\ []Harmless => Promise!Init /\ [][Promise!Next]_(Promise!state)
  BY PromiseBegins, PromiseContinues, Invariant, PTL DEF Spec

=============================================================================
