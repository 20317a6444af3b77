--------------------------- MODULE EventLogProofs ---------------------------
(***************************************************************************)
(* Proofs about EventLog, for any number of clients and requests, any      *)
(* mixture of services and any capacity of the logger's pipe.              *)
(*                                                                         *)
(* Five layers, each inductive given the ones before: who holds the mutex, *)
(* where the threads can be, what ended a process, what is known of every  *)
(* timestamp under way, and how far a thread's last record is behind it.   *)
(***************************************************************************)
EXTENDS EventLog, SequenceTheorems, TLAPS

Steps == {"lock", "request", "stamp", "write", "unlock"}

\* log_mutex is held by the one thread of the server that is in log_event.  A
\* forked child never touches the server's mutex: it has a copy.
Holder ==
  /\ step \in [Threads -> Steps]
  /\ \A t \in ServerThreads : step[t] # "lock" <=> mutex = t

-----------------------------------------------------------------------------

\* Before the first client the mutex is free.
LEMMA InitHolder == Init => Holder
BY EventLogAssumption DEF Init, Holder, Threads, ServerThreads, Free, Steps

\* Every system call of log_event keeps the mutex with the thread inside.
LEMMA LogEventKeepsHolder ==
  ASSUME Holder, NEW t \in Threads, log_event(t)
  PROVE  Holder'
<1> USE EventLogAssumption DEF Holder, Threads, ServerThreads, Free, Steps, At, Advance, Killed
<1>1. CASE Lock(t)
  BY <1>1 DEF Lock
<1>2. CASE RequestStamp(t)
  BY <1>2 DEF RequestStamp
<1>3. CASE TakeStamp(t)
  BY <1>3 DEF TakeStamp
<1>4. CASE WriteRecord(t)
  BY <1>4 DEF WriteRecord
<1>5. CASE Unlock(t)
  BY <1>5 DEF Unlock
<1> QED BY <1>1, <1>2, <1>3, <1>4, <1>5 DEF log_event

\* Nobody else touches the mutex, or is in log_event.
LEMMA NextHolder == Holder /\ [Next]_vars => Holder'
<1> SUFFICES ASSUME Holder, [Next]_vars PROVE Holder'
  OBVIOUS
<1>1. CASE \E t \in Threads : log_event(t)
  BY <1>1, LogEventKeepsHolder
<1>2. CASE ~ \E t \in Threads : log_event(t)
  <2>1. step' = step /\ mutex' = mutex
    BY <1>2 DEF Next, Accept, Spawn, Handler, Client, Worker, Greet, Serve, Open, Forward, Reply,
       Reap, Leave, ReadOption, ClientGoes, Exec, WorkerEnds, WorkerAborts, TimeRead, TimeAnswer,
       TimeEnds, LoggerWrite, LoggerEnds, Fault, vars
  <2> QED BY <2>1 DEF Holder
<1> QED BY <1>1, <1>2

\* The mutex, for ever.
LEMMA AlwaysHolder == Spec => []Holder
BY InitHolder, NextHolder, PTL DEF Spec

\* However many clients there are, one thread of the server at a time is
\* between lock and unlock of log_event, also when it gives the event up
\* because the time process is gone.
THEOREM MutualExclusion == Spec => []OneInside
<1>1. Holder => OneInside
  BY DEF Holder, OneInside, InLogEvent
<1> QED BY <1>1, AlwaysHolder, PTL

-----------------------------------------------------------------------------
(* Where the threads can be, and the types *)

\* main, the handlers and the children are at places of their own; a handler in
\* log_event is at a site of it, and one whose client was not accepted yet, or
\* whose thread is being made, is nowhere.
PlaceOf(c) ==
  /\ pc[c] \in (LogSites \ {"started"}) \cup
                 {"none", "greet", "top", "serve", "exchange", "forward", "answer", "reap",
                  "over"}
  /\ pc[-c] \in {"none", "created", "exec"}
  /\ step[c] # "lock" => pc[c] \in LogSites
  /\ c >= nextId \/ (c = nextId - 1 /\ pc[Main] = "spawn") => pc[c] = "none"

Places == pc[Main] \in {"started", "accept", "spawn"} /\ \A c \in Ids : PlaceOf(c)

Typed == TypeOK /\ Places

\* A thread is main, a handler or a child.
LEMMA ThreadKinds ==
  /\ Main \in Threads /\ Ids \subseteq Threads
  /\ \A c \in Ids : -c \in Threads /\ -c # Main /\ c # Main /\ -c \notin Ids
  /\ \A c, d \in Ids : -c = -d => c = d
  /\ \A t \in Threads : t = Main \/ t \in Ids \/ (t < 0 /\ -t \in Ids)
BY EventLogAssumption DEF Main, Threads, Ids

\* Where an event of a client's thread leads to.
LEMMA Continues ==
  /\ Continuation["connected"] = "greet" /\ Continuation["received"] = "serve"
  /\ Continuation["created"] = "exchange" /\ Continuation["completed"] = "reap"
  /\ Continuation["disconnected"] = "over" /\ Continuation["error"] = "top"
BY DEF Continuation

\* In the first state everything is in its place.
LEMMA InitTyped == Init => Typed
<1> SUFFICES ASSUME Init PROVE TypeOK /\ Places
  BY DEF Typed
<1>1. TypeOK
  <2>1. stamps \in Seq(Nat) /\ logPipe \in Seq(Records) /\ file \in Seq(Records)
    BY EmptySeq DEF Init
  <2>2. nextId \in 1 .. (Clients + 1) /\ requested \in 0 .. MaxRequests
    BY EventLogAssumption DEF Init
  <2> QED BY <2>1, <2>2 DEF Init, TypeOK, LogSites, Pcs
<1>2. Places
  BY EventLogAssumption, ThreadKinds DEF Init, Places, PlaceOf, LogSites, Main, Ids
<1> QED BY <1>1, <1>2

\* log_event takes a thread where Continuation says, and no other thread anywhere.
LEMMA LogEventTyped ==
  ASSUME Typed, NEW t \in Threads, log_event(t)
  PROVE  Typed'
<1> USE ThreadKinds DEF Typed, At, Advance
<1>1. CASE Lock(t)
  <2>1. mutex' \in ServerThreads \cup {Free}
    BY <1>1, EventLogAssumption DEF Lock, TypeOK, ServerThreads, Threads
  <2>2. TypeOK'
    BY <1>1, <2>1 DEF Lock, TypeOK, program, log, ups
  <2>3. Places'
    BY <1>1 DEF Lock, TypeOK, Places, PlaceOf, program
  <2> QED BY <2>2, <2>3
<1>2. CASE RequestStamp(t)
  <2>1. requests' \in Nat
    BY <1>2 DEF RequestStamp, TypeOK
  <2>2. step' \in [Threads -> {"lock", "request", "stamp", "write", "unlock"}]
    <3>1. CASE timeUp
      <4>1. step' = [step EXCEPT ![t] = "stamp"]
        BY <1>2, <3>1 DEF RequestStamp
      <4> QED BY <4>1 DEF TypeOK
    <3>2. CASE ~ timeUp
      BY <1>2, <3>2 DEF RequestStamp, TypeOK
    <3> QED BY <3>1, <3>2
  <2>3. serverUp' \in BOOLEAN /\ worker' \in [Ids -> {"none", "child", "running", "done"}]
    BY <1>2 DEF RequestStamp, TypeOK, Killed
  <2>4. TypeOK'
    BY <1>2, <2>1, <2>2, <2>3 DEF RequestStamp, TypeOK
  <2>5. Places'
    BY <1>2 DEF RequestStamp, TypeOK, Places, PlaceOf
  <2> QED BY <2>4, <2>5
<1>3. CASE TakeStamp(t)
  <2>1. stamps # << >> => Head(stamps) \in Nat /\ Tail(stamps) \in Seq(Nat)
    BY HeadTailProperties DEF TypeOK
  <2>2. /\ got' \in [Threads -> Nat] /\ stamps' \in Seq(Nat)
        /\ step' \in [Threads -> {"lock", "request", "stamp", "write", "unlock"}]
    <3>1. CASE stamps # << >>
      <4>1. /\ got' = [got EXCEPT ![t] = Head(stamps)] /\ stamps' = Tail(stamps)
            /\ step' = [step EXCEPT ![t] = "write"]
        BY <1>3, <3>1 DEF TakeStamp
      <4> QED BY <2>1, <3>1, <4>1 DEF TypeOK
    <3>2. CASE stamps = << >>
      <4>1. got' = got /\ stamps' = stamps /\ step' = [step EXCEPT ![t] = "unlock"]
        BY <1>3, <3>2 DEF TakeStamp
      <4> QED BY <4>1 DEF TypeOK
    <3> QED BY <3>1, <3>2
  <2>3. TypeOK'
    BY <1>3, <2>2 DEF TakeStamp, TypeOK, program, ups
  <2>4. Places'
    BY <1>3 DEF TakeStamp, TypeOK, Places, PlaceOf, program
  <2> QED BY <2>3, <2>4
<1>4. CASE WriteRecord(t)
  <2>1. pc[t] \in LogSites /\ got[t] \in Nat
    BY <1>4 DEF WriteRecord, TypeOK
  <2>2. [by |-> t, site |-> pc[t], stamp |-> got[t]] \in Records
    BY <2>1 DEF Records
  <2>3. logPipe' \in Seq(Records)
    <3>1. CASE loggerUp
      <4>1. logPipe' = Append(logPipe, [by |-> t, site |-> pc[t], stamp |-> got[t]])
        BY <1>4, <3>1 DEF WriteRecord
      <4>2. logPipe \in Seq(Records)
        BY DEF TypeOK
      <4> QED BY <2>2, <4>1, <4>2, AppendProperties
    <3>2. CASE ~ loggerUp
      BY <1>4, <3>2 DEF WriteRecord, TypeOK
    <3> QED BY <3>1, <3>2
  <2>4. step' \in [Threads -> {"lock", "request", "stamp", "write", "unlock"}]
    <3>1. CASE loggerUp
      <4>1. step' = [step EXCEPT ![t] = "unlock"]
        BY <1>4, <3>1 DEF WriteRecord
      <4> QED BY <4>1 DEF TypeOK
    <3>2. CASE ~ loggerUp
      BY <1>4, <3>2 DEF WriteRecord, TypeOK
    <3> QED BY <3>1, <3>2
  <2>5. serverUp' \in BOOLEAN /\ worker' \in [Ids -> {"none", "child", "running", "done"}]
    BY <1>4 DEF WriteRecord, TypeOK, Killed
  <2>6. TypeOK'
    BY <1>4, <2>3, <2>4, <2>5 DEF WriteRecord, TypeOK
  <2>7. Places'
    BY <1>4 DEF WriteRecord, TypeOK, Places, PlaceOf
  <2> QED BY <2>6, <2>7
<1>5. CASE Unlock(t)
  <2>1. After(t) \in {"accept", "greet", "top", "serve", "exchange", "reap", "over", "exec"}
    BY <1>5 DEF Unlock, After, Continuation, LogSites
  <2>2. /\ t = Main => After(t) = "accept"
        /\ t \in Ids => After(t) \in {"greet", "top", "serve", "exchange", "reap", "over"}
        /\ t < 0 => After(t) = "exec"
    <3>1. CASE t = Main
      BY <1>5, <3>1 DEF Unlock, After, Continuation, LogSites, Places, Main
    <3>2. CASE t \in Ids
      <4>1. PlaceOf(t) /\ t # Main /\ ~ (t < 0)
        BY <3>2, EventLogAssumption DEF Places, Ids, Main
      <4>2. pc[t] \in LogSites \ {"started"}
        BY <1>5, <4>1 DEF Unlock, PlaceOf, LogSites
      <4>3. After(t) \in {"greet", "top", "serve", "exchange", "reap", "over"}
        BY <4>1, <4>2, Continues DEF After, LogSites
      <4> QED BY <4>1, <4>3
    <3>3. CASE t < 0 /\ -t \in Ids
      <4>1. PlaceOf(-t) /\ -(-t) = t
        BY <3>3, EventLogAssumption DEF Places, Threads
      <4>2. pc[t] = "created"
        BY <1>5, <4>1 DEF Unlock, LogSites, PlaceOf
      <4>3. t # Main /\ t \notin Ids
        BY <3>3, EventLogAssumption DEF Main, Ids
      <4>4. After(t) = "exec"
        BY <3>3, <4>2 DEF After
      <4> QED BY <4>3, <4>4
    <3> QED BY <3>1, <3>2, <3>3
  <2>3. TypeOK'
    <3>1. After(t) \in Pcs
      BY <2>1 DEF Pcs, LogSites
    <3> QED BY <1>5, <3>1 DEF Unlock, TypeOK, program, log, ups
  <2>4. pc' = [pc EXCEPT ![t] = After(t)] /\ step' = [step EXCEPT ![t] = "lock"] /\ nextId' = nextId
    BY <1>5 DEF Unlock, program
  <2>5. pc[t] # "none"
    BY <1>5 DEF Unlock, LogSites
  <2>6. pc'[Main] \in {"started", "accept", "spawn"} /\ (pc'[Main] = "spawn" => pc[Main] = "spawn")
    BY <2>2, <2>4 DEF Places, TypeOK
  <2>7. ASSUME NEW c \in Ids PROVE PlaceOf(c)'
    <3>1. PlaceOf(c) /\ -c \in Threads /\ -c # c /\ c \in Threads
      BY DEF Places
    <3>2. CASE t = c
      BY <2>2, <2>4, <2>5, <2>6, <3>1, <3>2 DEF PlaceOf, TypeOK
    <3>3. CASE t = -c
      <4>1. t < 0
        BY <3>3, EventLogAssumption DEF Ids
      <4> QED BY <2>2, <2>4, <2>6, <3>1, <3>3, <4>1 DEF PlaceOf, TypeOK
    <3>4. CASE t # c /\ t # -c
      BY <2>4, <2>6, <3>1, <3>4 DEF PlaceOf, TypeOK
    <3> QED BY <3>2, <3>3, <3>4
  <2> QED BY <2>3, <2>6, <2>7 DEF Places
<1> QED BY <1>1, <1>2, <1>3, <1>4, <1>5 DEF log_event

\* A handler that is out of log_event goes on in handle_client, its child goes on,
\* and nobody else moves.
LEMMA HandlerMoves ==
  ASSUME Typed, NEW c \in Ids,
         \A t \in Threads \ {c, -c} : pc'[t] = pc[t],
         \/ pc'[c] = pc[c]
         \/ /\ pc[c] \in {"greet", "serve", "exchange", "forward", "answer", "reap", "top"}
            /\ pc'[c] \in {"created", "error", "completed", "top", "disconnected", "received",
                           "forward", "answer"},
         pc'[-c] \in {pc[-c], "none", "created", "exec"},
         step' = step, nextId' = nextId
  PROVE  Places'
<1> USE ThreadKinds DEF Typed
<1>1. pc'[Main] = pc[Main]
  OBVIOUS
<1>2. ASSUME NEW d \in Ids PROVE PlaceOf(d)'
  <2>1. PlaceOf(d) /\ PlaceOf(c)
    BY DEF Places
  <2>2. CASE d = c
    BY <1>1, <2>1, <2>2 DEF PlaceOf, LogSites
  <2>3. CASE d # c
    <3>1. pc'[d] = pc[d] /\ pc'[-d] = pc[-d]
      BY <2>3
    <3> QED BY <1>1, <2>1, <3>1 DEF PlaceOf
  <2> QED BY <2>2, <2>3
<1> QED BY <1>1, <1>2 DEF Places

\* What a write to a client does to the types and the places.
LEMMA WriteToClientTyped ==
  ASSUME Typed, NEW c \in Ids, NEW p, WriteToClient(c, p)
  PROVE  /\ conn' \in [Ids -> {"open", "gone", "reset"}] /\ serverUp' \in BOOLEAN
         /\ pc' = pc \/ pc' = [pc EXCEPT ![c] = p]
<1> DEFINE gone == conn[c] = "gone"
           Write == [conn EXCEPT ![c] = IF conn[c] = "gone" THEN "reset" ELSE conn[c]]
<1>1. Write \in [Ids -> {"open", "gone", "reset"}]
  BY DEF Typed, TypeOK
<1>2. conn' = conn \/ conn' = Write
  BY DEF WriteToClient
<1>3. conn' \in [Ids -> {"open", "gone", "reset"}]
  BY <1>1, <1>2 DEF Typed, TypeOK
<1> QED BY <1>3 DEF WriteToClient, Typed, TypeOK

\* A thread that writes to its client stays or goes on, and types are kept.
LEMMA WriterTyped ==
  ASSUME Typed, NEW c \in Ids, NEW p \in {"top", "disconnected", "completed"},
         \/ WriteToClient(c, p)
         \/ pc' = [pc EXCEPT ![c] = p] /\ UNCHANGED <<conn, serverUp>>,
         pc[c] \in {"greet", "top", "answer"},
         UNCHANGED <<step, got, mutex, op, requested, worker, copyHeld, nextId, log, timeUp,
                     loggerUp, failed>>
  PROVE  Typed'
<1>1. /\ conn' \in [Ids -> {"open", "gone", "reset"}] /\ serverUp' \in BOOLEAN
      /\ pc' = pc \/ pc' = [pc EXCEPT ![c] = p]
  BY WriteToClientTyped DEF Typed, TypeOK
<1>2. TypeOK'
  <2>1. pc' \in [Threads -> Pcs]
    <3>1. p \in Pcs
      BY DEF Pcs, LogSites
    <3> QED BY <1>1, <3>1, ThreadKinds DEF Typed, TypeOK
  <2> QED BY <1>1, <2>1 DEF Typed, TypeOK, log
<1>3. /\ pc'[c] = pc[c] \/ pc'[c] = p
      /\ pc'[-c] = pc[-c]
      /\ \A t \in Threads \ {c, -c} : pc'[t] = pc[t]
  BY <1>1, ThreadKinds DEF Typed, TypeOK
<1>4. Places'
  BY <1>3, HandlerMoves
<1> QED BY <1>2, <1>4 DEF Typed

\* A step of a handler, its client or its worker.
LEMMA HandlerTyped ==
  ASSUME Typed, NEW c \in Ids, Handler(c) \/ Client(c) \/ Worker(c)
  PROVE  Typed'
<1> USE ThreadKinds DEF Typed
<1>1. CASE Serve(c)
  <2>1. pc' \in [Threads -> Pcs]
    <3>1. {"created", "exec", "error"} \subseteq Pcs
      BY DEF Pcs, LogSites
    <3>2. \/ \E q \in {"created", "exec"} : pc' = [pc EXCEPT ![c] = "created", ![-c] = q]
          \/ pc' = [pc EXCEPT ![c] = "error"]
      BY <1>1 DEF Serve
    <3>3. pc \in [Threads -> Pcs]
      BY DEF TypeOK
    <3>4. ASSUME NEW q \in {"created", "exec"}, pc' = [pc EXCEPT ![c] = "created", ![-c] = q]
          PROVE  pc' \in [Threads -> Pcs]
      BY <3>1, <3>3, <3>4
    <3>5. CASE pc' = [pc EXCEPT ![c] = "error"]
      BY <3>1, <3>3, <3>5
    <3> QED BY <3>2, <3>4, <3>5
  <2>2. /\ worker' \in [Ids -> {"none", "child", "running", "done"}]
        /\ copyHeld' \in [Ids -> BOOLEAN]
    BY <1>1 DEF Serve, TypeOK
  <2>3. TypeOK'
    BY <1>1, <2>1, <2>2 DEF Serve, TypeOK, log, ups
  <2>4. /\ pc'[c] \in {"created", "error"} /\ pc'[-c] \in {pc[-c], "created", "exec"}
        /\ \A t \in Threads \ {c, -c} : pc'[t] = pc[t]
        /\ pc[c] = "serve" /\ step' = step /\ nextId' = nextId
    BY <1>1 DEF Serve, TypeOK
  <2>5. Places'
    BY <2>4, HandlerMoves
  <2> QED BY <2>3, <2>5
<1>2. CASE Open(c) \/ Forward(c)
  <2>1. TypeOK'
    BY <1>2 DEF Open, Forward, TypeOK, program, log, ups, LogSites, Pcs
  <2>2. /\ pc'[c] \in {pc[c], "forward", "answer"} /\ pc'[-c] = pc[-c]
        /\ pc[c] \in {"exchange", "forward"}
        /\ \A t \in Threads \ {c, -c} : pc'[t] = pc[t]
        /\ step' = step /\ nextId' = nextId
    BY <1>2 DEF Open, Forward, TypeOK, program
  <2>3. Places'
    BY <2>2, HandlerMoves
  <2> QED BY <2>1, <2>3
<1>3. CASE Reap(c)
  <2>1. TypeOK'
    BY <1>3 DEF Reap, TypeOK, log, ups, LogSites, Pcs
  <2>2. /\ pc'[c] = "top" /\ pc'[-c] = pc[-c] /\ pc[c] = "reap"
        /\ \A t \in Threads \ {c, -c} : pc'[t] = pc[t]
        /\ step' = step /\ nextId' = nextId
    BY <1>3 DEF Reap, TypeOK
  <2>3. Places'
    BY <2>2, HandlerMoves
  <2> QED BY <2>1, <2>3
<1>4. CASE Greet(c)
  BY <1>4, WriterTyped DEF Greet
<1>5. CASE Leave(c)
  BY <1>5, WriterTyped DEF Leave
<1>6. CASE Reply(c)
  BY <1>6, WriterTyped DEF Reply
<1>7. ASSUME NEW o \in Operations, ReadOption(c, o) PROVE Typed'
  <2>1. TypeOK'
    BY <1>7, EventLogAssumption DEF ReadOption, TypeOK, log, ups, LogSites, Pcs
  <2>2. /\ pc'[c] = "received" /\ pc'[-c] = pc[-c] /\ pc[c] = "top"
        /\ \A t \in Threads \ {c, -c} : pc'[t] = pc[t]
        /\ step' = step /\ nextId' = nextId
    BY <1>7 DEF ReadOption, TypeOK
  <2>3. Places'
    BY <2>2, HandlerMoves
  <2> QED BY <2>1, <2>3
<1>8. CASE Exec(c)
  <2>1. TypeOK'
    <3>1. worker' = [worker EXCEPT ![c] = "running"] \/ worker' = [worker EXCEPT ![c] = "done"]
      BY <1>8 DEF Exec
    <3>2. worker' \in [Ids -> {"none", "child", "running", "done"}]
      BY <3>1 DEF TypeOK
    <3>3. pc' \in [Threads -> Pcs]
      BY <1>8 DEF Exec, TypeOK, LogSites, Pcs
    <3> QED BY <1>8, <3>2, <3>3 DEF Exec, TypeOK, log, ups
  <2>2. /\ pc'[c] = pc[c] /\ pc'[-c] = "none"
        /\ \A t \in Threads \ {c, -c} : pc'[t] = pc[t]
        /\ step' = step /\ nextId' = nextId
    BY <1>8 DEF Exec, TypeOK
  <2>3. Places'
    BY <2>2, HandlerMoves
  <2> QED BY <2>1, <2>3
<1>9. CASE ClientGoes(c) \/ WorkerEnds(c) \/ WorkerAborts(c)
  <2>1. TypeOK'
    <3>1. CASE ClientGoes(c)
      <4>1. conn' = [conn EXCEPT ![c] = "gone"] \/ conn' = [conn EXCEPT ![c] = "reset"]
        BY <3>1 DEF ClientGoes
      <4>2. conn' \in [Ids -> {"open", "gone", "reset"}]
        BY <4>1 DEF TypeOK
      <4> QED BY <3>1, <4>2 DEF ClientGoes, TypeOK, log, ups
    <3>2. CASE WorkerEnds(c)
      BY <3>2 DEF WorkerEnds, TypeOK, log, ups
    <3>3. CASE WorkerAborts(c)
      BY <3>3 DEF WorkerAborts, TypeOK, log
    <3> QED BY <1>9, <3>1, <3>2, <3>3
  <2>2. pc' = pc /\ step' = step /\ nextId' = nextId
    BY <1>9 DEF ClientGoes, WorkerEnds, WorkerAborts
  <2>3. Places'
    BY <2>2 DEF Places, PlaceOf
  <2> QED BY <2>1, <2>3
<1> QED BY <1>1, <1>2, <1>3, <1>4, <1>5, <1>6, <1>7, <1>8, <1>9 DEF Handler, Client, Worker

\* Every step keeps the threads at their places.
LEMMA NextTyped == Typed /\ [Next]_vars => Typed'
<1> SUFFICES ASSUME Typed, [Next]_vars PROVE TypeOK' /\ Places'
  BY DEF Typed
<1> USE ThreadKinds DEF Typed
<1>1. CASE \E t \in Threads : log_event(t)
  BY <1>1, LogEventTyped
<1>2. CASE \E c \in Ids : Handler(c) \/ Client(c) \/ Worker(c)
  BY <1>2, HandlerTyped
<1>3. CASE Accept
  <2>1. TypeOK'
    BY <1>3, EventLogAssumption DEF Accept, TypeOK, log, ups, LogSites, Pcs
  <2>2. Places'
    BY <1>3, EventLogAssumption DEF Accept, TypeOK, Places, PlaceOf, Ids
  <2> QED BY <2>1, <2>2
<1>4. CASE Spawn
  <2>1. TypeOK'
    BY <1>4 DEF Spawn, TypeOK, program, log, ups, LogSites, Pcs
  <2>2. PICK c \in Int : c = nextId - 1
    BY DEF TypeOK
  <2>3. /\ pc'[Main] = "accept"
        /\ \A t \in Threads \ {Main, c} : pc'[t] = pc[t]
        /\ c \in Ids => pc[c] = "none" /\ pc'[c] \in {"none", "connected"}
        /\ nextId' = nextId /\ step' = step
    BY <1>4, <2>2 DEF Spawn, TypeOK, Places, PlaceOf, program
  <2>4. ASSUME NEW d \in Ids PROVE PlaceOf(d)'
    <3>1. PlaceOf(d) /\ -d \in Threads \ {Main} /\ d \in Threads \ {Main}
      BY DEF Places
    <3>2. -d # c
      BY <2>2, EventLogAssumption DEF TypeOK, Ids
    <3>3. pc'[-d] = pc[-d] /\ pc'[Main] # "spawn"
      BY <2>3, <3>1, <3>2
    <3>4. CASE d = c
      <4>1. pc[c] = "none" /\ pc'[c] \in {"none", "connected"}
        BY <2>3, <3>4
      <4>2. ~ (d >= nextId)
        BY <2>2, <3>4 DEF TypeOK
      <4> QED BY <2>3, <3>1, <3>3, <3>4, <4>1, <4>2 DEF PlaceOf, LogSites
    <3>5. CASE d # c
      <4>1. pc'[d] = pc[d]
        BY <2>3, <3>1, <3>5
      <4> QED BY <2>3, <3>1, <3>3, <4>1 DEF PlaceOf
    <3> QED BY <3>4, <3>5
  <2> QED BY <2>1, <2>3, <2>4 DEF Places
<1>5. CASE TimeRead \/ TimeAnswer \/ TimeEnds
  <2>1. stamps' \in Seq(Nat) /\ clock' \in Nat /\ requests' \in Nat
    <3>1. CASE TimeRead
      BY <3>1 DEF TimeRead, TypeOK
    <3>2. CASE TimeAnswer
      BY <3>2, AppendProperties DEF TimeAnswer, TypeOK
    <3>3. CASE TimeEnds
      BY <3>3 DEF TimeEnds, TypeOK, log
    <3> QED BY <1>5, <3>1, <3>2, <3>3
  <2>2. TypeOK'
    BY <1>5, <2>1 DEF TimeRead, TimeAnswer, TimeEnds, TypeOK, program, log, ups
  <2>3. Places'
    BY <1>5 DEF TimeRead, TimeAnswer, TimeEnds, Places, PlaceOf, program
  <2> QED BY <2>2, <2>3
<1>6. CASE LoggerWrite
  <2>1. Head(logPipe) \in Records /\ Tail(logPipe) \in Seq(Records)
    BY <1>6, HeadTailProperties DEF LoggerWrite, TypeOK
  <2>2. file' \in Seq(Records)
    BY <1>6, <2>1, AppendProperties DEF LoggerWrite, TypeOK
  <2> QED BY <1>6, <2>1, <2>2 DEF LoggerWrite, TypeOK, Places, PlaceOf, program, ups
<1>7. CASE LoggerEnds
  BY <1>7 DEF LoggerEnds, TypeOK, Places, PlaceOf, program, log
<1>8. CASE Fault
  <2>1. TypeOK'
    BY <1>8 DEF Fault, TypeOK, program, log
  <2>2. Places'
    BY <1>8 DEF Fault, Places, PlaceOf, program
  <2> QED BY <2>1, <2>2
<1>9. CASE UNCHANGED vars
  BY <1>9 DEF vars, TypeOK, Places, PlaceOf, program, log, ups
<1> QED BY <1>1, <1>2, <1>3, <1>4, <1>5, <1>6, <1>7, <1>8, <1>9 DEF Next

\* TypeOK, and where the threads are, for ever.
LEMMA AlwaysTyped == Spec => []Typed
BY InitTyped, NextTyped, PTL DEF Spec

-----------------------------------------------------------------------------
(* Who ends whom *)

\* A client to whom nothing was written yet answered nothing with RST.
Ungreeted == \A c \in Ids : pc[c] \in {"none", "connected", "greet"} => conn[c] # "reset"

\* While a request is being forwarded its worker reads it, or had a fault, or the
\* server is dead.
Forwarding ==
  \A c \in Ids : pc[c] = "forward" =>
    \/ worker[c] = "running"
    \/ worker[c] = "done" /\ (serverUp => "worker" \in failed)

Causes == Ungreeted /\ Forwarding /\ EndsHaveCauses

\* In the first state nobody is gone and everybody runs.
LEMMA InitCauses == Init => Causes
BY ThreadKinds DEF Init, Causes, Ungreeted, Forwarding, EndsHaveCauses

\* A client's thread in log_event goes on where the event leads, and takes no
\* other client's thread anywhere.
LEMMA LogEventMoves ==
  ASSUME Typed, NEW t \in Threads, log_event(t), NEW c \in Ids
  PROVE  /\ conn' = conn
         /\ pc'[c] = pc[c] \/ (serverUp /\ pc[c] \in LogSites /\ pc'[c] = After(c))
<1> USE ThreadKinds DEF Typed
<1>1. CASE Unlock(t)
  <2>1. conn' = conn /\ pc' = [pc EXCEPT ![t] = After(t)] /\ Alive(t) /\ pc[t] \in LogSites
    BY <1>1 DEF Unlock, At, program
  <2>2. CASE t = c
    <3>1. t >= 0
      BY <2>2, EventLogAssumption DEF Ids
    <3>2. serverUp
      BY <2>1, <3>1 DEF Alive
    <3> QED BY <2>1, <2>2, <3>2 DEF TypeOK
  <2>3. CASE t # c
    BY <2>1, <2>3 DEF TypeOK
  <2> QED BY <2>2, <2>3
<1>2. CASE Lock(t) \/ RequestStamp(t) \/ TakeStamp(t) \/ WriteRecord(t)
  BY <1>2 DEF Lock, RequestStamp, TakeStamp, WriteRecord, program
<1> QED BY <1>1, <1>2 DEF log_event

\* Where log_event does not lead to, and what leads to the greeting.
LEMMA AfterSites ==
  ASSUME Typed, NEW c \in Ids, pc[c] \in LogSites
  PROVE  /\ After(c) \notin {"none", "connected", "forward"}
         /\ After(c) = "greet" => pc[c] = "connected"
<1>1. pc[c] \in LogSites \ {"started"} /\ ~ (c < 0)
  BY EventLogAssumption DEF Typed, Places, PlaceOf, LogSites, Ids
<1> QED BY <1>1, Continues DEF After, LogSites

\* The step of one client's handler, client or worker leaves the others alone.
LEMMA OthersAlone ==
  ASSUME Typed, NEW d \in Ids, Handler(d) \/ Client(d) \/ Worker(d), NEW c \in Ids, c # d
  PROVE  pc'[c] = pc[c] /\ conn'[c] = conn[c] /\ worker'[c] = worker[c]
<1> USE ThreadKinds DEF Typed
<1>1. CASE Greet(d) \/ Leave(d) \/ Reply(d)
  <2>1. worker' = worker
    BY <1>1 DEF Greet, Leave, Reply
  <2>2. ASSUME NEW p, WriteToClient(d, p) PROVE pc'[c] = pc[c] /\ conn'[c] = conn[c]
    BY <2>2 DEF WriteToClient, TypeOK
  <2>3. CASE \E p \in {"top", "disconnected", "completed"} : WriteToClient(d, p)
    BY <2>1, <2>2, <2>3
  <2>4. CASE conn' = conn /\ \E p \in {"disconnected", "completed"} : pc' = [pc EXCEPT ![d] = p]
    BY <2>1, <2>4 DEF TypeOK
  <2> QED BY <1>1, <2>3, <2>4 DEF Greet, Leave, Reply
<1>2. CASE Serve(d) \/ Open(d) \/ Forward(d) \/ Reap(d)
  BY <1>2 DEF Serve, Open, Forward, Reap, program, TypeOK
<1>3. CASE ClientGoes(d) \/ \E o \in Operations : ReadOption(d, o)
  BY <1>3 DEF ClientGoes, ReadOption, TypeOK
<1>4. CASE Worker(d)
  BY <1>4 DEF Worker, Exec, WorkerEnds, WorkerAborts, TypeOK
<1> QED BY <1>1, <1>2, <1>3, <1>4 DEF Handler, Client

\* A write to a client by its thread: it kills, or is made.
LEMMA WriteCases ==
  ASSUME Typed, NEW c \in Ids, NEW p, WriteToClient(c, p)
  PROVE  \/ /\ conn[c] # "reset" /\ pc'[c] = p /\ serverUp' = serverUp
         \/ /\ conn[c] = "reset" /\ pc' = pc /\ conn' = conn /\ ~ serverUp'
BY ThreadKinds DEF WriteToClient, Typed, TypeOK

\* Nothing is written to a client before its greeting.
LEMMA NextUngreeted == Typed /\ Ungreeted /\ [Next]_vars => Ungreeted'
<1> SUFFICES ASSUME Typed, Ungreeted, [Next]_vars, NEW c \in Ids,
                    pc'[c] \in {"none", "connected", "greet"}
             PROVE  conn'[c] # "reset"
  BY DEF Ungreeted
<1> USE ThreadKinds
<1>1. ASSUME NEW t \in Threads, log_event(t) PROVE conn'[c] # "reset"
  <2>1. conn' = conn /\ (pc'[c] = pc[c] \/ (pc[c] \in LogSites /\ pc'[c] = After(c)))
    BY <1>1, LogEventMoves
  <2>2. pc[c] \in {"none", "connected", "greet"}
    BY <2>1, AfterSites
  <2> QED BY <2>1, <2>2 DEF Ungreeted
<1>2. ASSUME NEW d \in Ids, d # c, Handler(d) \/ Client(d) \/ Worker(d)
      PROVE  conn'[c] # "reset"
  BY <1>2, OthersAlone DEF Ungreeted
<1>3. CASE Greet(c) \/ Leave(c) \/ Reply(c)
  <2>1. ASSUME NEW p \in {"top", "disconnected", "completed"}, WriteToClient(c, p)
        PROVE  conn'[c] # "reset"
    <3>1. conn[c] = "reset" /\ pc' = pc /\ conn' = conn
      BY <2>1, WriteCases
    <3> QED BY <3>1 DEF Ungreeted
  <2>2. CASE \E p \in {"disconnected", "completed"} : pc' = [pc EXCEPT ![c] = p]
    BY <2>2 DEF Typed, TypeOK
  <2> QED BY <1>3, <2>1, <2>2 DEF Greet, Leave, Reply
<1>4. CASE Serve(c) \/ Open(c) \/ Forward(c) \/ Reap(c) \/ \E o \in Operations : ReadOption(c, o)
  BY <1>4 DEF Serve, Open, Forward, Reap, ReadOption, Typed, TypeOK
<1>5. CASE ClientGoes(c)
  BY <1>5 DEF ClientGoes, Typed, TypeOK
<1>6. CASE Worker(c)
  BY <1>6 DEF Worker, Exec, WorkerEnds, WorkerAborts, Typed, TypeOK, Ungreeted
<1>7. CASE Spawn
  <2>1. conn' = conn /\ pc'[c] \in {pc[c], "connected"}
    BY <1>7 DEF Spawn, program, Typed, TypeOK
  <2>2. pc'[c] # pc[c] => pc[c] = "none"
    BY <1>7 DEF Spawn, Typed, TypeOK, Places, PlaceOf
  <2> QED BY <2>1, <2>2 DEF Ungreeted
<1>8. CASE \/ Accept \/ TimeRead \/ TimeAnswer \/ TimeEnds \/ LoggerWrite \/ LoggerEnds \/ Fault
           \/ UNCHANGED vars
  BY <1>8 DEF Accept, TimeRead, TimeAnswer, TimeEnds, LoggerWrite, LoggerEnds, Fault, vars,
     program, Typed, TypeOK, Ungreeted
<1> QED BY <1>1, <1>2, <1>3, <1>4, <1>5, <1>6, <1>7, <1>8 DEF Next, Handler, Client

\* A fault that happened has happened, and a server that is dead is dead.
LEMMA FaultsStay == [Next]_vars => failed \subseteq failed' /\ (serverUp' => serverUp)
<1> SUFFICES ASSUME [Next]_vars PROVE failed \subseteq failed' /\ (serverUp' => serverUp)
  OBVIOUS
<1>1. CASE \E t \in Threads : log_event(t)
  BY <1>1 DEF log_event, Lock, RequestStamp, TakeStamp, WriteRecord, Unlock, Killed, ups
<1>2. CASE \E c \in Ids : Handler(c) \/ Client(c) \/ Worker(c)
  BY <1>2 DEF Handler, Client, Worker, Greet, Serve, Open, Forward, Reply, Reap, Leave, ReadOption,
     ClientGoes, Exec, WorkerEnds, WorkerAborts, WriteToClient, ups
<1>3. CASE \/ Accept \/ Spawn \/ TimeRead \/ TimeAnswer \/ TimeEnds \/ LoggerWrite
           \/ LoggerEnds \/ Fault \/ UNCHANGED vars
  BY <1>3 DEF Accept, Spawn, TimeRead, TimeAnswer, TimeEnds, LoggerWrite, LoggerEnds, Fault, ups,
     vars
<1> QED BY <1>1, <1>2, <1>3 DEF Next

\* A worker that is gone before the end of its request had a fault, unless the
\* server went first.
LEMMA NextForwarding == Typed /\ Forwarding /\ [Next]_vars => Forwarding'
<1> SUFFICES ASSUME Typed, Forwarding, [Next]_vars, NEW c \in Ids, pc'[c] = "forward"
             PROVE  \/ worker'[c] = "running"
                    \/ worker'[c] = "done" /\ (serverUp' => "worker" \in failed')
  BY DEF Forwarding
<1> USE ThreadKinds
<1>1. failed \subseteq failed' /\ (serverUp' => serverUp)
  BY FaultsStay
<1> DEFINE Was == pc[c] = "forward" /\ worker'[c] = worker[c]
<1>2. Was => \/ worker'[c] = "running"
             \/ worker'[c] = "done" /\ (serverUp' => "worker" \in failed')
  BY <1>1 DEF Forwarding
<1> HIDE DEF Was
<1>3. ASSUME NEW t \in Threads, log_event(t) PROVE Was
  <2>1. pc[c] = "forward"
    BY <1>3, LogEventMoves, AfterSites
  <2>2. worker[c] # "child"
    BY <2>1 DEF Forwarding
  <2>3. worker' = worker \/ (t < 0 /\ worker[-t] = "child" /\ worker' = [worker EXCEPT ![-t] = "done"])
    BY <1>3, EventLogAssumption DEF log_event, Lock, RequestStamp, TakeStamp, WriteRecord, Unlock,
       Killed, program, At, Alive, Threads
  <2> QED BY <2>1, <2>2, <2>3 DEF Was, Typed, TypeOK
<1>4. ASSUME NEW d \in Ids, d # c, Handler(d) \/ Client(d) \/ Worker(d) PROVE Was
  BY <1>4, OthersAlone DEF Was
<1>5. CASE Greet(c) \/ Leave(c) \/ Reply(c)
  <2>1. ASSUME NEW p \in {"top", "disconnected", "completed"}, WriteToClient(c, p)
        PROVE  pc' = pc
    BY <2>1, WriteCases
  <2>2. ASSUME NEW p \in {"disconnected", "completed"}, pc' = [pc EXCEPT ![c] = p] PROVE FALSE
    BY <2>2 DEF Typed, TypeOK
  <2>3. pc' = pc /\ pc[c] \in {"greet", "top", "answer"}
    BY <1>5, <2>1, <2>2 DEF Greet, Leave, Reply
  <2> QED BY <2>3
<1>6. CASE Open(c)
  BY <1>6 DEF Open, program
<1>7. CASE Forward(c)
  <2>1. pc[c] = "forward" /\ worker' = worker
    BY <1>7 DEF Forward, program
  <2> QED BY <1>2, <2>1 DEF Was
<1>8. CASE Serve(c) \/ Reap(c) \/ \E o \in Operations : ReadOption(c, o)
  BY <1>8 DEF Serve, Reap, ReadOption, Typed, TypeOK
<1>9. CASE ClientGoes(c)
  BY <1>2, <1>9 DEF ClientGoes, Was
<1>10. CASE Exec(c)
  <2>1. pc[c] = "forward" /\ worker[c] = "child"
    BY <1>10 DEF Exec, Typed, TypeOK
  <2> QED BY <2>1 DEF Forwarding
<1>11. CASE WorkerEnds(c)
  BY <1>11 DEF WorkerEnds
<1>12. CASE WorkerAborts(c)
  BY <1>12 DEF WorkerAborts, Typed, TypeOK
<1>13. CASE Spawn
  <2>1. worker' = worker /\ pc'[c] \in {pc[c], "connected"}
    BY <1>13 DEF Spawn, program, Typed, TypeOK
  <2> QED BY <1>2, <2>1 DEF Was
<1>14. CASE \/ Accept \/ TimeRead \/ TimeAnswer \/ TimeEnds \/ LoggerWrite \/ LoggerEnds
            \/ Fault \/ UNCHANGED vars
  BY <1>2, <1>14 DEF Accept, TimeRead, TimeAnswer, TimeEnds, LoggerWrite, LoggerEnds, Fault, vars,
     program, Typed, TypeOK, Was
<1> QED BY <1>2, <1>3, <1>4, <1>5, <1>6, <1>7, <1>8, <1>9, <1>10, <1>11, <1>12, <1>13, <1>14
    DEF Next, Handler, Client, Worker

\* Why the server is dead.
ServerCause ==
  \/ failed \cap {"stop", "time", "logger"} # {}
  \/ \E c \in Ids : KilledByClient(c) \/ KilledByWorker(c)

\* A dead server stays as it was when it died, and its last client's end too.
LEMMA CauseStays ==
  ASSUME Typed, ~ serverUp, ServerCause, [Next]_vars
  PROVE  ServerCause'
<1> USE ThreadKinds
<1>1. failed \subseteq failed'
  BY FaultsStay
<1>2. ASSUME NEW c \in Ids, NEW d \in Ids, Handler(d) \/ Client(d) \/ Worker(d)
      PROVE  /\ pc'[c] = pc[c]
             /\ conn[c] = "reset" => conn'[c] = "reset"
             /\ worker[c] = "done" => worker'[c] = "done"
  <2>1. ClientGoes(d) \/ Exec(d) \/ WorkerEnds(d) \/ WorkerAborts(d)
    BY <1>2 DEF Handler, Client, Worker, Greet, Serve, Open, Forward, Reply, Reap, Leave, ReadOption
  <2> QED BY <2>1 DEF ClientGoes, Exec, WorkerEnds, WorkerAborts, Typed, TypeOK
<1>3. ASSUME NEW c \in Ids, NEW t \in Threads, log_event(t)
      PROVE  /\ pc'[c] = pc[c] /\ conn' = conn
             /\ worker[c] = "done" => worker'[c] = "done"
  <2>1. pc'[c] = pc[c] /\ conn' = conn
    BY <1>3, LogEventMoves
  <2>2. worker' = worker \/ \E d \in Ids : worker' = [worker EXCEPT ![d] = "done"]
    BY <1>3, EventLogAssumption DEF log_event, Lock, RequestStamp, TakeStamp, WriteRecord, Unlock,
       Killed, program, At, Alive, Threads, Ids
  <2> QED BY <2>1, <2>2 DEF Typed, TypeOK
<1>4. ASSUME NEW c \in Ids
      PROVE  /\ pc'[c] = pc[c]
             /\ conn[c] = "reset" => conn'[c] = "reset"
             /\ worker[c] = "done" => worker'[c] = "done"
  <2>1. CASE \/ TimeRead \/ TimeAnswer \/ TimeEnds \/ LoggerWrite \/ LoggerEnds \/ Fault
             \/ UNCHANGED vars
    BY <2>1 DEF TimeRead, TimeAnswer, TimeEnds, LoggerWrite, LoggerEnds, Fault, vars, program
  <2>2. ~ Accept /\ ~ Spawn
    BY DEF Accept, Spawn
  <2> QED BY <1>2, <1>3, <2>1, <2>2 DEF Next
<1>5. CASE failed \cap {"stop", "time", "logger"} # {}
  BY <1>1, <1>5 DEF ServerCause
<1>6. ASSUME NEW c \in Ids, KilledByClient(c) \/ KilledByWorker(c) PROVE ServerCause'
  BY <1>1, <1>4, <1>6 DEF ServerCause, KilledByClient, KilledByWorker
<1> QED BY <1>5, <1>6 DEF ServerCause

\* The server dies by a fault of its own, by SIGPIPE at a helper that is gone, and
\* then the helper had a fault, or by SIGPIPE at a client or at a worker.
LEMMA ServerDies ==
  ASSUME Typed, Causes, serverUp, [Next]_vars, ~ serverUp'
  PROVE  ServerCause'
<1> USE ThreadKinds
<1>1. failed \subseteq failed' /\ (timeUp \/ "time" \in failed) /\ (loggerUp \/ "logger" \in failed)
  BY FaultsStay DEF Causes, EndsHaveCauses
<1>2. ASSUME NEW t \in Threads, log_event(t) PROVE ServerCause'
  <2>1. ~ timeUp \/ ~ loggerUp
    BY <1>2 DEF log_event, Lock, RequestStamp, TakeStamp, WriteRecord, Unlock, ups
  <2> QED BY <1>1, <2>1 DEF ServerCause
<1>3. ASSUME NEW c \in Ids, Greet(c) \/ Leave(c) \/ Reply(c) PROVE ServerCause'
  <2>1. \E p \in {"top", "disconnected", "completed"} : WriteToClient(c, p)
    BY <1>3 DEF Greet, Leave, Reply
  <2>2. conn[c] = "reset" /\ pc' = pc /\ conn' = conn
    BY <2>1, WriteCases
  <2>3. pc[c] # "greet"
    BY <2>2 DEF Causes, Ungreeted
  <2>4. KilledByClient(c)'
    BY <1>3, <2>2, <2>3 DEF KilledByClient, Greet, Leave, Reply
  <2> QED BY <2>4 DEF ServerCause
<1>4. ASSUME NEW c \in Ids, Forward(c) PROVE ServerCause'
  <2>1. pc[c] = "forward" /\ worker[c] = "done" /\ pc' = pc /\ worker' = worker
    BY <1>4 DEF Forward, program
  <2>2. "worker" \in failed
    BY <2>1 DEF Causes, Forwarding
  <2>3. KilledByWorker(c)'
    BY <1>1, <2>1, <2>2 DEF KilledByWorker
  <2> QED BY <2>3 DEF ServerCause
<1>5. CASE Fault
  BY <1>5 DEF Fault, ServerCause
<1>6. ASSUME NEW c \in Ids PROVE ~ (\/ Serve(c) \/ Open(c) \/ Reap(c) \/ ClientGoes(c) \/ Worker(c)
                                  \/ \E o \in Operations : ReadOption(c, o))
  BY DEF Serve, Open, Reap, ClientGoes, Worker, Exec, WorkerEnds, WorkerAborts, ReadOption, ups
<1>7. ~ (\/ Accept \/ Spawn \/ TimeRead \/ TimeAnswer \/ TimeEnds \/ LoggerWrite
         \/ LoggerEnds \/ UNCHANGED vars)
  BY DEF Accept, Spawn, TimeRead, TimeAnswer, TimeEnds, LoggerWrite, LoggerEnds, ups, vars
<1> QED BY <1>2, <1>3, <1>4, <1>5, <1>6, <1>7 DEF Next, Handler, Client

\* A helper ends by its own fault, or when nobody holds its pipe.
LEMMA HelperEnds ==
  ASSUME EndsHaveCauses, [Next]_vars
  PROVE  /\ ~ timeUp' => ~ serverUp' \/ "time" \in failed'
         /\ ~ loggerUp' => ~ serverUp' \/ "logger" \in failed'
<1>1. failed \subseteq failed' /\ (serverUp' => serverUp)
  BY FaultsStay
<1>2. CASE timeUp' = timeUp /\ loggerUp' = loggerUp
  BY <1>1, <1>2 DEF EndsHaveCauses
<1>3. CASE TimeEnds \/ LoggerEnds \/ Fault
  BY <1>1, <1>3 DEF TimeEnds, LoggerEnds, Fault, PipesHeld, EndsHaveCauses
<1>4. CASE \/ \E t \in Threads : log_event(t)
           \/ \E c \in Ids : Handler(c) \/ Client(c) \/ Worker(c)
           \/ Accept \/ Spawn \/ TimeRead \/ TimeAnswer \/ LoggerWrite \/ UNCHANGED vars
  <2>1. timeUp' = timeUp /\ loggerUp' = loggerUp
    BY <1>4 DEF log_event, Lock, RequestStamp, TakeStamp, WriteRecord, Unlock, Handler, Client,
       Worker, Greet, Serve, Open, Forward, Reply, Reap, Leave, ReadOption, ClientGoes, Exec,
       WorkerEnds, WorkerAborts, Accept, Spawn, TimeRead, TimeAnswer, LoggerWrite, ups, vars
  <2> QED BY <1>2, <2>1
<1> QED BY <1>3, <1>4 DEF Next

\* Every step keeps the causes.
LEMMA NextCauses == Typed /\ Causes /\ [Next]_vars => Causes'
<1> SUFFICES ASSUME Typed, Causes, [Next]_vars PROVE Causes'
  OBVIOUS
<1>1. Ungreeted' /\ Forwarding'
  BY NextUngreeted, NextForwarding DEF Causes
<1>2. ~ serverUp' => ServerCause'
  <2>1. CASE serverUp
    BY <2>1, ServerDies
  <2>2. CASE ~ serverUp
    BY <2>2, CauseStays DEF Causes, EndsHaveCauses, ServerCause
  <2> QED BY <2>1, <2>2
<1>3. EndsHaveCauses'
  BY <1>2, HelperEnds DEF Causes, EndsHaveCauses, ServerCause
<1> QED BY <1>1, <1>3 DEF Causes

\* The causes, for ever.
LEMMA AlwaysCauses == Spec => []Causes
BY InitCauses, NextCauses, AlwaysTyped, PTL DEF Spec

\* However many clients there are and whenever they go, whichever call of the
\* server fails and whichever worker dies, a helper goes by a fault of its own or
\* after the server, and the server by its own or a helper's, by a write to a
\* client that answered an earlier one with RST or closed unread, or by a request
\* to a worker that died after it had opened its FIFOs.
THEOREM EveryEndHasCause == Spec => []EndsHaveCauses
<1>1. Causes => EndsHaveCauses
  BY DEF Causes
<1> QED BY <1>1, AlwaysCauses, PTL

-----------------------------------------------------------------------------
(* The records, in the file and on their way to it *)

\* What an Append does to a sequence.
LEMMA Appended ==
  ASSUME NEW S, NEW q \in Seq(S), NEW e \in S
  PROVE  /\ Append(q, e) \in Seq(S)
         /\ 1 .. Len(Append(q, e)) = (1 .. Len(q)) \cup {Len(q) + 1}
         /\ Len(q) + 1 \notin 1 .. Len(q)
         /\ \A i \in 1 .. Len(q) : i < Len(q) + 1 /\ Append(q, e)[i] = q[i]
         /\ Append(q, e)[Len(q) + 1] = e
BY AppendProperties, LenProperties

\* What is left of a sequence without its head.
LEMMA Beheaded ==
  ASSUME NEW S, NEW q \in Seq(S), q # << >>
  PROVE  /\ Head(q) = q[1] /\ 1 \in 1 .. Len(q)
         /\ \A i \in 1 .. Len(Tail(q)) : i + 1 \in 2 .. Len(q) /\ Tail(q)[i] = q[i + 1]
BY HeadTailProperties, LenProperties, EmptySeq

\* The logger moves a record from the pipe to the file and changes no record.
LEMMA LoggerKeepsWritten ==
  ASSUME Typed, LoggerWrite
  PROVE  Written' = Written
<1>1. logPipe \in Seq(Records) /\ file \in Seq(Records) /\ logPipe # << >>
  BY DEF Typed, TypeOK, LoggerWrite
<1>2. /\ Head(logPipe) \in Records /\ Tail(logPipe) \in Seq(Records)
      /\ <<Head(logPipe)>> \o Tail(logPipe) = logPipe
  BY <1>1, HeadTailProperties
<1>3. file' = file \o <<Head(logPipe)>> /\ logPipe' = Tail(logPipe)
  BY <1>1, <1>2, AppendIsConcat DEF LoggerWrite
<1>4. <<Head(logPipe)>> \in Seq(Records)
  BY <1>2
<1>5. (file \o <<Head(logPipe)>>) \o Tail(logPipe) = file \o (<<Head(logPipe)>> \o Tail(logPipe))
  BY <1>1, <1>2, <1>4, ConcatAssociative
<1> QED BY <1>2, <1>3, <1>5 DEF Written

\* The record a thread would write.
Record(t) == [by |-> t, site |-> pc[t], stamp |-> got[t]]

\* A thread's write puts its record at the end.
LEMMA WriteAppends ==
  ASSUME Typed, NEW t \in Threads, WriteRecord(t), loggerUp
  PROVE  Record(t) \in Records /\ Written' = Append(Written, Record(t))
<1>1. Record(t) \in Records
  BY DEF Typed, TypeOK, WriteRecord, At, Records, Record
<1>2. logPipe \in Seq(Records) /\ file \in Seq(Records)
  BY DEF Typed, TypeOK
<1>3. logPipe' = Append(logPipe, Record(t)) /\ file' = file
  BY DEF WriteRecord, Record
<1>4. <<Record(t)>> \in Seq(Records)
  BY <1>1
<1>5. logPipe' = logPipe \o <<Record(t)>>
  BY <1>1, <1>2, <1>3, AppendIsConcat
<1>6. file \o (logPipe \o <<Record(t)>>) = (file \o logPipe) \o <<Record(t)>>
  BY <1>2, <1>4, ConcatAssociative
<1>7. file \o logPipe \in Seq(Records)
  BY <1>2, ConcatProperties
<1>8. Append(file \o logPipe, Record(t)) = (file \o logPipe) \o <<Record(t)>>
  BY <1>1, <1>7, AppendIsConcat
<1> QED BY <1>1, <1>3, <1>5, <1>6, <1>8 DEF Written

\* Written is a sequence of records.
LEMMA WrittenType == Typed => Written \in Seq(Records)
BY ConcatProperties DEF Typed, TypeOK, Written

\* Of the fields of a record.
LEMMA RecordType ==
  ASSUME Typed, NEW i \in 1 .. Len(Written)
  PROVE  /\ Written[i].by \in Threads /\ Written[i].site \in LogSites
         /\ Written[i].stamp \in Nat
<1>1. Written[i] \in Records
  BY WrittenType, ElementOfSeq
<1> QED BY <1>1 DEF Records

\* Nothing else touches the records.
LEMMA WrittenChanges ==
  ASSUME Typed, [Next]_vars
  PROVE  \/ Written' = Written
         \/ \E t \in Threads : WriteRecord(t) /\ loggerUp
<1>1. CASE LoggerWrite
  BY <1>1, LoggerKeepsWritten
<1>2. ASSUME NEW t \in Threads, log_event(t)
      PROVE  Written' = Written \/ (WriteRecord(t) /\ loggerUp)
  BY <1>2 DEF log_event, Lock, RequestStamp, TakeStamp, WriteRecord, Unlock, log, Written
<1>3. ASSUME NEW c \in Ids, Handler(c) \/ Client(c) \/ Worker(c) PROVE Written' = Written
  BY <1>3 DEF Handler, Client, Worker, Greet, Serve, Open, Forward, Reply, Reap, Leave, ReadOption,
     ClientGoes, Exec, WorkerEnds, WorkerAborts, log, Written
<1>4. CASE Accept \/ Spawn \/ TimeRead \/ TimeAnswer \/ TimeEnds \/ LoggerEnds \/ Fault
  BY <1>4 DEF Accept, Spawn, TimeRead, TimeAnswer, TimeEnds, LoggerEnds, Fault, log, Written
<1>5. CASE UNCHANGED vars
  BY <1>5 DEF vars, log, Written
<1> QED BY <1>1, <1>2, <1>3, <1>4, <1>5 DEF Next

-----------------------------------------------------------------------------
(* The timestamps under way *)

\* The threads that have read a timestamp and not written their record.
Writing == {t \in Threads : step[t] = "write"}

\* Timestamps come out of the pipe as they were produced, and what a thread has
\* read is older than what is still in the pipe, and nobody else's.
Stamps ==
  /\ \A i \in 1 .. Len(stamps) :
       /\ stamps[i] <= clock
       /\ \A j \in 1 .. Len(stamps) : i < j => stamps[i] < stamps[j]
  /\ \A t \in Writing :
       /\ got[t] <= clock
       /\ \A j \in 1 .. Len(stamps) : got[t] < stamps[j]
       /\ \A u \in Writing : got[t] = got[u] => t = u

\* What is known of a record's timestamp: it is older than those in the pipe, it
\* is nobody's who is about to write, and, when it is a server thread's, it is
\* older than that of the server thread inside.
RecordStamp(r) ==
  /\ r.stamp <= clock
  /\ \A j \in 1 .. Len(stamps) : r.stamp < stamps[j]
  /\ \A t \in Writing :
       /\ r.stamp # got[t]
       /\ {t, r.by} \subseteq ServerThreads => r.stamp < got[t]

Stamped ==
  /\ Stamps
  /\ \A i \in 1 .. Len(Written) : RecordStamp(Written[i])
  /\ StampsUsedOnce
  /\ ServerRecordsOrdered

\* Nobody takes, makes or writes a timestamp: a thread may only stop writing.
LEMMA StampsRest ==
  ASSUME Stamped, Writing' \subseteq Writing,
         UNCHANGED <<got, stamps, clock>>, Written' = Written
  PROVE  Stamped'
BY DEF Stamped, Stamps, RecordStamp, StampsUsedOnce, ServerRecordsOrdered

\* The time process answers: the newest timestamp goes to the end of the pipe.
LEMMA AnswerStamped ==
  ASSUME Typed, Stamped, TimeAnswer
  PROVE  Stamped'
<1>1. /\ clock \in Nat /\ clock' = clock + 1 /\ stamps' = Append(stamps, clock')
      /\ stamps \in Seq(Nat) /\ clock' \in Nat
      /\ got' = got /\ Writing' = Writing /\ Written' = Written
  BY DEF Typed, TypeOK, TimeAnswer, Writing, Written
<1>2. /\ 1 .. Len(stamps') = (1 .. Len(stamps)) \cup {Len(stamps) + 1}
      /\ \A i \in 1 .. Len(stamps) : i < Len(stamps) + 1 /\ stamps'[i] = stamps[i] /\ stamps[i] \in Nat
      /\ stamps'[Len(stamps) + 1] = clock' /\ Len(stamps) \in Nat
  BY <1>1, Appended, ElementOfSeq, LenProperties
<1>3. Stamps'
  <2>1. ASSUME NEW i \in 1 .. Len(stamps')
        PROVE  /\ stamps'[i] <= clock'
               /\ \A j \in 1 .. Len(stamps') : i < j => stamps'[i] < stamps'[j]
    <3>1. CASE i \in 1 .. Len(stamps)
      <4>1. stamps'[i] <= clock /\ stamps'[i] \in Nat
        BY <1>2, <3>1 DEF Stamped, Stamps
      <4> QED BY <1>1, <1>2, <3>1, <4>1 DEF Stamped, Stamps
    <3>2. CASE i = Len(stamps) + 1
      BY <1>1, <1>2, <3>2
    <3> QED BY <1>2, <3>1, <3>2
  <2>2. ASSUME NEW t \in Writing
        PROVE  /\ got[t] <= clock'
               /\ \A j \in 1 .. Len(stamps') : got[t] < stamps'[j]
               /\ \A u \in Writing : got[t] = got[u] => t = u
    <3>1. got[t] <= clock /\ got[t] \in Nat
      BY DEF Stamped, Stamps, Typed, TypeOK, Writing
    <3> QED BY <1>1, <1>2, <3>1 DEF Stamped, Stamps
  <2> QED BY <1>1, <2>1, <2>2 DEF Stamps
<1>4. ASSUME NEW i \in 1 .. Len(Written) PROVE RecordStamp(Written[i])'
  <2>1. RecordStamp(Written[i]) /\ Written[i].stamp \in Nat
    BY RecordType DEF Stamped
  <2> QED BY <1>1, <1>2, <2>1 DEF RecordStamp
<1> QED BY <1>1, <1>3, <1>4 DEF Stamped, StampsUsedOnce, ServerRecordsOrdered

\* A thread takes the oldest timestamp in the pipe, if there is one.
LEMMA TakeStamped ==
  ASSUME Typed, Holder, Stamped, NEW t \in Threads, TakeStamp(t)
  PROVE  Stamped'
<1>1. Written' = Written /\ clock' = clock
  BY DEF TakeStamp, Written
<1>2. CASE stamps = << >>
  <2>1. stamps' = stamps /\ got' = got /\ Writing' \subseteq Writing
    BY <1>2 DEF TakeStamp, Advance, Writing, Typed, TypeOK
  <2> QED BY <1>1, <2>1, StampsRest
<1>3. CASE stamps # << >>
  <2>1. /\ stamps \in Seq(Nat) /\ stamps' = Tail(stamps) /\ got' = [got EXCEPT ![t] = stamps[1]]
        /\ step' = [step EXCEPT ![t] = "write"] /\ step[t] = "stamp"
    BY <1>3, Beheaded DEF TakeStamp, Advance, Typed, TypeOK, At
  <2>2. /\ 1 \in 1 .. Len(stamps) /\ stamps[1] \in Nat
        /\ \A i \in 1 .. Len(stamps') :
             /\ i + 1 \in 1 .. Len(stamps) /\ 1 < i + 1
             /\ stamps'[i] = stamps[i + 1] /\ stamps[i + 1] \in Nat
    BY <1>3, <2>1, Beheaded, ElementOfSeq, LenProperties
  <2>3. /\ Writing' = Writing \cup {t} /\ t \notin Writing
        /\ got'[t] = stamps[1] /\ \A u \in Writing : got'[u] = got[u]
    BY <2>1 DEF Writing, Typed, TypeOK
  <2>4. \A u \in Writing \cap ServerThreads : t \notin ServerThreads
    BY <2>1 DEF Writing, Holder
  <2>5. Stamps'
    <3>1. ASSUME NEW i \in 1 .. Len(stamps')
          PROVE  /\ stamps'[i] <= clock
                 /\ \A j \in 1 .. Len(stamps') : i < j => stamps'[i] < stamps'[j]
      BY <2>2 DEF Stamped, Stamps
    <3>2. ASSUME NEW u \in Writing'
          PROVE  /\ got'[u] <= clock
                 /\ \A j \in 1 .. Len(stamps') : got'[u] < stamps'[j]
                 /\ \A v \in Writing' : got'[u] = got'[v] => u = v
      <4>1. CASE u = t
        BY <2>2, <2>3, <4>1 DEF Stamped, Stamps
      <4>2. CASE u # t
        <5>1. u \in Writing /\ got'[u] = got[u] /\ got[u] < stamps[1]
          BY <2>2, <2>3, <4>2 DEF Stamped, Stamps
        <5>2. got[u] \in Nat
          BY <5>1 DEF Typed, TypeOK, Writing
        <5> QED BY <2>2, <2>3, <5>1, <5>2 DEF Stamped, Stamps
      <4> QED BY <4>1, <4>2
    <3> QED BY <1>1, <3>1, <3>2 DEF Stamps
  <2>6. ASSUME NEW i \in 1 .. Len(Written) PROVE RecordStamp(Written[i])'
    <3>1. RecordStamp(Written[i]) /\ Written[i].stamp \in Nat
      BY RecordType DEF Stamped
    <3> QED BY <1>1, <2>2, <2>3, <3>1 DEF RecordStamp
  <2> QED BY <1>1, <2>5, <2>6 DEF Stamped, StampsUsedOnce, ServerRecordsOrdered
<1> QED BY <1>2, <1>3

\* A thread writes its record.
LEMMA WriteStamped ==
  ASSUME Typed, Holder, Stamped, NEW t \in Threads, WriteRecord(t), loggerUp
  PROVE  Stamped'
<1>1. /\ stamps' = stamps /\ clock' = clock /\ got' = got
      /\ step' = [step EXCEPT ![t] = "unlock"] /\ step[t] = "write"
  BY DEF WriteRecord, At, Advance
<1>2. Writing' = Writing \ {t} /\ t \in Writing
  BY <1>1 DEF Writing, Typed, TypeOK
<1>3. /\ Written \in Seq(Records) /\ Written' = Append(Written, Record(t))
      /\ Record(t).stamp = got[t] /\ Record(t).by = t
  BY WriteAppends, WrittenType DEF Record
<1>4. /\ 1 .. Len(Written') = (1 .. Len(Written)) \cup {Len(Written) + 1}
      /\ \A i \in 1 .. Len(Written) :
           /\ Written'[i] = Written[i] /\ RecordStamp(Written[i])
           /\ i < Len(Written) + 1 /\ Written[i].stamp \in Nat
      /\ Written'[Len(Written) + 1] = Record(t) /\ Len(Written) \in Nat
  <2>1. Record(t) \in Records
    BY WriteAppends
  <2>2. \A i \in 1 .. Len(Written) : RecordStamp(Written[i]) /\ Written[i].stamp \in Nat
    BY RecordType DEF Stamped
  <2> QED BY <1>3, <2>1, <2>2, Appended, LenProperties
<1>5. Stamps'
  BY <1>1, <1>2 DEF Stamped, Stamps
<1>6. ASSUME NEW i \in 1 .. Len(Written') PROVE RecordStamp(Written[i])'
  <2>1. CASE i \in 1 .. Len(Written)
    BY <1>1, <1>2, <1>4, <2>1 DEF RecordStamp
  <2>2. CASE i = Len(Written) + 1
    <3>1. \A u \in Writing \ {t} : ~ ({t, u} \subseteq ServerThreads)
      BY <1>2 DEF Writing, Holder
    <3> QED BY <1>1, <1>2, <1>3, <1>4, <2>2, <3>1 DEF RecordStamp, Stamped, Stamps
  <2> QED BY <1>4, <2>1, <2>2
<1>7. StampsUsedOnce'
  BY <1>2, <1>3, <1>4 DEF StampsUsedOnce, Stamped, RecordStamp
<1>8. ServerRecordsOrdered'
  BY <1>2, <1>3, <1>4 DEF ServerRecordsOrdered, Stamped, RecordStamp
<1> QED BY <1>5, <1>6, <1>7, <1>8 DEF Stamped

\* No timestamp was produced yet.
LEMMA InitStamped == Init => Stamped
BY DEF Init, Stamped, Stamps, Writing, Written, StampsUsedOnce, ServerRecordsOrdered

\* Every step keeps what is known of the timestamps.
LEMMA NextStamped == Typed /\ Holder /\ Stamped /\ [Next]_vars => Stamped'
<1> SUFFICES ASSUME Typed, Holder, Stamped, [Next]_vars PROVE Stamped'
  OBVIOUS
<1>1. CASE TimeAnswer
  BY <1>1, AnswerStamped
<1>2. ASSUME NEW t \in Threads, log_event(t) PROVE Stamped'
  <2>1. CASE TakeStamp(t)
    BY <2>1, TakeStamped
  <2>2. CASE WriteRecord(t) /\ loggerUp
    BY <2>2, WriteStamped
  <2>3. CASE Lock(t) \/ RequestStamp(t) \/ (WriteRecord(t) /\ ~ loggerUp) \/ Unlock(t)
    <3>1. Writing' \subseteq Writing
      BY <2>3 DEF Lock, RequestStamp, WriteRecord, Unlock, Advance, Writing, Typed, TypeOK
    <3>2. UNCHANGED <<got, stamps, clock>> /\ Written' = Written
      BY <2>3 DEF Lock, RequestStamp, WriteRecord, Unlock, log, Written
    <3> QED BY <3>1, <3>2, StampsRest
  <2> QED BY <1>2, <2>1, <2>2, <2>3 DEF log_event
<1>3. ASSUME NEW c \in Ids, Handler(c) \/ Client(c) \/ Worker(c) PROVE Stamped'
  <2>1. UNCHANGED <<step, got, stamps, clock>> /\ Written' = Written
    BY <1>3 DEF Handler, Client, Worker, Greet, Serve, Open, Forward, Reply, Reap, Leave, ReadOption,
     ClientGoes, Exec, WorkerEnds, WorkerAborts, log, Written
  <2> QED BY <2>1, StampsRest DEF Writing
<1>4. CASE LoggerWrite
  <2>1. UNCHANGED <<step, got, stamps, clock>> /\ Written' = Written
    BY <1>4, LoggerKeepsWritten DEF LoggerWrite
  <2> QED BY <2>1, StampsRest DEF Writing
<1>5. CASE Accept \/ Spawn \/ TimeRead \/ TimeEnds \/ LoggerEnds \/ Fault \/ UNCHANGED vars
  <2>1. UNCHANGED <<step, got, stamps, clock>> /\ Written' = Written
    BY <1>5 DEF Accept, Spawn, TimeRead, TimeEnds, LoggerEnds, Fault, vars, log, Written
  <2> QED BY <2>1, StampsRest DEF Writing
<1> QED BY <1>1, <1>2, <1>3, <1>4, <1>5 DEF Next

\* What is known of the timestamps, for ever.
LEMMA AlwaysStamped == Spec => []Stamped
BY InitStamped, NextStamped, AlwaysTyped, AlwaysHolder, PTL DEF Spec

-----------------------------------------------------------------------------
(* How far a handler is ahead of its last record *)

\* Between the write and the return of log_event the record is there already;
\* before the write the last record is still an earlier one.
RecordedOf(c) ==
  IF step[c] = "unlock" THEN LastIs(c, pc[c])
  ELSE \E site \in LastSite(c) : LastIs(c, site)

HelpersWell == failed \cap {"time", "logger"} = {}

Recorded == HelpersWell => \A c \in Ids : RecordedOf(c)

\* What the last record of a client's thread may be at the top of its loop.
TopSites ==
  {"connected", "completed", "error"} \cup (IF "input" \in Operations THEN {"received"} ELSE {})

\* LastSite, place by place.
LEMMA LastSites ==
  ASSUME NEW c, NEW p, pc[c] = p
  PROVE  /\ p \in {"connected", "none"} => LastSite(c) = {"nothing"}
         /\ p = "greet" => LastSite(c) = {"connected"}
         /\ p = "serve" => LastSite(c) = {"received"}
         /\ p \in {"exchange", "forward", "answer"} => LastSite(c) = {"created"}
         /\ p = "reap" => LastSite(c) = {"completed"}
         /\ p = "over" => LastSite(c) = {"disconnected"}
         /\ p \in {"created", "error"} => LastSite(c) = {"received"}
         /\ p = "completed" => LastSite(c) = {"created"}
         /\ p \in {"top", "received", "disconnected"} => LastSite(c) = TopSites
BY DEF LastSite, TopSites

\* The same of the next state.
LEMMA LastSitesNext ==
  ASSUME NEW c, NEW p, pc'[c] = p
  PROVE  /\ p \in {"connected", "none"} => LastSite(c)' = {"nothing"}
         /\ p = "greet" => LastSite(c)' = {"connected"}
         /\ p = "serve" => LastSite(c)' = {"received"}
         /\ p \in {"exchange", "forward", "answer"} => LastSite(c)' = {"created"}
         /\ p = "reap" => LastSite(c)' = {"completed"}
         /\ p = "over" => LastSite(c)' = {"disconnected"}
         /\ p \in {"created", "error"} => LastSite(c)' = {"received"}
         /\ p = "completed" => LastSite(c)' = {"created"}
         /\ p \in {"top", "received", "disconnected"} => LastSite(c)' = TopSites
BY DEF LastSite, TopSites

\* A handler that stays where it is keeps its last record, whoever else writes.
LEMMA OthersKeepRecorded ==
  ASSUME Typed, [Next]_vars, NEW c \in Ids, RecordedOf(c),
         pc'[c] = pc[c], (step'[c] = "unlock") <=> (step[c] = "unlock"),
         ~ (WriteRecord(c) /\ loggerUp)
  PROVE  RecordedOf(c)'
<1>1. LastSite(c)' = LastSite(c)
  BY DEF LastSite
<1>2. ASSUME NEW site, LastIs(c, site) PROVE LastIs(c, site)'
  <2>1. CASE Written' = Written
    BY <1>2, <2>1 DEF LastIs
  <2>2. CASE Written' # Written
    <3>1. PICK t \in Threads : WriteRecord(t) /\ loggerUp
      BY <2>2, WrittenChanges
    <3>2. /\ Written \in Seq(Records) /\ Record(t) \in Records
          /\ Written' = Append(Written, Record(t))
          /\ Record(t).by = t /\ t # c
      BY <3>1, WrittenType, WriteAppends DEF Record
    <3>3. /\ 1 .. Len(Written') = (1 .. Len(Written)) \cup {Len(Written) + 1}
          /\ \A i \in 1 .. Len(Written) : Written'[i] = Written[i]
          /\ Written'[Len(Written) + 1] = Record(t)
      BY <3>2, Appended
    <3>4. CASE site = "nothing"
      BY <1>2, <3>2, <3>3, <3>4 DEF LastIs
    <3>5. CASE site # "nothing"
      BY <1>2, <3>2, <3>3, <3>5 DEF LastIs
    <3> QED BY <3>4, <3>5
  <2> QED BY <2>1, <2>2
<1> QED BY <1>1, <1>2 DEF RecordedOf

\* A handler that has written its record has it as its last.
LEMMA WriteRecorded ==
  ASSUME Typed, NEW c \in Ids, WriteRecord(c), loggerUp
  PROVE  RecordedOf(c)'
<1>1. /\ step'[c] = "unlock" /\ pc' = pc /\ pc[c] \in LogSites
  BY ThreadKinds DEF WriteRecord, At, Advance, Typed, TypeOK
<1>2. /\ Written \in Seq(Records) /\ Record(c) \in Records
      /\ Written' = Append(Written, Record(c))
      /\ Record(c).by = c /\ Record(c).site = pc[c]
  BY ThreadKinds, WrittenType, WriteAppends DEF Record
<1>3. /\ 1 .. Len(Written') = (1 .. Len(Written)) \cup {Len(Written) + 1}
      /\ \A i \in 1 .. Len(Written) : Written'[i] = Written[i] /\ i < Len(Written) + 1
      /\ Written'[Len(Written) + 1] = Record(c) /\ Len(Written) \in Nat
  BY <1>2, Appended, LenProperties
<1>4. /\ Len(Written) + 1 \in 1 .. Len(Written')
      /\ \A j \in 1 .. Len(Written') : ~ (Len(Written) + 1 < j)
  BY <1>3
<1>5. LastIs(c, pc[c])'
  BY <1>1, <1>2, <1>3, <1>4 DEF LastIs, LogSites
<1> QED BY <1>1, <1>5 DEF RecordedOf

\* A handler that leaves log_event is where its last record says.
LEMMA UnlockRecorded ==
  ASSUME Typed, NEW c \in Ids, RecordedOf(c), Unlock(c)
  PROVE  RecordedOf(c)'
<1>1. /\ Written' = Written /\ LastIs(c, pc[c]) /\ pc[c] \in LogSites \ {"started"}
      /\ c \in Threads /\ ~ (c < 0)
  BY ThreadKinds, EventLogAssumption
     DEF Unlock, At, RecordedOf, Typed, Places, PlaceOf, log, Written, Ids
<1>2. step'[c] = "lock" /\ pc'[c] = After(c)
  BY <1>1 DEF Unlock, Advance, Typed, TypeOK
<1>3. pc[c] \in LastSite(c)'
  <2>1. CASE pc[c] = "received" /\ op[c] = "input"
    <3>1. "input" \in Operations
      BY <2>1 DEF Typed, TypeOK
    <3>2. pc'[c] = "top"
      BY <1>2, <2>1 DEF After
    <3>3. LastSite(c)' = TopSites
      BY <3>2, LastSitesNext
    <3> QED BY <2>1, <3>1, <3>3 DEF TopSites
  <2>2. CASE ~ (pc[c] = "received" /\ op[c] = "input")
    <3>1. pc'[c] = Continuation[pc[c]]
      BY <1>1, <1>2, <2>2 DEF After
    <3> QED BY <1>1, <3>1, Continues, LastSitesNext DEF LogSites, TopSites
  <2> QED BY <2>1, <2>2
<1>4. ASSUME NEW site, LastIs(c, site) PROVE LastIs(c, site)'
  BY <1>1, <1>4 DEF LastIs
<1>5. PICK site : site = pc[c]
  OBVIOUS
<1>6. site \in LastSite(c)' /\ LastIs(c, site)'
  BY <1>1, <1>3, <1>4, <1>5
<1> QED BY <1>2, <1>6 DEF RecordedOf

\* A handler out of log_event that goes on does so without writing.
LEMMA MoveRecorded ==
  ASSUME Typed, NEW c \in Ids, RecordedOf(c), pc[c] \notin LogSites,
         step' = step, Written' = Written, LastSite(c) \subseteq LastSite(c)'
  PROVE  RecordedOf(c)'
<1>1. step[c] # "unlock"
  BY DEF Typed, Places, PlaceOf
<1>2. ASSUME NEW site, LastIs(c, site) PROVE LastIs(c, site)'
  BY <1>2 DEF LastIs
<1> QED BY <1>1, <1>2 DEF RecordedOf

\* A thread that writes to its client writes no record.
LEMMA WriterRecorded ==
  ASSUME Typed, NEW c \in Ids, RecordedOf(c), NEW p \in {"top", "disconnected", "completed"},
         WriteToClient(c, p) \/ pc' = [pc EXCEPT ![c] = p],
         step' = step, Written' = Written,
         \/ pc[c] = "greet" /\ p = "top"
         \/ pc[c] = "top" /\ p = "disconnected"
         \/ pc[c] = "answer" /\ p = "completed"
  PROVE  RecordedOf(c)'
<1>1. pc'[c] = pc[c] \/ pc'[c] = p
  BY WriteCases, ThreadKinds DEF Typed, TypeOK
<1>2. LastSite(c) \subseteq LastSite(c)'
  BY <1>1, LastSites, LastSitesNext DEF TopSites
<1> QED BY <1>2, MoveRecorded DEF LogSites

\* A handler, its client or its worker elsewhere: nobody writes or moves it.
LEMMA RestRecorded ==
  ASSUME Typed, NEW c \in Ids, RecordedOf(c),
         pc'[c] = pc[c], step' = step, Written' = Written
  PROVE  RecordedOf(c)'
<1>1. \A site : LastIs(c, site) => LastIs(c, site)'
  BY DEF LastIs
<1> QED BY <1>1 DEF RecordedOf, LastSite

\* The step of a handler in its loop, or of its client.
LEMMA HandlerRecorded ==
  ASSUME Typed, NEW c \in Ids, RecordedOf(c), Handler(c) \/ Client(c)
  PROVE  RecordedOf(c)'
<1>1. step' = step /\ Written' = Written
  BY DEF Handler, Client, Greet, Serve, Open, Forward, Reply, Reap, Leave, ReadOption, ClientGoes,
     log, Written
<1>2. CASE Greet(c) \/ Leave(c) \/ Reply(c)
  BY <1>1, <1>2, WriterRecorded DEF Greet, Leave, Reply
<1>3. CASE Serve(c) \/ Open(c) \/ Reap(c) \/ \E o \in Operations : ReadOption(c, o)
  <2>1. \/ pc[c] = "serve" /\ pc'[c] \in {"created", "error"}
        \/ pc[c] = "exchange" /\ pc'[c] = "forward"
        \/ pc[c] = "reap" /\ pc'[c] = "top"
        \/ pc[c] = "top" /\ pc'[c] = "received"
    BY <1>3, ThreadKinds DEF Serve, Open, Reap, ReadOption, Typed, TypeOK
  <2>2. LastSite(c) \subseteq LastSite(c)'
    BY <2>1, LastSites, LastSitesNext DEF TopSites
  <2> QED BY <1>1, <2>1, <2>2, MoveRecorded DEF LogSites
<1>4. CASE Forward(c)
  <2>1. pc[c] = "forward" /\ pc'[c] \in {"forward", "answer"}
    BY <1>4, ThreadKinds DEF Forward, Typed, TypeOK
  <2>2. LastSite(c) \subseteq LastSite(c)'
    BY <2>1, LastSites, LastSitesNext
  <2> QED BY <1>1, <2>1, <2>2, MoveRecorded DEF LogSites
<1>5. CASE ClientGoes(c)
  BY <1>1, <1>5, RestRecorded DEF ClientGoes
<1> QED BY <1>2, <1>3, <1>4, <1>5 DEF Handler, Client

\* A handler whose thread is made has no record, and will log "connected".
LEMMA SpawnRecorded ==
  ASSUME Typed, NEW c \in Ids, RecordedOf(c), Spawn
  PROVE  RecordedOf(c)'
<1>1. step' = step /\ Written' = Written /\ c \in Threads \ {Main} /\ PlaceOf(c)
  BY ThreadKinds DEF Spawn, log, Written, Typed, Places
<1>2. pc'[c] = pc[c] \/ (pc[c] = "none" /\ pc'[c] = "connected")
  BY <1>1 DEF Spawn, Typed, TypeOK, PlaceOf
<1>3. CASE pc'[c] = pc[c]
  <2>1. \A site : LastIs(c, site) => LastIs(c, site)'
    BY <1>1 DEF LastIs
  <2> QED BY <1>1, <1>3, <2>1 DEF RecordedOf, LastSite
<1>4. CASE pc[c] = "none" /\ pc'[c] = "connected"
  BY <1>1, <1>4, LastSites, LastSitesNext, MoveRecorded DEF LogSites
<1> QED BY <1>2, <1>3, <1>4

\* No handler has a record before its client is there.
LEMMA InitRecorded == Init => Recorded
<1> SUFFICES ASSUME Init, NEW c \in Ids PROVE RecordedOf(c)
  BY DEF Recorded
<1>1. step[c] = "lock" /\ pc[c] = "none" /\ Written = << >>
  BY ThreadKinds DEF Init, Written
<1>2. LastSite(c) = {"nothing"}
  BY <1>1, LastSites
<1> QED BY <1>1, <1>2 DEF RecordedOf, LastIs

\* Every step keeps the handlers' records up to date, while the helpers are well.
LEMMA NextRecorded ==
  Typed /\ EndsHaveCauses /\ Recorded /\ [Next]_vars => Recorded'
<1> SUFFICES ASSUME Typed, EndsHaveCauses, Recorded, [Next]_vars,
                    HelpersWell', NEW c \in Ids
             PROVE  RecordedOf(c)'
  BY DEF Recorded
<1>1. failed \subseteq failed'
  BY FaultsStay
<1>2. RecordedOf(c) /\ (serverUp => timeUp /\ loggerUp)
  BY <1>1 DEF Recorded, HelpersWell, EndsHaveCauses
<1>3. c \in Threads /\ c # Main /\ -c # c /\ c >= 0
  BY ThreadKinds, EventLogAssumption DEF Ids
<1> DEFINE Stays == /\ pc'[c] = pc[c]
                    /\ (step'[c] = "unlock") <=> (step[c] = "unlock")
                    /\ ~ (WriteRecord(c) /\ loggerUp)
<1>4. Stays => RecordedOf(c)'
  BY <1>2, OthersKeepRecorded
<1>5. CASE step' = step /\ pc'[c] = pc[c]
  <2>1. ~ (WriteRecord(c) /\ loggerUp)
    BY <1>3, <1>5 DEF WriteRecord, At, Advance, Typed, TypeOK
  <2> QED BY <1>4, <1>5, <2>1
<1>6. CASE log_event(c)
  <2>1. serverUp /\ timeUp /\ loggerUp
    BY <1>2, <1>3, <1>6 DEF log_event, Lock, RequestStamp, TakeStamp, WriteRecord, Unlock, At, Alive
  <2>2. CASE Lock(c) \/ RequestStamp(c) \/ TakeStamp(c)
    <3>1. Stays
      BY <1>3, <2>1, <2>2 DEF Lock, RequestStamp, TakeStamp, WriteRecord, At, Advance, Typed, TypeOK
    <3> QED BY <3>1, <1>4
  <2>3. CASE WriteRecord(c)
    BY <2>1, <2>3, WriteRecorded
  <2>4. CASE Unlock(c)
    BY <1>2, <2>4, UnlockRecorded
  <2> QED BY <1>6, <2>2, <2>3, <2>4 DEF log_event
<1>7. ASSUME NEW t \in Threads \ {c}, log_event(t) PROVE RecordedOf(c)'
  <2>1. pc'[c] = pc[c] /\ step'[c] = step[c]
    BY <1>3, <1>7 DEF log_event, Lock, RequestStamp, TakeStamp, WriteRecord, Unlock, Advance,
       Typed, TypeOK
  <2>2. ~ (WriteRecord(c) /\ loggerUp)
    BY <1>3, <2>1 DEF WriteRecord, At, Advance, Typed, TypeOK
  <2> QED BY <1>4, <2>1, <2>2
<1>8. CASE Handler(c) \/ Client(c)
  BY <1>2, <1>8, HandlerRecorded
<1>9. ASSUME NEW d \in Ids, d # c, Handler(d) \/ Client(d) PROVE RecordedOf(c)'
  <2>1. pc'[c] = pc[c]
    BY <1>9, OthersAlone
  <2>2. step' = step
    BY <1>9 DEF Handler, Client, Greet, Serve, Open, Forward, Reply, Reap, Leave, ReadOption,
       ClientGoes
  <2> QED BY <1>5, <2>1, <2>2
<1>10. ASSUME NEW d \in Ids, Worker(d) PROVE RecordedOf(c)'
  <2>1. step' = step /\ pc'[c] = pc[c]
    BY <1>3, <1>10, ThreadKinds DEF Worker, Exec, WorkerEnds, WorkerAborts, Typed, TypeOK
  <2> QED BY <1>5, <2>1
<1>11. CASE Spawn
  BY <1>2, <1>11, SpawnRecorded
<1>12. CASE Accept
  <2>1. step' = step /\ pc'[c] = pc[c]
    BY <1>3, <1>12 DEF Accept, Typed, TypeOK
  <2> QED BY <1>5, <2>1
<1>13. CASE \/ TimeRead \/ TimeAnswer \/ TimeEnds \/ LoggerWrite \/ LoggerEnds \/ Fault
            \/ UNCHANGED vars
  <2>1. step' = step /\ pc' = pc
    BY <1>13 DEF TimeRead, TimeAnswer, TimeEnds, LoggerWrite, LoggerEnds, Fault, vars
  <2> QED BY <1>5, <2>1
<1> QED BY <1>6, <1>7, <1>8, <1>9, <1>10, <1>11, <1>12, <1>13 DEF Next

\* The handlers' records, for ever.
LEMMA AlwaysRecorded == Spec => []Recorded
<1>1. Causes => EndsHaveCauses
  BY DEF Causes
<1> QED BY <1>1, InitRecorded, NextRecorded, AlwaysTyped, AlwaysCauses, PTL DEF Spec

-----------------------------------------------------------------------------

\* Every variable of the server, its helpers and the children forked keeps its
\* type, however many clients there are.
THEOREM TypeCorrect == Spec => []TypeOK
BY AlwaysTyped, PTL DEF Typed

\* No two records of server.log carry the same answer of the time process, also
\* when children log at the same time and the time process dies at any moment.
THEOREM OneStampEach == Spec => []StampsUsedOnce
<1>1. Stamped => StampsUsedOnce
  BY DEF Stamped
<1> QED BY <1>1, AlwaysStamped, PTL

\* The server's own threads are in server.log in the order of their timestamps.
THEOREM RecordsInOrder == Spec => []ServerRecordsOrdered
<1>1. Stamped => ServerRecordsOrdered
  BY DEF Stamped
<1> QED BY <1>1, AlwaysStamped, PTL

\* While both helpers live, no handler runs ahead of its events: the last record
\* of each in the file or the pipe is the one of the place it has come to.
THEOREM LogUpToDate == Spec => []LogKeepsUp
<1>1. Typed /\ Recorded => LogKeepsUp
  BY DEF Recorded, RecordedOf, HelpersWell, LogKeepsUp, InLogEvent
<1> QED BY <1>1, AlwaysTyped, AlwaysRecorded, PTL

=============================================================================
