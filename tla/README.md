# A TLA+ specification of MatrixManipulationSystem

The repository holds two things: a client/server system that multiplies,
transposes and averages matrices (`src/Server_Client_Codes`), and the batch
programs it grew out of, which compute the same three operations sequentially,
with processes and with threads. This directory specifies both: modules that
are translated from the C code, TLC configurations that check them on small
instances, and TLAPS proofs of what matters most for every instance.

## The system

| part | code | its state | its operations | talks to |
|---|---|---|---|---|
| client | `clinet.c` | dimensions, two matrices, the menu | fill, ask for service 1..6, exit (-1) | handler, by a TCP connection |
| client handler, a detached thread per client | `server.c` `handle_client` | option, dimensions and matrices of the request, two FIFO names, the worker's pid | one `case` per service | client; worker, by two FIFOs; `log_event` |
| server main | `server.c` `main` | `next_client_id`, ends of three pipes | start the helpers, accept, start a handler | clients, helpers |
| worker, a process per request | `multiplication_worker.c`, `transposition_worker.c`, `average_worker.c` | dimensions, matrix, result | open, read, compute, write, exit | handler |
| thread pool of a worker | same files | threads, chunks, a mutex, the result or the sum | create, join; lock, store, unlock | shared memory |
| event log | `logger_utils.c` | `log_mutex` | `log_event` | time process, logger, by pipes |
| logger, time process | `logger.c`, `time_process.c` | `server.log`; none | read and append; answer with the time | server's threads and their forked children |
| thread program | `thread_based_concurrency_taskLevel.c` | two matrices, three operation threads with a pool each | create, join, free | shared memory |
| process program | `process_based_parallelism_taskLevel_IPC.c` | three children with a pool of children each, a pipe for every child | fork, read, wait | pipes |
| process program, part B | `process_based_parallelism_taskLevel_IPC_B.c` | the same, a second matrix over a fourth pipe, a block that `realloc` moves | the same, add a row, transpose again | pipes |
| process programs without pipes | `process_based_parallelism.c`, `process_based_parallelism_taskLevel.c` | two levels of children, a stdio buffer each | fork, wait, print | their output |
| user-input programs | `user_input_versions/*.c` | three numbers from `argv` | the three operations | |
| search daemon | `scripts/search_logs.sh` | a worker, its pid in a file, two FIFOs | start, query, stop | FIFOs |

What makes these hard, and what would make them right:

* **Client, handler and worker** exchange words with no framing through four
  programs and ignore what nearly every `read` and `write` returns. They are
  right when a request is answered with its own result and -1 ends the session,
  when a request leaves no FIFO or worker behind for the next, which uses the
  same names, and when neither a dead client nor a failing worker ends the
  server. Matrices that do not fit a FIFO, services 3 and 5, and failures are
  where this is at risk.
* **The event log** is one mutex around a conversation with two other
  processes, in a program that forks while its threads run. It is right when
  every thread's events are in the log in order, with a timestamp of their own,
  when no thread or child waits for ever, and when the helpers do not survive the
  server. Every `write` in it, to a helper, a client or a worker, may raise
  SIGPIPE, and then everybody's handlers go: right is that it takes one of a few
  causes.
* **Thread pools** share a result or a sum. They are right when every cell or
  word is computed once, nothing is lost to another thread, and no thread
  outlives the call whose stack it uses.
* **Several clients** share the server's descriptor table, and their workers
  inherit copies of it. They are right when nobody's request waits for
  another's worker, and when only the leak of the multiplications, which never
  close their FIFOs, can fill the table.
* **The programs without pipes** tell each other nothing, but print times and
  fork with text in their buffers. They are right when a time is taken after
  everybody has computed and every line is there once.
* **The search daemon** and its scripts meet on two FIFOs with nothing to keep
  two of them apart.
* **The user-input programs** do the same by loops and by tasks, and promise the
  same answers for whatever three numbers are typed.
* **Process pools** share nothing but descriptors. They are right when a chunk
  is neither lost nor taken for another's, no child and no descriptor is left,
  and the parent waits for no child that is gone.

Every hazard is listed with its line and the properties that watch it in
`PROJECT.json`.

## The modules

| module | models | state ↔ code |
|---|---|---|
| `Matrices` | the three operations as functions; `calloc` and short `read` (`Padded`) | `arr[i]` is `m[i + 1]` |
| `MatrixService` | abstract specification: fill, ask, be answered rightly, leave | what a user sees of `clinet.c` |
| `Session` | one client, its handler, one worker, system call by system call | `cpc`, `hpc`, `wpc` are places in the three programs; `c2s`, `s2c`, `req`, `rsp` what is under way; `outbox`, `hout`, `wout` the `write()`s not yet made, `inputs`, `winputs` the `read()`s; `reg`, `wreg` the dimensions and matrices read; `fifos`, `opened` the FIFOs; `cause` is a history variable |
| `Chunks`, `MatrixTasks` | how tasks are cut into chunks; where each is stored, and what | `firstTask`, `lastTask`, `workerCount`, `outputIndex`, `value` |
| `TaskPool` | pool of the multiplication and the transposition workers | `tpc[w]`, `next[w]` a thread and its index, `mutex` its holder, `created`, `joined` the caller's loops |
| `AverageTasks` | pool of the average worker | `totalSum`, `partialSum` and `register` say how often each word is counted, so that a lost update is visible whatever the words are |
| `EventLog` | server main, handlers, forked children, `log_event`, time process, logger; clients that go, workers that die, and the SIGPIPE of the writes to them | `step[t]` is the place in `log_event`; thread `-c` is the child handler `c` forked, until it execs; `conn[c]` is the client's end of its connection, `worker[c]` its worker |
| `Descriptors` | the server and several handlers, each with a worker per request: who has which file open | `table` the server's descriptors, `held[c]` what the worker of `c` inherited, `asked`, `sent` where the request is; `refused` is a history variable |
| `Pool` | abstract specification of a pool: cells arrive in any order, then the matrix is returned, or the call gives up | what a caller sees of `matrixMultipication` and `matrixTransposition` |
| `ProcessPool`, `ProcessAverage` | process pools of multiplication, transposition, average | `readEnd` and `refersTo` are descriptors and what they stand for; `child` and `pipe` one per worker |
| `OperationThreads` | main of both thread programs, with pools and without (`pools`) | `operation[o]`, `thread[o][w]`, `freed` |
| `OperationProcesses` | main of the process program | `pipe[o]` words in a pipe, `Writers(o)` who still holds its end |
| `OperationProcessesB` | main of part B, its children and their pools as holders of its pipes | `dims` what main has read of a struct's dimensions, `pipe[p]` parts in a pipe, `matrix[p]` in its writer's memory, `block` what `realloc` made of it |
| `ProcessTree` | the two process programs without pipes | `place[o]`, `worker[o][w]` where a process is, `buffer` and `inherited` its unwritten lines, `printed` the output |
| `UserInput` | the three user-input programs, which are also the sequential ones | `arguments`, `answer[p][operation]`; `Outside` the accesses past a block |
| `SearchDaemon` | `start_daemon`, `query_daemon`, `stop_daemon` and the worker | `fifo` what the two paths name, `pidFile`, `unwritten` the starts that have yet to write it, `requests` and `responses` what is in a FIFO |

`MCSession`, `MCTaskPool` and `MCProcessPool` give an instance to TLC.
`MCOperations`, `MCAverage` and `MCDescriptors` give it several: programs that
never meet, of which each behaviour runs one, chosen in the initial state, with
the same properties asked of all that they are about. `MCOperations` has the
four programs that run the three operations side by side (`OperationThreads`,
`OperationProcesses`, `OperationProcessesB`, `ProcessTree`), `MCAverage` what
computes an average (`AverageTasks`, `ProcessAverage`, `UserInput`), and
`MCDescriptors` the two daemons (`Descriptors`, and `SearchDaemon` with one start
and with two).

`MatrixTasksProofs`, `TaskPoolProofs`, `AverageTasksProofs`, `ProcessPoolProofs`,
`OperationThreadsProofs`, `EventLogProofs`, `DescriptorsProofs` and
`SessionProofs` hold the proofs. A definition with the comment `Mutant:` is not part of a model: it is the next definition with a
plausible bug, under which a property is known to fail.

How they fit: `Session` takes a worker's computation as one step with the right
result or, when a thread cannot be created, none; `TaskPool` and `AverageTasks`
show that the pool does just that. `Session` leaves logging out; `EventLog`
leaves the requests' data out, and has many handlers where `Session` has one.
That a client's going can end the server is in both: `Session` has the words of
the answer it did not read, `EventLog` what becomes of the others.
`Descriptors` has many handlers too, with a request and its answer as one
message each, and what they cost the server.
`OperationThreads` and `OperationProcesses` do the same with the pools of the
batch programs. `ProcessPool` and `TaskPool` share `MatrixTasks`, and so are
checked against one definition of the results. Both implement `Pool`: with
threads all cells arrive or the call gives up, with processes the cells of a
child that failed may be missing (`Partial`). `UserInput` takes an operation as
one step and computes by the loops and by the tasks, so that the programs can be
compared with each other.

### Choices that hold throughout

* One action is one system call or one step on shared memory; code between two
  of them touches nothing another process can see.
* A `read` returns what is there, at most what it asked for. A `write` to a
  connection reaches the peer in segments of `SegCap` words, one to a FIFO or
  pipe fills what room there is and goes on later. A write nobody can read
  raises SIGPIPE, which no program handles: it ends the process.
* Words are 32 bits wide in the code; the matrices of the runs are far from
  overflow and the models use integers. Sums of `int` (`value`) of the largest
  matrices users can type could overflow; that is not modelled.
* A draw of `rand()` is one fixed matrix with distinct words: nothing depends on
  the words except which of them arrive where.
* An average travels as its sum and count. Rounding is not modelled.
* A double is two words, a record of the log is one: it is below PIPE_BUF, so
  its writes and reads are whole.
* The clock's readings are numbered, since nothing compares them.

## The runs

Bounds are the constants of each configuration. Words and records are small in
number because properties tell only their order and completeness apart; chunk
sizes of 2 to 4 instead of 100 give full, short and single-task chunks; two
clients are the smallest number that can disturb each other, and a forked child
makes three parties of them.

| run | what it asks | bounds |
|---|---|---|
| `SessionSafe` | does the session refine `MatrixService`, does -1 end it, and does the handler of a client killed at any moment end | 4 choices, three shapes, one of them empty, services 1, 2, 4, 6, 7, everything fits |
| `SessionFaults` | safety with all services and all five faults | 3 choices, a fourth shape of 9 words with a FIFO of 10 and segments of 8 |
| `TaskPool` | does the thread pool implement `Pool`, for both operations, where a thread may fail to start | 2 x 3 cells in chunks of 4 and 2 |
| `ProcessPool` | the same of the process pools, with failing pipe, fork and child; what is left after the call | 2 x 3 cells, 3 children of 2 |
| `Average` | whose words are in an average and what it is divided by, in threads and in processes, and in three programs given the same arguments | 11 words in chunks of 4, 4 and 3, so that the last is neither full nor half full; -2 .. 3 for each argument, ints of 6 bits, and 8 cells for the largest matrix that can be had, so that 3 x 3 cannot |
| `EventLogOne` | liveness of the log, end of the helpers, what it takes to end the server or a helper | 1 client, 2 requests, pipe of one record, any operation; every fault: failing `pthread_create`, `mkfifo`, `fork` and `execl`, a helper or a worker that dies, a client that goes, a server that is stopped |
| `EventLogSafe` | order, use of timestamps and progress with a child that logs, when a helper may die at any moment | 2 clients, 1 request, pipe of two records, any operation; failing `pthread_create`, `mkfifo`, `fork`, either helper |
| `Operations` | joins, waits, pipes and output of the four programs with three operations; any thread may fail to start, any child die | 3 operations of 2 threads; pipes of 5 words for results of 5 and of 7; a product of 2 x 2 in chunks of 3 and 1; 1, 1 and 2 workers, on a terminal and into a file |
| `Descriptors` | a full descriptor table, workers that hold each other's files, a server that ends at any moment; queries and a stop of the search daemon that overlap and are interrupted | 2 clients of 2 requests, 7 descriptors: one more than they need; 2 queries with 1 start, 1 query with 2 starts that may be interrupted, and a stop |

One request is enough in `EventLogSafe`: the other client meanwhile connects,
logs and leaves, so that main, two handlers and a child are in `log_event`
against each other. `EventLogOne` has the second request, after a first worker.
A client that goes, a failing `execl` and a worker that dies are left to
`EventLogOne`: each multiplies the states, and none changes whose records come
in what order or with what timestamp. The proofs have all faults at once, any
number of clients and any number of requests.

Deadlock is not checked: all the modelled programs end, and a server whose
clients do not speak waits. Waits that should not be for ever are the liveness
properties instead, and `HangHasCause`.

Two properties ask one thing of several programs. `PoolsReturn`: a pool for the
average returns, of threads or of processes. `Ends`: main of whichever program
runs comes to its end. `OutputIsRight` counts a line of output up to two
(`Often`): no property asks for more. The search daemon is run with two queries
and one start, and with one query and two starts, since it is the second query
that can take an answer and the second start that can lose a worker; both
together, and more of each, are in the proofs.

`HangHasCause`, `RightAnswer` and `ServerSurvives` name the causes under which
their hazard does occur; that list is the finding of the run, and everything
left off it (a failing thread, a killed client, and so on) is shown not to be
one. The history variable `cause` only records them and is in no guard.

### Where code and intent differ

Three runs check a property the code breaks; TLC prints the behaviour.

* `SessionUnavailable`: services 3 and 5 send an option and no matrices, the
  server reads matrices for it. The -1 typed next is read as a dimension, and
  the client waits for ever for its echo (`clinet.c:221`, `261`;
  `server.c:322`).
* `EventLogFork`: for services 2 and 4 the child logs before it execs. Forked
  while another thread is in `log_event`, it has a locked mutex nobody will
  unlock; the log says its worker was started (`server.c:280`).
* `ProcessAverageWrong`: the last child of the process program sends the number
  of words missing from its chunk for the number it has
  (`process_based_parallelism_taskLevel_IPC.c:344`). The test program's six
  words with four per child hide it: half a chunk is missing, half is there.

`SessionFaults` shows one more, as the cause "overflow" in `RightAnswer` and
`HangHasCause`: a matrix larger than a FIFO is read short, since no caller looks
at what `read` returned, and the request is answered wrongly or not at all
(`server.c:207`, `multiplication_worker.c:205`), although
`test_server_performance.sh` takes any dimensions.

Others were met outside the models: `test_server_performance.sh` runs `clinet`
where `setup_enviroment.sh` builds `client`; it builds `logger_process` where
the server execs `./logger`; `verify_result.sh:5-7` announces a cross-check with
the log the script does not make; and
`process_based_parallelism_taskLevel.c:178-188` uses a task's number as a row.

### Fairness

Weak fairness of each process, and of each thread where there are several: the
operating system runs everything that can run. It is given to the next step of
a process, never to a choice: a user need not type, a client need not connect
nor leave, nothing need fail, nobody need be killed. A worker that has all it
needs comes to its end (`WorkerEnds`); that it gives up before (`WorkerAborts`)
need not happen. The pool's mutex gets no strong
fairness, for each thread takes it a bounded number of times. In `EventLog` the
same holds within the bounds on clients and requests: other threads make
finitely many calls, so weak fairness of every thread lets each in at last. A
server with clients that never stop asking would need a fair mutex.

`Descriptors` gives weak fairness to every handler that has a request and to
every worker. Accepting, asking and leaving are choices of clients, and get
none; the end of the server is a signal, which need not come. `SearchDaemon`
gives it to workers and scripts that were begun; a user need not begin one, nor
interrupt it. `Pool` itself is fair to the return of the call, which the pools'
fairness of threads, children and parent implements.

`Operations` assumes less: as long as any thread or process of the program can
go on, some one of them does. None of these programs can take a step twice, so
that this is enough for the end of main, unless processes wait for each other
in a circle; that is what `Ends` excludes.

In `EventLog` the history variable `failed` records which processes ended by a
fault of their own; like `cause` it is in no guard, and lets a run state what
holds until a helper dies, and `EndsHaveCauses` who ended whom.

## The proofs

All are safety properties, `Spec => []P`, or `Spec => [][A]_vars`. The constants
are arbitrary up to the named assumptions: any number of tasks, any positive
chunk size, any dimensions with `Total = Rows * Columns`, integer words, any
number of clients, any faults.

* **Chunks and tasks** (`MatrixTasksProofs`): every task is in
  the chunk of exactly one worker; `outputIndex` maps tasks one to one to cells;
  a result that has every task's value at its place is the product or the
  transposed matrix of the sequential program.
* **TaskPool**: `Inductive` adds to the type invariant that threads are created
  and joined in order (`Started`), that a matrix is returned only after all of
  them (`Returned`), that a thread stays in its chunk (`Position`), that what it
  went through is in the result to stay (`Stored`). `EveryTaskStored` alone is not inductive: it says nothing before
  the call returns, and it is `Stored`, with the one-to-one `outputIndex`, that
  survives the stores of the other threads. `ResultIsRight` follows with the
  lemma on complete results.
* **AverageTasks**: `Inductive` says what each thread has added up (`Partial`),
  that what it loaded from the shared sum is still current (`Current`, the heart
  of it: true only of the thread that holds the mutex) and which chunks the sum
  has (`Counted`).
* **ProcessAverage**: `InOrder` says that main forks and reads the children in
  order, so that those below the one it reads are `Settled` (in the sum, or gone
  without an average), `Sent` what a child has sent by where it is, the last one
  its number of words before its average. That the count is off by exactly what
  the last chunk is from half full follows from `SameChunks` (all chunks but the
  last are of one size) and `LastIsRest`. When the last chunk is full the number
  sent is uninitialised, and neither run nor theorem says anything of the count.
* **EventLog**: for who is inside `log_event` a small invariant is enough: a server
  thread inside holds the mutex (`Holder`). Who ends whom (`EndsHaveCauses`) needs
  that no connection is reset before the greeting, the first `write` to it
  (`Ungreeted`), and that a request is forwarded to a worker that runs, or that
  died of a fault (`Forwarding`): so the greeting, the first write after a client
  went, never ends the server, and a worker only by dying while it is written to.
  What is in the log needs three more. `Places` says where the threads
  can be, a child at the number below its handler's. `Stamped` follows a reading of
  the clock: those in the pipe of the time process
  increase and are later than any in the hands of a thread or in a record; two
  threads never hold the same; and the one held by a thread of the server is
  later than every record of the server's threads, which is so because that
  thread alone holds the mutex. `Recorded`
  says that a thread past an event has written the record of it (`RecordedOf`, at
  every step inside `log_event`), of which `LogKeepsUp` is the part that holds
  outside.
* **OperationThreads**: `PoolsJoined` (an operation that ended has joined every
  thread it created) and `OperationsJoined` (main frees after the third join or
  gives up) make `FreedWhenDone` inductive. `NeverStuck` adds `Begun`: what main or
  an operation may join was created.
* **OperationProcesses** (this and the next two in `OperationThreadsProofs`,
  of the behaviours of `MCOperations`: one in which a program is chosen is a
  behaviour of that program, `ProcessesAlone`, `PartBAlone`, `TreeAlone`).
  `InParts` says, for each child, that the words it sent are those main has and
  those in the pipe, and, of a result that fits the pipe, that main has all the
  words it asked for and found none missing, unless the child is gone with part
  of the result unsent (`Broken`). `EveryResultArrives` speaks of the end only.
  `NeverStuck` says that main and its children never wait for each other in a
  circle: what the average sends is smaller than any pipe, so it never waits; once
  it is gone, nobody but main reads the pipes of the other two, which are not
  empty for as long as their children wait. With `EveryStepAdvances`, a measure
  that every step increases and that is bounded, it is the safety half of `Ends`:
  fairness has only to make somebody move who can. In part B and in `ProcessTree`
  a child waits for none but its own children, and a circle cannot form.
* **OperationProcessesB**: `Piped` says what is in a pipe (the parts of its
  writer's matrix from the one main reads next to the last one written, `Content`)
  and that main has read past what was written only of a child that is gone, or
  of a matrix without cells, whose words nobody waits for (`NoneToCome`).
  `Places` ties what was written to where the child is, `Computed` the matrices to
  each other, `Told` the dimensions in main's two structs to the matrix being
  read, `Shown` what was printed to the matrices, `Freed` the block to the matrix
  that `realloc` gave up; `Faulty` says that a child gone too early had a fault.
  `PrintedIsRight` says nothing while a matrix is on its way, and `MainSurvives`
  needs both `Told` and `Piped`: dimensions that were never told are in the
  struct only when nobody was left to tell them. The constants are positive
  (`PartBAssumption`): the code draws `rand() % 100 + 1`. That a matrix without
  columns is an empty one, so that `realloc` frees it, rests on this.
* **ProcessTree**: `Timed` says of each operation where its time is, in its
  buffer or once in the output, and that its workers are gone by then; `Bannered`
  the same of its banner, and that what its workers inherit with an unflushed
  buffer is never a time. `MainWaits` counts the children that main has waited
  for, `MainLines` has the lines of main itself.
* **ProcessPool**: the invariant follows a descriptor through its life. The
  entry of a forked child refers to its own pipe, unless a failed entry of the
  same number was read in its stead, which settles the child (`Own`,
  `Settled`); descriptors in use while children are forked are the lowest
  (`Lowest`); a child that was read has no pipe left, one waited for is reaped
  (`Past`); and the result has the chunks taken and nothing else (`Stored`).
  `EveryChunkArrives` alone is not inductive, as nothing in it says whose pipe
  the descriptor read next refers to.
* **Pool**: for both pools every step is shown to be a step of `Pool` or to leave
  what it sees alone (`ImplementsPromise`). That a returned matrix is complete,
  which `ReturnMatrix` asks, is where the invariants of the pools are used.
* **Descriptors**: `Fresh` (nobody has a FIFO of a request that was not made
  yet) makes `NoCircularHold` inductive: nobody holds the FIFO of the worker
  just forked, and sets of workers without it are as they were. `InStep` follows
  handler, worker and data of a request side by side and gives
  `AnswersAreRight`. For `LimitNeedsLeaks`, `Counted` says
  that an end of a request that is over is open only when a multiplication left it
  (`LeftOpen`), in the server and in the copy of the table a worker inherited
  (`HeldCounted`); a table without leaks is then three sets of at most one file per
  client, and the rest is a lemma on the sizes of unions.
* **SearchDaemon** (in `DescriptorsProofs`, of any number of queries and
  daemon-starts): `WorkerIsKnown` alone is not inductive, as a stop removes the pid
  file; `Known` adds that by then all workers are gone or forgotten, that the one
  not forgotten is the last that was started, and that a stop under way makes
  every start that has yet to write its pid a forgotten one. For `AnswerIsOwn`,
  `Alone` follows a query that runs alone: while it opens, writes, waits and reads,
  its line and then the two pieces of its answer are in one place, and at most one
  worker has them (`Asking`, `Serves`). What was there before it began is the hard
  part. `Listened`: no answer is left in a FIFO nobody reads. `Pending`: while there
  is one worker, it is at the FIFO of the scripts, and a line left behind is that of
  a stop or followed by someone's who waits. `Tidy`: while scripts run one by one, a
  line left behind is a STOP, whatever workers there are. Hence the condition of the
  property: no query was interrupted, and either no worker was forgotten or no
  scripts overlapped. It is no weaker than it must be: a query interrupted before it
  opened the response leaves its answer to the next, and with three queries and two
  starts TLC finds that two that overlap leave a line to the forgotten worker, which
  answers the third, although that one runs alone. Each of the two by itself does
  no harm.
* **UserInput** (in `AverageTasksProofs`, of any three numbers): `UserInductive` says
  that an answer is one of the `Outcomes` of its operation, which depend on the
  arguments alone (`SameOutcomes`); the rest is about the outcomes.
  `NothingOutside`: if no two numbers are negative, neither loops nor tasks touch a
  word that is not in its block, since a task has a row and a column
  (`TaskHasCell`); hence `KilledByItsArguments`. Both this and `ProgramsAgree`
  except matrices of more than `MaxCells` cells (`Oversized`): there `rows * columns`
  wraps, `calloc` returns NULL, or the arrays of threads and pipes are larger than
  a stack, and any answer or death is possible. `ProductsAgree` and
  `TransposedAgree`: the one turn of the loops that stores a word, and the one
  task, compute it from the same words; with two negative dimensions, where there
  are tasks and no turns, both leave calloc's zero or the tasks fail.
  `AveragesAgree` needs that the sum of the words is not negative, so that an `int`
  it fits keeps it (`SumIsNatural`). That is an induction over sets, made as a
  least counterexample: a smallest set whose sum is wrong has a smaller one
  (`Least`, `SumExists`, `SumsAreNatural`). `UserAssumption` asks that the largest
  int, the largest matrix and the bounds of the arguments be natural numbers and
  that a chunk has a task.
* **Session**: `IInv` is `Tidy`, which says between which calls there is a FIFO
  or a worker, and, as long as no `write()` was cut and nobody chose 3 or 5
  (`Clean`), `InStep`. A request is a stream of words, cut into six fields by the
  dimensions in it (`Stream`, `Mark`, `Between`). The words in the connection are
  `Between` what the handler has read and the client has written (`Reading`,
  `Written`), those in the request FIFO `Between` what the worker has read and the
  handler has forwarded (`Passing`), and the dimensions read are those sent
  (`Agrees`), so that each side asks for as many words as the other wrote. Between
  requests the stream may hold words that mean nothing to the handler, of services
  the server does not know, and after them at most one request or the -1
  (`Option`). The answer is `Computed` from those fields, `Replying`, `Unread`,
  then `Shown`. `RightAnswer` and `ServerSurvives` alone say nothing of
  what is under way; `InStep` is not inductive without `Clean`, as one short
  `write()` shifts all that follows. Nothing bounds the matrices, FIFOs, segments or
  choices of the user.
  `Stuck` says that client, handler and worker are each in a system call that does
  not return. `Progress`, on top of `IInv`, says who is still to act: from a fork to
  the second open both FIFO names are there (`Opening`); a worker whose answer was
  read has only to exit (`Finishing`); and a request that was asked is in the stream
  or its answer on the way back, unless `mkfifo`, `fork` or `exec` failed (`Owed`).
  `DeadlocksHaveCauses` follows by where the client is: the marks of `InStep` say
  that a worker or a handler that reads still has the words coming
  (`InputNotBlocked`, `WorkerNotStarved`, `SomebodyMoves`).
* **MatrixService**: while no cause the promise excepts arises (`Harmless`), each
  step of `Session` is a step of `MatrixService` or leaves what the user sees
  alone (`KeepsItsPromise`). Only the step that reads an answer needs the
  invariant: `Shown` makes it the answer that was asked for.

Only model-checked:

* every liveness property, and with them the fairness half of the refinements of
  `MatrixService` and of `Pool`; of `Ends`, the part that needs no fairness is
  proved for the programs whose processes or threads could wait in a circle;
* of `HangHasCause` the part that is about ENABLED: that the actions of the
  program are disabled only where the system calls block (`StopsOnlyWhenStuck`,
  a hypothesis of `HangsHaveCauses`). `SessionFaults` evaluates it in every state.
  What it says of the system calls, `StuckHasCause`, is a theorem without it;
* that the sums in `Product` and `Average`, which are folds over a set, are
  integers: no theorem needs it, as words of a result are only compared.

Every other invariant and every action property that a passing run checks is a
theorem.

The type invariants of `TaskPool`, `AverageTasks`, `OperationThreads`,
`ProcessPool`, `EventLog` and `Descriptors` are proved, and so are `EveryTaskStored`,
`ResultIsRight` and `OneInside`; no run repeats them. Those of the other modules
hold in the runs as well and are left there to document the state.

## Not modelled, and why

* The scripts other than the search daemon: compilation, permissions and `grep`;
  they have no part in a request.
* Socket set-up in `server.c`, whose failures end the process before any client
  exists.
* Failing `malloc` and `calloc` but for sizes no memory can hold (`UserInput`),
  a failing `pipe` in main of the process programs, and signals other than
  SIGPIPE, SIGKILL, SIGFPE and the SIGSEGV of an access out of bounds.
* Overflow of products of `int`. What follows when `rows * columns` wraps, or a
  matrix or the arrays for its workers find no room, is in `UserInput` only that
  anything may: neither what is computed nor where it stops. `UserInput` also has
  the sum of the sequential average, which overflows with 42 million words of
  average size.
* Of `start_daemon`, what another script or a worker meets between its `rm` and
  its second `mkfifo`: the two FIFOs are one in `SearchDaemon`, made in one step.
  Its end after the `rm`, or before the pid is written, is modelled.
* The children of the pools as holders of the pipes of main in
  `OperationProcesses` and `OperationProcessesB`: they wait for nobody, so they
  only delay an end of file.
* What users of the user-input programs type is a number for `atoi`, which
  takes anything for one; `argc` other than 4 is the case `<< >>`.

## Plan

Done, in this order: `Session` with its abstract specification, the thread
pools and their proofs, `EventLog`, the process pools, the two mains; then
`Descriptors`, part B, the programs without pipes, the search daemon, `Pool` and
the refinements, the user-input and sequential programs, and the proofs of
`ProcessPool`, `Pool`, `Descriptors`, `EventLog`, `Session`, the process programs,
`SearchDaemon` and `UserInput`; last what can block: `StuckHasCause` and
`NeverStuck`.

To prove more: what `NeverStuck` says, of the server with a full descriptor table
(`Descriptors`), where `NoCircularHold` is a first part of it.
