---------------------------- MODULE MCDescriptors ----------------------------
(***************************************************************************)
(* The two daemons that outlive their requests: the server with its        *)
(* descriptor table (Descriptors), and the search daemon of                *)
(* scripts/search_logs.sh (SearchDaemon), with several queries and one     *)
(* daemon-start that comes to its end, or one query and several that may   *)
(* be interrupted.  They never meet: a behaviour is one of one of them.    *)
(***************************************************************************)
EXTENDS Descriptors, Sequences

CONSTANTS
  Queries, Stop, MaxStarts, \* of SearchDaemon
  query                     \* the one query when the daemon is started again

ASSUME SearchAssumption ==
  /\ Stop \notin Queries /\ query \in Queries
  /\ MaxStarts \in Nat

VARIABLES
  daemon,
  fifo, starts, pidFile, unwritten, searcher, workerFifo, line, script, scriptFifo, requests,
  responses, got, forgotten, killed, overlapped

Search == INSTANCE SearchDaemon WITH worker <- searcher

searchVars ==
  <<fifo, starts, pidFile, unwritten, searcher, workerFifo, line, script, scriptFifo, requests,
    responses, got, forgotten, killed, overlapped>>

MCInit ==
  /\ daemon \in {"server", "search", "restart"}
  /\ Init /\ Search!Init

MCNext ==
  \/ daemon = "server" /\ Next /\ UNCHANGED <<daemon, searchVars>>
  \/ /\ daemon = "search" /\ Search!Next /\ UNCHANGED <<daemon, vars>>
     /\ starts' <= 1 /\ ~ Search!InterruptStart
  \/ /\ daemon = "restart" /\ Search!Next /\ UNCHANGED <<daemon, vars>>
     /\ \A q \in Queries \ {query} : script'[q] = "idle"

\* The fairness of the server, and of the daemon that is not started again, of
\* which alone something is said that must happen.
MCFairSpec ==
  /\ MCInit /\ [][MCNext]_<<daemon, vars, searchVars>>
  /\ \A c \in Clients :
       /\ WF_vars(daemon = "server" /\ Handle(c))
       /\ WF_vars(daemon = "server" /\ Work(c))
  /\ \A w \in Search!Workers : WF_searchVars(daemon = "search" /\ Search!Work(w))
  /\ \A s \in Search!Scripts : WF_searchVars(daemon = "search" /\ Search!Run(s))

\* A query that runs alone has its own answer.
AnswerIsOwn == Search!AnswerIsOwn

\* A worker that runs is the one daemon-stop finds, unless it is forgotten, or
\* its pid about to be written.
WorkerIsKnown == Search!WorkerIsKnown

\* Scripts that run alone return.
AloneReturns == \A s \in Search!Scripts : []<>(daemon = "search" => Search!Settled(s))

=============================================================================
