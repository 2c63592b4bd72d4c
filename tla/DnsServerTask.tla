---------------------------- MODULE DnsServerTask ----------------------------
(***************************************************************************)
(* The DNS server of the FreeRTOS build                                    *)
(* (src/ethutilities/freertos/DnsServer.cpp): a task that answers queries, *)
(* and a thread of the application that starts and stops it and changes    *)
(* the list of hosts, which a mutex protects.  DnsQuery is how the task    *)
(* reads the name in a query; nothing another thread does matters to that. *)
(***************************************************************************)
EXTENDS Integers, Sequences, ForwardList

CONSTANTS
  HostNames, \* that the application adds and that the queries ask for
  MaxHosts,  \* bound: records in the list
  Nobody     \* holds no mutex

ASSUME ServerAssumption ==
  /\ MaxHosts \in Nat \ {0}
  /\ Nobody \notin {"task", "app"}

VARIABLES
  isStarted_,
  sockets,    \* lwIP's sockets that the server has open
  task,       \* where the server's task is
  asked,      \* query.name
  app,        \* where the application's thread is
  hostsList_, \* the first record is the newest
  mutex,      \* who holds hostsListMutex_
  host,       \* the record the task's search has come to
  seen,       \* history: the list when its search began
  lost        \* history: a task was deleted within its search

startVars == <<isStarted_, sockets>>
listVars == <<asked, hostsList_, mutex, host, seen, lost>>
serverVars == <<startVars, task, app, listVars>>

Record == [name : HostNames, redirectRequest : BOOLEAN]

ServerTypeOK ==
  /\ isStarted_ \in BOOLEAN
  /\ sockets \in 0 .. 1
  /\ task \in {"none", "select", "recv", "take", "search", "resolve", "answer"}
  /\ asked \in HostNames
  /\ app \in {"idle", "bind", "addTask", "setStarted", "close", "setStopped", "list"}
  /\ hostsList_ \in Seq(Record) /\ Len(hostsList_) <= MaxHosts
  /\ mutex \in {Nobody, "task", "app"}
  /\ host \in 1 .. MaxHosts + 1
  /\ seen \in Seq(Record)
  /\ lost \in BOOLEAN

ServerInit ==
  /\ isStarted_ = FALSE /\ sockets = 0
  /\ task = "none" /\ app = "idle"
  /\ asked \in HostNames
  /\ hostsList_ = << >> /\ mutex = Nobody
  /\ host = 1 /\ seen = << >> /\ lost = FALSE

TaskGoto(here, there) == task = here /\ task' = there
AppGoto(here, there) == app = here /\ app' = there

-----------------------------------------------------------------------------
(* The task: voidCallback, which the kernel calls again and again.         *)

\* stop() called by the task itself: the kernel deletes it within
\* deleteMainProcedure(), and the rest of stop() is not executed.
StopSelf(here) == TaskGoto(here, IF isStarted_ THEN "none" ELSE "select")

Select ==
  /\ TaskGoto("select", "recv") \/ StopSelf("select")
  /\ UNCHANGED <<startVars, app, listVars>>

\* Receive a packet and read its name; one that is too short, is no query or
\* cannot be parsed is dropped.
Receive ==
  /\ \/ /\ TaskGoto("recv", "take")
        /\ asked' \in HostNames
     \/ /\ TaskGoto("recv", "select") \/ StopSelf("recv")
        /\ UNCHANGED asked
  /\ UNCHANGED <<startVars, app, hostsList_, mutex, host, seen, lost>>

\* Mutant: the mutex is not waited for.
IsFreeForAll == TRUE

IsFree == mutex = Nobody

TakeForSearch ==
  /\ IsFree
  /\ TaskGoto("take", "search")
  /\ mutex' = "task" /\ host' = 1 /\ seen' = hostsList_
  /\ UNCHANGED <<startVars, app, asked, hostsList_, lost>>

\* Mutant: the mutex is not given back when the host is not found.
GivenIf(found) == IF found THEN Nobody ELSE mutex

Given(found) == Nobody

\* Look at the next record of the list, or give the mutex back.
Search ==
  LET ended == host > Len(hostsList_)
      found == ~ended /\ hostsList_[host].name = asked
  IN  /\ IF ended \/ found
         THEN /\ mutex' = Given(found)
              /\ host' = 1
              /\ TaskGoto("search", IF ended THEN "select"
                                    ELSE IF hostsList_[host].redirectRequest
                                         THEN "resolve" ELSE "answer")
         ELSE /\ host' = host + 1
              /\ TaskGoto("search", "search")
              /\ UNCHANGED mutex
      /\ UNCHANGED <<startVars, app, asked, hostsList_, seen, lost>>

\* gethostbyname() for a record that redirects.
Resolve ==
  /\ TaskGoto("resolve", "answer") \/ TaskGoto("resolve", "select")
  /\ UNCHANGED <<startVars, app, listVars>>

Answer ==
  /\ TaskGoto("answer", "select")
  /\ UNCHANGED <<startVars, app, listVars>>

-----------------------------------------------------------------------------
(* The application's thread.                                               *)

\* start(), when there is a socket.
Start ==
  /\ ~isStarted_
  /\ AppGoto("idle", "bind")
  /\ sockets' = sockets + 1
  /\ UNCHANGED <<isStarted_, task, listVars>>

\* bind() fails if the port is in use.
Bind ==
  /\ \/ AppGoto("bind", "addTask") /\ UNCHANGED sockets
     \/ AppGoto("bind", "idle") /\ sockets' = sockets - 1
  /\ UNCHANGED <<isStarted_, task, listVars>>

AddTask ==
  /\ AppGoto("addTask", "setStarted")
  /\ task' = "select"
  /\ UNCHANGED <<startVars, listVars>>

\* stop(): delete the task, wherever it is.
Stop ==
  /\ isStarted_
  /\ AppGoto("idle", "close")
  /\ task' = "none"
  /\ lost' = (lost \/ task = "search")
  /\ UNCHANGED <<startVars, asked, hostsList_, mutex, host, seen>>

CloseSocket ==
  /\ AppGoto("close", "setStopped")
  /\ sockets' = sockets - 1
  /\ UNCHANGED <<isStarted_, task, listVars>>

\* The last statement of start() and of stop().
SetStarted ==
  /\ \/ AppGoto("setStarted", "idle") /\ isStarted_' = TRUE
     \/ AppGoto("setStopped", "idle") /\ isStarted_' = FALSE
  /\ UNCHANGED <<sockets, task, listVars>>

\* addHost() and deleteHost() take the mutex.
TakeForChange ==
  /\ IsFree
  /\ AppGoto("idle", "list")
  /\ mutex' = "app"
  /\ UNCHANGED <<startVars, task, asked, hostsList_, host, seen, lost>>

ChangeList ==
  /\ AppGoto("list", "idle")
  /\ \/ /\ Len(hostsList_) < MaxHosts
        /\ \E r \in Record : hostsList_' = <<r>> \o hostsList_
     \/ \E n \in HostNames :
          hostsList_' = Filtered(hostsList_, {r \in Record : r.name # n})
  /\ mutex' = Nobody
  /\ UNCHANGED <<startVars, task, asked, host, seen, lost>>

ServerNext ==
  \/ Select \/ Receive \/ TakeForSearch \/ Search \/ Resolve \/ Answer
  \/ Start \/ Bind \/ AddTask \/ Stop \/ CloseSocket \/ SetStarted
  \/ TakeForChange \/ ChangeList

ServerSpec == ServerInit /\ [][ServerNext]_serverVars

-----------------------------------------------------------------------------
(* Properties.                                                             *)

\* A record is neither added nor freed while the task's search is in the list.
SearchUndisturbed == task = "search" => hostsList_ = seen

\* A server that is not started, because it was stopped or could not start, has
\* left no task, no socket and no taken mutex behind, so that it can be started
\* and its hosts changed again: unless stop() has deleted the task within its
\* search, when the mutex stays taken for ever.
NothingLeftBehind ==
  app = "idle" /\ ~isStarted_ =>
    task = "none" /\ sockets = 0 /\ (mutex = Nobody \/ lost)

=============================================================================
