-------------------------------- MODULE TcpServer --------------------------------
(***************************************************************************)
(* libcocao's TcpServer (tcp_server.h, tcp_server.cc): bind() makes the    *)
(* listening sockets, start() schedules one loop of startAccept() for each *)
(* on the accept worker, stop() raises a flag and schedules a task there   *)
(* that cancels and closes them.  The accept worker has several threads:   *)
(* the task runs between any two steps of the loops.                       *)
(*                                                                         *)
(* bind() never puts a socket into m_socks, so that each is closed as soon *)
(* as it listens.  The variable "keeps" never changes and says whether it  *)
(* is that program (FALSE) or one whose bind() does.                       *)
(***************************************************************************)
EXTENDS Integers, Sequences, FiniteSets, SequencesExt

CONSTANTS
  Listeners,   \* the addresses to bind, and their sockets
  Loops,       \* startAccept() as it is scheduled, a set of numbers
  Keeps,       \* values of keeps
  MaxClients   \* bound: clients accepted and not yet handled

ASSUME TcpServerAssumption ==
  Listeners # {} /\ Loops \subseteq Nat /\ MaxClients \in Nat /\ Keeps \subseteq BOOLEAN

VARIABLES
  keeps,    \* bind() fills m_socks
  socks,    \* m_socks
  state,    \* a listening socket: none, open, closed
  isStop,   \* m_isStop
  loop,     \* startAccept(): its place and its socket
  starting, \* start()'s place in m_socks; 0 when nobody is in it
  task,     \* the tasks of stop(): idle, queued, or the place in m_socks
  clients,  \* accepted, in m_ioworker's list
  broken    \* defined behaviour was left, or an assertion failed

serverVars == <<keeps, socks, state, isStop, loop, starting, task, clients, broken>>

Tasks == {1, 2}    \* bound: two stop() whose tasks are not done
Idle == -1
Queued == 0
Resting == [at |-> Idle, cancelled |-> FALSE]

TcpServerTypeOK ==
  /\ keeps \in Keeps
  /\ socks \in Seq(Listeners)
  /\ state \in [Listeners -> {"none", "open", "cancelled", "closed"}]
  /\ isStop \in BOOLEAN
  /\ loop \in [Loops -> [pc : {"none", "test", "accept", "add", "wait"}, on : Listeners]]
  /\ starting \in Nat
  /\ task \in [Tasks -> [at : Nat \cup {Idle, Queued}, cancelled : BOOLEAN]]
  /\ clients \in 0..MaxClients
  /\ broken \in BOOLEAN

TcpServerInit ==
  /\ keeps \in Keeps
  /\ socks = <<>> /\ state = [l \in Listeners |-> "none"]
  /\ isStop = TRUE
  /\ loop = [k \in Loops |-> [pc |-> "none", on |-> CHOOSE l \in Listeners : TRUE]]
  /\ starting = 0 /\ task = [t \in Tasks |-> Resting] /\ clients = 0 /\ broken = FALSE

LoopAt(k, place) == loop[k].pc = place
Move(k, place) == loop' = [loop EXCEPT ![k].pc = place]
Active(k) == loop[k].pc # "none"
\* The socket of a loop is still open.
Listens(k) == state[loop[k].on] \in {"open", "cancelled"}
Held(l) == \E k \in Loops : Active(k) /\ loop[k].on = l

-----------------------------------------------------------------------------
(***************************************************************************)
(* bind(), start(), stop(), by the thread that owns the server.            *)
(***************************************************************************)

\* Some addresses are bound and listen, or some fail.  One failure, and every socket that
\* the server ever bound is dropped, and closed.
Bound(new) == IF keeps THEN new ELSE <<>>

BindAll(new, failed) ==
  LET gone == IF failed THEN Range(socks) \cup Range(new) ELSE Range(new) \ Range(Bound(new)) IN
  /\ ~broken /\ starting = 0
  /\ \A i \in DOMAIN new : state[new[i]] = "none"
  /\ socks' = IF failed THEN <<>> ELSE socks \o Bound(new)
  /\ state' = [l \in Listeners |-> CASE l \in gone /\ ~Held(l) -> "closed"
                                      [] l \in Range(new) -> "open"
                                      [] OTHER -> state[l]]
  /\ broken' = (socks' # socks /\ \E t \in Tasks : task[t].at > 0)
  /\ UNCHANGED <<keeps, isStop, loop, starting, task, clients>>

\* start() does nothing while the server is not stopped ...
Start ==
  /\ ~broken /\ starting = 0 /\ isStop
  /\ isStop' = FALSE
  /\ starting' = IF socks = <<>> THEN 0 ELSE 1
  /\ UNCHANGED <<keeps, socks, state, loop, task, clients, broken>>

\* ... and schedules one loop per socket.
StartOne ==
  /\ ~broken /\ starting # 0
  /\ \E k \in Loops :
       /\ LoopAt(k, "none") /\ \A m \in Loops : m < k => ~LoopAt(m, "none")
       /\ loop' = [loop EXCEPT ![k] = [pc |-> "test", on |-> socks[starting]]]
  /\ starting' = IF starting = Len(socks) THEN 0 ELSE starting + 1
  /\ UNCHANGED <<keeps, socks, state, isStop, task, clients, broken>>

Stop(t) ==
  /\ ~broken /\ starting = 0
  /\ task[t].at = Idle
  /\ isStop' = TRUE
  /\ task' = [task EXCEPT ![t].at = Queued]
  /\ UNCHANGED <<keeps, socks, state, loop, starting, clients, broken>>

-----------------------------------------------------------------------------
(***************************************************************************)
(* stop()'s task, on the accept worker.                                    *)
(***************************************************************************)

TaskBegins(t) ==
  /\ ~broken /\ task[t].at = Queued
  /\ task' = [task EXCEPT ![t].at = IF socks = <<>> THEN Idle ELSE 1]
  /\ UNCHANGED <<keeps, socks, state, isStop, loop, starting, clients, broken>>

\* cancelAll() wakes the loops that wait.  Of a closed socket it looks up number -1 in
\* the table: another task of stop() closed it.
CancelSock(t) ==
  LET l == socks[task[t].at] IN
  /\ ~broken /\ task[t].at > 0 /\ ~task[t].cancelled
  /\ task' = [task EXCEPT ![t].cancelled = TRUE]
  /\ loop' = [k \in Loops |-> IF loop[k].on = l /\ LoopAt(k, "wait") /\ Listens(k)
                              THEN [loop[k] EXCEPT !.pc = "accept"] ELSE loop[k]]
  /\ state' = [state EXCEPT ![l] = "cancelled"]
  /\ broken' = (state[l] = "closed")
  /\ UNCHANGED <<keeps, socks, isStop, starting, clients>>

\* Then it is closed.  After the last m_socks is cleared, whoever is in it.
CloseSock(t) ==
  LET last == task[t].at = Len(socks) IN
  /\ ~broken /\ task[t].cancelled
  /\ state' = [state EXCEPT ![socks[task[t].at]] = "closed"]
  /\ task' = [task EXCEPT ![t] = IF last THEN Resting ELSE [at |-> @.at + 1, cancelled |-> FALSE]]
  /\ socks' = IF last THEN <<>> ELSE socks
  /\ broken' = (last /\ (starting # 0 \/ \E u \in Tasks \ {t} : task[u].at > 0))
  /\ UNCHANGED <<keeps, isStop, loop, starting, clients>>

-----------------------------------------------------------------------------
(***************************************************************************)
(* startAccept(); accept() is do_io() of hook.cc.                          *)
(***************************************************************************)

\* Broken on purpose: the loop looks at its socket, not at the flag.
TestSocket(k) ==
  /\ ~broken /\ LoopAt(k, "test")
  /\ Move(k, "accept")
  /\ UNCHANGED <<keeps, socks, state, isStop, starting, task, clients, broken>>

Test(k) ==
  /\ ~broken /\ LoopAt(k, "test")
  /\ Move(k, IF isStop THEN "none" ELSE "accept")
  /\ UNCHANGED <<keeps, socks, state, isStop, starting, task, clients, broken>>

\* Broken on purpose: the client is handed over twice.
AcceptClientTwice(k) ==
  /\ ~broken /\ LoopAt(k, "accept") /\ Listens(k) /\ clients < MaxClients
  /\ clients' = clients + 2
  /\ Move(k, "test")
  /\ UNCHANGED <<keeps, socks, state, isStop, starting, task, broken>>

\* A client: handleClient() is scheduled on the io worker.
AcceptClient(k) ==
  /\ ~broken /\ LoopAt(k, "accept") /\ Listens(k) /\ clients < MaxClients
  /\ clients' = clients + 1
  /\ Move(k, "test")
  /\ UNCHANGED <<keeps, socks, state, isStop, starting, task, broken>>

\* None yet: the loop's fiber will register and wait.
AcceptAgain(k) ==
  /\ ~broken /\ LoopAt(k, "accept") /\ Listens(k)
  /\ Move(k, "add")
  /\ UNCHANGED <<keeps, socks, state, isStop, starting, task, clients, broken>>

\* A failure is logged, and the loop goes on.
AcceptFails(k) ==
  /\ ~broken /\ (LoopAt(k, "accept") \/ LoopAt(k, "add")) /\ ~Listens(k)
  /\ Move(k, "test")
  /\ UNCHANGED <<keeps, socks, state, isStop, starting, task, clients, broken>>

\* addEvent() asserts that nobody else waits for the socket.
Register(k) ==
  /\ ~broken /\ LoopAt(k, "add") /\ Listens(k)
  /\ Move(k, "wait")
  /\ broken' = \E m \in Loops : LoopAt(m, "wait") /\ loop[m].on = loop[k].on
  /\ UNCHANGED <<keeps, socks, state, isStop, starting, task, clients>>

\* Somebody connects; a closed socket is out of epoll's sight.
Arrives(k) ==
  /\ ~broken /\ LoopAt(k, "wait") /\ Listens(k)
  /\ Move(k, "accept")
  /\ UNCHANGED <<keeps, socks, state, isStop, starting, task, clients, broken>>

\* handleClient(): the default logs, and drops the last reference.
HandleClient ==
  /\ ~broken /\ clients > 0
  /\ clients' = clients - 1
  /\ UNCHANGED <<keeps, socks, state, isStop, loop, starting, task, broken>>

LoopStep(k) ==
  \/ Test(k) \/ AcceptClient(k) \/ AcceptAgain(k) \/ AcceptFails(k) \/ Register(k)
Task(t) == TaskBegins(t) \/ CancelSock(t) \/ CloseSock(t)

TcpServerNext ==
  \/ \E new \in SeqOf(Listeners, 2), failed \in BOOLEAN :
       IsInjective(new) /\ (failed \/ new # <<>>) /\ BindAll(new, failed)
  \/ Start \/ StartOne \/ HandleClient
  \/ \E t \in Tasks : Stop(t) \/ Task(t)
  \/ \E k \in Loops : LoopStep(k) \/ Arrives(k)

\* The accept worker runs its tasks.
TcpServerFairness == 
  /\ \A t \in Tasks : WF_serverVars(Task(t))
  /\ \A k \in Loops : WF_serverVars(LoopStep(k))

TcpServerSpec == TcpServerInit /\ [][TcpServerNext]_serverVars /\ TcpServerFairness

-----------------------------------------------------------------------------
\* The loop has registered with a socket that stop() has been through already, or that a
\* failing bind() took out of its sight: nobody will wake it.
Missed(k) == LoopAt(k, "wait") /\ (state[loop[k].on] # "open" \/ loop[k].on \notin Range(socks))

\* Once stop() has been called every loop ends, unless start() is called again, or the
\* loop has registered in the window between the task's cancelAll() and its close().
LoopsEnd ==
  \A k \in Loops : isStop /\ Active(k) ~> ~Active(k) \/ ~isStop \/ broken \/ Missed(k)

=============================================================================
