---------------------------------- MODULE Hook ----------------------------------
(***************************************************************************)
(* libcocao's hooked system calls (hook.cc) and the table of descriptors   *)
(* they keep (FdCtx and FdManager, fd_manager.cc).  A fiber that would     *)
(* block registers for the event and yields, with a timer for the timeout; *)
(* the call is tried again when the fiber is resumed.                      *)
(*                                                                         *)
(* The IOManager appears at its interface: addEvent(), cancelEvent(),      *)
(* cancelAll(), addConditionTimer(), Timer::cancel().  As the code stands  *)
(* addEvent() always fails (IOManager.tla); "works" never changes and says *)
(* whether it is that program (FALSE) or one with the op corrected.  The   *)
(* kernel's files are external.                                            *)
(***************************************************************************)
EXTENDS Integers, FiniteSets

CONSTANTS
  Hooked,    \* fibers, whose threads have t_hook_enable set
  Plain,     \* threads that have not
  Fds,       \* descriptor numbers
  Given,     \* the numbers socket() has already handed to a fiber
  None,      \* nobody, no context
  Built,     \* values of works
  MaxCalls   \* bound: hooked calls that are made

Actors == Hooked \cup Plain

ASSUME HookAssumption ==
  /\ Hooked \cap Plain = {} /\ None \notin Actors \cup Fds
  /\ Given \subseteq Fds /\ Fds # {} /\ Built \subseteq BOOLEAN /\ MaxCalls \in Nat

VARIABLES
  works,    \* addEvent() registers a first event
  file,     \* the kernel's open files
  table,    \* FdManager::m_datas
  waiter,   \* the fiber registered for an event of a number
  lost,     \* numbers closed under a waiter: epoll has forgotten the registration
  th,       \* an actor's place and the locals of its call
  strikes,  \* timer callbacks that have set cancelled, not yet called cancelEvent()
  calls,    \* calls made (bound)
  seen      \* facts of the past, see TypeOK

vars == <<works, file, table, waiter, lost, th, strikes, calls, seen>>

Event == {"READ", "WRITE"}
Op == {"read", "write", "accept", "connect"}
EventOf(op) == IF op \in {"read", "accept"} THEN "READ" ELSE "WRITE"

File == [nonblock : BOOLEAN, ready : SUBSET Event,
         link : {"new", "connecting", "up", "refused"}]
FdCtx == [userNonblock : BOOLEAN, recvTimeout : BOOLEAN, sendTimeout : BOOLEAN]

ASSUME NoneAssumption == None \notin File \cup FdCtx

Thread == [pc : {"idle", "try", "add", "wait", "woken", "check", "blocked", "opened", "del",
                 "close", "asleep"},
           op : Op, fd : Fds, call : 0..MaxCalls,
           managed : BOOLEAN,   \* a context was found
           to : BOOLEAN,        \* there is a timeout
           timer : BOOLEAN,     \* the timer is in the manager
           popped : Nat,        \* timers of this call that expired, callback still to run
           ripe : BOOLEAN,      \* a timer of this call has expired
           cancelled : BOOLEAN, \* timer_info
           res : {"none", "early", "again", "timeout"}]

TypeOK ==
  /\ works \in Built
  /\ file \in [Fds -> File \cup {None}]
  /\ table \in [Fds -> FdCtx \cup {None}]
  /\ waiter \in [Fds -> [Event -> Hooked \cup {None}]]
  /\ lost \subseteq Fds
  /\ th \in [Actors -> Thread]
  /\ strikes \subseteq [fd : Fds, event : Event, call : 0..MaxCalls]
  /\ calls \in 0..MaxCalls
  /\ seen \in [asked : SUBSET Fds,   \* made non-blocking by the user
               cleared : SUBSET Fds, \* made blocking with FIONBIO
               again : SUBSET Fds,   \* opened while the table or a call still knew the number
               gone : SUBSET Fds,    \* taken out of the table by close()
               stray : BOOLEAN]      \* a call was woken by another's callback or by close()

NewFile == [nonblock |-> FALSE, ready |-> {}, link |-> "new"]

\* FdCtx::init(), for a socket.  m_sysNonblock is then set, m_isClosed never is.
NewCtx == [userNonblock |-> FALSE, recvTimeout |-> FALSE, sendTimeout |-> FALSE]

\* An actor in no call.
Rest == [pc |-> "idle", op |-> "read", fd |-> CHOOSE fd \in Fds : TRUE, call |-> 0,
         managed |-> FALSE, to |-> FALSE, timer |-> FALSE, popped |-> 0, ripe |-> FALSE,
         cancelled |-> FALSE, res |-> "none"]

Init ==
  /\ works \in Built
  /\ file = [fd \in Fds |-> IF fd \in Given THEN [NewFile EXCEPT !.nonblock = TRUE] ELSE None]
  /\ \E t \in BOOLEAN :
       table = [fd \in Fds |-> IF fd \in Given
                              THEN [NewCtx EXCEPT !.recvTimeout = t, !.sendTimeout = t] ELSE None]
  /\ waiter = [fd \in Fds |-> [e \in Event |-> None]]
  /\ lost = {} /\ strikes = {} /\ calls = 0
  /\ th = [a \in Actors |-> Rest]
  /\ seen = [asked |-> {}, cleared |-> {}, again |-> {}, gone |-> {}, stray |-> FALSE]

At(a, p) == th[a].pc = p
Ready(fd, e) == file[fd] # None /\ e \in file[fd].ready
\* A number that its caller has not been told yet is nobody's to use.
Usable(fd) == file[fd] # None /\ \A a \in Actors : At(a, "opened") => th[a].fd # fd
Link(fd) == IF file[fd] = None THEN "closed" ELSE file[fd].link
InCall(fd) == {a \in Actors : th[a].fd = fd /\ ~At(a, "idle") /\ ~At(a, "asleep")}

\* An actor makes a call, which is counted.
Calls(a) == At(a, "idle") /\ calls < MaxCalls /\ calls' = calls + 1
Asks(fd, place) == [Rest EXCEPT !.pc = place, !.fd = fd, !.call = calls + 1]

\* Broken on purpose: the callbacks of a call outlive it.
ReturnLoose(a, r) ==
  th' = [th EXCEPT ![a] = [Rest EXCEPT !.popped = th[a].popped, !.fd = th[a].fd,
                                       !.res = IF r = "done" THEN "none" ELSE r]]

\* A call ends: its timer_info is gone, and with it what its late callbacks do.
Return(a, r) ==
  th' = [th EXCEPT ![a] = IF r = "done" THEN Rest ELSE
                          [Rest EXCEPT !.fd = th[a].fd, !.ripe = th[a].ripe, !.res = r]]

-----------------------------------------------------------------------------
(***************************************************************************)
(* do_io() and connect_with_timeout().                                     *)
(***************************************************************************)

\* Which timeout the call waits with; connect() has its own, 5000 ms, or none.
Timeouts(op, ctx) ==
  CASE op = "connect" -> BOOLEAN
    [] EventOf(op) = "READ" -> {ctx.recvTimeout}
    [] OTHER -> {ctx.sendTimeout}

\* Broken on purpose: the hook flag of the thread is not looked at.
StraightHookless(a, fd) == table[fd] = None \/ table[fd].userNonblock

\* Without hooks or a context the call goes straight to the kernel, and so it does on
\* a socket that the user made non-blocking.  (One user per event of a number.)
Straight(a, fd) == a \in Plain \/ table[fd] = None \/ table[fd].userNonblock

Call(a, op, fd) ==
  /\ Calls(a)
  /\ Usable(fd)
  /\ op = "connect" => Link(fd) \in {"new", "refused"}
  /\ \A b \in InCall(fd) : At(b, "del") \/ At(b, "close") \/ EventOf(th[b].op) # EventOf(op)
  /\ \E to \in IF Straight(a, fd) THEN {FALSE} ELSE Timeouts(op, table[fd]) :
       th' = [th EXCEPT ![a] = [Asks(fd, "try") EXCEPT !.managed = ~Straight(a, fd),
                                                       !.op = op, !.to = to]]
  /\ UNCHANGED <<works, file, table, waiter, lost, strikes, seen>>

\* The kernel completes the call: something is read, written, accepted.
Done(a) ==
  LET fd == th[a].fd IN
  /\ At(a, "try") \/ At(a, "blocked")
  /\ th[a].op # "connect" /\ Ready(fd, EventOf(th[a].op))
  /\ IF th[a].op = "accept" /\ \E n \in Fds : file[n] = None
     THEN \E n \in {m \in Fds : file[m] = None} :
            /\ file' = [file EXCEPT ![fd].ready = @ \ {"READ"}, ![n] = NewFile]
            /\ th' = [th EXCEPT ![a] = [@ EXCEPT !.pc = "opened", !.fd = n, !.to = FALSE,
                                                 !.popped = 0, !.cancelled = FALSE]]
            /\ seen' = [seen EXCEPT !.again = @ \cup {m \in {n} :
                          table[m] # None \/ InCall(m) # {}}]
     ELSE /\ file' = [file EXCEPT ![fd].ready = @ \ {EventOf(th[a].op)}]
          /\ Return(a, "done")
          /\ UNCHANGED seen
  /\ UNCHANGED <<works, table, waiter, lost, strikes, calls>>

\* The number is closed, or (connect) it is not the socket it was.
Fails(a) ==
  /\ At(a, "try") \/ At(a, "blocked")
  /\ \/ Link(th[a].fd) = "closed"
     \/ At(a, "try") /\ th[a].op = "connect" /\ Link(th[a].fd) \in {"connecting", "up"}
  /\ Return(a, "done")
  /\ UNCHANGED <<works, file, table, waiter, lost, strikes, calls, seen>>

WouldBlock(a) ==
  /\ At(a, "try") /\ file[th[a].fd] # None
  /\ IF th[a].op = "connect" THEN Link(th[a].fd) \in {"new", "refused"}
     ELSE ~Ready(th[a].fd, EventOf(th[a].op))
Started(a) ==
  IF th[a].op = "connect" THEN file' = [file EXCEPT ![th[a].fd].link = "connecting", ![th[a].fd].ready = {}]
  ELSE UNCHANGED file

\* A socket that blocks in the kernel blocks the thread ...
Block(a) ==
  /\ WouldBlock(a) /\ ~file[th[a].fd].nonblock
  /\ Started(a)
  /\ th' = [th EXCEPT ![a].pc = "blocked"]
  /\ UNCHANGED <<works, table, waiter, lost, strikes, calls, seen>>

\* ... (a connect() until it is decided) ...
Unblock(a) ==
  /\ At(a, "blocked") /\ th[a].op = "connect"
  /\ Link(th[a].fd) \notin {"closed", "connecting"}
  /\ Return(a, "done")
  /\ UNCHANGED <<works, file, table, waiter, lost, strikes, calls, seen>>

\* ... one that does not answers EAGAIN, which is passed on ...
Again(a) ==
  /\ WouldBlock(a) /\ file[th[a].fd].nonblock /\ ~th[a].managed
  /\ Started(a)
  /\ Return(a, "again")
  /\ UNCHANGED <<works, table, waiter, lost, strikes, calls, seen>>

\* Broken on purpose: connect() waits without its timer.
ArmNoConnect(a) ==
  /\ WouldBlock(a) /\ file[th[a].fd].nonblock /\ th[a].managed
  /\ Started(a)
  /\ th' = [th EXCEPT ![a].pc = "add", ![a].timer = th[a].to /\ th[a].op # "connect"]
  /\ UNCHANGED <<works, table, waiter, lost, strikes, calls, seen>>

\* ... or waited out: the timer first, addConditionTimer() ...
Arm(a) ==
  /\ WouldBlock(a) /\ file[th[a].fd].nonblock /\ th[a].managed
  /\ Started(a)
  /\ th' = [th EXCEPT ![a].pc = "add", ![a].timer = th[a].to]
  /\ UNCHANGED <<works, table, waiter, lost, strikes, calls, seen>>

\* ... then addEvent().  epoll_ctl() refuses a number it was made to forget.
Registers(fd) == works /\ fd \notin lost /\ file[fd] # None

\* When it fails read and write fail, but connect() goes on to ask for SO_ERROR.
Add(a) ==
  LET fd == th[a].fd
      e == EventOf(th[a].op) IN
  /\ At(a, "add")
  /\ IF Registers(fd)
     THEN /\ waiter' = [waiter EXCEPT ![fd][e] = a]
          /\ th' = [th EXCEPT ![a].pc = "wait"]
     ELSE /\ IF th[a].op = "connect" THEN th' = [th EXCEPT ![a].pc = "check", ![a].timer = FALSE]
             ELSE Return(a, "done")
          /\ UNCHANGED waiter
  /\ UNCHANGED <<works, file, table, lost, strikes, calls, seen>>

\* Whoever wakes a waiter takes it out of the context.
Wake(fd, es) ==
  LET who == {waiter[fd][e] : e \in es} IN
  /\ waiter' = [waiter EXCEPT ![fd] = [e \in Event |-> IF e \in es THEN None ELSE @[e]]]
  /\ th' = [a \in Actors |-> IF a \in who THEN [th[a] EXCEPT !.pc = "woken"] ELSE th[a]]

\* An idle worker sees the event.
Report(fd, e) ==
  /\ fd \notin lost /\ waiter[fd][e] # None /\ Ready(fd, e)
  /\ Wake(fd, {e})
  /\ UNCHANGED <<works, file, table, lost, strikes, calls, seen>>

\* Broken on purpose: connect() does not look whether it timed out.
ResumeBlind(a) ==
  /\ At(a, "woken")
  /\ IF th[a].cancelled /\ th[a].op # "connect" THEN Return(a, "timeout")
     ELSE th' = [th EXCEPT ![a].timer = FALSE, ![a].pc = IF th[a].op = "connect" THEN "check" ELSE "try"]
  /\ UNCHANGED <<works, file, table, waiter, lost, strikes, calls, seen>>

\* Resumed: the timer is cancelled, and the call has timed out, or goes on.
Resume(a) ==
  /\ At(a, "woken")
  /\ IF th[a].cancelled THEN Return(a, "timeout")
     ELSE th' = [th EXCEPT ![a].timer = FALSE, ![a].pc = IF th[a].op = "connect" THEN "check" ELSE "try"]
  /\ UNCHANGED <<works, file, table, waiter, lost, strikes, calls, seen>>

\* connect() believes SO_ERROR, which says nothing of a connection in progress.
CheckError(a) ==
  /\ At(a, "check")
  /\ Return(a, IF Link(th[a].fd) \in {"closed", "refused", "up"} THEN "done" ELSE "early")
  /\ UNCHANGED <<works, file, table, waiter, lost, strikes, calls, seen>>

-----------------------------------------------------------------------------
(***************************************************************************)
(* The timer's callback: expired, it is scheduled, and runs in two steps.  *)
(***************************************************************************)

Pop(a) ==
  /\ th[a].timer
  /\ th' = [th EXCEPT ![a].timer = FALSE, ![a].popped = @ + 1, ![a].ripe = TRUE]
  /\ UNCHANGED <<works, file, table, waiter, lost, strikes, calls, seen>>

\* The call is still there; it is cancelled only once.
Strike(a) ==
  /\ th[a].popped > 0 /\ ~At(a, "idle")
  /\ th' = [th EXCEPT ![a].popped = @ - 1, ![a].cancelled = TRUE]
  /\ strikes' = strikes \cup {s \in {[fd |-> th[a].fd, event |-> EventOf(th[a].op),
                                      call |-> th[a].call]} : ~th[a].cancelled}
  /\ UNCHANGED <<works, file, table, waiter, lost, calls, seen>>

\* cancelEvent() wakes whoever is registered now, if epoll_ctl() goes along.
CancelEvent(s) ==
  /\ s \in strikes
  /\ strikes' = strikes \ {s}
  /\ IF waiter[s.fd][s.event] # None /\ s.fd \notin lost
     THEN /\ Wake(s.fd, {s.event})
          /\ seen' = [seen EXCEPT !.stray = @ \/ th[waiter[s.fd][s.event]].call # s.call]
     ELSE UNCHANGED <<waiter, th, seen>>
  /\ UNCHANGED <<works, file, table, lost, calls>>

-----------------------------------------------------------------------------
(***************************************************************************)
(* Opening and closing; the calls that set modes and timeouts; sleeping.   *)
(***************************************************************************)

\* A number is opened again while the table or a call still knows it.
Known(fd) == table[fd] # None \/ InCall(fd) # {}

\* socket(): the kernel gives a number that is free.
Socket(a, fd) ==
  /\ Calls(a)
  /\ file[fd] = None
  /\ file' = [file EXCEPT ![fd] = NewFile]
  /\ th' = [th EXCEPT ![a] = IF a \in Hooked THEN Asks(fd, "opened") ELSE Rest]
  /\ seen' = [seen EXCEPT !.again = @ \cup {f \in {fd} : Known(f)}]
  /\ UNCHANGED <<works, table, waiter, lost, strikes>>

\* get(fd, true), after a fiber's socket() and anybody's accept(): a context that is
\* there is kept as it is, a new one makes the socket non-blocking.
Register(a) ==
  LET fd == th[a].fd IN
  /\ At(a, "opened")
  /\ IF table[fd] = None
     THEN /\ table' = [table EXCEPT ![fd] = NewCtx]
          /\ file' = IF file[fd] = None THEN file ELSE [file EXCEPT ![fd].nonblock = TRUE]
     ELSE UNCHANGED <<table, file>>
  /\ th' = [th EXCEPT ![a] = Rest]
  /\ UNCHANGED <<works, waiter, lost, strikes, calls, seen>>

Shut(fd) ==
  /\ file' = [file EXCEPT ![fd] = None]
  /\ lost' = lost \cup {f \in {fd} : \E e \in Event : waiter[f][e] # None}

Closes(a, fd) == Calls(a) /\ Usable(fd) /\ \A b \in InCall(fd) : ~At(b, "del") /\ ~At(b, "close")

\* close() with hooks, or of a number without a context, is the kernel's alone.
CloseHooked(a, fd) ==
  /\ Closes(a, fd)
  /\ a \in Hooked \/ table[fd] = None
  /\ Shut(fd)
  /\ th' = [th EXCEPT ![a] = Rest]
  /\ UNCHANGED <<works, table, waiter, strikes, seen>>

\* Without hooks it first wakes the waiters, cancelAll(), if the thread belongs to an
\* IOManager and epoll_ctl() goes along ...
Close(a, fd, iom) ==
  /\ Closes(a, fd)
  /\ a \in Plain /\ table[fd] # None
  /\ LET woken == IF iom /\ fd \notin lost THEN {waiter[fd][e] : e \in Event} ELSE {} IN
     /\ waiter' = [waiter EXCEPT ![fd] = [e \in Event |-> IF @[e] \in woken THEN None ELSE @[e]]]
     /\ th' = [b \in Actors |->
                 CASE b = a -> Asks(fd, "del")
                   [] b \in woken -> [th[b] EXCEPT !.pc = "woken"]
                   [] OTHER -> th[b]]
     /\ seen' = [seen EXCEPT !.stray = @ \/ woken \ {None} # {}]
  /\ UNCHANGED <<works, file, table, lost, strikes>>

\* ... then forgets the context, and then closes.
Del(a) ==
  /\ At(a, "del")
  /\ table' = [table EXCEPT ![th[a].fd] = None]
  /\ th' = [th EXCEPT ![a].pc = "close"]
  /\ seen' = [seen EXCEPT !.gone = @ \cup {th[a].fd}]
  /\ UNCHANGED <<works, file, waiter, lost, strikes, calls>>

CloseEnds(a) ==
  /\ At(a, "close")
  /\ Shut(th[a].fd)
  /\ th' = [th EXCEPT ![a] = Rest]
  /\ UNCHANGED <<works, table, waiter, strikes, calls, seen>>

\* Broken on purpose: the socket is given the mode that the user asks for.
SetFlPassed(a, fd, nonblock) ==
  /\ Calls(a)
  /\ Usable(fd)
  /\ table' = IF table[fd] # None THEN [table EXCEPT ![fd].userNonblock = nonblock] ELSE table
  /\ file' = [file EXCEPT ![fd].nonblock = nonblock]
  /\ th' = [th EXCEPT ![a] = Rest]
  /\ seen' = [seen EXCEPT !.asked = @ \cup {f \in {fd} : nonblock}]
  /\ UNCHANGED <<works, waiter, lost, strikes>>

\* fcntl(F_SETFL), hooks or not: a context keeps what the user asks for, while the
\* socket stays non-blocking (m_sysNonblock).
SetFl(a, fd, nonblock) ==
  /\ Calls(a)
  /\ Usable(fd)
  /\ IF table[fd] # None
     THEN /\ table' = [table EXCEPT ![fd].userNonblock = nonblock]
          /\ file' = [file EXCEPT ![fd].nonblock = TRUE]
     ELSE /\ file' = [file EXCEPT ![fd].nonblock = nonblock]
          /\ UNCHANGED table
  /\ th' = [th EXCEPT ![a] = Rest]
  /\ seen' = [seen EXCEPT !.asked = @ \cup {f \in {fd} : nonblock}]
  /\ UNCHANGED <<works, waiter, lost, strikes>>

\* ioctl(FIONBIO) is noted too, and goes to the kernel as it is.
Fionbio(a, fd, nonblock) ==
  /\ Calls(a)
  /\ Usable(fd)
  /\ table' = IF table[fd] # None THEN [table EXCEPT ![fd].userNonblock = nonblock] ELSE table
  /\ file' = [file EXCEPT ![fd].nonblock = nonblock]
  /\ th' = [th EXCEPT ![a] = Rest]
  /\ seen' = [seen EXCEPT !.asked = @ \cup {f \in {fd} : nonblock},
                         !.cleared = @ \cup {f \in {fd} : ~nonblock}]
  /\ UNCHANGED <<works, waiter, lost, strikes>>

\* setsockopt(): whatever the option, its value becomes a timeout, the one for sending
\* unless the option is SO_RCVTIMEO.
SetSockOpt(a, fd, opt) ==
  /\ Calls(a)
  /\ Usable(fd) /\ a \in Hooked /\ table[fd] # None
  /\ table' = IF opt = "SO_RCVTIMEO" THEN [table EXCEPT ![fd].recvTimeout = TRUE]
              ELSE [table EXCEPT ![fd].sendTimeout = TRUE]
  /\ th' = [th EXCEPT ![a] = Rest]
  /\ UNCHANGED <<works, file, waiter, lost, strikes, seen>>

\* sleep(), usleep(), nanosleep(): a timer schedules the fiber, which yields.
Sleep(a) ==
  /\ Calls(a)
  /\ a \in Hooked
  /\ th' = [th EXCEPT ![a] = [Rest EXCEPT !.pc = "asleep"]]
  /\ UNCHANGED <<works, file, table, waiter, lost, strikes, seen>>

SleepEnds(a) ==
  /\ At(a, "asleep")
  /\ th' = [th EXCEPT ![a] = Rest]
  /\ UNCHANGED <<works, file, table, waiter, lost, strikes, calls, seen>>

-----------------------------------------------------------------------------
\* The network (external): something arrives, or can be sent (what nobody has called for
\* may as well do so later); a connection is decided.
Arrive(fd, e) ==
  /\ \E a \in InCall(fd) : EventOf(th[a].op) = e
  /\ Link(fd) \notin {"closed", "connecting"} /\ e \notin file[fd].ready
  /\ file' = [file EXCEPT ![fd].ready = @ \cup {e}]
  /\ UNCHANGED <<works, table, waiter, lost, th, strikes, calls, seen>>

Decide(fd, link) ==
  /\ Link(fd) = "connecting"
  /\ file' = [file EXCEPT ![fd].link = link, ![fd].ready = IF link = "up" THEN {"WRITE"} ELSE Event]
  /\ UNCHANGED <<works, table, waiter, lost, th, strikes, calls, seen>>

DoIo(a) ==
  \/ Done(a) \/ Fails(a) \/ Block(a) \/ Unblock(a) \/ Again(a)
  \/ Arm(a) \/ Add(a) \/ Resume(a) \/ CheckError(a)

Callback(a) == Pop(a) \/ Strike(a)

Operation(a, fd) ==
  \/ \E op \in Op : Call(a, op, fd)
  \/ Socket(a, fd)
  \/ CloseHooked(a, fd)
  \/ \E iom \in BOOLEAN : Close(a, fd, iom)
  \/ \E nonblock \in BOOLEAN : SetFl(a, fd, nonblock) \/ Fionbio(a, fd, nonblock)
  \/ \E opt \in {"SO_RCVTIMEO", "another"} : SetSockOpt(a, fd, opt)

Next ==
  \/ \E a \in Actors :
       \/ DoIo(a) \/ Callback(a)
       \/ Register(a) \/ Del(a) \/ CloseEnds(a)
       \/ Sleep(a) \/ SleepEnds(a)
       \/ \E fd \in Fds : Operation(a, fd)
  \/ \E s \in strikes : CancelEvent(s)
  \/ \E fd \in Fds, e \in Event : Report(fd, e) \/ Arrive(fd, e)
  \/ \E fd \in Fds, link \in {"up", "refused"} : Decide(fd, link)

\* Fibers run, timers expire and their callbacks are run by some worker.
Fairness ==
  /\ \A a \in Actors : WF_vars(DoIo(a)) /\ WF_vars(Pop(a)) /\ WF_vars(Strike(a))
  /\ WF_vars(\E s \in strikes : CancelEvent(s))

Spec == Init /\ [][Next]_vars

FairSpec == Spec /\ Fairness

-----------------------------------------------------------------------------
(***************************************************************************)
(* Properties                                                              *)
(***************************************************************************)

\* A fiber never blocks its thread in the kernel in a call of hook.cc on a socket
\* that has a context, and is never told EAGAIN on a socket nobody made non-blocking:
\* unless FIONBIO cleared the mode behind the context, the number was opened again
\* while a context or a call still had it, or close() took the context away first.
Modes ==
  \A a \in Hooked :
    LET fd == th[a].fd IN
    /\ At(a, "blocked") /\ th[a].managed => fd \in seen.cleared \cup seen.again \cup seen.gone
    /\ th[a].res = "again" => fd \in seen.asked \cup seen.again \cup seen.gone

\* A call times out only by a timer of its own, however late callbacks run.
OwnTimeout == \A a \in Actors : th[a].res = "timeout" => th[a].ripe

\* connect() returns 0 on a connection still in progress only because addEvent()
\* failed, or another call's late callback or a close() woke it.
ConnectTruth ==
  \A a \in Hooked : th[a].res = "early" => ~works \/ seen.stray \/ th[a].fd \in seen.again \cup lost

\* The registration was made after the callback had run: nothing will time it out.
Deaf(a) ==
  /\ th[a].cancelled
  /\ \A s \in strikes : s.fd = th[a].fd => s.event # EventOf(th[a].op)

\* A call that waits with a timeout is resumed, unless its timer expired too early, or
\* the number was closed under it.
TimedCallsEnd ==
  \A a \in Hooked : At(a, "wait") /\ th[a].to ~> ~At(a, "wait") \/ Deaf(a) \/ th[a].fd \in lost

=============================================================================
