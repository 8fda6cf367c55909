------------------------------- MODULE IOManager -------------------------------
(***************************************************************************)
(* libcocao's IOManager (iomanager.h, iomanager.cc): a Scheduler whose     *)
(* workers, when they find no task, look for file descriptors that are     *)
(* ready (epoll) and for timers that are due, and schedule whoever waits   *)
(* for them.                                                               *)
(*                                                                         *)
(* The Scheduler's own races are the subject of Scheduler.tla: here a      *)
(* task is taken in one step and a fiber yields in one step.  What is      *)
(* split is what the IOManager does between its locks: epoll_ctl() and the *)
(* bookkeeping after it, scheduling and counting, the two reads of         *)
(* stopping(), epoll_wait() and the handling of what it returned, tickle().*)
(*                                                                         *)
(* epoll is external and modelled after Linux (edge triggered).  There     *)
(* EPOLL_CTL_DEL of an fd that is not registered fails, and that is how    *)
(* addEvent() registers the first event of an fd.  So that the rest of the *)
(* code is reached the op is a variable that never changes: firstOp "DEL"  *)
(* is the program as it is, "ADD" the program with that constant replaced. *)
(***************************************************************************)
EXTENDS Integers, Sequences, FiniteSets, SequencesExt

CONSTANTS
  Workers,      \* the threads in run()
  Fds,          \* the descriptors in use, natural numbers
  Pipe,         \* m_tickleFds[0]
  FirstSize,    \* contextResize(32) in the constructor
  Jobs,         \* fibers and callbacks
  Callbacks,    \* the jobs that are callbacks
  Initial,      \* the jobs scheduled before the workers start
  NoJob, None,  \* an empty EventContext; nobody
  PipeSize,     \* how many bytes the tickle pipe holds
  FirstOps,     \* values of firstOp
  MaxCalls      \* bound: calls of operations by bodies

ASSUME IOAssumption ==
  /\ Fds \subseteq Nat /\ IsFiniteSet(Fds) /\ Fds # {} /\ Pipe \notin Fds
  /\ FirstSize \in Nat /\ PipeSize \in Nat \ {0} /\ MaxCalls \in Nat
  /\ Initial \in Seq(Jobs) /\ NoJob \notin Jobs /\ Callbacks \subseteq Jobs
  /\ \A i, k \in DOMAIN Initial : Initial[i] = Initial[k] => i = k
  /\ IsFiniteSet(Workers) /\ None \notin Workers /\ IsFiniteSet(Jobs)
  /\ FirstOps \subseteq {"ADD", "DEL"}

VARIABLES
  firstOp,  \* the op of an fd's first registration
  interest, \* epoll: what an fd is registered for, or Absent
  level,    \* the condition an fd is in
  onlist,   \* epoll's ready list
  pipe,     \* bytes in the tickle pipe
  size,     \* m_fdContexts.size()
  slot,     \* FdContext::read and write: the fiber or callback that waits
  lock,     \* FdContext::mutex
  pending,  \* m_pendingEventCount
  tasks,    \* m_tasks
  count,    \* m_activateThreadCount and m_idleThreadCount
  stopping, \* m_stopping
  life,     \* a job is fresh, live, asleep with a timer, ended, or dropped by delEvent()
  th,       \* a worker's place and local variables
  seen,     \* calls made (bound) and three facts of the past, see TypeOK
  fault     \* how the program left defined behaviour

epoll == <<interest, level, onlist>>
ctx == <<size, slot, lock>>
sched == <<tasks, count, stopping>>
vars == <<firstOp, epoll, pipe, ctx, pending, sched, life, th, seen, fault>>

Event == {"READ", "WRITE"}
Condition == Event \cup {"HUP"}
Absent == {"absent"}    \* not registered; {} is registered for nothing but HUP
Report == [fd : Fds, what : SUBSET Condition] \cup [fd : {Pipe}, what : {{}}]
Place == {"scan", "body", "grow", "added", "yield", "fire", "count", "tickle", "write",
          "idle", "check", "wait", "expire", "event", "leave", "exit"}
Thread == [pc : Place,
           back : {"scan", "body", "count"}, \* where tickle() returns to
           cur : Jobs \cup {NoJob},          \* run()'s task
           fd : Fds,                         \* the fd being handled
           todo : SUBSET Event,              \* the event to add, those still to trigger
           who : Jobs \cup {NoJob},          \* whom addEvent() registers
           got : Seq(Report),                \* what epoll_wait() returned
           term : BOOLEAN]                   \* the idle fiber has ended

TypeOK ==
  /\ firstOp \in FirstOps
  /\ interest \in [Fds -> (SUBSET Event) \cup {Absent}]
  /\ level \in [Fds -> SUBSET Condition]
  /\ onlist \subseteq Fds \cup {Pipe}
  /\ pipe \in 0..PipeSize
  /\ size \in Nat
  /\ slot \in [Fds -> [Event -> Jobs \cup {NoJob}]]
  /\ lock \in [Fds -> Workers \cup {None}]
  /\ pending \in Nat
  /\ tasks \in Seq(Jobs)
  /\ count \in [active : Nat, idle : Nat]
  /\ stopping \in BOOLEAN
  /\ life \in [Jobs -> {"fresh", "live", "asleep", "ended", "dropped"}]
  /\ th \in [Workers -> Thread]
  /\ seen \in [calls : 0..MaxCalls,
               orphan : SUBSET Fds,  \* fds closed under a waiter, the number in use again
               both : BOOLEAN,       \* some fd had both its events waited for at one time
               late : BOOLEAN]       \* a task was scheduled after an idle fiber had ended
  /\ fault \in {"none", "assert", "null", "shrunk"}

Init ==
  /\ firstOp \in FirstOps
  /\ interest = [fd \in Fds |-> Absent]
  /\ level = [fd \in Fds |-> {}]
  /\ onlist = {} /\ pipe = 0
  /\ size = FirstSize
  /\ slot = [fd \in Fds |-> [e \in Event |-> NoJob]]
  /\ lock = [fd \in Fds |-> None]
  /\ pending = 0
  /\ tasks = Initial /\ count = [active |-> 0, idle |-> 0] /\ stopping = FALSE
  /\ life = [j \in Jobs |-> IF j \in Range(Initial) THEN "live" ELSE "fresh"]
  /\ th = [w \in Workers |-> [pc |-> "scan", back |-> "scan", cur |-> NoJob,
                              fd |-> CHOOSE fd \in Fds : TRUE, todo |-> {}, who |-> NoJob,
                              got |-> <<>>, term |-> FALSE]]
  /\ seen = [calls |-> 0, orphan |-> {}, both |-> FALSE, late |-> FALSE]
  /\ fault = "none"

\* FdContext::events: every section that changes it changes the waiters alike.
events(fd) == {e \in Event : slot[fd][e] # NoJob}

\* Every step is one of a program that is still in the defined world.
Alive == fault = "none" /\ UNCHANGED <<firstOp, fault>>

At(w, p) == th[w].pc = p
Become(w, thread) == th' = [th EXCEPT ![w] = thread]
Goto(w, p) == Become(w, [th[w] EXCEPT !.pc = p])

-----------------------------------------------------------------------------
(***************************************************************************)
(* epoll (external).                                                       *)
(***************************************************************************)

\* epoll_ctl() fails when it adds what is there, or changes what is not ...
CtlWorks(op, fd) == (op = "ADD") <=> (interest[fd] = Absent)

\* ... and puts the fd on the ready list when something of interest is there.
Ctl(op, fd, es) ==
  /\ interest' = [interest EXCEPT ![fd] = IF op = "DEL" THEN Absent ELSE es]
  /\ onlist' = IF op = "DEL" THEN onlist \ {fd}
               ELSE onlist \cup {f \in {fd} : level[f] \cap (es \cup {"HUP"}) # {}}
  /\ UNCHANGED level

\* An fd becomes readable or writable; when its peer is gone, both.
Ready(fd, c) ==
  /\ Alive
  /\ c \notin level[fd]
  /\ level' = [level EXCEPT ![fd] = IF c = "HUP" THEN Condition ELSE @ \cup {c}]
  /\ onlist' = onlist \cup {f \in {fd} : interest[f] # Absent /\ c \in interest[f] \cup {"HUP"}}
  /\ UNCHANGED <<interest, pipe, ctx, pending, sched, life, th, seen>>

\* What epoll_wait() has to report.
Reports ==
  LET What(fd) == level[fd] \cap (interest[fd] \cup {"HUP"}) IN
  {[fd |-> fd, what |-> What(fd)] : fd \in {f \in onlist \cap Fds : What(f) # {}}}
  \cup {[fd |-> f, what |-> {}] : f \in {g \in onlist \ Fds : pipe > 0}}

-----------------------------------------------------------------------------
(***************************************************************************)
(* run() and schedule().                                                   *)
(***************************************************************************)

\* A fiber that still runs is passed over by the scan.
Takeable(j) == \A w \in Workers : th[w].cur # j

\* On to a place, by way of tickle() if need be.
Then(w, tickle, place) ==
  [th[w] EXCEPT !.pc = IF tickle THEN "tickle" ELSE place,
                !.back = IF tickle THEN place ELSE "scan"]

\* The first task that can be taken; a rest in the list asks for a tickle.
Take(w) ==
  /\ Alive
  /\ At(w, "scan")
  /\ \E i \in DOMAIN tasks :
       /\ Takeable(tasks[i]) /\ \A k \in 1..(i - 1) : ~Takeable(tasks[k])
       /\ tasks' = RemoveAt(tasks, i)
       /\ Become(w, [Then(w, i < Len(tasks), "body") EXCEPT !.cur = tasks[i]])
  /\ count' = [count EXCEPT !.active = @ + 1]
  /\ UNCHANGED <<epoll, pipe, ctx, pending, stopping, life, seen>>

\* Nothing to take: the idle fiber is resumed, or the worker is done.
TakeNothing(w) ==
  /\ Alive
  /\ At(w, "scan")
  /\ \A i \in DOMAIN tasks : ~Takeable(tasks[i])
  /\ Goto(w, IF th[w].term THEN "exit" ELSE "idle")
  /\ count' = IF th[w].term THEN count ELSE [count EXCEPT !.idle = @ + 1]
  /\ UNCHANGED <<epoll, pipe, ctx, pending, tasks, stopping, life, seen>>

\* schedule(): append, and tickle() when the list was empty.
Schedule(w, j, back) ==
  /\ tasks' = Append(tasks, j)
  /\ Become(w, Then(w, tasks = <<>>, back))

\* tickle() returns when somebody idles ...
Tickle(w) ==
  /\ Alive
  /\ At(w, "tickle")
  /\ IF count.idle > 0 THEN Become(w, Then(w, FALSE, th[w].back)) ELSE Goto(w, "write")
  /\ UNCHANGED <<epoll, pipe, ctx, pending, sched, life, seen>>

\* ... or writes to the pipe, where it waits while the pipe is full.
Write(w) ==
  /\ Alive
  /\ At(w, "write") /\ pipe < PipeSize
  /\ pipe' = pipe + 1
  /\ onlist' = onlist \cup {Pipe}
  /\ Become(w, Then(w, FALSE, th[w].back))
  /\ UNCHANGED <<interest, level, ctx, pending, sched, life, seen>>

\* A body calls an operation (bound: MaxCalls such calls).
Calls(w) == Alive /\ At(w, "body") /\ seen.calls < MaxCalls
Noted == [seen EXCEPT !.calls = @ + 1]

\* A job nobody has handed over yet.
Unused(j) == life[j] = "fresh" /\ \A u \in Workers : th[u].who # j

Spawn(w, j) ==
  /\ Calls(w)
  /\ Unused(j)
  /\ Schedule(w, j, "body")
  /\ life' = [life EXCEPT ![j] = "live"]
  /\ seen' = Noted
  /\ UNCHANGED <<epoll, pipe, ctx, pending, count, stopping>>

\* A body reads or writes until the fd would block.
Drain(w, fd, e) ==
  /\ Calls(w)
  /\ e \in level[fd]
  /\ level' = [level EXCEPT ![fd] = @ \ {e}]
  /\ seen' = Noted
  /\ UNCHANGED <<interest, onlist, pipe, ctx, pending, sched, life, th>>

\* close() with hooks on, and the next socket() or accept() that is given the
\* number: the kernel forgets the registration, the FdContext does not.
Reuse(w, fd) ==
  /\ Calls(w)
  /\ interest' = [interest EXCEPT ![fd] = Absent]
  /\ level' = [level EXCEPT ![fd] = {}]
  /\ onlist' = onlist \ {fd}
  /\ seen' = [Noted EXCEPT !.orphan = @ \cup {f \in {fd} : interest[f] # Absent}]
  /\ UNCHANGED <<pipe, ctx, pending, sched, life, th>>

\* The body ends, or gives itself to a timer, or yields after addEvent().
Leave(w, l) ==
  /\ life' = [life EXCEPT ![th[w].cur] = l]
  /\ Become(w, [th[w] EXCEPT !.pc = "scan", !.cur = NoJob])
  /\ count' = [count EXCEPT !.active = @ - 1]
  /\ UNCHANGED <<epoll, pipe, ctx, pending, tasks, stopping>>

End(w) == Alive /\ At(w, "body") /\ Leave(w, "ended") /\ UNCHANGED seen
Sleep(w) == Calls(w) /\ th[w].cur \notin Callbacks /\ Leave(w, "asleep") /\ seen' = Noted
Yield(w) == Alive /\ At(w, "yield") /\ Leave(w, life[th[w].cur]) /\ UNCHANGED seen

-----------------------------------------------------------------------------
(***************************************************************************)
(* addEvent().                                                             *)
(***************************************************************************)

\* Broken on purpose: the first event of an fd is registered as it ought to be.
AddOpAdds(fd) == IF events(fd) # {} THEN "MOD" ELSE "ADD"

AddOp(fd) == IF events(fd) # {} THEN "MOD" ELSE firstOp

\* Under the context's lock, epoll_ctl() comes first.
AddLocked(w, fd, e, j) ==
  /\ lock[fd] = None
  /\ IF CtlWorks(AddOp(fd), fd)
     THEN /\ Ctl(AddOp(fd), fd, events(fd) \cup {e})
          /\ lock' = [lock EXCEPT ![fd] = w]
          /\ Become(w, [th[w] EXCEPT !.pc = "added", !.fd = fd, !.todo = {e}, !.who = j])
     ELSE /\ Become(w, [th[w] EXCEPT !.pc = "body", !.who = NoJob, !.todo = {}])
          /\ UNCHANGED <<epoll, lock>>

\* The calling fiber waits itself, or leaves a callback.
AddEvent(w, fd, e, j) ==
  /\ Calls(w)
  /\ IF j \in Callbacks THEN Unused(j) ELSE j = th[w].cur
  /\ IF size > fd
     THEN AddLocked(w, fd, e, j)
     ELSE /\ Become(w, [th[w] EXCEPT !.pc = "grow", !.fd = fd, !.todo = {e}, !.who = j])
          /\ UNCHANGED <<epoll, lock>>
  /\ seen' = Noted
  /\ UNCHANGED <<pipe, size, slot, pending, sched, life>>

\* contextResize(fd * 1.5): the table gets that long, or that short when another
\* thread has made it longer in the meantime.
NewSize(fd) == (3 * fd) \div 2
Cut(fd) == {f \in Fds : NewSize(fd) <= f /\ f < size /\ (events(f) # {} \/ lock[f] # None)}

Grow(w) ==
  LET fd == th[w].fd IN
  /\ fault = "none"
  /\ At(w, "grow")
  /\ size' = NewSize(fd)
  /\ fault' = IF Cut(fd) # {} \/ NewSize(fd) <= fd THEN "shrunk" ELSE fault
  /\ AddLocked(w, fd, CHOOSE e \in Event : e \in th[w].todo, th[w].who)
  /\ UNCHANGED <<firstOp, pipe, slot, pending, sched, life, seen>>

\* Broken on purpose: an fd is counted, not an event.
AddedOnce(w) ==
  LET fd == th[w].fd
      e == CHOOSE x \in Event : x \in th[w].todo
      j == th[w].who IN
  /\ Alive
  /\ At(w, "added") /\ e \notin events(fd)
  /\ pending' = IF events(fd) = {} THEN pending + 1 ELSE pending
  /\ slot' = [slot EXCEPT ![fd][e] = j]
  /\ lock' = [lock EXCEPT ![fd] = None]
  /\ life' = [life EXCEPT ![j] = "live"]
  /\ Become(w, [th[w] EXCEPT !.pc = IF j = th[w].cur THEN "yield" ELSE "body", !.who = NoJob,
                      !.todo = {}])
  /\ UNCHANGED <<epoll, pipe, size, sched, seen>>

\* Then the count, the event, the assertion that nobody waits for it, the waiter.
\* A fiber that registered itself yields next (do_io()).
Added(w) ==
  LET fd == th[w].fd
      e == CHOOSE x \in Event : x \in th[w].todo
      j == th[w].who IN
  /\ fault = "none"
  /\ At(w, "added")
  /\ pending' = pending + 1
  /\ fault' = IF e \in events(fd) THEN "assert" ELSE fault
  /\ slot' = [slot EXCEPT ![fd][e] = j]
  /\ lock' = [lock EXCEPT ![fd] = None]
  /\ life' = [life EXCEPT ![j] = "live"]
  /\ Become(w, [th[w] EXCEPT !.pc = IF j = th[w].cur THEN "yield" ELSE "body", !.who = NoJob,
                      !.todo = {}])
  /\ seen' = [seen EXCEPT !.both = @ \/ events(fd) \cup {e} = Event]
  /\ UNCHANGED <<firstOp, epoll, pipe, size, sched>>

-----------------------------------------------------------------------------
(***************************************************************************)
(* delEvent(), cancelEvent() and cancelAll() from a body; triggerEvent().  *)
(***************************************************************************)

\* Broken on purpose: the fd is always deleted.
LeftOpDel(es) == "DEL"

\* MOD to what is left, DEL when nothing is.
LeftOp(es) == IF es = {} THEN "DEL" ELSE "MOD"

CtlLeave(fd, es) == CtlWorks(LeftOp(es), fd) /\ Ctl(LeftOp(es), fd, es)

\* The waiter of a deleted event is told nothing.
DelEvent(w, fd, e) ==
  /\ Calls(w)
  /\ size > fd /\ lock[fd] = None /\ e \in events(fd)
  /\ CtlLeave(fd, events(fd) \ {e})
  /\ pending' = pending - 1
  /\ life' = [life EXCEPT ![slot[fd][e]] = "dropped"]
  /\ slot' = [slot EXCEPT ![fd][e] = NoJob]
  /\ seen' = Noted
  /\ UNCHANGED <<pipe, size, lock, sched, th>>

\* The lock is kept until everything is triggered and counted.
Cancel(w, fd, es) ==
  /\ Calls(w)
  /\ size > fd /\ lock[fd] = None /\ es # {} /\ es \subseteq events(fd)
  /\ CtlLeave(fd, events(fd) \ es)
  /\ lock' = [lock EXCEPT ![fd] = w]
  /\ Become(w, [th[w] EXCEPT !.pc = "fire", !.fd = fd, !.todo = es])
  /\ seen' = Noted
  /\ UNCHANGED <<pipe, size, slot, pending, sched, life>>

CancelEvent(w, fd, e) == Cancel(w, fd, {e})
CancelAll(w, fd) == Cancel(w, fd, events(fd))

\* READ before WRITE.
NextEvent(es) == IF "READ" \in es THEN "READ" ELSE "WRITE"

\* Broken on purpose: the waiter stays in the context.
FireKept(w) ==
  LET fd == th[w].fd
      e == NextEvent(th[w].todo) IN
  /\ Alive
  /\ At(w, "fire") /\ e \in events(fd)
  /\ Schedule(w, slot[fd][e], "count")
  /\ UNCHANGED <<epoll, pipe, ctx, pending, count, stopping, life, seen>>

\* triggerEvent(): the waiter goes to the scheduler ...
Fire(w) ==
  LET fd == th[w].fd
      e == NextEvent(th[w].todo) IN
  /\ Alive
  /\ At(w, "fire") /\ e \in events(fd)
  /\ Schedule(w, slot[fd][e], "count")
  /\ slot' = [slot EXCEPT ![fd][e] = NoJob]
  /\ seen' = [seen EXCEPT !.late = @ \/ \E u \in Workers : th[u].term]
  /\ UNCHANGED <<epoll, pipe, size, lock, pending, count, stopping, life>>

\* ... which is a null pointer when nobody waits.
FireNull(w) ==
  /\ fault = "none"
  /\ At(w, "fire") /\ NextEvent(th[w].todo) \notin events(th[w].fd)
  /\ fault' = "null"
  /\ UNCHANGED <<firstOp, epoll, pipe, ctx, pending, sched, life, th, seen>>

\* Broken on purpose: both events are counted out at once.
CountBoth(w) ==
  LET fd == th[w].fd
      next == IF th[w].cur = NoJob THEN "event" ELSE "body" IN
  /\ Alive
  /\ At(w, "count")
  /\ pending' = pending - 2
  /\ Become(w, [th[w] EXCEPT !.todo = {}, !.pc = next])
  /\ lock' = [lock EXCEPT ![fd] = None]
  /\ UNCHANGED <<epoll, pipe, size, slot, sched, life, seen>>

\* Each triggered event is counted out; after the last the lock is free.
Count(w) ==
  LET fd == th[w].fd
      rest == th[w].todo \ {NextEvent(th[w].todo)}
      next == IF th[w].cur = NoJob THEN "event" ELSE "body" IN
  /\ Alive
  /\ At(w, "count")
  /\ pending' = pending - 1
  /\ Become(w, [th[w] EXCEPT !.todo = rest, !.pc = IF rest # {} THEN "fire" ELSE next])
  /\ lock' = IF rest = {} THEN [lock EXCEPT ![fd] = None] ELSE lock
  /\ UNCHANGED <<epoll, pipe, size, slot, sched, life, seen>>

-----------------------------------------------------------------------------
(***************************************************************************)
(* idle().                                                                 *)
(***************************************************************************)

\* Broken on purpose: stopping() is the Scheduler's.
IdleReadNothing(w) ==
  /\ Alive
  /\ At(w, "idle")
  /\ Goto(w, "check")
  /\ UNCHANGED <<epoll, pipe, ctx, pending, sched, life, seen>>

\* stopping() reads m_pendingEventCount ...
IdleRead(w) ==
  /\ Alive
  /\ At(w, "idle")
  /\ Goto(w, IF pending = 0 THEN "check" ELSE "wait")
  /\ UNCHANGED <<epoll, pipe, ctx, pending, sched, life, seen>>

\* ... and then, under m_mutex, asks Scheduler::stopping().
Stopping == stopping /\ tasks = <<>> /\ count.active = 0

IdleCheck(w) ==
  /\ Alive
  /\ At(w, "check")
  /\ Become(w, [th[w] EXCEPT !.pc = IF Stopping THEN "leave" ELSE "wait", !.term = Stopping])
  /\ UNCHANGED <<epoll, pipe, ctx, pending, sched, life, seen>>

\* Broken on purpose: it blocks, and only a tickle ends it.
EpollWaitBlocks(w) ==
  /\ Alive
  /\ At(w, "wait") /\ Pipe \in onlist
  /\ \E s \in SetToSeqs(Reports) : Become(w, [th[w] EXCEPT !.pc = "expire", !.got = s])
  /\ onlist' = {}
  /\ UNCHANGED <<interest, level, pipe, ctx, pending, sched, life, seen>>

\* epoll_wait() with a timeout of 0: it never blocks.
EpollWait(w) ==
  /\ Alive
  /\ At(w, "wait")
  /\ \E s \in SetToSeqs(Reports) : Become(w, [th[w] EXCEPT !.pc = "expire", !.got = s])
  /\ onlist' = {}
  /\ UNCHANGED <<interest, level, pipe, ctx, pending, sched, life, seen>>

\* listExpiredCb(): any sleepers may be due.  They are scheduled together; tickle()
\* finds this very worker idle.
Expire(w) ==
  /\ Alive
  /\ At(w, "expire")
  /\ \E S \in SUBSET {j \in Jobs : life[j] = "asleep"} :
       /\ \E s \in SetToSeqs(S) : tasks' = tasks \o s
       /\ life' = [j \in Jobs |-> IF j \in S THEN "live" ELSE life[j]]
       /\ seen' = [seen EXCEPT !.late = @ \/ (S # {} /\ \E u \in Workers : th[u].term)]
  /\ Goto(w, "event")
  /\ UNCHANGED <<epoll, pipe, ctx, pending, count, stopping>>

\* What a report asks for: an error or a hang-up stands for whatever is waited for.
RealEvents(r) == IF "HUP" \in r.what THEN events(r.fd) ELSE r.what \cap Event

\* Broken on purpose: stale reports are believed.
WantedAlways(r) == RealEvents(r) # {}

\* A stale report, of which nothing is waited for, is skipped.
Wanted(r) == RealEvents(r) \cap events(r.fd) # {}

\* One report.  It is skipped too when epoll_ctl() refuses.  Otherwise everything
\* reported is triggered, whether it is still waited for or not.
Handle(w) ==
  LET r == Head(th[w].got)
      rest == events(r.fd) \ RealEvents(r) IN
  /\ Alive
  /\ At(w, "event") /\ th[w].got # <<>> /\ r.fd \in Fds /\ lock[r.fd] = None
  /\ IF Wanted(r) /\ CtlWorks(LeftOp(rest), r.fd)
     THEN /\ Ctl(LeftOp(rest), r.fd, rest)
          /\ lock' = [lock EXCEPT ![r.fd] = w]
          /\ Become(w, [th[w] EXCEPT !.pc = "fire", !.fd = r.fd, !.todo = RealEvents(r),
                              !.got = Tail(@)])
     ELSE Become(w, [th[w] EXCEPT !.got = Tail(@)]) /\ UNCHANGED <<epoll, lock>>
  /\ UNCHANGED <<pipe, size, slot, pending, sched, life, seen>>

\* The pipe is read until it is empty.
HandlePipe(w) ==
  /\ Alive
  /\ At(w, "event") /\ th[w].got # <<>> /\ Head(th[w].got).fd = Pipe
  /\ pipe' = 0
  /\ Become(w, [th[w] EXCEPT !.got = Tail(@)])
  /\ UNCHANGED <<epoll, ctx, pending, sched, life, seen>>

\* All handled, or the idle fiber has ended: back to run().
IdleLeave(w) ==
  /\ Alive
  /\ At(w, "leave") \/ (At(w, "event") /\ th[w].got = <<>>)
  /\ Goto(w, "scan")
  /\ count' = [count EXCEPT !.idle = @ - 1]
  /\ UNCHANGED <<epoll, pipe, ctx, pending, tasks, stopping, life, seen>>

-----------------------------------------------------------------------------
\* Scheduler::stop(), by the thread that owns the IOManager.
Stop ==
  /\ Alive
  /\ ~stopping /\ stopping' = TRUE
  /\ UNCHANGED <<epoll, pipe, ctx, pending, tasks, count, life, th, seen>>

BodyStep(w) ==
  \/ \E j \in Jobs : Spawn(w, j)
  \/ \E fd \in Fds, e \in Event :
       \/ Drain(w, fd, e)
       \/ \E j \in Jobs : AddEvent(w, fd, e, j)
       \/ DelEvent(w, fd, e)
       \/ CancelEvent(w, fd, e)
  \/ \E fd \in Fds : CancelAll(w, fd) \/ Reuse(w, fd)
  \/ Grow(w) \/ Added(w)
  \/ Fire(w) \/ FireNull(w) \/ Count(w)
  \/ Yield(w) \/ Sleep(w) \/ End(w)

RunStep(w) == Take(w) \/ TakeNothing(w) \/ Tickle(w) \/ Write(w)

IdleStep(w) ==
  \/ IdleRead(w) \/ IdleCheck(w)
  \/ EpollWait(w) \/ Expire(w)
  \/ Handle(w) \/ HandlePipe(w)
  \/ IdleLeave(w)

WorkerStep(w) == RunStep(w) \/ BodyStep(w) \/ IdleStep(w)

\* After a fault nothing that the source says constrains the program.
Faulted == fault # "none" /\ UNCHANGED vars

Next ==
  \/ \E w \in Workers : WorkerStep(w)
  \/ \E fd \in Fds, c \in Condition : Ready(fd, c)
  \/ Stop
  \/ Faulted

\* The kernel runs every thread.  Nothing becomes ready because it should.
Fairness == \A w \in Workers : WF_vars(WorkerStep(w))

Spec == Init /\ [][Next]_vars

FairSpec == Spec /\ Fairness

-----------------------------------------------------------------------------
(***************************************************************************)
(* Properties                                                              *)
(***************************************************************************)

Registered == {p \in Fds \X Event : p[2] \in events(p[1])}

\* Workers between triggering an event and counting it out.
Counting == {w \in Workers : At(w, "count")
                             \/ (th[w].pc \in {"tickle", "write"} /\ th[w].back = "count")}

\* m_pendingEventCount, which stopping() trusts without a lock, is the number of
\* registered events, and never less: an event is counted out only after its waiter
\* is in the scheduler's list.
PendingExact == fault = "none" => pending = Cardinality(Registered) + Cardinality(Counting)

\* How often a job is in the list, is being run, or waits for an event.
Uses(j) ==
  Cardinality({i \in DOMAIN tasks : tasks[i] = j})
  + Cardinality({w \in Workers : th[w].cur = j /\ ~At(w, "yield")})
  + Cardinality({p \in Registered : slot[p[1]][p[2]] = j})

\* A waiter is woken once per registration and never lost: at every moment a live
\* job is in exactly one place, whatever epoll reports, times out or is cancelled.
OnePlace == fault = "none" => \A j \in Jobs : Uses(j) = IF life[j] = "live" THEN 1 ELSE 0

\* As built: the first event of an fd is registered with EPOLL_CTL_DEL, which Linux
\* refuses, so nobody ever waits for an event.
NothingRegistered == firstOp = "DEL" => Registered = {}

\* While an fd's context is not locked epoll watches for exactly what it has waiters
\* for, except on an fd that was closed under its waiters.
Watched ==
  \A fd \in Fds \ seen.orphan :
    lock[fd] = None => interest[fd] = IF events(fd) = {} THEN Absent ELSE events(fd)

\* An fd that is waited for one event at a time never has an empty context
\* triggered, however late its reports are handled.  (With both events it has.)
OneKindSafe == ~seen.both => fault # "null"

\* Somebody is left to watch: as long as an event is registered, not every worker has
\* left, although each reads the count before it asks whether the scheduler is
\* stopping.  What is scheduled into a pool that is leaving breaks this.
Attended == ~seen.late /\ fault = "none" /\ Registered # {} => \E w \in Workers : ~th[w].term

\* A worker that cannot move: the pipe is full, or a context is locked for ever.
Stuck(w) ==
  \/ At(w, "exit")
  \/ At(w, "write") /\ pipe = PipeSize
  \/ At(w, "event") /\ th[w].got # <<>> /\ \E fd \in Fds : fd = Head(th[w].got).fd /\ lock[fd] # None
Jammed == \A w \in Workers : Stuck(w)

\* Someone waits for e on fd, and it is there.
Due(fd, e) == e \in events(fd) /\ level[fd] \cap {e, "HUP"} # {}

\* Whoever waits for something that is there is woken, unless somebody else takes it,
\* the fd is closed under the waiter, the pool is leaving, or every worker is stuck
\* behind a full pipe.
ReadyWakes ==
  \A fd \in Fds, e \in Event :
    Due(fd, e) ~> ~Due(fd, e) \/ fd \in seen.orphan \/ Jammed \/ seen.late \/ fault # "none"

=============================================================================
