------------------------------ MODULE Scheduler ------------------------------
(***************************************************************************)
(* libcocao's Scheduler (schedule.h, schedule.cc) together with the Fiber  *)
(* context switches it is made of (fiber.cc): N worker threads take tasks  *)
(* from one list under m_mutex and run each on a coroutine stack of its    *)
(* own; the thread that built the scheduler stops and joins them and, with *)
(* use_caller, is a worker itself while it is inside stop().               *)
(*                                                                         *)
(* A job is what a caller hands to schedule(): a Fiber, or a callback that *)
(* run() wraps in a fresh Fiber.  A job's body is any sequence of: submit  *)
(* another job, arrange to be scheduled again and yield, end.              *)
(*                                                                         *)
(* Undefined behaviour is kept visible.  A step with which the real        *)
(* program leaves the defined world (two threads on one stack, a jump to a *)
(* dead frame, exit() from inside a worker) sets "fault" and nothing       *)
(* follows: every property is about what happens up to that point, and     *)
(* whether that point can be reached at all is a property too.             *)
(***************************************************************************)
EXTENDS Integers, Sequences, FiniteSets, SequencesExt

CONSTANTS
  Pool,        \* threads that start() creates (m_threads)
  Main,        \* the thread that constructs, starts and stops the scheduler
  UseCaller,   \* m_useCaller: Main runs run() on m_rootFiber inside stop()
  Jobs,        \* the work that may be submitted
  Callbacks,   \* jobs submitted as std::function, the others as Fiber::ptr
  NoJob,       \* an empty ScheduleTask
  AnyThread,         \* thread -1: the task may run on every worker
  MaxYields,   \* bound: how often one job may yield
  MaxWakers    \* how many parties may schedule one yielded fiber, each on any
               \* thread; 0: fibers only reschedule themselves on their thread

Workers == Pool \cup (IF UseCaller THEN {Main} ELSE {})

ASSUME ConstantsAssumption ==
  /\ IsFiniteSet(Pool)
  /\ Main \notin Pool
  /\ AnyThread \notin Pool \cup {Main}
  /\ UseCaller \in BOOLEAN
  /\ NoJob \notin Jobs
  /\ Callbacks \subseteq Jobs
  /\ MaxYields \in Nat
  /\ MaxWakers \in Nat

VARIABLES
  tasks,      \* m_tasks, a list of [job, pin]
  active,     \* m_activateThreadCount
  idle,       \* m_idleThreadCount
  stopping,   \* m_stopping
  fstate,     \* a job's Fiber::m_state; before its Fiber exists what it is
  left,       \* how many yields the job has left (bound)
  wakers,     \* how many parties still hold the yielded fiber and will schedule it
  pc,         \* where a worker is in run()
  cur,        \* the worker's local "task", while its fiber may use the stack
  idleTerm,   \* the worker's idle_fiber has returned from idle(): state TERM
  mpc,        \* where Main is
  callerCtx,  \* what Main's t_thread_fiber->m_ctx would return into
  fault,      \* how the program left defined behaviour, or "none"
  late        \* history: a fiber was scheduled after a worker decided to exit

jobVars == <<fstate, left, wakers>>
workerVars == <<pc, cur, idleTerm>>
mainVars == <<mpc, callerCtx>>
vars == <<tasks, active, idle, stopping, jobVars, workerVars, mainVars, fault, late>>

Pins == Workers \cup {AnyThread}
Task == [job : Jobs, pin : Pins]
FiberState == {"unsubmitted", "callback", "READY", "RUNNING", "TERM"}
Place == {"unborn", "scan", "resume", "body", "yield", "swap", "after",
          "empty", "idle", "idleback", "exit"}

\* Between ++ m_activateThreadCount and its -- a worker is busy.
BusyPlace == {"resume", "body", "yield", "swap", "after"}
IdlePlace == {"idle", "idleback"}
Busy == {t \in Workers : pc[t] \in BusyPlace}
Idling == {t \in Workers : pc[t] \in IdlePlace}

\* t runs on the stack of job j's fiber: the fiber's context is not saved yet.
OnStack(t, j) == cur[t] = j /\ pc[t] \in {"body", "yield", "swap"}

Queued(j) == \E i \in DOMAIN tasks : tasks[i].job = j

TypeOK ==
  /\ tasks \in Seq(Task)
  /\ active \in Nat
  /\ idle \in Nat
  /\ stopping \in BOOLEAN
  /\ fstate \in [Jobs -> FiberState]
  /\ left \in [Jobs -> 0..MaxYields]
  /\ wakers \in [Jobs -> 0..MaxWakers]
  /\ pc \in [Workers -> Place]
  /\ cur \in [Workers -> Jobs \cup {NoJob}]
  /\ idleTerm \in [Workers -> BOOLEAN]
  /\ mpc \in {"main", "root", "join", "done"}
  /\ callerCtx \in {"none", "stop", "run"}
  /\ fault \in {"none", "shared_stack", "exit", "dead_frame"}
  /\ late \in BOOLEAN

Init ==
  /\ tasks = <<>> /\ active = 0 /\ idle = 0 /\ stopping = FALSE
  /\ fstate = [j \in Jobs |-> "unsubmitted"]
  /\ left = [j \in Jobs |-> MaxYields]
  /\ wakers = [j \in Jobs |-> 0]
  /\ pc = [t \in Workers |-> "unborn"]
  /\ cur = [t \in Workers |-> NoJob]
  /\ idleTerm = [t \in Workers |-> FALSE]
  /\ mpc = "main" /\ callerCtx = "none"
  /\ fault = "none" /\ late = FALSE

\* Every step is one of a program that is still in the defined world.
Alive == fault = "none" /\ UNCHANGED fault

-----------------------------------------------------------------------------
(***************************************************************************)
(* schedule(): one critical section that appends the task.  tickle() only  *)
(* logs in this class, so need_tickle leaves no trace.                     *)
(***************************************************************************)

\* Broken on purpose: the task is kept only when the list was empty.
PushWhenEmpty(q, j, p) == IF q = <<>> THEN <<[job |-> j, pin |-> p]>> ELSE q

Push(q, j, p) == Append(q, [job |-> j, pin |-> p])

\* The first time: the Fiber the caller built is READY (m_state's initialiser).
AsSubmitted(j) == IF j \in Callbacks THEN "callback" ELSE "READY"

Submit(j, p) ==
  /\ Alive
  /\ fstate[j] = "unsubmitted"
  /\ tasks' = Push(tasks, j, p)
  /\ fstate' = [fstate EXCEPT ![j] = AsSubmitted(j)]
  /\ UNCHANGED <<active, idle, stopping, left, wakers, workerVars, mainVars, late>>

\* schedule(fc, thread) by Main, before or after start().
MainSubmit(j, p) == mpc = "main" /\ Submit(j, p)

\* schedule(begin, end) by Main: both tasks in one critical section, unpinned.
MainSubmitBatch(j, k) ==
  /\ Alive
  /\ mpc = "main"
  /\ j # k /\ fstate[j] = "unsubmitted" /\ fstate[k] = "unsubmitted"
  /\ tasks' = Push(Push(tasks, j, AnyThread), k, AnyThread)
  /\ fstate' = [fstate EXCEPT ![j] = AsSubmitted(j), ![k] = AsSubmitted(k)]
  /\ UNCHANGED <<active, idle, stopping, left, wakers, workerVars, mainVars, late>>

\* schedule(fc, thread) from the body of a running job.
Spawn(t, j, p) == pc[t] = "body" /\ Submit(j, p)

\* A timer, an event or another thread schedules a fiber it was given.
\* schedule() looks at nothing but the list: not at m_stopping, not at m_state.
Wake(j) ==
  /\ Alive
  /\ wakers[j] > 0
  /\ wakers' = [wakers EXCEPT ![j] = @ - 1]
  /\ tasks' = Push(tasks, j, AnyThread)
  /\ late' = (late \/ \E t \in Workers : idleTerm[t])
  /\ UNCHANGED <<active, idle, stopping, fstate, left, workerVars, mainVars>>

-----------------------------------------------------------------------------
(***************************************************************************)
(* run(), one worker.                                                      *)
(***************************************************************************)

\* Broken on purpose: the test of a task's thread is gone.
EligibleAnywhere(t, k) == fstate[k.job] # "RUNNING"

\* Broken on purpose: a task for one thread waits for a thread called -1.
EligibleUnpinned(t, k) == k.pin = AnyThread /\ fstate[k.job] # "RUNNING"

\* The scan passes over tasks of other threads and over fibers marked RUNNING.
Eligible(t, k) == k.pin \in {AnyThread, t} /\ fstate[k.job] # "RUNNING"

\* The critical section takes the first eligible task of the list.
Take(t) ==
  /\ Alive
  /\ pc[t] = "scan"
  /\ \E i \in DOMAIN tasks :
       /\ Eligible(t, tasks[i])
       /\ \A k \in 1..(i - 1) : ~Eligible(t, tasks[k])
       /\ tasks' = RemoveAt(tasks, i)
       /\ cur' = [cur EXCEPT ![t] = tasks[i].job]
  /\ active' = active + 1
  /\ pc' = [pc EXCEPT ![t] = "resume"]
  /\ UNCHANGED <<idle, stopping, jobVars, idleTerm, mainVars, late>>

TakeNothing(t) ==
  /\ Alive
  /\ pc[t] = "scan"
  /\ \A i \in DOMAIN tasks : ~Eligible(t, tasks[i])
  /\ pc' = [pc EXCEPT ![t] = "empty"]
  /\ UNCHANGED <<tasks, active, idle, stopping, jobVars, cur, idleTerm, mainVars, late>>

\* resume() saves its caller in the thread's m_ctx: on Main that overwrites the
\* way back into stop().
Swapped(t) == callerCtx' = IF t = Main THEN "run" ELSE callerCtx

\* resume() of a fiber whose context is saved; a callback gets its Fiber here.
Resume(t) ==
  LET j == cur[t] IN
  /\ Alive
  /\ pc[t] = "resume"
  /\ fstate[j] # "TERM"
  /\ ~\E u \in Workers \ {t} : OnStack(u, j)
  /\ fstate' = [fstate EXCEPT ![j] = "RUNNING"]
  /\ pc' = [pc EXCEPT ![t] = "body"]
  /\ Swapped(t)
  /\ UNCHANGED <<tasks, active, idle, stopping, left, wakers, cur, idleTerm, mpc, late>>

\* resume() of a fiber another thread is still on: yield() marks it READY before
\* swapcontext() has saved it, and two scans may both have seen it READY.
ResumeShared(t) ==
  /\ fault = "none"
  /\ pc[t] = "resume"
  /\ fstate[cur[t]] # "TERM"
  /\ \E u \in Workers \ {t} : OnStack(u, cur[t])
  /\ fault' = "shared_stack"
  /\ UNCHANGED <<tasks, active, idle, stopping, jobVars, workerVars, mainVars, late>>

\* resume() of an ended fiber: MainFunc returns, uc_link is null, exit().
ResumeEnded(t) ==
  /\ fault = "none"
  /\ pc[t] = "resume"
  /\ fstate[cur[t]] = "TERM"
  /\ fault' = "exit"
  /\ UNCHANGED <<tasks, active, idle, stopping, jobVars, workerVars, mainVars, late>>

\* The body schedules its own fiber on its own thread, to yield next.
Requeue(t) ==
  LET j == cur[t] IN
  /\ Alive
  /\ MaxWakers = 0
  /\ pc[t] = "body"
  /\ left[j] > 0
  /\ left' = [left EXCEPT ![j] = @ - 1]
  /\ tasks' = Push(tasks, j, t)
  /\ pc' = [pc EXCEPT ![t] = "yield"]
  /\ UNCHANGED <<active, idle, stopping, fstate, wakers, cur, idleTerm, mainVars, late>>

\* The body hands its fiber to n others that will schedule it, to yield next
\* (sleep() in hook.cc gives it to a timer, do_io() to a timer and an event).
Arm(t, n) ==
  LET j == cur[t] IN
  /\ Alive
  /\ pc[t] = "body"
  /\ left[j] > 0
  /\ wakers[j] = 0
  /\ left' = [left EXCEPT ![j] = @ - 1]
  /\ wakers' = [wakers EXCEPT ![j] = n]
  /\ pc' = [pc EXCEPT ![t] = "yield"]
  /\ UNCHANGED <<tasks, active, idle, stopping, fstate, cur, idleTerm, mainVars, late>>

\* Broken on purpose: the state is left RUNNING.
YieldUnmarked(t) ==
  /\ Alive
  /\ pc[t] = "yield"
  /\ pc' = [pc EXCEPT ![t] = "swap"]
  /\ UNCHANGED <<tasks, active, idle, stopping, jobVars, cur, idleTerm, mainVars, late>>

\* yield(): READY is published first ...
YieldMark(t) ==
  /\ Alive
  /\ pc[t] = "yield"
  /\ fstate' = [fstate EXCEPT ![cur[t]] = "READY"]
  /\ pc' = [pc EXCEPT ![t] = "swap"]
  /\ UNCHANGED <<tasks, active, idle, stopping, left, wakers, cur, idleTerm, mainVars, late>>

\* ... and only then the context saved and the thread back in run().
YieldSwap(t) ==
  /\ Alive
  /\ pc[t] = "swap"
  /\ cur' = [cur EXCEPT ![t] = NoJob]
  /\ pc' = [pc EXCEPT ![t] = "after"]
  /\ UNCHANGED <<tasks, active, idle, stopping, jobVars, idleTerm, mainVars, late>>

\* The body ends: MainFunc marks the fiber TERM and yields for good.
End(t) ==
  /\ Alive
  /\ pc[t] = "body"
  /\ fstate' = [fstate EXCEPT ![cur[t]] = "TERM"]
  /\ cur' = [cur EXCEPT ![t] = NoJob]
  /\ pc' = [pc EXCEPT ![t] = "after"]
  /\ UNCHANGED <<tasks, active, idle, stopping, left, wakers, idleTerm, mainVars, late>>

\* Broken on purpose: the task is counted out twice.
ReleaseTwice(t) ==
  /\ Alive
  /\ pc[t] = "after"
  /\ active' = active - 2
  /\ pc' = [pc EXCEPT ![t] = "scan"]
  /\ UNCHANGED <<tasks, idle, stopping, jobVars, cur, idleTerm, mainVars, late>>

\* Back in run(): -- m_activateThreadCount, without the lock.
Release(t) ==
  /\ Alive
  /\ pc[t] = "after"
  /\ active' = active - 1
  /\ pc' = [pc EXCEPT ![t] = "scan"]
  /\ UNCHANGED <<tasks, idle, stopping, jobVars, cur, idleTerm, mainVars, late>>

\* Nothing to take: the idle fiber is resumed once, and counted meanwhile.
IdleEnter(t) ==
  /\ Alive
  /\ pc[t] = "empty" /\ ~idleTerm[t]
  /\ idle' = idle + 1
  /\ pc' = [pc EXCEPT ![t] = "idle"]
  /\ Swapped(t)
  /\ UNCHANGED <<tasks, active, stopping, jobVars, cur, idleTerm, mpc, late>>

\* Broken on purpose: a task that is being run is forgotten.
StoppingIfEmpty == stopping /\ tasks = <<>>

\* Broken on purpose: waits until no worker idles, the asking one included.
StoppingIfNoneIdle == stopping /\ tasks = <<>> /\ active = 0 /\ idle = 0

\* stopping(), evaluated under m_mutex.
Stopping == stopping /\ tasks = <<>> /\ active = 0

\* idle(): yields as long as stopping() is false, else returns and is TERM.
IdleCheck(t) ==
  /\ Alive
  /\ pc[t] = "idle"
  /\ idleTerm' = [idleTerm EXCEPT ![t] = Stopping]
  /\ pc' = [pc EXCEPT ![t] = "idleback"]
  /\ UNCHANGED <<tasks, active, idle, stopping, jobVars, cur, mainVars, late>>

IdleLeave(t) ==
  /\ Alive
  /\ pc[t] = "idleback"
  /\ idle' = idle - 1
  /\ pc' = [pc EXCEPT ![t] = "scan"]
  /\ UNCHANGED <<tasks, active, stopping, jobVars, cur, idleTerm, mainVars, late>>

\* run() returns on a pool thread, which ends.
Exit(t) ==
  /\ Alive
  /\ pc[t] = "empty" /\ idleTerm[t] /\ t # Main
  /\ pc' = [pc EXCEPT ![t] = "exit"]
  /\ UNCHANGED <<tasks, active, idle, stopping, jobVars, cur, idleTerm, mainVars, late>>

\* run() returns on Main's root fiber, whose last yield() swaps to whatever the
\* thread's m_ctx holds: stop(), or a frame of run() that has just returned.
ExitRoot ==
  /\ fault = "none"
  /\ UseCaller /\ mpc = "root"
  /\ pc[Main] = "empty" /\ idleTerm[Main]
  /\ pc' = [pc EXCEPT ![Main] = "exit"]
  /\ mpc' = IF callerCtx = "stop" THEN "join" ELSE mpc
  /\ fault' = IF callerCtx = "stop" THEN fault ELSE "dead_frame"
  /\ UNCHANGED <<tasks, active, idle, stopping, jobVars, cur, idleTerm, callerCtx, late>>

-----------------------------------------------------------------------------
(***************************************************************************)
(* start() and stop(), called by Main.                                     *)
(***************************************************************************)

\* Thread's constructor waits until the thread runs, so start() ends with every
\* pool thread at the top of run().  Called once (it does not guard itself).
Start ==
  /\ Alive
  /\ mpc = "main" /\ ~stopping
  /\ \A t \in Pool : pc[t] = "unborn"
  /\ Pool # {}
  /\ pc' = [t \in Workers |-> IF t \in Pool THEN "scan" ELSE pc[t]]
  /\ UNCHANGED <<tasks, active, idle, stopping, jobVars, cur, idleTerm, mainVars, late>>

\* start() after stop(): "Scheduler is stopped", nothing changes.
StartRefused == mpc = "done" /\ stopping /\ UNCHANGED vars

\* stop(): m_stopping is set without the lock, then the caller works too.
Stop ==
  /\ Alive
  /\ mpc = "main" /\ ~Stopping
  /\ stopping' = TRUE
  /\ IF UseCaller
     THEN /\ mpc' = "root"
          /\ callerCtx' = "stop"
          /\ pc' = [pc EXCEPT ![Main] = "scan"]
     ELSE mpc' = "join" /\ UNCHANGED <<callerCtx, pc>>
  /\ UNCHANGED <<tasks, active, idle, jobVars, cur, idleTerm, late>>

\* stop() takes the threads and joins each of them.
Join ==
  /\ Alive
  /\ mpc = "join"
  /\ \A t \in Pool : pc[t] \in {"unborn", "exit"}
  /\ mpc' = "done"
  /\ UNCHANGED <<tasks, active, idle, stopping, jobVars, workerVars, callerCtx, late>>

-----------------------------------------------------------------------------
MainStep ==
  \/ \E j \in Jobs, p \in Pins : MainSubmit(j, p)
  \/ \E j, k \in Jobs : MainSubmitBatch(j, k)
  \/ Start
  \/ StartRefused
  \/ Stop
  \/ Join

BodyStep(t) ==
  \/ \E j \in Jobs, p \in Pins : Spawn(t, j, p)
  \/ Requeue(t)
  \/ \E n \in 1..MaxWakers : Arm(t, n)
  \/ YieldMark(t)
  \/ YieldSwap(t)
  \/ End(t)

RunStep(t) ==
  \/ Take(t)
  \/ TakeNothing(t)
  \/ Resume(t)
  \/ ResumeShared(t)
  \/ ResumeEnded(t)
  \/ Release(t)
  \/ IdleEnter(t)
  \/ IdleCheck(t)
  \/ IdleLeave(t)
  \/ Exit(t)

WorkerStep(t) == RunStep(t) \/ BodyStep(t) \/ (t = Main /\ ExitRoot)

\* After a fault nothing that the source says constrains the program.
Faulted == fault # "none" /\ UNCHANGED vars

Next ==
  \/ MainStep
  \/ \E t \in Workers : WorkerStep(t)
  \/ \E j \in Jobs : Wake(j)
  \/ Faulted

\* The kernel runs every thread; nothing makes Main submit or stop.
Fairness ==
  /\ \A t \in Workers : WF_vars(WorkerStep(t))
  /\ WF_vars(Join)

Spec == Init /\ [][Next]_vars

FairSpec == Spec /\ Fairness

-----------------------------------------------------------------------------
(***************************************************************************)
(* Properties                                                              *)
(***************************************************************************)

\* m_activateThreadCount is the number of workers between taking a task and
\* giving it back, m_idleThreadCount that of workers in their idle fiber: the
\* two counters are changed outside the lock, and stopping() trusts the first.
Counters ==
  /\ active = Cardinality(Busy)
  /\ idle = Cardinality(Idling)

\* A submitted job that has not ended is never dropped: its task is in the list,
\* or a worker has it, or somebody who will schedule it holds its fiber.
NeverLost ==
  \A j \in Jobs :
    fstate[j] \notin {"unsubmitted", "TERM"} =>
      Queued(j) \/ wakers[j] > 0 \/ \E t \in Workers : cur[t] = j

\* The state the scan tests before it takes a fiber tells the truth in one
\* direction: RUNNING exactly while a worker executes the body.
RunningTruth ==
  \A j \in Jobs :
    fstate[j] = "RUNNING" <=> \E t \in Workers : cur[t] = j /\ pc[t] \in {"body", "yield"}

\* A worker lets its idle fiber end only when the whole scheduler is drained, and
\* it stays drained: the workers that follow find nothing a job left behind.
\* Only a sleeping fiber that is scheduled afterwards ends this ("late").
Drained ==
  ~late => \A t \in Workers : idleTerm[t] => Stopping

\* When stop() returns, every submitted job has ended or sleeps with somebody who
\* will schedule it (which is then too late); before start() nothing is promised.
StopComplete ==
  (mpc = "done" /\ ~late /\ \E t \in Workers : pc[t] = "exit") =>
    \A j \in Jobs : fstate[j] \in {"unsubmitted", "TERM"} \/ wakers[j] > 0

\* The program stays within what the source defines.
NoFault == fault = "none"

\* A fiber is resumed where it yielded, never on a stack another thread is still
\* using: tests/test_fiber.cc:5-10 expects the code after yield() to run next.
NoSharedStack == fault # "shared_stack"

\* stop() returns to its caller: tests/test_hook.cc:87 logs "main end" after it.
CallerResumed == fault # "dead_frame"

\* Every job submitted to a scheduler that was started ends.
EveryJobEnds ==
  \A j \in Jobs :
    (fstate[j] # "unsubmitted" /\ \E t \in Pool : pc[t] # "unborn") ~> fstate[j] = "TERM"

\* stop() comes back.
StopReturns == mpc \in {"root", "join"} ~> mpc = "done"

=============================================================================
