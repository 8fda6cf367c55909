-------------------------------- MODULE Timers --------------------------------
(***************************************************************************)
(* libcocao's Timer and TimerManager (timer.h, timer.cc): a set ordered by *)
(* due time, which threads add timers to, cancel, refresh and reset timers *)
(* of, and collect the due callbacks from.                                 *)
(*                                                                         *)
(* The write sections of m_mutex are one step each: RWMutex shows that     *)
(* they exclude one another.  It also shows that the guards as built let   *)
(* only one thread out again; here every thread gets out, so what can      *)
(* never happen here cannot happen there either.  What is done outside the *)
(* lock (reading the clock, the notification, handing callbacks over) is a *)
(* step of its own.                                                        *)
(***************************************************************************)
EXTENDS Integers

CONSTANTS
  Threads,    \* who uses the manager
  Timers,     \* the timers that may be made, numbered as their addresses are
  NoTimer,
  Delays,     \* the values of ms
  Hour,       \* what detectClockRollover() takes for a clock set back (3600000)
  Earliest,   \* bounds of the system clock
  Latest,
  Never       \* ~0ull, getNextTimer()'s answer without timers

Clock == Earliest..Latest

ASSUME TimersAssumption ==
  /\ Timers \subseteq Nat /\ NoTimer \notin Timers
  /\ Delays \subseteq Nat
  /\ Hour \in Nat /\ Earliest \in Nat /\ Latest \in Nat /\ Never \in Nat
  /\ Hour <= Earliest     \* the program does not run in the first hour of 1970
  /\ \A d \in Delays : Latest + d < Never

VARIABLES
  clock,      \* the system clock, GetCurrentMS()
  tree,       \* m_timers: [at, timer], at being m_next when it was inserted
  next,       \* Timer::m_next
  ms,         \* Timer::m_ms
  recurring,  \* the timers with m_recurring
  armed,      \* the timers with m_cb set
  tickled,    \* m_tickled
  previous,   \* m_pteviouseTime
  pc,         \* where a thread is
  arg,        \* the timer a thread is inserting
  now,        \* listExpiredCb()'s now_ms
  cbs,        \* the timers whose callbacks listExpiredCb() has collected
  made,       \* the timers that exist
  shared,     \* the timers addTimer() has returned to their users
  wake,       \* until when the last caller of getNextTimer() sleeps by its answer;
              \* 0: it does not, or has been notified since
  cancelled,  \* history: cancel() returned true
  handed,     \* history: the one-shot timers whose callback went to the scheduler
  jumped,     \* history: the clock was set back, or taken to have been
  crashed     \* begin() of an empty set was dereferenced

timerVars == <<next, ms, recurring, armed, made, shared>>
listVars == <<now, cbs, handed>>
vars == <<clock, tree, timerVars, tickled, previous, pc, arg, listVars, wake,
          cancelled, jumped, crashed>>

Entry == [at : Nat, timer : Timers]
Place == {"idle", "insert", "notify", "check", "expire", "hand"}

TypeOK ==
  /\ clock \in Clock
  /\ tree \subseteq Entry
  /\ next \in [Timers -> Nat]
  /\ ms \in [Timers -> Delays \cup {0}]
  /\ recurring \subseteq Timers /\ armed \subseteq made
  /\ made \subseteq Timers /\ shared \subseteq made
  /\ tickled \in BOOLEAN
  /\ previous \in Clock
  /\ pc \in [Threads -> Place]
  /\ arg \in [Threads -> made \cup {NoTimer}]
  /\ now \in [Threads -> Clock \cup {0}]
  /\ cbs \in [Threads -> SUBSET made]
  /\ wake \in Nat
  /\ jumped \in BOOLEAN /\ crashed \in BOOLEAN
  /\ cancelled \subseteq made /\ handed \subseteq made \ recurring
  /\ \A t \in Threads : arg[t] # NoTimer <=> pc[t] \in {"insert", "notify"}
  /\ \A t \in Threads : cbs[t] # {} => pc[t] = "hand"

Init ==
  /\ clock \in Clock
  /\ tree = {}
  /\ next = [x \in Timers |-> 0]
  /\ ms = [x \in Timers |-> 0]
  /\ recurring = {} /\ armed = {} /\ made = {} /\ shared = {}
  /\ tickled = FALSE
  /\ previous = clock
  /\ pc = [t \in Threads |-> "idle"]
  /\ arg = [t \in Threads |-> NoTimer]
  /\ now = [t \in Threads |-> 0]
  /\ cbs = [t \in Threads |-> {}]
  /\ wake = 0
  /\ jumped = FALSE /\ crashed = FALSE
  /\ cancelled = {} /\ handed = {}

-----------------------------------------------------------------------------
(***************************************************************************)
(* The ordered set.                                                        *)
(***************************************************************************)
At(x, n) == [at |-> n, timer |-> x]

\* Comparator: by due time, then by address.
Before(e, f) == e.at < f.at \/ (e.at = f.at /\ e.timer < f.timer)

IsFirst(e, S) == e \in S /\ \A f \in S \ {e} : Before(e, f)

\* find() goes down the tree by the timer's present m_next.
Found(x) == At(x, next[x]) \in tree

Without(x) == tree \ {At(x, next[x])}

(***************************************************************************)
(* The clock, which runs and can be set back (bound: once, and never after *)
(* a thread has taken it to be).                                           *)
(***************************************************************************)
Tick ==
  /\ ~crashed
  /\ clock' \in Clock
  /\ clock' # clock
  /\ jumped => clock' > clock
  /\ jumped' = (jumped \/ clock' < clock)
  /\ UNCHANGED <<tree, timerVars, tickled, previous, pc, arg, listVars, wake, cancelled, crashed>>

-----------------------------------------------------------------------------
(***************************************************************************)
(* Adding a timer.                                                         *)
(***************************************************************************)

\* The constructor reads the clock before addTimer() has the lock.
New(t, x, d, r) ==
  /\ ~crashed
  /\ pc[t] = "idle" /\ x \notin made
  /\ made' = made \cup {x}
  /\ next' = [next EXCEPT ![x] = clock + d]
  /\ ms' = [ms EXCEPT ![x] = d]
  /\ recurring' = IF r THEN recurring \cup {x} ELSE recurring
  /\ armed' = armed \cup {x}
  /\ pc' = [pc EXCEPT ![t] = "insert"]
  /\ arg' = [arg EXCEPT ![t] = x]
  /\ UNCHANGED <<clock, tree, shared, tickled, previous, listVars, wake, cancelled, jumped, crashed>>

\* addTimer(val, lock): insert, and when the new timer is the first and nobody has
\* been notified yet, do so after the lock is released.
AddTimer(t, e, rest) ==
  LET x == e.timer
      front == IsFirst(e, rest \cup {e}) /\ ~tickled
  IN
  /\ tree' = rest \cup {e}
  /\ tickled' = (tickled \/ front)
  /\ pc' = [pc EXCEPT ![t] = IF front THEN "notify" ELSE "idle"]
  /\ arg' = [arg EXCEPT ![t] = IF front THEN x ELSE NoTimer]
  /\ shared' = IF front THEN shared ELSE shared \cup {x}

Insert(t) ==
  /\ ~crashed
  /\ pc[t] = "insert"
  /\ AddTimer(t, At(arg[t], next[arg[t]]), tree)
  /\ UNCHANGED <<clock, next, ms, recurring, armed, made, previous, listVars, wake, cancelled, jumped, crashed>>

\* onTimerInsertAtFront(), what it does being the subclass's business.
Notify(t) ==
  /\ ~crashed
  /\ pc[t] = "notify"
  /\ wake' = 0
  /\ shared' = shared \cup {arg[t]}
  /\ pc' = [pc EXCEPT ![t] = "idle"]
  /\ arg' = [arg EXCEPT ![t] = NoTimer]
  /\ UNCHANGED <<clock, tree, next, ms, recurring, armed, made, tickled, previous, listVars, cancelled, jumped, crashed>>

-----------------------------------------------------------------------------
(***************************************************************************)
(* What a timer's user may do; without m_cb each returns false and changes *)
(* nothing.                                                                *)
(***************************************************************************)

\* Broken on purpose: the callback is dropped, the timer stays in the set.
CancelHalf(t, x) ==
  /\ ~crashed
  /\ pc[t] = "idle" /\ x \in shared /\ x \in armed
  /\ armed' = armed \ {x}
  /\ cancelled' = cancelled \cup {x}
  /\ UNCHANGED <<clock, tree, next, ms, recurring, made, shared, tickled, previous, pc, arg, listVars, wake, jumped, crashed>>

\* cancel() does not look whether find() found the timer.
Cancel(t, x) ==
  /\ ~crashed
  /\ pc[t] = "idle" /\ x \in shared /\ x \in armed
  /\ armed' = armed \ {x}
  /\ tree' = Without(x)
  /\ cancelled' = cancelled \cup {x}
  /\ UNCHANGED <<clock, next, ms, recurring, made, shared, tickled, previous, pc, arg, listVars, wake, jumped, crashed>>

\* Broken on purpose: the timer gets its new time while it is in the set.
RefreshInPlace(t, x) ==
  /\ ~crashed
  /\ pc[t] = "idle" /\ x \in shared /\ x \in armed
  /\ Found(x)
  /\ next' = [next EXCEPT ![x] = clock + ms[x]]
  /\ tree' = tree \cup {At(x, next'[x])}
  /\ UNCHANGED <<clock, ms, recurring, armed, made, shared, tickled, previous, pc, arg, listVars, wake, cancelled, jumped, crashed>>

\* refresh() inserts without a look at the front: its timer only moves back.
Refresh(t, x) ==
  /\ ~crashed
  /\ pc[t] = "idle" /\ x \in shared /\ x \in armed
  /\ Found(x)
  /\ next' = [next EXCEPT ![x] = clock + ms[x]]
  /\ tree' = Without(x) \cup {At(x, next'[x])}
  /\ UNCHANGED <<clock, ms, recurring, armed, made, shared, tickled, previous, pc, arg, listVars, wake, cancelled, jumped, crashed>>

\* reset(ms, from_now): the new period counts from now or from where the old began.
Reset(t, x, d, fromNow) ==
  /\ ~crashed
  /\ pc[t] = "idle" /\ x \in shared /\ x \in armed
  /\ d # ms[x] \/ fromNow
  /\ Found(x)
  /\ next' = [next EXCEPT ![x] = (IF fromNow THEN clock ELSE next[x] - ms[x]) + d]
  /\ ms' = [ms EXCEPT ![x] = d]
  /\ AddTimer(t, At(x, next'[x]), Without(x))
  /\ UNCHANGED <<clock, recurring, armed, made, previous, listVars, wake, cancelled, jumped, crashed>>

-----------------------------------------------------------------------------
(***************************************************************************)
(* The event loop's side.                                                  *)
(***************************************************************************)

TimeTo(e) == IF clock > e.at THEN 0 ELSE e.at - clock

\* The caller of getNextTimer() sleeps for its answer.
SleepFor(n) == wake' = IF n = 0 THEN 0 ELSE clock + n

Answer ==
  IF tree = {} THEN wake' = Never
  ELSE \E e \in tree : IsFirst(e, tree) /\ SleepFor(TimeTo(e))

\* Broken on purpose: m_tickled is not cleared.
GetNextTimerQuiet(t) ==
  /\ ~crashed
  /\ pc[t] = "idle"
  /\ Answer
  /\ UNCHANGED <<clock, tree, timerVars, tickled, previous, pc, arg, listVars, cancelled, jumped, crashed>>

\* getNextTimer(): how long until the first timer; from now on a change must be told.
GetNextTimer(t) ==
  /\ ~crashed
  /\ pc[t] = "idle"
  /\ tickled' = FALSE
  /\ Answer
  /\ UNCHANGED <<clock, tree, timerVars, previous, pc, arg, listVars, cancelled, jumped, crashed>>

\* listExpiredCb() reads the clock, ...
ListBegin(t) ==
  /\ ~crashed
  /\ pc[t] = "idle"
  /\ now' = [now EXCEPT ![t] = clock]
  /\ pc' = [pc EXCEPT ![t] = "check"]
  /\ UNCHANGED <<clock, tree, timerVars, tickled, previous, arg, cbs, handed, wake, cancelled, jumped, crashed>>

\* ... looks under a read lock whether there are timers at all, ...
ListCheck(t) ==
  /\ ~crashed
  /\ pc[t] = "check"
  /\ pc' = [pc EXCEPT ![t] = IF tree = {} THEN "idle" ELSE "expire"]
  /\ now' = [now EXCEPT ![t] = IF tree = {} THEN 0 ELSE @]
  /\ UNCHANGED <<clock, tree, timerVars, tickled, previous, arg, cbs, handed, wake, cancelled, jumped, crashed>>

\* detectClockRollover(): unsigned, but previous is never within the first hour.
Rollover(n) == n < previous /\ n < previous - Hour

\* The timer listExpiredCb() searches with is made by Timer(uint64_t), which ignores
\* its argument: m_next is 0.
ProbeNext(n) == 0

\* The part of the set up to lower_bound(), then while m_next == now_ms; the whole
\* set when the clock was set back.
Due(n) ==
  LET below == {e \in tree : e.at < ProbeNext(n)}
      rest  == tree \ below
  IN  IF Rollover(n) THEN tree
      ELSE below \cup {e \in rest : e.at = n /\ \A f \in rest : f.at >= n}

\* Broken on purpose: a timer that fired keeps its callback.
SpentNone(X) == {}

\* The callbacks of one-shot timers are cleared once collected.
Spent(X) == X \ recurring

\* ... and under a write lock takes out what is due and puts the recurring back.
ListExpire(t) ==
  LET n == now[t]
      E == Due(n)
      X == {e.timer : e \in E}
  IN
  /\ ~crashed
  /\ pc[t] = "expire"
  /\ tree # {} \/ Rollover(n)
  /\ previous' = n
  /\ jumped' = (jumped \/ Rollover(n))
  /\ now' = [now EXCEPT ![t] = 0]
  /\ IF ~Rollover(n) /\ \E e \in tree : IsFirst(e, tree) /\ e.at = n
     THEN pc' = [pc EXCEPT ![t] = "idle"] /\ UNCHANGED <<tree, next, armed, cbs>>
     ELSE /\ next' = [x \in Timers |-> IF x \in X \cap recurring THEN n + ms[x] ELSE next[x]]
          /\ tree' = (tree \ E) \cup {At(x, n + ms[x]) : x \in X \cap recurring}
          /\ armed' = armed \ Spent(X)
          /\ cbs' = [cbs EXCEPT ![t] = X]
          /\ pc' = [pc EXCEPT ![t] = "hand"]
  /\ UNCHANGED <<clock, ms, recurring, made, shared, tickled, arg, handed, wake, cancelled, crashed>>

\* The set was emptied between the two sections: *begin() is undefined.
ListEmptied(t) ==
  /\ ~crashed
  /\ pc[t] = "expire"
  /\ tree = {} /\ ~Rollover(now[t])
  /\ crashed' = TRUE
  /\ UNCHANGED <<clock, tree, timerVars, tickled, previous, pc, arg, listVars, wake, cancelled, jumped>>

\* Broken on purpose: the callbacks are not cleared.
HandOverKept(t) ==
  /\ ~crashed
  /\ pc[t] = "hand"
  /\ handed' = handed \cup (cbs[t] \ recurring)
  /\ pc' = [pc EXCEPT ![t] = "idle"]
  /\ UNCHANGED <<clock, tree, timerVars, tickled, previous, arg, now, cbs, wake, cancelled, jumped, crashed>>

\* The caller schedules the collected callbacks.
HandOver(t) ==
  /\ ~crashed
  /\ pc[t] = "hand"
  /\ handed' = handed \cup (cbs[t] \ recurring)
  /\ cbs' = [cbs EXCEPT ![t] = {}]
  /\ pc' = [pc EXCEPT ![t] = "idle"]
  /\ UNCHANGED <<clock, tree, timerVars, tickled, previous, arg, now, wake, cancelled, jumped, crashed>>

-----------------------------------------------------------------------------
UserStep(t) ==
  \/ \E x \in Timers, d \in Delays, r \in BOOLEAN : New(t, x, d, r)
  \/ Insert(t)
  \/ Notify(t)
  \/ \E x \in Timers : Cancel(t, x)
  \/ \E x \in Timers : Refresh(t, x)
  \/ \E x \in Timers, d \in Delays, b \in BOOLEAN : Reset(t, x, d, b)

LoopStep(t) ==
  \/ GetNextTimer(t)
  \/ ListBegin(t)
  \/ ListCheck(t)
  \/ ListExpire(t)
  \/ ListEmptied(t)
  \/ HandOver(t)

Crashed == crashed /\ UNCHANGED vars

Next == Tick \/ Crashed \/ \E t \in Threads : UserStep(t) \/ LoopStep(t)

Spec == Init /\ [][Next]_vars

-----------------------------------------------------------------------------
(***************************************************************************)
(* Properties                                                              *)
(***************************************************************************)

\* A timer's time never changes while it is in the set: the set stays ordered by
\* the present times, and find() finds.
Ordered == \A e \in tree : e.at = next[e.timer]

\* A timer has a callback exactly while it is in the set, or about to be inserted for
\* the first time: cancel() may erase what find() returns without a look.
ArmedInTree ==
  \A x \in made :
    x \in armed <=> Found(x) \/ \E t \in Threads : pc[t] = "insert" /\ arg[t] = x

\* A one-shot timer is armed, cancelled, collected by one thread or handed over, and
\* never two of these: it fires at most once, and not after cancel() returned true.
OneShotOnce ==
  \A x \in made \ recurring :
    /\ x \in armed => x \notin cancelled \cup handed
    /\ x \in cancelled => x \notin handed
    /\ \A t \in Threads : x \in cbs[t] =>
         /\ x \notin armed \cup cancelled \cup handed
         /\ \A u \in Threads \ {t} : x \notin cbs[u]

\* Whoever sleeps for what getNextTimer() answered hears of a timer that is due
\* earlier: a thread is on its way to notify it.  refresh() and recurring timers go in
\* without a notification; this holds while the clock is not taken to be set back.
NoMissedFront ==
  (~jumped /\ \E e \in tree : e.at < wake) => \E t \in Threads : pc[t] = "notify"

\* iomanager.cc:126: collect all timers that are overdue.
CollectsAllDue ==
  [][\A t \in Threads : ListExpire(t) => \A e \in tree' : e.at >= now[t]]_vars
=============================================================================
