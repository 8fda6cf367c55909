----------------------------- MODULE TimersProofs -----------------------------
(***************************************************************************)
(* What holds of Timers for any number of threads and timers.              *)
(*                                                                         *)
(* The first invariant is about single timers: types, where an inserting   *)
(* thread's timer is, and that a due time is never below its period, which *)
(* is what keeps the unsigned subtraction of reset() from wrapping.  On it *)
(* rests the order of the set, on that the fate of one-shot timers.  The   *)
(* last one is about the sleeper that getNextTimer() answered.             *)
(***************************************************************************)
EXTENDS Timers, TLAPS

\* A timer that is being inserted for the first time is nobody else's yet.
Inserting(t, x) == pc[t] = "insert" /\ arg[t] = x

Fresh ==
  \A t \in Threads : \A x \in made : Inserting(t, x) =>
    /\ x \in armed /\ x \notin shared
    /\ \A e \in tree : e.timer # x
    /\ \A u \in Threads \ {t} : arg[u] # x

Periods ==
  /\ \A x \in made : ms[x] <= next[x] /\ ms[x] \in Delays
  /\ \A t \in Threads : pc[t] \in {"check", "expire"} => now[t] \in Clock
  /\ \A e \in tree : e.timer \in made

TypeInv == TypeOK /\ Periods

LEMMA TypeInvInit == Init => TypeInv
  <1> SUFFICES ASSUME Init PROVE TypeInv
    OBVIOUS
  <1> USE TimersAssumption DEF Init
  <1>1. clock \in Nat
    BY DEF Clock
  <1>2. TypeOK
    BY <1>1 DEF TypeOK, Place
  <1>3. Periods
    BY DEF Periods
  <1> QED BY <1>2, <1>3 DEF TypeInv

LEMMA TypeInvNext == TypeInv /\ [Next]_vars => TypeInv'
  <1> SUFFICES ASSUME TypeInv, [Next]_vars PROVE TypeInv'
    OBVIOUS
  <1> USE TimersAssumption DEF TypeInv, TypeOK, Periods, Place, Clock, timerVars, listVars
  <1>a. clock \in Nat /\ \A d \in Delays : d \in Nat
    OBVIOUS
  <1>b. \A x \in made : next[x] \in Nat /\ ms[x] \in Nat /\ ms[x] <= next[x] /\ ms[x] \in Delays /\ x \in Timers
    BY <1>a
  <1>c. \A t \in Threads : pc[t] = "expire" => now[t] \in Nat
    OBVIOUS
  <1>1. CASE Tick
    BY <1>1 DEF Tick
  <1>2. ASSUME NEW t \in Threads, NEW x \in Timers, NEW d \in Delays, NEW r \in BOOLEAN, New(t, x, d, r)
        PROVE  TypeInv'
    <2>1. TypeOK'
      <3>1. clock + d \in Nat
        BY <1>a
      <3>2. next' \in [Timers -> Nat]
        BY <1>2, <3>1 DEF New
      <3>3. ms' \in [Timers -> Delays \cup {0}] /\ recurring' \subseteq Timers
        BY <1>2 DEF New
      <3>4. handed' \subseteq made' \ recurring'
        BY <1>2 DEF New
      <3> QED BY <1>2, <3>2, <3>3, <3>4 DEF New
    <2>2. Periods'
      <3>1. \A y \in made' : ms'[y] <= next'[y] /\ ms'[y] \in Delays
        BY <1>2, <1>a, <1>b DEF New
      <3> QED BY <1>2, <3>1 DEF New
    <2> QED BY <2>1, <2>2
  <1>3. ASSUME NEW t \in Threads, Insert(t) PROVE TypeInv'
    <2> DEFINE x == arg[t]
    <2>1. x \in made /\ x # NoTimer
      BY <1>3 DEF Insert
    <2>2. tree' = tree \cup {[at |-> next[x], timer |-> x]}
      BY <1>3 DEF Insert, AddTimer, At
    <2>3. tree' \subseteq Entry /\ \A e \in tree' : e.timer \in made'
      <3>1. x \in Timers /\ next[x] \in Nat
        BY <1>b, <2>1
      <3>2. made' = made
        BY <1>3 DEF Insert
      <3> HIDE DEF x
      <3> QED BY <2>1, <2>2, <3>1, <3>2 DEF Entry
    <2>4. shared' \subseteq made' /\ tickled' \in BOOLEAN
      BY <1>3, <2>1 DEF Insert, AddTimer, At
    <2>5. arg' \in [Threads -> made' \cup {NoTimer}] /\ pc' \in [Threads -> Place]
      BY <1>3, <2>1 DEF Insert, AddTimer, At
    <2>6. \A u \in Threads : arg'[u] # NoTimer <=> pc'[u] \in {"insert", "notify"}
      BY <1>3, <2>1 DEF Insert, AddTimer, At
    <2>7. \A u \in Threads : (cbs'[u] # {} => pc'[u] = "hand") /\ (pc'[u] \in {"check", "expire"} => pc[u] = pc'[u])
      BY <1>3 DEF Insert, AddTimer
    <2> HIDE DEF x
    <2> QED BY <1>3, <2>3, <2>4, <2>5, <2>6, <2>7 DEF Insert
  <1>4. ASSUME NEW t \in Threads, Notify(t) PROVE TypeInv'
    BY <1>4 DEF Notify
  <1>5. ASSUME NEW t \in Threads, NEW x \in Timers, Cancel(t, x) PROVE TypeInv'
    BY <1>5 DEF Cancel, Without
  <1>6. ASSUME NEW t \in Threads, NEW x \in Timers, Refresh(t, x) PROVE TypeInv'
    <2> USE <1>6, <1>a, <1>b DEF Refresh, Without, At
    <2>0. x \in made /\ clock + ms[x] \in Nat
      OBVIOUS
    <2>1. next' \in [Timers -> Nat]
      BY <2>0
    <2>2. tree' \subseteq Entry /\ \A e \in tree' : e.timer \in made'
      BY <2>0, <2>1 DEF Entry
    <2>3. \A y \in made' : ms'[y] <= next'[y] /\ ms'[y] \in Delays
      BY <2>0
    <2> QED BY <2>1, <2>2, <2>3
  <1>7. ASSUME NEW t \in Threads, NEW x \in Timers, NEW d \in Delays, NEW b \in BOOLEAN, Reset(t, x, d, b)
        PROVE  TypeInv'
    <2> DEFINE from == IF b THEN clock ELSE next[x] - ms[x]
    <2> USE <1>7, <1>a, <1>b DEF Reset, AddTimer, Without, At
    <2>0. x \in made /\ from + d \in Nat /\ d <= from + d
      OBVIOUS
    <2>1. next' \in [Timers -> Nat] /\ ms' \in [Timers -> Delays \cup {0}]
      BY <2>0
    <2>2. tree' \subseteq Entry /\ \A e \in tree' : e.timer \in made'
      BY <2>0, <2>1 DEF Entry
    <2>3. \A y \in made' : ms'[y] <= next'[y] /\ ms'[y] \in Delays
      BY <2>0
    <2>4. /\ arg' \in [Threads -> made' \cup {NoTimer}] /\ pc' \in [Threads -> Place]
          /\ \A u \in Threads : arg'[u] # NoTimer <=> pc'[u] \in {"insert", "notify"}
          /\ shared' \subseteq made' /\ tickled' \in BOOLEAN
      OBVIOUS
    <2>5. /\ \A u \in Threads : cbs'[u] # {} => pc'[u] = "hand"
          /\ \A u \in Threads : pc'[u] \in {"check", "expire"} => now'[u] \in Clock
      OBVIOUS
    <2> QED BY <2>1, <2>2, <2>3, <2>4, <2>5
  <1>8. ASSUME NEW t \in Threads, GetNextTimer(t) PROVE TypeInv'
    <2>1. wake' \in Nat
      <3>1. CASE tree = {}
        BY <1>8, <3>1 DEF GetNextTimer, Answer
      <3>2. ASSUME NEW e \in tree, SleepFor(TimeTo(e)) PROVE wake' \in Nat
        <4>1. e.at \in Nat
          BY DEF Entry
        <4>2. TimeTo(e) \in Nat
          BY <4>1, <1>a DEF TimeTo
        <4> QED BY <3>2, <4>2, <1>a DEF SleepFor
      <3> QED BY <1>8, <3>1, <3>2 DEF GetNextTimer, Answer
    <2> QED BY <1>8, <2>1 DEF GetNextTimer
  <1>9. ASSUME NEW t \in Threads, ListBegin(t) PROVE TypeInv'
    BY <1>9 DEF ListBegin
  <1>10. ASSUME NEW t \in Threads, ListCheck(t) PROVE TypeInv'
    BY <1>10 DEF ListCheck
  <1>11. ASSUME NEW t \in Threads, ListExpire(t) PROVE TypeInv'
    <2> DEFINE n == now[t]
               X == {e.timer : e \in Due(n)}
    <2> USE <1>11 DEF ListExpire
    <2>1. Due(n) \subseteq tree /\ X \subseteq made
      BY DEF Due
    <2>2. n \in Clock
      OBVIOUS
    <2> HIDE DEF X
    <2>3. CASE ~Rollover(n) /\ \E e \in tree : IsFirst(e, tree) /\ e.at = n
      BY <2>2, <2>3
    <2>4. CASE ~(~Rollover(n) /\ \E e \in tree : IsFirst(e, tree) /\ e.at = n)
      <3>1. /\ next' = [x \in Timers |-> IF x \in X \cap recurring THEN n + ms[x] ELSE next[x]]
            /\ tree' = (tree \ Due(n)) \cup {At(x, n + ms[x]) : x \in X \cap recurring}
            /\ armed' = armed \ Spent(X)
            /\ cbs' = [cbs EXCEPT ![t] = X]
            /\ pc' = [pc EXCEPT ![t] = "hand"]
        BY <2>4 DEF X
      <3>0. \A x \in X : x \in Timers /\ n + ms[x] \in Nat /\ ms[x] <= n + ms[x]
        BY <1>b, <1>c, <2>1
      <3>2. next' \in [Timers -> Nat]
        BY <3>0, <3>1
      <3>3. tree' \subseteq Entry /\ \A e \in tree' : e.timer \in made'
        BY <3>0, <3>1, <2>1 DEF At, Entry
      <3>4. \A y \in made' : ms'[y] <= next'[y] /\ ms'[y] \in Delays
        BY <3>0, <3>1, <1>b
      <3>5. armed' \subseteq made' /\ cbs' \in [Threads -> SUBSET made']
        BY <3>1, <2>1
      <3>6. /\ previous' \in Clock /\ now' \in [Threads -> Clock \cup {0}]
            /\ \A u \in Threads : pc'[u] \in {"check", "expire"} => now'[u] \in Clock
            /\ \A u \in Threads : cbs'[u] # {} => pc'[u] = "hand"
            /\ pc' \in [Threads -> Place]
            /\ \A u \in Threads : arg'[u] # NoTimer <=> pc'[u] \in {"insert", "notify"}
        BY <3>1, <2>2
      <3> QED BY <3>2, <3>3, <3>4, <3>5, <3>6
    <2> QED BY <2>3, <2>4
  <1>12. ASSUME NEW t \in Threads, ListEmptied(t) PROVE TypeInv'
    BY <1>12 DEF ListEmptied
  <1>13. ASSUME NEW t \in Threads, HandOver(t) PROVE TypeInv'
    BY <1>13 DEF HandOver
  <1>14. CASE UNCHANGED vars
    BY <1>14 DEF vars
  <1> QED
    BY <1>1, <1>2, <1>3, <1>4, <1>5, <1>6, <1>7, <1>8, <1>9, <1>10, <1>11, <1>12, <1>13, <1>14
    DEF Next, Crashed, UserStep, LoopStep

-----------------------------------------------------------------------------
\* An entry is determined by its timer once the set is ordered.
LEMMA EntryOf ==
  ASSUME TypeInv, Ordered, NEW e \in tree
  PROVE  /\ e = At(e.timer, next[e.timer])
         /\ e.timer \in made /\ Found(e.timer)
  BY DEF TypeInv, TypeOK, Periods, Ordered, Entry, At, Found

LEMMA AtFields == \A x, n : At(x, n).at = n /\ At(x, n).timer = x
  BY DEF At

OrderInv == Ordered /\ ArmedInTree /\ Fresh

LEMMA OrderInvInit == Init => OrderInv
  BY DEF Init, OrderInv, Ordered, ArmedInTree, Fresh

\* Steps that leave the set, the times and the inserting threads alone.
LEMMA OrderInvKept ==
  ASSUME TypeInv, OrderInv, UNCHANGED <<tree, next, armed, made, shared, arg>>,
         \A t \in Threads : pc'[t] = "insert" <=> pc[t] = "insert"
  PROVE  OrderInv'
  <1>1. Ordered'
    BY DEF OrderInv, Ordered
  <1>2. ArmedInTree'
    BY DEF OrderInv, ArmedInTree, Found
  <1>3. Fresh'
    BY DEF OrderInv, Fresh, Inserting
  <1> QED BY <1>1, <1>2, <1>3 DEF OrderInv

LEMMA OrderInvNew ==
  ASSUME TypeInv, OrderInv, NEW t \in Threads, NEW x \in Timers, NEW d \in Delays, NEW r \in BOOLEAN,
         New(t, x, d, r)
  PROVE  OrderInv'
  <1> USE DEF TypeInv, TypeOK
  <1>1. \A e \in tree : e.timer \in made /\ e.timer # x
    BY DEF New, Periods
  <1>2. Ordered'
    BY <1>1 DEF OrderInv, Ordered, New
  <1>3. \A y \in made : Found(y)' <=> Found(y)
    BY DEF New, Found
  <1>4. ~Found(x)'
    BY <1>1 DEF New, Found, At
  <1>5. \A u \in Threads : pc[u] = "insert" => arg[u] # x /\ u # t
    BY TimersAssumption DEF New
  <1>6. ArmedInTree'
    BY <1>3, <1>4, <1>5 DEF OrderInv, ArmedInTree, New
  <1>7. Fresh'
    <2> SUFFICES ASSUME NEW u \in Threads, NEW y \in made', Inserting(u, y)'
                 PROVE  /\ y \in armed' /\ y \notin shared'
                        /\ \A e \in tree' : e.timer # y
                        /\ \A v \in Threads \ {u} : arg'[v] # y
      BY DEF Fresh
    <2>1. CASE u = t
      BY <2>1, <1>1, TimersAssumption DEF New, Inserting
    <2>2. CASE u # t
      BY <2>2, <1>1, <1>5 DEF New, Inserting, OrderInv, Fresh
    <2> QED BY <2>1, <2>2
  <1> QED BY <1>2, <1>6, <1>7 DEF OrderInv

LEMMA OrderInvInsert ==
  ASSUME TypeInv, OrderInv, NEW t \in Threads, Insert(t)
  PROVE  OrderInv'
  <1> DEFINE x == arg[t]
  <1> USE DEF TypeInv, TypeOK
  <1>1. x \in made /\ Inserting(t, x)
    BY DEF Insert, Inserting
  <1>2. tree' = tree \cup {At(x, next[x])} /\ next' = next /\ armed' = armed /\ made' = made
    BY DEF Insert, AddTimer
  <1>3. /\ pc'[t] # "insert" /\ arg'[t] \in {x, NoTimer} /\ shared' \subseteq shared \cup {x}
        /\ \A u \in Threads \ {t} : pc'[u] = pc[u] /\ arg'[u] = arg[u]
    BY DEF Insert, AddTimer, At
  <1>4. x \in armed /\ \A u \in Threads \ {t} : arg[u] # x
    BY <1>1 DEF OrderInv, Fresh
  <1> HIDE DEF x
  <1>5. Ordered'
    BY <1>2 DEF OrderInv, Ordered, At
  <1>6. \A y \in made : Found(y)' <=> Found(y) \/ y = x
    BY <1>2 DEF Found, At
  <1>7. ArmedInTree'
    <2> SUFFICES ASSUME NEW y \in made
                 PROVE  y \in armed <=> Found(y)' \/ \E u \in Threads : pc'[u] = "insert" /\ arg'[u] = y
      BY <1>2 DEF ArmedInTree
    <2>1. CASE y = x
      BY <2>1, <1>4, <1>6
    <2>2. CASE y # x
      <3>1. (\E u \in Threads : pc'[u] = "insert" /\ arg'[u] = y) <=> \E u \in Threads : pc[u] = "insert" /\ arg[u] = y
        BY <2>2, <1>1, <1>3 DEF Inserting
      <3> QED BY <2>2, <3>1, <1>6 DEF OrderInv, ArmedInTree
    <2> QED BY <2>1, <2>2
  <1>8. Fresh'
    <2> SUFFICES ASSUME NEW u \in Threads, NEW y \in made, Inserting(u, y)'
                 PROVE  /\ y \in armed' /\ y \notin shared'
                        /\ \A e \in tree' : e.timer # y
                        /\ \A v \in Threads \ {u} : arg'[v] # y
      BY <1>2 DEF Fresh
    <2>1. u # t /\ Inserting(u, y)
      BY <1>3 DEF Inserting
    <2>2. y # x
      BY <2>1, <1>4 DEF Inserting
    <2>3. y # NoTimer
      BY TimersAssumption
    <2> QED BY <2>1, <2>2, <2>3, <1>2, <1>3 DEF OrderInv, Fresh, Inserting, At
  <1> QED BY <1>5, <1>7, <1>8 DEF OrderInv

LEMMA OrderInvNotify ==
  ASSUME TypeInv, OrderInv, NEW t \in Threads, Notify(t)
  PROVE  OrderInv'
  <1> USE DEF TypeInv, TypeOK
  <1>1. Ordered'
    BY DEF OrderInv, Ordered, Notify
  <1>2. \A u \in Threads : pc'[u] = "insert" => pc[u] = "insert" /\ arg'[u] = arg[u] /\ u # t
    BY DEF Notify
  <1>3. \A u \in Threads : pc[u] = "insert" => pc'[u] = "insert" /\ arg'[u] = arg[u]
    BY DEF Notify
  <1>4. ArmedInTree'
    BY <1>2, <1>3 DEF OrderInv, ArmedInTree, Found, Notify
  <1>5. Fresh'
    BY <1>2, TimersAssumption DEF OrderInv, Fresh, Inserting, Notify
  <1> QED BY <1>1, <1>4, <1>5 DEF OrderInv

LEMMA OrderInvCancel ==
  ASSUME TypeInv, OrderInv, NEW t \in Threads, NEW x \in Timers, Cancel(t, x)
  PROVE  OrderInv'
  <1> USE DEF TypeInv, TypeOK
  <1>1. /\ tree' = tree \ {At(x, next[x])} /\ armed' = armed \ {x} /\ x \in shared /\ x \in made
        /\ UNCHANGED <<next, made, shared, pc, arg>>
    BY DEF Cancel, Without, timerVars
  <1>2. Ordered'
    BY <1>1 DEF OrderInv, Ordered
  <1>3. \A y \in made : Found(y)' <=> Found(y) /\ y # x
    BY <1>1 DEF Found, At
  <1>4. \A u \in Threads : pc[u] = "insert" => arg[u] # x
    BY <1>1 DEF OrderInv, Fresh, Inserting
  <1>5. ArmedInTree'
    BY <1>1, <1>3, <1>4 DEF OrderInv, ArmedInTree
  <1>6. Fresh'
    BY <1>1, <1>4 DEF OrderInv, Fresh, Inserting
  <1> QED BY <1>2, <1>5, <1>6 DEF OrderInv

\* refresh() and reset(): a shared timer leaves the set and comes back with a new time.
LEMMA OrderInvMoved ==
  ASSUME TypeInv, OrderInv, NEW t \in Threads, NEW x \in Timers, x \in shared, x \in armed,
         pc[t] = "idle", pc'[t] # "insert", arg'[t] \in {x, NoTimer}, shared' = shared,
         \A u \in Threads \ {t} : pc'[u] = pc[u] /\ arg'[u] = arg[u],
         \A y \in Timers \ {x} : next'[y] = next[y],
         tree' = (tree \ {At(x, next[x])}) \cup {At(x, next'[x])},
         UNCHANGED <<armed, made>>
  PROVE  OrderInv'
  <1> USE DEF TypeInv, TypeOK
  <1>1. \A e \in tree \ {At(x, next[x])} : e.timer # x /\ e.timer \in Timers
    BY EntryOf DEF OrderInv
  <1>2. Ordered'
    BY <1>1, AtFields DEF OrderInv, Ordered
  <1>3. \A y \in made : Found(y)' <=> Found(y) \/ y = x
    BY <1>1 DEF Found, At
  <1>4. \A u \in Threads : pc[u] = "insert" => arg[u] # x
    BY DEF OrderInv, Fresh, Inserting
  <1>5. \A u \in Threads, y \in made : Inserting(u, y)' <=> Inserting(u, y)
    BY DEF Inserting
  <1>6. ArmedInTree'
    BY <1>3, <1>4, <1>5 DEF OrderInv, ArmedInTree, Inserting
  <1>7. Fresh'
    <2> SUFFICES ASSUME NEW u \in Threads, NEW y \in made, Inserting(u, y)
                 PROVE  /\ y \in armed /\ y \notin shared
                        /\ \A e \in tree' : e.timer # y
                        /\ \A v \in Threads \ {u} : arg'[v] # y
      BY <1>5 DEF Fresh
    <2>1. y # x /\ y # NoTimer
      BY <1>4, TimersAssumption DEF Inserting
    <2> QED BY <2>1, AtFields DEF OrderInv, Fresh
  <1> QED BY <1>2, <1>6, <1>7 DEF OrderInv

LEMMA OrderInvExpire ==
  ASSUME TypeInv, OrderInv, NEW t \in Threads, ListExpire(t)
  PROVE  OrderInv'
  <1> DEFINE n == now[t]
             X == {e.timer : e \in Due(n)}
  <1> USE DEF TypeInv, TypeOK
  <1>1. UNCHANGED <<made, shared, arg, recurring, ms>> /\ \A u \in Threads : pc'[u] = "insert" <=> pc[u] = "insert"
    BY DEF ListExpire
  <1>2. CASE UNCHANGED <<tree, next, armed>>
    BY <1>1, <1>2, OrderInvKept
  <1>3. CASE ~UNCHANGED <<tree, next, armed>>
    <2>1. /\ next' = [x \in Timers |-> IF x \in X \cap recurring THEN n + ms[x] ELSE next[x]]
          /\ tree' = (tree \ Due(n)) \cup {At(x, n + ms[x]) : x \in X \cap recurring}
          /\ armed' = armed \ (X \ recurring)
      BY <1>3 DEF ListExpire, Spent
    <2>2. Due(n) \subseteq tree
      BY DEF Due
    <2>3. \A x \in X : x \in made /\ At(x, next[x]) \in Due(n)
      BY <2>2, EntryOf DEF OrderInv
    <2>4. \A e \in tree \ Due(n) : e.timer \notin X /\ e.timer \in Timers /\ e.at = next[e.timer]
      BY <2>3, EntryOf DEF OrderInv, Ordered
    <2> HIDE DEF X
    <2>5. Ordered'
      BY <2>1, <2>3, <2>4, AtFields DEF Ordered
    <2>6. \A y \in made : Found(y)' <=> Found(y) /\ (y \in X => y \in recurring)
      <3> SUFFICES ASSUME NEW y \in made PROVE Found(y)' <=> Found(y) /\ (y \in X => y \in recurring)
        OBVIOUS
      <3>1. CASE y \in X \cap recurring
        BY <3>1, <2>1, <2>2, <2>3 DEF Found
      <3>2. CASE y \in X \ recurring
        BY <3>2, <2>1, <2>3, <2>4, AtFields DEF Found
      <3>3. CASE y \notin X
        <4>1. next'[y] = next[y] /\ At(y, next[y]) \notin Due(n)
          BY <3>3, <2>1, AtFields DEF X
        <4>2. At(y, next[y]) \notin {At(x, n + ms[x]) : x \in X \cap recurring}
          BY <3>3, AtFields
        <4> QED BY <3>3, <4>1, <4>2, <2>1, <2>2 DEF Found
      <3> QED BY <3>1, <3>2, <3>3
    <2>7. \A u \in Threads : pc[u] = "insert" => arg[u] \notin X
      BY <2>2, <2>3, AtFields DEF OrderInv, Fresh, Inserting
    <2>8. ArmedInTree'
      BY <1>1, <2>1, <2>6, <2>7 DEF OrderInv, ArmedInTree
    <2>9. Fresh'
      <3> SUFFICES ASSUME NEW u \in Threads, NEW y \in made, Inserting(u, y)
                   PROVE  /\ y \in armed' /\ y \notin shared
                          /\ \A e \in tree' : e.timer # y
                          /\ \A v \in Threads \ {u} : arg[v] # y
        BY <1>1 DEF Fresh, Inserting
      <3>1. y \notin X
        BY <2>7 DEF Inserting
      <3> QED BY <3>1, <2>1, AtFields DEF OrderInv, Fresh
    <2> QED BY <2>5, <2>8, <2>9 DEF OrderInv
  <1> QED BY <1>2, <1>3

LEMMA OrderInvNext == TypeInv /\ OrderInv /\ [Next]_vars => OrderInv'
  <1> SUFFICES ASSUME TypeInv, OrderInv, [Next]_vars PROVE OrderInv'
    OBVIOUS
  <1>1. CASE Tick
    BY <1>1, OrderInvKept DEF Tick, timerVars
  <1>2. ASSUME NEW t \in Threads, NEW x \in Timers, Refresh(t, x) PROVE OrderInv'
    <2>1. \A y \in Timers \ {x} : next'[y] = next[y]
      BY <1>2 DEF Refresh, TypeInv, TypeOK
    <2>2. arg[t] = NoTimer
      BY <1>2 DEF Refresh, TypeInv, TypeOK
    <2> QED BY <1>2, <2>1, <2>2, OrderInvMoved DEF Refresh, Without
  <1>3. ASSUME NEW t \in Threads, NEW x \in Timers, NEW d \in Delays, NEW b \in BOOLEAN, Reset(t, x, d, b)
        PROVE  OrderInv'
    <2>1. \A y \in Timers \ {x} : next'[y] = next[y]
      BY <1>3 DEF Reset, TypeInv, TypeOK
    <2>2. /\ pc'[t] # "insert" /\ arg'[t] \in {x, NoTimer} /\ shared' = shared
          /\ \A u \in Threads \ {t} : pc'[u] = pc[u] /\ arg'[u] = arg[u]
      BY <1>3 DEF Reset, AddTimer, At, TypeInv, TypeOK
    <2> QED BY <1>3, <2>1, <2>2, OrderInvMoved DEF Reset, AddTimer, Without
  <1>4. ASSUME NEW t \in Threads, GetNextTimer(t) PROVE OrderInv'
    BY <1>4, OrderInvKept DEF GetNextTimer, timerVars
  <1>5. ASSUME NEW t \in Threads, ListBegin(t) PROVE OrderInv'
    BY <1>5, OrderInvKept DEF ListBegin, timerVars, TypeInv, TypeOK
  <1>6. ASSUME NEW t \in Threads, ListCheck(t) PROVE OrderInv'
    BY <1>6, OrderInvKept DEF ListCheck, timerVars, TypeInv, TypeOK
  <1>7. ASSUME NEW t \in Threads, ListEmptied(t) PROVE OrderInv'
    BY <1>7, OrderInvKept DEF ListEmptied, timerVars
  <1>8. ASSUME NEW t \in Threads, HandOver(t) PROVE OrderInv'
    BY <1>8, OrderInvKept DEF HandOver, timerVars, TypeInv, TypeOK
  <1>9. CASE UNCHANGED vars
    BY <1>9, OrderInvKept DEF vars, timerVars
  <1> QED
    BY <1>1, <1>2, <1>3, <1>4, <1>5, <1>6, <1>7, <1>8, <1>9,
       OrderInvNew, OrderInvInsert, OrderInvNotify, OrderInvCancel, OrderInvExpire
    DEF Next, Crashed, UserStep, LoopStep

-----------------------------------------------------------------------------
LEMMA OneShotInit == Init => OneShotOnce
  BY DEF Init, OneShotOnce

\* Only five actions change what OneShotOnce speaks of.
LEMMA OneShotNext == TypeInv /\ OrderInv /\ OneShotOnce /\ [Next]_vars => OneShotOnce'
  <1> SUFFICES ASSUME TypeInv, OrderInv, OneShotOnce, [Next]_vars PROVE OneShotOnce'
    OBVIOUS
  <1> USE DEF TypeInv, TypeOK
  <1>1. ASSUME NEW t \in Threads, NEW x \in Timers, NEW d \in Delays, NEW r \in BOOLEAN, New(t, x, d, r)
        PROVE  OneShotOnce'
    BY <1>1 DEF New, OneShotOnce, listVars
  <1>2. ASSUME NEW t \in Threads, NEW x \in Timers, Cancel(t, x) PROVE OneShotOnce'
    BY <1>2 DEF Cancel, OneShotOnce, listVars
  <1>3. ASSUME NEW t \in Threads, ListExpire(t) PROVE OneShotOnce'
    <2> DEFINE X == {e.timer : e \in Due(now[t])}
    <2>1. \A x \in X : x \in armed
      BY EntryOf DEF Due, OrderInv, ArmedInTree
    <2>2. cbs[t] = {} /\ UNCHANGED <<recurring, made, cancelled, handed>>
      BY <1>3 DEF ListExpire
    <2>3. CASE UNCHANGED <<armed, cbs>>
      BY <2>2, <2>3 DEF OneShotOnce
    <2>4. CASE ~UNCHANGED <<armed, cbs>>
      <3>1. armed' = armed \ (X \ recurring) /\ cbs' = [cbs EXCEPT ![t] = X]
        BY <1>3, <2>4 DEF ListExpire, Spent
      <3> HIDE DEF X
      <3> QED BY <2>1, <2>2, <3>1 DEF OneShotOnce
    <2> QED BY <2>3, <2>4
  <1>4. ASSUME NEW t \in Threads, HandOver(t) PROVE OneShotOnce'
    BY <1>4 DEF HandOver, OneShotOnce, timerVars
  <1>5. CASE UNCHANGED <<made, recurring, armed, cancelled, handed, cbs>>
    BY <1>5 DEF OneShotOnce
  <1>6. ASSUME NEW t \in Threads, NEW x \in Timers, NEW d \in Delays, NEW b \in BOOLEAN,
               Reset(t, x, d, b)
        PROVE  UNCHANGED <<made, recurring, armed, cancelled, handed, cbs>>
    BY <1>6 DEF Reset, listVars
  <1>7. ASSUME NEW t \in Threads,
               \/ Insert(t) \/ Notify(t)
               \/ GetNextTimer(t) \/ ListBegin(t) \/ ListCheck(t) \/ ListEmptied(t)
        PROVE  UNCHANGED <<made, recurring, armed, cancelled, handed, cbs>>
    BY <1>7 DEF Insert, Notify, GetNextTimer, ListBegin, ListCheck, ListEmptied, listVars, timerVars
  <1>8. CASE Tick \/ UNCHANGED vars
    BY <1>8, <1>5 DEF Tick, vars, listVars, timerVars
  <1>9. ASSUME NEW t \in Threads, UserStep(t) PROVE OneShotOnce'
    <2>1. ASSUME NEW x \in Timers, Refresh(t, x) PROVE OneShotOnce'
      <3>1. UNCHANGED <<made, recurring, armed, cancelled, handed, cbs>>
        BY <2>1 DEF Refresh, listVars
      <3> QED BY <3>1, <1>5
    <2>2. ASSUME NEW x \in Timers, NEW d \in Delays, NEW b \in BOOLEAN, Reset(t, x, d, b) PROVE OneShotOnce'
      BY <2>2, <1>5, <1>6
    <2> QED BY <1>1, <1>2, <1>5, <1>7, <1>9, <2>1, <2>2 DEF UserStep
  <1>10. ASSUME NEW t \in Threads, LoopStep(t) PROVE OneShotOnce'
    BY <1>3, <1>4, <1>5, <1>7, <1>10 DEF LoopStep
  <1> QED BY <1>8, <1>9, <1>10 DEF Next, Crashed

-----------------------------------------------------------------------------
\* While no clock was taken to be set back: no time lies further ahead than its
\* period, no thread's clock reading is from the future, and whoever sleeps either
\* is being notified or sleeps no longer than to the first timer.
Ahead ==
  ~jumped =>
    /\ \A x \in made : next[x] <= clock + ms[x]
    /\ \A t \in Threads : now[t] <= clock

Sleeper ==
  /\ tickled => wake = 0 \/ \E t \in Threads : pc[t] = "notify"
  /\ (~jumped /\ ~tickled) => \A e \in tree : wake <= e.at

WakeInv == Ahead /\ Sleeper

LEMMA WakeInvInit == Init => WakeInv
  BY TimersAssumption DEF Init, WakeInv, Ahead, Sleeper, Clock

LEMMA Numbers ==
  ASSUME TypeInv
  PROVE  /\ clock \in Nat
         /\ \A d \in Delays : d \in Nat
         /\ \A x \in made : x \in Timers /\ next[x] \in Nat /\ ms[x] \in Nat /\ ms[x] <= next[x]
         /\ \A t \in Threads : now[t] \in Nat
  <1> USE TimersAssumption DEF TypeInv, TypeOK
  <1>1. Clock \subseteq Nat
    BY DEF Clock
  <1>2. \A x \in Timers : ms[x] \in Delays \cup {0} /\ next[x] \in Nat
    OBVIOUS
  <1>3. \A t \in Threads : now[t] \in Nat
    <2>1. now \in [Threads -> Clock \cup {0}]
      OBVIOUS
    <2>2. Clock \cup {0} \subseteq Nat
      BY <1>1
    <2> QED BY ONLY <2>1, <2>2
  <1>4. \A x \in made : x \in Timers /\ next[x] \in Nat /\ ms[x] \in Nat /\ ms[x] <= next[x]
    BY <1>2 DEF Periods
  <1> QED BY <1>1, <1>3, <1>4

\* An inserted timer that is not the first is not earlier than one that was there.
LEMMA NotFirst ==
  ASSUME NEW S, NEW e, ~IsFirst(e, S \cup {e})
  PROVE  \E f \in S : ~(e.at < f.at)
  BY DEF IsFirst, Before

LEMMA WakeInvAdd ==
  ASSUME TypeInv, WakeInv, NEW t \in Threads, NEW e \in Entry, NEW rest, rest \subseteq tree,
         AddTimer(t, e, rest), pc[t] # "notify", UNCHANGED <<wake, jumped>>
  PROVE  Sleeper'
  <1> USE DEF TypeInv, TypeOK
  <1>1. CASE IsFirst(e, rest \cup {e}) /\ ~tickled
    <2>1. tickled' = TRUE /\ pc' = [pc EXCEPT ![t] = "notify"]
      BY <1>1 DEF AddTimer
    <2>2. pc'[t] = "notify"
      BY <2>1
    <2> QED BY <2>1, <2>2 DEF Sleeper
  <1>2. CASE tickled
    <2>1. tickled' = TRUE /\ pc' = [pc EXCEPT ![t] = "idle"]
      BY <1>2 DEF AddTimer
    <2>2. \A u \in Threads : pc[u] = "notify" => pc'[u] = "notify"
      BY <2>1
    <2> QED BY <1>2, <2>1, <2>2 DEF WakeInv, Sleeper
  <1>3. CASE ~IsFirst(e, rest \cup {e}) /\ ~tickled
    <2>1. PICK f \in rest : ~(e.at < f.at)
      BY <1>3, NotFirst
    <2>2. tree' = rest \cup {e} /\ tickled' = tickled
      BY <1>3 DEF AddTimer
    <2>3. e.at \in Nat /\ f.at \in Nat /\ f \in tree
      BY DEF Entry
    <2> QED BY <1>3, <2>1, <2>2, <2>3 DEF WakeInv, Sleeper
  <1> QED BY <1>1, <1>2, <1>3

\* Steps after which the sleeper is no worse off: every entry is as late as some
\* entry that was there, and notifications stay on their way.
LEMMA WakeInvLater ==
  ASSUME TypeInv, WakeInv, tree' \subseteq Entry, UNCHANGED <<wake, tickled>>,
         jumped => jumped',
         ~jumped' => \A e \in tree' : \E f \in tree : f.at <= e.at,
         \A t \in Threads : pc[t] = "notify" => pc'[t] = "notify"
  PROVE  Sleeper'
  <1> USE DEF TypeInv, TypeOK
  <1>1. (tickled => wake = 0 \/ \E t \in Threads : pc[t] = "notify")'
    BY DEF WakeInv, Sleeper
  <1>2. ASSUME ~jumped', ~tickled', NEW e \in tree' PROVE wake <= e.at
    <2>1. PICK f \in tree : f.at <= e.at
      BY <1>2
    <2>2. wake <= f.at
      BY <1>2 DEF WakeInv, Sleeper
    <2>3. f.at \in Nat /\ e.at \in Nat
      BY <1>2 DEF Entry
    <2> QED BY <2>1, <2>2, <2>3
  <1> QED BY <1>1, <1>2 DEF Sleeper

LEMMA WakeInvTick == ASSUME TypeInv, WakeInv, Tick PROVE WakeInv'
  <1> USE DEF TypeInv, TypeOK
  <1>1. clock \in Nat /\ clock' \in Nat /\ \A t \in Threads : now[t] \in Nat
    BY Numbers, TimersAssumption DEF Clock, Tick
  <1>2. ~jumped' => ~jumped /\ clock <= clock'
    <2>1. ~jumped' => ~jumped /\ ~(clock' < clock)
      BY DEF Tick
    <2> QED BY <2>1, <1>1
  <1>3. UNCHANGED <<made, next, ms, now, tree, wake, tickled, pc>>
    BY DEF Tick, timerVars, listVars
  <1>4. \A x \in made : next[x] \in Nat /\ ms[x] \in Nat
    BY Numbers
  <1>5. Ahead'
    BY <1>1, <1>2, <1>3, <1>4 DEF WakeInv, Ahead
  <1>6. Sleeper'
    BY <1>2, <1>3 DEF WakeInv, Sleeper
  <1> QED BY <1>5, <1>6 DEF WakeInv

LEMMA WakeInvReset ==
  ASSUME TypeInv, OrderInv, WakeInv, NEW t \in Threads, NEW x \in Timers, NEW d \in Delays, NEW b \in BOOLEAN,
         Reset(t, x, d, b)
  PROVE  WakeInv'
  <1> USE DEF TypeInv, TypeOK
  <1> DEFINE from == IF b THEN clock ELSE next[x] - ms[x]
  <1>1. /\ clock \in Nat /\ d \in Nat /\ next[x] \in Nat /\ ms[x] \in Nat /\ ms[x] <= next[x] /\ x \in made
        /\ \A y \in made : y \in Timers /\ next[y] \in Nat /\ ms[y] \in Nat
    BY Numbers DEF Reset
  <1>2. from + d \in Nat /\ (~jumped => from <= clock)
    BY <1>1 DEF WakeInv, Ahead
  <1>3. next' = [next EXCEPT ![x] = from + d] /\ ms' = [ms EXCEPT ![x] = d]
    BY DEF Reset
  <1>4. UNCHANGED <<made, now, clock, jumped, wake>>
    BY DEF Reset, listVars
  <1>5. Ahead'
    <2> HIDE DEF from
    <2>1. from + d <= clock + d \/ jumped
      BY <1>1, <1>2, <1>3 DEF from
    <2>2. next'[x] = from + d /\ ms'[x] = d
      BY <1>1, <1>3
    <2>3. \A y \in made \ {x} : next'[y] = next[y] /\ ms'[y] = ms[y]
      BY <1>1, <1>3
    <2> QED BY <1>1, <1>4, <2>1, <2>2, <2>3 DEF WakeInv, Ahead
  <1>6. Sleeper'
    <2>1. next'[x] \in Nat
      BY <1>1, <1>2, <1>3
    <2>2. At(x, next'[x]) \in Entry
      BY <2>1 DEF At, Entry
    <2>3. pc[t] # "notify" /\ AddTimer(t, At(x, next'[x]), Without(x)) /\ Without(x) \subseteq tree
      BY DEF Reset, Without
    <2> QED BY <2>2, <2>3, <1>4, WakeInvAdd
  <1> QED BY <1>5, <1>6 DEF WakeInv

LEMMA WakeInvRefresh ==
  ASSUME TypeInv, OrderInv, WakeInv, NEW t \in Threads, NEW x \in Timers, Refresh(t, x)
  PROVE  WakeInv'
  <1> USE TimersAssumption DEF TypeInv, TypeOK
  <1>1. /\ clock \in Nat /\ x \in made
        /\ \A y \in made : y \in Timers /\ next[y] \in Nat /\ ms[y] \in Nat
    BY Numbers DEF Refresh
  <1>2. next'[x] = clock + ms[x] /\ \A y \in made \ {x} : next'[y] = next[y]
    BY <1>1 DEF Refresh
  <1>3. UNCHANGED <<made, ms, now, clock, jumped, wake, tickled, pc>>
    BY DEF Refresh, listVars
  <1>4. Ahead'
    BY <1>1, <1>2, <1>3 DEF WakeInv, Ahead
  <1>5. tree' = (tree \ {At(x, next[x])}) \cup {At(x, clock + ms[x])} /\ At(x, next[x]) \in tree
    BY <1>2 DEF Refresh, Without, Found
  <1>6. At(x, clock + ms[x]) \in Entry
    BY <1>1 DEF At, Entry
  <1>7. ~jumped => next[x] <= clock + ms[x]
    BY <1>1 DEF WakeInv, Ahead
  <1>8. ~jumped' => \A e \in tree' : \E f \in tree : f.at <= e.at
    <2> SUFFICES ASSUME ~jumped, NEW e \in tree' PROVE \E f \in tree : f.at <= e.at
      BY <1>3
    <2>1. CASE e \in tree
      BY <2>1 DEF Entry
    <2>2. CASE e = At(x, clock + ms[x])
      BY <2>2, <1>5, <1>7, AtFields
    <2> QED BY <2>1, <2>2, <1>5
  <1>9. Sleeper'
    BY <1>3, <1>5, <1>6, <1>8, WakeInvLater
  <1> QED BY <1>4, <1>9 DEF WakeInv

LEMMA WakeInvGet ==
  ASSUME TypeInv, OrderInv, WakeInv, NEW t \in Threads, GetNextTimer(t)
  PROVE  WakeInv'
  <1> USE DEF TypeInv, TypeOK
  <1>1. UNCHANGED <<made, next, ms, now, clock, jumped, tree>> /\ tickled' = FALSE
    BY DEF GetNextTimer, timerVars, listVars
  <1>2. Ahead'
    BY <1>1 DEF WakeInv, Ahead
  <1>3. ASSUME NEW e \in tree, IsFirst(e, tree), SleepFor(TimeTo(e)) PROVE \A f \in tree : wake' <= f.at
    <2>1. clock \in Nat /\ \A f \in tree : f.at \in Nat
      BY Numbers DEF Entry
    <2>2. wake' <= e.at
      BY <1>3, <2>1 DEF SleepFor, TimeTo
    <2>3. wake' \in Nat
      BY <1>3, <2>1 DEF SleepFor, TimeTo
    <2>4. \A f \in tree : e.at <= f.at
      BY <1>3, <2>1 DEF IsFirst, Before
    <2> QED BY <2>1, <2>2, <2>3, <2>4
  <1>4. \A f \in tree : wake' <= f.at
    BY <1>3 DEF GetNextTimer, Answer
  <1>5. Sleeper'
    BY <1>1, <1>4 DEF Sleeper
  <1> QED BY <1>2, <1>5 DEF WakeInv

\* Collected recurring timers go back in later than they were, unless the clock was
\* taken to be set back.
LEMMA WakeInvExpire ==
  ASSUME TypeInv, OrderInv, WakeInv, NEW t \in Threads, ListExpire(t), TypeInv'
  PROVE  WakeInv'
  <1> DEFINE n == now[t]
             X == {e.timer : e \in Due(n)}
  <1> USE DEF TypeInv, TypeOK
  <1>1. /\ UNCHANGED <<made, ms, clock, wake, tickled, recurring>>
        /\ now' = [now EXCEPT ![t] = 0]
        /\ jumped => jumped'
        /\ Rollover(n) => jumped'
    BY DEF ListExpire
  <1>2. \A u \in Threads : pc[u] = "notify" => pc'[u] = "notify"
    BY DEF ListExpire
  <1>3. n \in Nat /\ clock \in Nat /\ \A y \in made : y \in Timers /\ next[y] \in Nat /\ ms[y] \in Nat
    BY Numbers
  <1>4. CASE UNCHANGED <<tree, next>>
    <2>1. ~jumped' => \A u \in Threads : now'[u] <= clock
      BY <1>1, <1>3 DEF WakeInv, Ahead
    <2>2. Ahead'
      BY <1>1, <1>4, <2>1 DEF WakeInv, Ahead
    <2>3. \A e \in tree : e.at <= e.at
      BY DEF Entry
    <2>4. Sleeper'
      BY <1>1, <1>2, <1>4, <2>3, WakeInvLater
    <2> QED BY <2>2, <2>4 DEF WakeInv
  <1>5. CASE ~UNCHANGED <<tree, next>>
    <2>1. /\ next' = [x \in Timers |-> IF x \in X \cap recurring THEN n + ms[x] ELSE next[x]]
          /\ tree' = (tree \ Due(n)) \cup {At(x, n + ms[x]) : x \in X \cap recurring}
      BY <1>5 DEF ListExpire
    <2>2. \A x \in X : x \in made
      BY EntryOf DEF Due, OrderInv
    <2>3. ASSUME ~Rollover(n), NEW x \in X PROVE \E f \in tree : f.at = n
      <3>1. \A e \in tree : ~(e.at < 0)
        BY DEF Entry
      <3> QED BY <2>3, <3>1 DEF Due, ProbeNext
    <2> HIDE DEF X
    <2>4. Ahead'
      <3> SUFFICES ASSUME ~jumped'
                   PROVE  /\ \A y \in made : next'[y] <= clock + ms[y]
                          /\ \A u \in Threads : now'[u] <= clock
        BY <1>1 DEF Ahead
      <3>1. ~jumped /\ n <= clock
        BY <1>1 DEF WakeInv, Ahead
      <3>2. \A y \in made : next[y] <= clock + ms[y]
        BY <3>1 DEF WakeInv, Ahead
      <3>3. ASSUME NEW y \in made PROVE next'[y] <= clock + ms[y]
        BY <1>3, <2>1, <3>1, <3>2
      <3>4. \A u \in Threads : now'[u] <= clock
        BY <1>1, <1>3, <3>1 DEF WakeInv, Ahead
      <3> QED BY <3>3, <3>4
    <2>5. ~jumped' => \A e \in tree' : \E f \in tree : f.at <= e.at
      <3> SUFFICES ASSUME ~jumped', NEW e \in tree' PROVE \E f \in tree : f.at <= e.at
        OBVIOUS
      <3>1. CASE e \in tree
        BY <3>1 DEF Entry
      <3>2. ASSUME NEW x \in X \cap recurring, e = At(x, n + ms[x]) PROVE \E f \in tree : f.at <= e.at
        <4>1. PICK f \in tree : f.at = n
          BY <1>1, <2>3
        <4>2. e.at = n + ms[x] /\ ms[x] \in Nat
          BY <1>3, <2>2, <3>2, AtFields
        <4> QED BY <1>3, <4>1, <4>2
      <3> QED BY <2>1, <3>1, <3>2
    <2>6. Sleeper'
      BY <1>1, <1>2, <2>5, WakeInvLater
    <2> QED BY <2>4, <2>6 DEF WakeInv
  <1> QED BY <1>4, <1>5

\* Steps that leave the timers' times and the threads' clocks alone, and take entries
\* out at most.
LEMMA WakeInvKept ==
  ASSUME TypeInv, WakeInv, UNCHANGED <<clock, next, ms, made, wake, tickled, jumped>>, tree' \subseteq tree,
         \A t \in Threads : now'[t] \in {now[t], clock, 0},
         \A t \in Threads : pc[t] = "notify" => pc'[t] = "notify"
  PROVE  WakeInv'
  <1>1. ~jumped => \A t \in Threads : now'[t] <= clock
    BY Numbers DEF WakeInv, Ahead
  <1>2. Ahead'
    BY <1>1 DEF WakeInv, Ahead
  <1>3. Sleeper'
    BY DEF WakeInv, Sleeper
  <1> QED BY <1>2, <1>3 DEF WakeInv

LEMMA WakeInvNew ==
  ASSUME TypeInv, WakeInv, NEW t \in Threads, NEW x \in Timers, NEW d \in Delays, NEW r \in BOOLEAN,
         New(t, x, d, r)
  PROVE  WakeInv'
  <1> USE DEF TypeInv, TypeOK
  <1>1. /\ next' = [next EXCEPT ![x] = clock + d] /\ ms' = [ms EXCEPT ![x] = d] /\ made' = made \cup {x}
        /\ UNCHANGED <<clock, now, jumped, tree, wake, tickled>> /\ pc[t] = "idle"
        /\ \A u \in Threads \ {t} : pc'[u] = pc[u]
    BY DEF New, listVars
  <1>2. clock + d <= clock + d
    BY Numbers
  <1>3. next'[x] = clock + d /\ ms'[x] = d /\ \A y \in made : y # x => next'[y] = next[y] /\ ms'[y] = ms[y]
    BY <1>1
  <1>4. Ahead'
    BY <1>1, <1>2, <1>3 DEF WakeInv, Ahead
  <1>5. Sleeper'
    BY <1>1 DEF WakeInv, Sleeper
  <1> QED BY <1>4, <1>5 DEF WakeInv

LEMMA WakeInvInsert ==
  ASSUME TypeInv, WakeInv, NEW t \in Threads, Insert(t) PROVE WakeInv'
  <1> DEFINE e == At(arg[t], next[arg[t]])
  <1>1. arg[t] \in made
    BY DEF Insert, TypeInv, TypeOK
  <1>2. e \in Entry /\ tree \subseteq tree
    BY <1>1, Numbers DEF At, Entry
  <1>3. AddTimer(t, e, tree) /\ pc[t] # "notify" /\ UNCHANGED <<wake, jumped, clock, next, ms, made, now>>
    BY DEF Insert, listVars
  <1>4. Sleeper'
    BY <1>2, <1>3, WakeInvAdd
  <1>5. Ahead'
    BY <1>3 DEF WakeInv, Ahead
  <1> QED BY <1>4, <1>5 DEF WakeInv

LEMMA WakeInvNotify ==
  ASSUME TypeInv, WakeInv, NEW t \in Threads, Notify(t) PROVE WakeInv'
  <1>1. wake' = 0 /\ UNCHANGED <<jumped, clock, next, ms, made, now, tree, tickled>>
    BY DEF Notify, listVars
  <1>2. \A e \in tree : 0 <= e.at
    BY DEF TypeInv, TypeOK, Entry
  <1>3. Ahead'
    BY <1>1 DEF WakeInv, Ahead
  <1>4. Sleeper'
    BY <1>1, <1>2 DEF Sleeper
  <1> QED BY <1>3, <1>4 DEF WakeInv

LEMMA WakeInvNext == TypeInv /\ OrderInv /\ WakeInv /\ [Next]_vars /\ TypeInv' => WakeInv'
  <1> SUFFICES ASSUME TypeInv, OrderInv, WakeInv, [Next]_vars, TypeInv' PROVE WakeInv'
    OBVIOUS
  <1>1. ASSUME NEW t \in Threads, NEW x \in Timers, Cancel(t, x) PROVE WakeInv'
    BY <1>1, WakeInvKept DEF Cancel, Without, listVars
  <1>2. ASSUME NEW t \in Threads, ListBegin(t) PROVE WakeInv'
    BY <1>2, WakeInvKept DEF ListBegin, timerVars, TypeInv, TypeOK
  <1>3. ASSUME NEW t \in Threads, ListCheck(t) PROVE WakeInv'
    BY <1>3, WakeInvKept DEF ListCheck, timerVars, TypeInv, TypeOK
  <1>4. ASSUME NEW t \in Threads, ListEmptied(t) PROVE WakeInv'
    BY <1>4, WakeInvKept DEF ListEmptied, timerVars, listVars
  <1>5. ASSUME NEW t \in Threads, HandOver(t) PROVE WakeInv'
    BY <1>5, WakeInvKept DEF HandOver, timerVars, TypeInv, TypeOK
  <1>6. CASE UNCHANGED vars
    BY <1>6, WakeInvKept DEF vars, timerVars, listVars
  <1> QED
    BY <1>1, <1>2, <1>3, <1>4, <1>5, <1>6, WakeInvTick, WakeInvNew, WakeInvInsert, WakeInvNotify,
       WakeInvRefresh, WakeInvReset, WakeInvGet, WakeInvExpire
    DEF Next, Crashed, UserStep, LoopStep

-----------------------------------------------------------------------------
\* Everything the manager keeps has the type its declarations say, whoever calls what;
\* in particular no due time underflows in reset().
THEOREM TimersTyped == Spec => []TypeOK
  <1>1. Spec => []TypeInv
    BY TypeInvInit, TypeInvNext, PTL DEF Spec
  <1> QED BY <1>1, PTL DEF TypeInv

LEMMA AllInv == Spec => [](TypeInv /\ OrderInv /\ OneShotOnce /\ WakeInv)
  BY TypeInvInit, TypeInvNext, OrderInvInit, OrderInvNext, OneShotInit, OneShotNext,
     WakeInvInit, WakeInvNext, PTL DEF Spec

\* No operation of a timer changes its time under the set that is ordered by it.
THEOREM TimersOrdered == Spec => []Ordered
  BY AllInv, PTL DEF OrderInv

\* cancel() may erase what find() returned without looking whether it found it.
THEOREM TimersArmed == Spec => []ArmedInTree
  BY AllInv, PTL DEF OrderInv

\* A one-shot timer's callback is handed over at most once, and never after cancel()
\* returned true.
THEOREM FiresOnce == Spec => []OneShotOnce
  BY AllInv, PTL

LEMMA SleeperMissesNone == TypeInv /\ WakeInv => NoMissedFront
  <1> SUFFICES ASSUME TypeInv, WakeInv, ~jumped, NEW e \in tree, e.at < wake
               PROVE  \E t \in Threads : pc[t] = "notify"
    BY DEF NoMissedFront
  <1>1. wake \in Nat /\ e.at \in Nat /\ tickled \in BOOLEAN
    BY DEF TypeInv, TypeOK, Entry
  <1>2. tickled
    BY <1>1 DEF WakeInv, Sleeper
  <1> QED BY <1>1, <1>2 DEF WakeInv, Sleeper

\* The sleeper that getNextTimer() answered is told of every timer that became due
\* earlier than the answer, though refresh() and the recurring timers tell nobody.
THEOREM NoFrontMissed == Spec => []NoMissedFront
  BY AllInv, SleeperMissesNone, PTL
=============================================================================
