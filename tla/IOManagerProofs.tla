---------------------------- MODULE IOManagerProofs ----------------------------
(***************************************************************************)
(* What an IOManager promises, for any number of workers, descriptors and  *)
(* jobs: what the contexts' locks protect, what epoll watches for, when an *)
(* empty context is triggered; what the two thread counts count, and that  *)
(* somebody is left while an event is registered; and that no waiter is    *)
(* lost and none is woken twice.                                           *)
(***************************************************************************)
EXTENDS IOManager, TLAPS, FiniteSetTheorems, SequenceTheorems

-----------------------------------------------------------------------------
(***************************************************************************)
(* Lemmas about the operators of the model                                 *)
(***************************************************************************)

\* Taking the i-th task leaves tasks.
LEMMA RemoveTask ==
  ASSUME NEW q \in Seq(Jobs), NEW i \in 1..Len(q)
  PROVE  RemoveAt(q, i) \in Seq(Jobs)
  <1>1. Len(q) \in Nat /\ \A k \in 1..Len(q) : q[k] \in Jobs
    BY LenProperties, ElementOfSeq
  <1>2. SubSeq(q, 1, i - 1) \in Seq(Jobs)
    <2>1. \A k \in 1..(i - 1) : q[k] \in Jobs
      BY <1>1
    <2> QED BY <2>1, SubSeqProperties, i - 1 \in Int
  <1>3. SubSeq(q, i + 1, Len(q)) \in Seq(Jobs)
    <2>1. \A k \in (i + 1)..Len(q) : q[k] \in Jobs
      BY <1>1
    <2> QED BY <2>1, <1>1, SubSeqProperties, i + 1 \in Int, Len(q) \in Int
  <1> QED BY <1>2, <1>3, ConcatProperties DEF RemoveAt

\* An order of finitely many things is a sequence of them.
LEMMA OrderIsSeq ==
  ASSUME NEW S, IsFiniteSet(S), NEW s \in SetToSeqs(S)
  PROVE  s \in Seq(S)
  <1>1. Cardinality(S) \in Nat
    BY FS_CardinalityType
  <1>2. s \in [1..Cardinality(S) -> S]
    BY DEF SetToSeqs
  <1> QED BY <1>1, <1>2, SeqDef

\* What epoll_wait() may report is finite, and reports.
LEMMA ReportsFinite ==
  ASSUME onlist \subseteq Fds \cup {Pipe}, level \in [Fds -> SUBSET Condition]
  PROVE  IsFiniteSet(Reports) /\ Reports \subseteq Report
  <1> DEFINE What(fd) == level[fd] \cap (interest[fd] \cup {"HUP"})
             A == {f \in onlist \cap Fds : What(f) # {}}
             B == {g \in onlist \ Fds : pipe > 0}
             f == [fd \in A \cup B |-> IF fd \in A THEN [fd |-> fd, what |-> What(fd)]
                                       ELSE [fd |-> fd, what |-> {}]]
  <1>1. A \cup B \subseteq Fds \cup {Pipe} /\ A \subseteq Fds /\ B \subseteq {Pipe} /\ A \cap B = {}
    BY IOAssumption
  <1>2. IsFiniteSet(A \cup B)
    <2>1. IsFiniteSet(Fds \cup {Pipe})
      BY IOAssumption, FS_AddElement
    <2> QED BY <2>1, <1>1, FS_Subset
  <1>3. Reports = {f[x] : x \in A \cup B}
    BY <1>1, Zenon DEF Reports
  <1>4. f \in Surjection(A \cup B, Reports)
    BY <1>3 DEF Surjection
  <1>5. IsFiniteSet(Reports)
    BY <1>2, <1>4, FS_Surjection
  <1>6. Reports \subseteq Report
    <2>1. \A x \in A : [fd |-> x, what |-> What(x)] \in Report
      BY <1>1 DEF Report
    <2>2. \A x \in B : [fd |-> x, what |-> {}] \in Report
      BY <1>1 DEF Report
    <2> QED BY <2>1, <2>2 DEF Reports
  <1> QED BY <1>5, <1>6

-----------------------------------------------------------------------------
(***************************************************************************)
(* Types, but for the three counters                                       *)
(***************************************************************************)

\* The types of the variables, with plain integers for the counters.
Counter == [active : Int, idle : Int]
Seen == [calls : 0..MaxCalls, orphan : SUBSET Fds, both : BOOLEAN, late : BOOLEAN]
Life == {"fresh", "live", "asleep", "ended", "dropped"}
Slots == [Event -> Jobs \cup {NoJob}]

Types ==
  /\ interest \in [Fds -> (SUBSET Event) \cup {Absent}]
  /\ level \in [Fds -> SUBSET Condition]
  /\ onlist \subseteq Fds \cup {Pipe}
  /\ pipe \in 0..PipeSize
  /\ size \in Nat
  /\ slot \in [Fds -> Slots]
  /\ lock \in [Fds -> Workers \cup {None}]
  /\ pending \in Int
  /\ tasks \in Seq(Jobs)
  /\ count \in Counter
  /\ life \in [Jobs -> Life]
  /\ th \in [Workers -> Thread]
  /\ seen \in Seen
  /\ fault \in {"none", "assert", "null", "shrunk"}

\* What a worker's place says of its local variables.
Busy == {"body", "grow", "added", "yield"}
Idling == {"idle", "check", "wait", "expire", "event", "leave"}
Sound(r) ==
  /\ r.pc \in Busy => r.cur # NoJob
  /\ r.pc \in Idling \cup {"scan", "exit"} => r.cur = NoJob
  /\ r.pc \in {"tickle", "write"} => r.back \in {"body", "count"} /\ (r.back = "body" => r.cur # NoJob)
  /\ r.pc \in {"grow", "added"} => r.who # NoJob /\ \E e \in Event : r.todo = {e}
  /\ r.pc \in {"fire", "count"} => r.todo # {}
  /\ r.pc \in {"tickle", "write"} /\ r.back = "count" => r.todo # {}
Places == \A w \in Workers : Sound(th[w])

\* Two more conjuncts of TypeOK never change their type.
Flags == firstOp \in FirstOps /\ stopping \in BOOLEAN

\* What a worker becomes, and what stays with the others.
LEMMA Becomes ==
  ASSUME th \in [Workers -> Thread], NEW w \in Workers, NEW r, Become(w, r)
  PROVE  /\ th'[w] = r
         /\ \A u \in Workers : u # w => th'[u] = th[u]
         /\ r \in Thread => th' \in [Workers -> Thread]
  BY DEF Become

\* A worker may change its place and its locals one at a time.
LEMMA ThreadFields ==
  ASSUME NEW r \in Thread
  PROVE  /\ \A p \in Place : [r EXCEPT !.pc = p] \in Thread
         /\ \A p \in Place, b \in {"scan", "body", "count"} : [r EXCEPT !.pc = p, !.back = b] \in Thread
         /\ \A j \in Jobs \cup {NoJob} : [r EXCEPT !.cur = j] \in Thread
         /\ \A p \in Place, j \in Jobs \cup {NoJob} : [r EXCEPT !.pc = p, !.cur = j] \in Thread
         /\ \A p \in Place, fd \in Fds, es \in SUBSET Event :
              [r EXCEPT !.pc = p, !.fd = fd, !.todo = es] \in Thread
         /\ \A p \in Place, fd \in Fds, es \in SUBSET Event, j \in Jobs \cup {NoJob} :
              [r EXCEPT !.pc = p, !.fd = fd, !.todo = es, !.who = j] \in Thread
         /\ \A p \in Place, fd \in Fds, es \in SUBSET Event, s \in Seq(Report) :
              [r EXCEPT !.pc = p, !.fd = fd, !.todo = es, !.got = s] \in Thread
         /\ \A p \in Place, es \in SUBSET Event, j \in Jobs \cup {NoJob} :
              [r EXCEPT !.pc = p, !.who = j, !.todo = es] \in Thread
         /\ \A p \in Place, es \in SUBSET Event : [r EXCEPT !.todo = es, !.pc = p] \in Thread
         /\ \A p \in Place, b \in BOOLEAN : [r EXCEPT !.pc = p, !.term = b] \in Thread
         /\ \A p \in Place, s \in Seq(Report) : [r EXCEPT !.pc = p, !.got = s] \in Thread
         /\ \A s \in Seq(Report) : [r EXCEPT !.got = s] \in Thread
  BY DEF Thread

\* What the constructor leaves behind has its type.
LEMMA TypesInit == Init => Types /\ Flags
  <1> SUFFICES ASSUME Init PROVE Types /\ Flags
    OBVIOUS
  <1>1. (CHOOSE fd \in Fds : TRUE) \in Fds
    BY IOAssumption
  <1>2. <<>> \in Seq(Report)
    BY EmptySeq
  <1>3. [pc |-> "scan", back |-> "scan", cur |-> NoJob, fd |-> CHOOSE fd \in Fds : TRUE,
         todo |-> {}, who |-> NoJob, got |-> <<>>, term |-> FALSE] \in Thread
    <2> DEFINE any == CHOOSE fd \in Fds : TRUE
    <2>1. any \in Fds
      BY <1>1
    <2> HIDE DEF any
    <2>2. [pc |-> "scan", back |-> "scan", cur |-> NoJob, fd |-> any,
           todo |-> {}, who |-> NoJob, got |-> <<>>, term |-> FALSE] \in Thread
      BY <2>1, <1>2 DEF Thread, Place
    <2> QED BY <2>2 DEF any
  <1>4. th \in [Workers -> Thread]
    BY <1>3 DEF Init
  <1>5. seen \in Seen
    BY IOAssumption DEF Init, Seen
  <1>6. slot \in [Fds -> Slots]
    BY DEF Init, Slots
  <1>7. life \in [Jobs -> Life]
    BY DEF Init, Life
  <1>8. pipe \in 0..PipeSize /\ size \in Nat /\ pending \in Int /\ tasks \in Seq(Jobs)
    BY IOAssumption DEF Init
  <1>9. /\ interest \in [Fds -> (SUBSET Event) \cup {Absent}] /\ level \in [Fds -> SUBSET Condition]
        /\ onlist \subseteq Fds \cup {Pipe} /\ lock \in [Fds -> Workers \cup {None}]
        /\ count \in Counter /\ fault = "none" /\ firstOp \in FirstOps /\ stopping = FALSE
    BY DEF Init, Counter
  <1> QED BY <1>4, <1>5, <1>6, <1>7, <1>8, <1>9 DEF Types, Flags

\* Every step keeps the types.
LEMMA TypesNext == Types /\ Flags /\ Places /\ [Next]_vars => Types' /\ Flags'
  <1> SUFFICES ASSUME Types, Flags, Places, [Next]_vars PROVE Types' /\ Flags'
    OBVIOUS
  <1> USE DEF Alive
  <1>p. /\ {"scan", "body", "grow", "added", "yield", "fire", "count", "tickle", "write", "idle",
            "check", "wait", "expire", "event", "leave", "exit"} \subseteq Place
        /\ {"READ", "WRITE"} = Event
    BY DEF Place, Event
  <1>t. ASSUME NEW w \in Workers PROVE th[w] \in Thread
    BY DEF Types
  <1>r. ASSUME NEW w \in Workers, NEW r \in Thread, Become(w, r) PROVE th' \in [Workers -> Thread]
    BY <1>r, Becomes DEF Types
  <1>k. /\ lock \in [Fds -> Workers \cup {None}]
        /\ \A fd : \A u \in Workers \cup {None} : [lock EXCEPT ![fd] = u] \in [Fds -> Workers \cup {None}]
    BY DEF Types
  <1>i. /\ pending + 1 \in Int /\ pending - 1 \in Int
        /\ \A j : \A l \in Life : [life EXCEPT ![j] = l] \in [Jobs -> Life]
    <2>1. pending \in Int /\ life \in [Jobs -> Life]
      BY DEF Types
    <2>2. pending + 1 \in Int /\ pending - 1 \in Int
      BY <2>1
    <2>3. ASSUME NEW j, NEW l \in Life PROVE [life EXCEPT ![j] = l] \in [Jobs -> Life]
      BY <2>1
    <2> QED BY <2>2, <2>3
  <1>n. ASSUME NEW w \in Workers, Calls(w) PROVE Noted \in Seen
    <2>1. seen \in Seen /\ seen.calls < MaxCalls
      BY <1>n DEF Calls, Types
    <2>2. [seen EXCEPT !.calls = @ + 1] \in Seen
      BY <2>1, IOAssumption DEF Seen
    <2> QED BY <1>n, <2>2 DEF Noted
  <1>1. ASSUME NEW w \in Workers, Take(w) PROVE Types' /\ Flags'
    <2>1. PICK i \in DOMAIN tasks :
            tasks' = RemoveAt(tasks, i) /\ Become(w, [Then(w, i < Len(tasks), "body") EXCEPT !.cur = tasks[i]])
      BY <1>1 DEF Take
    <2>2. i \in 1..Len(tasks) /\ tasks[i] \in Jobs
      BY LenProperties, ElementOfSeq DEF Types
    <2>3. tasks' \in Seq(Jobs)
      BY <2>1, <2>2, RemoveTask DEF Types
    <2>4. Then(w, i < Len(tasks), "body") \in Thread
      BY <1>p, <1>t, ThreadFields DEF Then
    <2>5. th' \in [Workers -> Thread]
      BY <2>1, <2>2, <2>4, ThreadFields, Becomes DEF Types
    <2>6. /\ count' = [count EXCEPT !.active = @ + 1] /\ UNCHANGED <<firstOp, fault>>
          /\ UNCHANGED <<epoll, pipe, ctx, pending, stopping, life, seen>>
      BY <1>1 DEF Take
    <2>7. count' \in Counter
      BY <2>6 DEF Types, Counter
    <2> QED BY <2>3, <2>5, <2>6, <2>7 DEF Types, Flags, epoll, ctx
  <1>2. ASSUME NEW w \in Workers, TakeNothing(w) PROVE Types' /\ Flags'
    <2>1. th' \in [Workers -> Thread]
      BY <1>2, <1>p, <1>t, ThreadFields, Becomes DEF TakeNothing, Goto, Types
    <2> QED BY <1>2, <2>1 DEF TakeNothing, Types, Flags, Counter, epoll, ctx
  <1>3. ASSUME NEW w \in Workers, Tickle(w) PROVE Types' /\ Flags'
    <2>1. th[w].back \in {"scan", "body", "count"}
      BY <1>t DEF Thread
    <2>2. th' \in [Workers -> Thread]
      BY <1>3, <1>p, <1>t, <2>1, ThreadFields, Becomes, ZenonT(30) DEF Tickle, Goto, Then, Types
    <2> QED BY <1>3, <2>2 DEF Tickle, Types, Flags, epoll, ctx, sched
  <1>4. ASSUME NEW w \in Workers, Write(w) PROVE Types' /\ Flags'
    <2>1. th[w].back \in {"scan", "body", "count"}
      BY <1>t DEF Thread
    <2>2. th' \in [Workers -> Thread]
      BY <1>4, <1>p, <1>t, <2>1, ThreadFields, Becomes, ZenonT(30) DEF Write, Then, Types
    <2>3. pipe' \in 0..PipeSize
      BY <1>4, IOAssumption DEF Write, Types
    <2> QED BY <1>4, <2>2, <2>3 DEF Write, Types, Flags, ctx, sched
  <1>s. ASSUME NEW w \in Workers, NEW j \in Jobs, NEW back \in {"body", "count"},
               Schedule(w, j, back)
        PROVE  tasks' \in Seq(Jobs) /\ th' \in [Workers -> Thread]
    <2>1. tasks' \in Seq(Jobs)
      BY <1>s, AppendProperties DEF Schedule, Types
    <2>2. Then(w, tasks = <<>>, back) \in Thread
      BY <1>p, <1>t, ThreadFields DEF Then
    <2> QED BY <1>s, <2>1, <2>2, Becomes DEF Schedule, Types
  <1>5. ASSUME NEW w \in Workers, NEW j \in Jobs, Spawn(w, j) PROVE Types' /\ Flags'
    <2>1. tasks' \in Seq(Jobs) /\ th' \in [Workers -> Thread]
      BY <1>5, <1>s DEF Spawn
    <2>2. seen' \in Seen
      BY <1>5, <1>n DEF Spawn
    <2>3. life' \in [Jobs -> Life]
      BY <1>5 DEF Spawn, Types, Life
    <2> QED BY <1>5, <2>1, <2>2, <2>3 DEF Spawn, Calls, Types, Flags, epoll, ctx, Counter
  <1>6. ASSUME NEW w \in Workers, NEW fd \in Fds, NEW e \in Event, Drain(w, fd, e)
        PROVE  Types' /\ Flags'
    <2>1. seen' \in Seen
      BY <1>6, <1>n DEF Drain
    <2>2. level' \in [Fds -> SUBSET Condition]
      BY <1>6 DEF Drain, Types
    <2> QED BY <1>6, <2>1, <2>2 DEF Drain, Calls, Types, Flags, ctx, sched
  <1>7. ASSUME NEW w \in Workers, NEW fd \in Fds, Reuse(w, fd) PROVE Types' /\ Flags'
    <2>1. Noted \in Seen
      BY <1>7, <1>n DEF Reuse
    <2>2. seen' \in Seen
      <3>1. seen \in Seen
        BY DEF Types
      <3>2. seen.orphan \cup {f \in {fd} : interest[f] # Absent} \in SUBSET Fds
        BY <3>1 DEF Seen
      <3> QED BY <1>7, <2>1, <3>2 DEF Reuse, Seen
    <2>3. interest' \in [Fds -> (SUBSET Event) \cup {Absent}]
      BY <1>7 DEF Reuse, Types
    <2>4. level' \in [Fds -> SUBSET Condition] /\ onlist' \subseteq Fds \cup {Pipe}
      BY <1>7 DEF Reuse, Types
    <2> QED BY <1>7, <2>2, <2>3, <2>4 DEF Reuse, Calls, Types, Flags, ctx, sched
  <1>l. ASSUME NEW w \in Workers, NEW l, th[w].cur \in Jobs => l \in Life, Leave(w, l), Alive, seen' \in Seen
        PROVE  Types' /\ Flags'
    <2>1. th' \in [Workers -> Thread]
      BY <1>l, <1>p, <1>t, ThreadFields, Becomes DEF Leave, Types
    <2>2. life' \in [Jobs -> Life]
      BY <1>l DEF Leave, Types
    <2> QED BY <1>l, <2>1, <2>2 DEF Leave, Types, Flags, Counter, epoll, ctx
  <1>8. ASSUME NEW w \in Workers, End(w) \/ Sleep(w) \/ Yield(w) PROVE Types' /\ Flags'
    <2>1. CASE End(w)
      BY <2>1, <1>l DEF End, Life, Types
    <2>2. CASE Sleep(w)
      BY <2>2, <1>l, <1>n DEF Sleep, Calls, Life
    <2>3. CASE Yield(w)
      <3>1. th[w].cur \in Jobs => life[th[w].cur] \in Life
        BY DEF Types
      <3> QED BY <2>3, <3>1, <1>l DEF Yield, Types
    <2> QED BY <1>8, <2>1, <2>2, <2>3
  <1>c. ASSUME NEW op, NEW fd \in Fds, NEW es \in SUBSET Event, Ctl(op, fd, es)
        PROVE  /\ interest' \in [Fds -> (SUBSET Event) \cup {Absent}]
               /\ level' \in [Fds -> SUBSET Condition] /\ onlist' \subseteq Fds \cup {Pipe}
    BY <1>c DEF Ctl, Types
  <1>e. \A fd : events(fd) \in SUBSET Event
    BY DEF events
  <1>a. ASSUME NEW w \in Workers, NEW fd \in Fds, NEW e \in Event, NEW j \in Jobs \cup {NoJob},
               AddLocked(w, fd, e, j)
        PROVE  /\ interest' \in [Fds -> (SUBSET Event) \cup {Absent}]
               /\ level' \in [Fds -> SUBSET Condition] /\ onlist' \subseteq Fds \cup {Pipe}
               /\ lock' \in [Fds -> Workers \cup {None}] /\ th' \in [Workers -> Thread]
    <2>1. CASE CtlWorks(AddOp(fd), fd)
      <3>1. Ctl(AddOp(fd), fd, events(fd) \cup {e}) /\ events(fd) \cup {e} \in SUBSET Event
        BY <1>a, <1>e, <2>1 DEF AddLocked
      <3>2. th' \in [Workers -> Thread]
        <4>1. Become(w, [th[w] EXCEPT !.pc = "added", !.fd = fd, !.todo = {e}, !.who = j])
          BY <1>a, <2>1 DEF AddLocked
        <4>2. "added" \in Place /\ {e} \in SUBSET Event
          BY <1>p
        <4> QED BY <4>1, <4>2, <1>t, <1>r, ThreadFields
      <3>3. lock' \in [Fds -> Workers \cup {None}]
        BY <1>a, <2>1 DEF AddLocked, Types
      <3> QED BY <3>1, <3>2, <3>3, <1>c
    <2>2. CASE ~CtlWorks(AddOp(fd), fd)
      <3>2. th' \in [Workers -> Thread]
        <4>1. Become(w, [th[w] EXCEPT !.pc = "body", !.who = NoJob, !.todo = {}])
          BY <1>a, <2>2 DEF AddLocked
        <4>2. "body" \in Place /\ {} \in SUBSET Event
          BY <1>p
        <4> QED BY <4>1, <4>2, <1>t, <1>r, ThreadFields
      <3> QED BY <1>a, <2>2, <3>2 DEF AddLocked, Types, epoll
    <2> QED BY <2>1, <2>2
  <1>9. ASSUME NEW w \in Workers, NEW fd \in Fds, NEW e \in Event, NEW j \in Jobs, AddEvent(w, fd, e, j)
        PROVE  Types' /\ Flags'
    <2>1. /\ interest' \in [Fds -> (SUBSET Event) \cup {Absent}]
          /\ level' \in [Fds -> SUBSET Condition] /\ onlist' \subseteq Fds \cup {Pipe}
          /\ lock' \in [Fds -> Workers \cup {None}] /\ th' \in [Workers -> Thread]
      <3>1. CASE size > fd
        BY <1>9, <3>1, <1>a DEF AddEvent
      <3>2. CASE ~(size > fd)
        <4>1. th' \in [Workers -> Thread]
          BY <1>9, <1>p, <1>t, <3>2, ThreadFields, Becomes, ZenonT(30) DEF AddEvent, Types
        <4> QED BY <1>9, <3>2, <4>1 DEF AddEvent, Types, epoll
      <3> QED BY <3>1, <3>2
    <2>2. seen' \in Seen
      BY <1>9, <1>n DEF AddEvent
    <2>3. UNCHANGED <<firstOp, fault, pipe, size, slot, pending, sched, life>>
      BY <1>9 DEF AddEvent, Calls
    <2> QED BY <2>1, <2>2, <2>3 DEF Types, Flags, sched
  <1>o. ASSUME NEW w \in Workers
        PROVE  /\ th[w].fd \in Fds /\ th[w].who \in Jobs \cup {NoJob} /\ th[w].todo \in SUBSET Event
               /\ th[w].cur \in Jobs \cup {NoJob} /\ th[w].got \in Seq(Report)
               /\ th[w].pc \in Place /\ th[w].back \in {"scan", "body", "count"}
    BY <1>t DEF Thread
  <1>10. ASSUME NEW w \in Workers, Grow(w) PROVE Types' /\ Flags'
    <2> DEFINE e == CHOOSE e \in Event : e \in th[w].todo
    <2>1. e \in Event
      BY <1>10, <1>o DEF Grow, At, Places, Sound
    <2>2. AddLocked(w, th[w].fd, e, th[w].who)
      BY <1>10 DEF Grow
    <2> HIDE DEF e
    <2>3. /\ interest' \in [Fds -> (SUBSET Event) \cup {Absent}]
          /\ level' \in [Fds -> SUBSET Condition] /\ onlist' \subseteq Fds \cup {Pipe}
          /\ lock' \in [Fds -> Workers \cup {None}] /\ th' \in [Workers -> Thread]
      BY <2>1, <2>2, <1>a, <1>o
    <2>4. size' \in Nat
      <3>1. th[w].fd \in Nat
        BY <1>o, IOAssumption
      <3> QED BY <3>1, <1>10 DEF Grow, NewSize
    <2>5. /\ UNCHANGED <<firstOp, pipe, slot, pending, sched, life, seen>>
          /\ fault' \in {"shrunk", fault}
      BY <1>10 DEF Grow
    <2> QED BY <2>3, <2>4, <2>5 DEF Types, Flags, sched
  <1>11. ASSUME NEW w \in Workers, Added(w) PROVE Types' /\ Flags'
    <2> DEFINE e == CHOOSE x \in Event : x \in th[w].todo
    <2>1. e \in Event
      BY <1>11, <1>o DEF Added, At, Places, Sound
    <2>2. /\ pending' = pending + 1
          /\ fault' = IF e \in events(th[w].fd) THEN "assert" ELSE fault
          /\ slot' = [slot EXCEPT ![th[w].fd][e] = th[w].who]
          /\ lock' = [lock EXCEPT ![th[w].fd] = None]
          /\ life' = [life EXCEPT ![th[w].who] = "live"]
          /\ Become(w, [th[w] EXCEPT !.pc = IF th[w].who = th[w].cur THEN "yield" ELSE "body",
                              !.who = NoJob, !.todo = {}])
          /\ seen' = [seen EXCEPT !.both = @ \/ events(th[w].fd) \cup {e} = Event]
          /\ UNCHANGED <<firstOp, epoll, pipe, size, sched>>
      BY <1>11 DEF Added
    <2> HIDE DEF e
    <2>3. th' \in [Workers -> Thread]
      BY <2>2, <1>p, <1>t, ThreadFields, Becomes, ZenonT(30) DEF Types
    <2>4. slot' \in [Fds -> Slots]
      BY <2>1, <2>2, <1>o DEF Types, Slots
    <2>5. life' \in [Jobs -> Life] /\ lock' \in [Fds -> Workers \cup {None}] /\ pending' \in Int
      BY <2>2, <1>i, <1>k DEF Life
    <2>6. seen' \in Seen
      <3>1. seen \in Seen
        BY DEF Types
      <3> QED BY <3>1, <2>2 DEF Seen
    <2> QED BY <2>2, <2>3, <2>4, <2>5, <2>6 DEF Types, Flags, epoll, sched
  <1>12. ASSUME NEW w \in Workers, NEW fd \in Fds, NEW e \in Event, DelEvent(w, fd, e)
         PROVE  Types' /\ Flags'
    <2>1. /\ interest' \in [Fds -> (SUBSET Event) \cup {Absent}]
          /\ level' \in [Fds -> SUBSET Condition] /\ onlist' \subseteq Fds \cup {Pipe}
      <3>1. events(fd) \ {e} \in SUBSET Event
        BY <1>e
      <3> QED BY <1>12, <3>1, <1>c DEF DelEvent, CtlLeave
    <2>2. seen' \in Seen
      BY <1>12, <1>n DEF DelEvent
    <2>3. slot' \in [Fds -> Slots]
      BY <1>12 DEF DelEvent, Types, Slots
    <2>4. life' \in [Jobs -> Life]
      BY <1>12 DEF DelEvent, Types, Life
    <2>5. pending' \in Int /\ UNCHANGED <<firstOp, fault, pipe, size, lock, sched, th>>
      BY <1>12 DEF DelEvent, Calls, Types
    <2> QED BY <2>1, <2>2, <2>3, <2>4, <2>5 DEF Types, Flags, sched
  <1>13. ASSUME NEW w \in Workers, NEW fd \in Fds, NEW es \in SUBSET Event, Cancel(w, fd, es)
         PROVE  Types' /\ Flags'
    <2>1. /\ interest' \in [Fds -> (SUBSET Event) \cup {Absent}]
          /\ level' \in [Fds -> SUBSET Condition] /\ onlist' \subseteq Fds \cup {Pipe}
      <3>1. events(fd) \ es \in SUBSET Event
        BY <1>e
      <3> QED BY <1>13, <3>1, <1>c DEF Cancel, CtlLeave
    <2>2. seen' \in Seen
      BY <1>13, <1>n DEF Cancel
    <2>3. lock' \in [Fds -> Workers \cup {None}]
      BY <1>13 DEF Cancel, Types
    <2>4. th' \in [Workers -> Thread]
      BY <1>13, <1>p, <1>t, ThreadFields, Becomes DEF Cancel, Types
    <2>5. UNCHANGED <<firstOp, fault, pipe, size, slot, pending, sched, life>>
      BY <1>13 DEF Cancel, Calls
    <2> QED BY <2>1, <2>2, <2>3, <2>4, <2>5 DEF Types, Flags, sched
  <1>14. ASSUME NEW w \in Workers, NEW fd \in Fds, CancelAll(w, fd) PROVE Types' /\ Flags'
    BY <1>14, <1>13, <1>e DEF CancelAll
  <1>15. ASSUME NEW w \in Workers, NEW fd \in Fds, NEW e \in Event, CancelEvent(w, fd, e)
         PROVE  Types' /\ Flags'
    <2>1. {e} \in SUBSET Event
      OBVIOUS
    <2> QED BY <2>1, <1>15, <1>13 DEF CancelEvent
  <1>f. ASSUME NEW b \in BOOLEAN PROVE [seen EXCEPT !.late = @ \/ b] \in Seen
    <2>1. seen \in Seen
      BY DEF Types
    <2> QED BY <2>1 DEF Seen
  <1>16. ASSUME NEW w \in Workers, Fire(w) PROVE Types' /\ Flags'
    <2> DEFINE e == NextEvent(th[w].todo)
               fd == th[w].fd
    <2>1. /\ e \in events(fd)
          /\ Schedule(w, slot[fd][e], "count")
          /\ slot' = [slot EXCEPT ![fd][e] = NoJob]
          /\ seen' = [seen EXCEPT !.late = @ \/ \E u \in Workers : th[u].term]
          /\ UNCHANGED <<epoll, pipe, size, lock, pending, count, stopping, life>>
          /\ UNCHANGED <<firstOp, fault>>
      BY <1>16 DEF Fire
    <2>2. fd \in Fds
      BY <1>o
    <2> HIDE DEF e, fd
    <2>3. slot[fd][e] \in Jobs
      BY <2>1, <2>2 DEF events, Types, Slots
    <2>4. tasks' \in Seq(Jobs) /\ th' \in [Workers -> Thread]
      BY <2>1, <2>3, <1>s
    <2>5. slot' \in [Fds -> Slots]
      BY <2>1, <2>2 DEF Types, Slots
    <2>6. seen' \in Seen
      BY <2>1, <1>f
    <2> QED BY <2>1, <2>4, <2>5, <2>6 DEF Types, Flags, epoll
  <1>17. ASSUME NEW w \in Workers, FireNull(w) PROVE Types' /\ Flags'
    BY <1>17 DEF FireNull, Types, Flags, epoll, ctx, sched
  <1>18. ASSUME NEW w \in Workers, Count(w) PROVE Types' /\ Flags'
    <2>1. th' \in [Workers -> Thread]
      <3>1. PICK es \in SUBSET Event, p \in Place : Become(w, [th[w] EXCEPT !.todo = es, !.pc = p])
        <4>1. th[w].todo \ {NextEvent(th[w].todo)} \in SUBSET Event
          BY <1>o
        <4> QED BY <4>1, <1>18, <1>p DEF Count
      <3> QED BY <3>1, <1>t, ThreadFields, Becomes DEF Types
    <2>2. lock' \in [Fds -> Workers \cup {None}] /\ pending' \in Int
      BY <1>18, <1>i, <1>k DEF Count
    <2> QED BY <1>18, <2>1, <2>2 DEF Count, Types, Flags, epoll, sched
  <1>19. ASSUME NEW w \in Workers, IdleRead(w) PROVE Types' /\ Flags'
    <2>1. PICK p \in Place : Goto(w, p)
      BY <1>19, <1>p DEF IdleRead
    <2>2. th' \in [Workers -> Thread]
      BY <2>1, <1>t, <1>r, ThreadFields DEF Goto
    <2>3. UNCHANGED <<firstOp, fault, epoll, pipe, ctx, pending, sched, life, seen>>
      BY <1>19 DEF IdleRead
    <2> QED BY <2>2, <2>3 DEF Types, Flags, epoll, ctx, sched
  <1>20. ASSUME NEW w \in Workers, IdleCheck(w) PROVE Types' /\ Flags'
    <2>1. PICK p \in Place, b \in BOOLEAN : Become(w, [th[w] EXCEPT !.pc = p, !.term = b])
      <3>1. Stopping \in BOOLEAN
        BY DEF Stopping, Flags
      <3> QED BY <3>1, <1>20, <1>p DEF IdleCheck
    <2>2. th' \in [Workers -> Thread]
      BY <2>1, <1>t, <1>r, ThreadFields
    <2>3. UNCHANGED <<firstOp, fault, epoll, pipe, ctx, pending, sched, life, seen>>
      BY <1>20 DEF IdleCheck
    <2> QED BY <2>2, <2>3 DEF Types, Flags, epoll, ctx, sched
  <1>21. ASSUME NEW w \in Workers, EpollWait(w) PROVE Types' /\ Flags'
    <2>1. PICK s \in SetToSeqs(Reports) : Become(w, [th[w] EXCEPT !.pc = "expire", !.got = s])
      BY <1>21 DEF EpollWait
    <2>2. IsFiniteSet(Reports) /\ Reports \subseteq Report
      BY ReportsFinite DEF Types
    <2>3. s \in Seq(Reports)
      BY <2>2, OrderIsSeq
    <2>4. s \in Seq(Report)
      BY <2>2, <2>3, SeqMonotonic
    <2>5. th' \in [Workers -> Thread]
      BY <2>1, <2>4, <1>p, <1>t, <1>r, ThreadFields
    <2>6. onlist' = {} /\ UNCHANGED <<firstOp, fault, interest, level, pipe, ctx, pending, sched, life, seen>>
      BY <1>21 DEF EpollWait
    <2> QED BY <2>5, <2>6 DEF Types, Flags, ctx, sched
  <1>22. ASSUME NEW w \in Workers, Expire(w) PROVE Types' /\ Flags'
    <2>1. PICK S \in SUBSET {j \in Jobs : life[j] = "asleep"} :
            /\ \E s \in SetToSeqs(S) : tasks' = tasks \o s
            /\ life' = [j \in Jobs |-> IF j \in S THEN "live" ELSE life[j]]
            /\ seen' = [seen EXCEPT !.late = @ \/ (S # {} /\ \E u \in Workers : th[u].term)]
      BY <1>22 DEF Expire
    <2>2. PICK s \in SetToSeqs(S) : tasks' = tasks \o s
      BY <2>1
    <2>3. IsFiniteSet(S) /\ S \subseteq Jobs
      BY FS_Subset, IOAssumption
    <2>4. s \in Seq(S)
      BY <2>3, OrderIsSeq
    <2>5. s \in Seq(Jobs)
      BY <2>3, <2>4, SeqMonotonic
    <2>6. tasks' \in Seq(Jobs)
      BY <2>2, <2>5, ConcatProperties DEF Types
    <2>7. life' \in [Jobs -> Life]
      BY <2>1 DEF Types, Life
    <2>8. seen' \in Seen
      BY <2>1, <1>f
    <2>9. th' \in [Workers -> Thread]
      BY <1>22, <1>p, <1>t, <1>r, ThreadFields DEF Expire, Goto
    <2>10. UNCHANGED <<firstOp, fault, epoll, pipe, ctx, pending, count, stopping>>
      BY <1>22 DEF Expire
    <2> QED BY <2>6, <2>7, <2>8, <2>9, <2>10 DEF Types, Flags, epoll, ctx
  <1>g. ASSUME NEW w \in Workers, th[w].got # <<>>
        PROVE  Tail(th[w].got) \in Seq(Report) /\ Head(th[w].got) \in Report
    BY <1>o, <1>g, HeadTailProperties
  <1>23. ASSUME NEW w \in Workers, Handle(w) PROVE Types' /\ Flags'
    <2> DEFINE r == Head(th[w].got)
               rest == events(r.fd) \ RealEvents(r)
    <2>1. /\ th[w].got # <<>> /\ r.fd \in Fds
          /\ UNCHANGED <<firstOp, fault, pipe, size, slot, pending, sched, life, seen>>
          /\ \/ /\ Ctl(LeftOp(rest), r.fd, rest)
                /\ lock' = [lock EXCEPT ![r.fd] = w]
                /\ Become(w, [th[w] EXCEPT !.pc = "fire", !.fd = r.fd, !.todo = RealEvents(r),
                                    !.got = Tail(@)])
             \/ Become(w, [th[w] EXCEPT !.got = Tail(@)]) /\ UNCHANGED <<epoll, lock>>
      BY <1>23 DEF Handle
    <2>2. rest \in SUBSET Event
      BY <1>e
    <2>3. RealEvents(r) \in SUBSET Event
      BY <1>e DEF RealEvents
    <2>4. Tail(th[w].got) \in Seq(Report)
      BY <2>1, <1>g
    <2> HIDE DEF r, rest
    <2>5. th' \in [Workers -> Thread]
      <3>1. [th[w] EXCEPT !.got = Tail(@)] \in Thread
        BY <2>4, <1>t, ThreadFields
      <3>2. r.fd \in Fds => [th[w] EXCEPT !.pc = "fire", !.fd = r.fd, !.todo = RealEvents(r),
                                   !.got = Tail(@)] \in Thread
        BY <2>3, <2>4, <1>p, <1>t, ThreadFields
      <3> QED BY <2>1, <3>1, <3>2, <1>r
    <2>6. lock' \in [Fds -> Workers \cup {None}]
      BY <2>1, <1>k
    <2>7. /\ interest' \in [Fds -> (SUBSET Event) \cup {Absent}]
          /\ level' \in [Fds -> SUBSET Condition] /\ onlist' \subseteq Fds \cup {Pipe}
      <3>1. CASE Ctl(LeftOp(rest), r.fd, rest)
        BY <3>1, <2>1, <2>2, <1>c
      <3>2. CASE UNCHANGED epoll
        BY <3>2 DEF epoll, Types
      <3> QED BY <2>1, <3>1, <3>2
    <2> QED BY <2>1, <2>5, <2>6, <2>7 DEF Types, Flags, sched
  <1>24. ASSUME NEW w \in Workers, HandlePipe(w) PROVE Types' /\ Flags'
    <2>1. /\ th[w].got # <<>> /\ pipe' = 0 /\ Become(w, [th[w] EXCEPT !.got = Tail(@)])
          /\ UNCHANGED <<firstOp, fault, epoll, ctx, pending, sched, life, seen>>
      BY <1>24 DEF HandlePipe
    <2>2. th' \in [Workers -> Thread]
      BY <2>1, <1>g, <1>t, <1>r, ThreadFields
    <2>3. 0 \in 0..PipeSize
      BY IOAssumption
    <2> QED BY <2>1, <2>2, <2>3 DEF Types, Flags, epoll, ctx, sched
  <1>25. ASSUME NEW w \in Workers, IdleLeave(w) PROVE Types' /\ Flags'
    <2>1. /\ Goto(w, "scan") /\ count' = [count EXCEPT !.idle = @ - 1]
          /\ UNCHANGED <<firstOp, fault, epoll, pipe, ctx, pending, tasks, stopping, life, seen>>
      BY <1>25 DEF IdleLeave
    <2>2. th' \in [Workers -> Thread]
      BY <2>1, <1>p, <1>t, <1>r, ThreadFields DEF Goto
    <2>3. count' \in Counter
      BY <2>1 DEF Types, Counter
    <2> QED BY <2>1, <2>2, <2>3 DEF Types, Flags, epoll, ctx
  <1>26. ASSUME NEW fd \in Fds, NEW c \in Condition, Ready(fd, c) PROVE Types' /\ Flags'
    <2>1. level' \in [Fds -> SUBSET Condition]
      BY <1>26 DEF Ready, Types
    <2>2. onlist' \subseteq Fds \cup {Pipe}
      BY <1>26 DEF Ready, Types
    <2>3. UNCHANGED <<firstOp, fault, interest, pipe, ctx, pending, sched, life, th, seen>>
      BY <1>26 DEF Ready
    <2> QED BY <2>1, <2>2, <2>3 DEF Types, Flags, ctx, sched
  <1>27. CASE Stop
    BY <1>27 DEF Stop, Types, Flags, epoll, ctx
  <1>28. CASE UNCHANGED vars
    BY <1>28 DEF vars, Types, Flags, epoll, ctx, sched
  <1>29. ASSUME NEW w \in Workers, RunStep(w) PROVE Types' /\ Flags'
    BY <1>29, <1>1, <1>2, <1>3, <1>4 DEF RunStep
  <1>30. ASSUME NEW w \in Workers, BodyStep(w) PROVE Types' /\ Flags'
    BY <1>30, <1>5, <1>6, <1>7, <1>8, <1>9, <1>10, <1>11, <1>12, <1>14, <1>15, <1>16, <1>17, <1>18
       DEF BodyStep
  <1>31. ASSUME NEW w \in Workers, IdleStep(w) PROVE Types' /\ Flags'
    BY <1>31, <1>19, <1>20, <1>21, <1>22, <1>23, <1>24, <1>25 DEF IdleStep
  <1> QED BY <1>26, <1>27, <1>28, <1>29, <1>30, <1>31 DEF Next, WorkerStep, Faulted

-----------------------------------------------------------------------------
(***************************************************************************)
(* What a worker's place says of its local variables                       *)
(***************************************************************************)

\* Every worker begins at the scan of the list, running nothing.
LEMMA PlacesInit == Init => Places
  BY DEF Init, Places, Sound, Busy, Idling

\* Every step takes its worker to a place with the locals that go with it.
LEMMA PlacesNext == Types /\ Places /\ [Next]_vars => Places'
  <1> SUFFICES ASSUME Types, Places, [Next]_vars PROVE Places'
    OBVIOUS
  <1>s. ASSUME NEW w \in Workers PROVE Sound(th[w]) /\ th[w] \in Thread
    BY DEF Places, Types
  <1>h. ASSUME NEW w \in Workers, NEW r, Become(w, r), Sound(r) PROVE Places'
    <2>1. \A u \in Workers : th'[u] = IF u = w THEN r ELSE th[u]
      BY <1>h DEF Become, Types
    <2>2. \A u \in Workers : Sound(th'[u])
      BY <2>1, <1>h, <1>s
    <2> QED BY <2>2 DEF Places, Sound
  <1>u. ASSUME UNCHANGED th PROVE Places'
    BY <1>u DEF Places, Sound
  <1>1. ASSUME NEW w \in Workers, Take(w) PROVE Places'
    <2>1. PICK i \in DOMAIN tasks : Become(w, [Then(w, i < Len(tasks), "body") EXCEPT !.cur = tasks[i]])
      BY <1>1 DEF Take
    <2>2. tasks[i] # NoJob
      BY ElementOfSeq, LenProperties, IOAssumption DEF Types
    <2>3. Sound([Then(w, i < Len(tasks), "body") EXCEPT !.cur = tasks[i]])
      <3> DEFINE r == [Then(w, i < Len(tasks), "body") EXCEPT !.cur = tasks[i]]
      <3>1. /\ r.pc \in {"tickle", "body"} /\ r.cur = tasks[i] /\ r.back \in {"body", "scan"}
            /\ r.pc = "tickle" => r.back = "body"
        BY <1>s DEF Then, Thread
      <3> HIDE DEF r
      <3>2. Sound(r)
        BY <3>1, <2>2 DEF Sound, Busy, Idling
      <3> QED BY <3>2 DEF r
    <2> QED BY <2>1, <2>3, <1>h
  <1>2. ASSUME NEW w \in Workers, TakeNothing(w) PROVE Places'
    <2>1. PICK p \in {"exit", "idle"} : Become(w, [th[w] EXCEPT !.pc = p])
      BY <1>2 DEF TakeNothing, Goto
    <2>2. th[w].cur = NoJob
      BY <1>2, <1>s DEF TakeNothing, At, Sound
    <2>3. Sound([th[w] EXCEPT !.pc = p])
      BY <2>2, <1>s DEF Sound, Busy, Idling, Thread
    <2> QED BY <2>1, <2>3, <1>h
  <1>3. ASSUME NEW w \in Workers, Tickle(w) \/ Write(w) PROVE Places'
    <2>1. th[w].pc \in {"tickle", "write"}
      BY <1>3 DEF Tickle, Write, At
    <2>2. CASE Become(w, Then(w, FALSE, th[w].back))
      <3>1. Then(w, FALSE, th[w].back) = [th[w] EXCEPT !.pc = th[w].back, !.back = "scan"]
        BY DEF Then
      <3>2. Sound([th[w] EXCEPT !.pc = th[w].back, !.back = "scan"])
        BY <2>1, <1>s DEF Sound, Busy, Idling, Thread
      <3> QED BY <2>2, <3>1, <3>2, <1>h
    <2>3. CASE Goto(w, "write")
      <3>1. Sound([th[w] EXCEPT !.pc = "write"])
        BY <2>1, <1>s DEF Sound, Busy, Idling, Thread
      <3> QED BY <2>3, <3>1, <1>h DEF Goto
    <2> QED BY <1>3, <2>2, <2>3 DEF Tickle, Write
  <1>4. ASSUME NEW w \in Workers, NEW j \in Jobs, Spawn(w, j) PROVE Places'
    <2>1. Become(w, Then(w, tasks = <<>>, "body")) /\ th[w].pc = "body"
      BY <1>4 DEF Spawn, Schedule, Calls, At
    <2>2. Sound(Then(w, tasks = <<>>, "body"))
      BY <2>1, <1>s DEF Then, Sound, Busy, Idling, Thread
    <2> QED BY <2>1, <2>2, <1>h
  <1>5. ASSUME NEW w \in Workers, NEW l, Leave(w, l) PROVE Places'
    <2>1. Sound([th[w] EXCEPT !.pc = "scan", !.cur = NoJob])
      BY <1>s DEF Sound, Busy, Idling, Thread
    <2> QED BY <1>5, <2>1, <1>h DEF Leave
  <1>6. ASSUME NEW w \in Workers, NEW fd \in Fds, NEW e \in Event, NEW j, j # NoJob,
               th[w].pc \in {"body", "grow"}, AddLocked(w, fd, e, j)
        PROVE  Places'
    <2>1. Sound([th[w] EXCEPT !.pc = "added", !.fd = fd, !.todo = {e}, !.who = j])
      BY <1>6, <1>s DEF Sound, Busy, Idling, Thread
    <2>2. Sound([th[w] EXCEPT !.pc = "body", !.who = NoJob, !.todo = {}])
      BY <1>6, <1>s DEF Sound, Busy, Idling, Thread
    <2> QED BY <1>6, <2>1, <2>2, <1>h DEF AddLocked
  <1>7. ASSUME NEW w \in Workers, NEW fd \in Fds, NEW e \in Event, NEW j \in Jobs, AddEvent(w, fd, e, j)
        PROVE  Places'
    <2>1. j # NoJob /\ th[w].pc = "body"
      BY <1>7, IOAssumption DEF AddEvent, Calls, At
    <2>2. CASE size > fd
      BY <1>7, <2>1, <2>2, <1>6 DEF AddEvent
    <2>3. CASE ~(size > fd)
      <3>1. Sound([th[w] EXCEPT !.pc = "grow", !.fd = fd, !.todo = {e}, !.who = j])
        BY <2>1, <1>s DEF Sound, Busy, Idling, Thread
      <3> QED BY <1>7, <2>3, <3>1, <1>h DEF AddEvent
    <2> QED BY <2>2, <2>3
  <1>8. ASSUME NEW w \in Workers, Grow(w) PROVE Places'
    <2> DEFINE e == CHOOSE e \in Event : e \in th[w].todo
    <2>1. AddLocked(w, th[w].fd, e, th[w].who) /\ th[w].pc = "grow"
      BY <1>8 DEF Grow, At
    <2>2. e \in Event /\ th[w].who # NoJob /\ th[w].fd \in Fds
      BY <2>1, <1>s DEF Sound, Thread
    <2> QED BY <2>1, <2>2, <1>6
  <1>9. ASSUME NEW w \in Workers, Added(w) PROVE Places'
    <2>1. PICK p \in {"yield", "body"} : Become(w, [th[w] EXCEPT !.pc = p, !.who = NoJob, !.todo = {}])
      BY <1>9 DEF Added
    <2>2. th[w].pc = "added"
      BY <1>9 DEF Added, At
    <2>3. Sound([th[w] EXCEPT !.pc = p, !.who = NoJob, !.todo = {}])
      BY <2>2, <1>s DEF Sound, Busy, Idling, Thread
    <2> QED BY <2>1, <2>3, <1>h
  <1>10. ASSUME NEW w \in Workers, NEW fd, NEW es, Cancel(w, fd, es) PROVE Places'
    <2>1. Sound([th[w] EXCEPT !.pc = "fire", !.fd = fd, !.todo = es])
      BY <1>10, <1>s DEF Cancel, Sound, Busy, Idling, Thread
    <2> QED BY <1>10, <2>1, <1>h DEF Cancel
  <1>11. ASSUME NEW w \in Workers, Fire(w) PROVE Places'
    <2>1. Become(w, Then(w, tasks = <<>>, "count")) /\ th[w].pc = "fire"
      BY <1>11 DEF Fire, Schedule, At
    <2>2. Sound(Then(w, tasks = <<>>, "count"))
      BY <2>1, <1>s DEF Then, Sound, Busy, Idling, Thread
    <2> QED BY <2>1, <2>2, <1>h
  <1>12. ASSUME NEW w \in Workers, Count(w) PROVE Places'
    <2> DEFINE rest == th[w].todo \ {NextEvent(th[w].todo)}
               p == IF rest # {} THEN "fire" ELSE IF th[w].cur = NoJob THEN "event" ELSE "body"
    <2>1. Become(w, [th[w] EXCEPT !.todo = rest, !.pc = p])
      BY <1>12 DEF Count
    <2>2. Sound([th[w] EXCEPT !.todo = rest, !.pc = p])
      BY <1>s DEF Sound, Busy, Idling, Thread
    <2> QED BY <2>1, <2>2, <1>h
  <1>13. ASSUME NEW w \in Workers, IdleRead(w) PROVE Places'
    <2>1. PICK p \in {"check", "wait"} : Become(w, [th[w] EXCEPT !.pc = p])
      BY <1>13 DEF IdleRead, Goto
    <2>2. Sound([th[w] EXCEPT !.pc = p])
      BY <1>13, <1>s DEF IdleRead, At, Sound, Busy, Idling, Thread
    <2> QED BY <2>1, <2>2, <1>h
  <1>14. ASSUME NEW w \in Workers, IdleCheck(w) PROVE Places'
    <2>1. PICK p \in {"leave", "wait"} : Become(w, [th[w] EXCEPT !.pc = p, !.term = Stopping])
      BY <1>14 DEF IdleCheck
    <2>2. Sound([th[w] EXCEPT !.pc = p, !.term = Stopping])
      BY <1>14, <1>s DEF IdleCheck, At, Sound, Busy, Idling, Thread
    <2> QED BY <2>1, <2>2, <1>h
  <1>15. ASSUME NEW w \in Workers, EpollWait(w) PROVE Places'
    <2>1. PICK s \in SetToSeqs(Reports) : Become(w, [th[w] EXCEPT !.pc = "expire", !.got = s])
      BY <1>15 DEF EpollWait
    <2>2. Sound([th[w] EXCEPT !.pc = "expire", !.got = s])
      BY <1>15, <1>s DEF EpollWait, At, Sound, Busy, Idling, Thread
    <2> QED BY <2>1, <2>2, <1>h
  <1>16. ASSUME NEW w \in Workers, Expire(w) PROVE Places'
    <2>1. Sound([th[w] EXCEPT !.pc = "event"])
      BY <1>16, <1>s DEF Expire, At, Sound, Busy, Idling, Thread
    <2> QED BY <1>16, <2>1, <1>h DEF Expire, Goto
  <1>17. ASSUME NEW w \in Workers, Handle(w) PROVE Places'
    <2> DEFINE r == Head(th[w].got)
    <2>1. \/ /\ Wanted(r)
             /\ Become(w, [th[w] EXCEPT !.pc = "fire", !.fd = r.fd, !.todo = RealEvents(r), !.got = Tail(@)])
          \/ Become(w, [th[w] EXCEPT !.got = Tail(@)])
      BY <1>17 DEF Handle
    <2>2. Wanted(r) => RealEvents(r) # {}
      BY DEF Wanted
    <2>3. th[w].pc = "event"
      BY <1>17 DEF Handle, At
    <2> HIDE DEF r
    <2>4. Wanted(r) => Sound([th[w] EXCEPT !.pc = "fire", !.fd = r.fd, !.todo = RealEvents(r), !.got = Tail(@)])
      BY <2>2, <1>s DEF Sound, Busy, Idling, Thread
    <2>5. Sound([th[w] EXCEPT !.got = Tail(@)])
      BY <2>3, <1>s DEF Sound, Busy, Idling, Thread
    <2> QED BY <2>1, <2>4, <2>5, <1>h
  <1>18. ASSUME NEW w \in Workers, HandlePipe(w) PROVE Places'
    <2>1. Sound([th[w] EXCEPT !.got = Tail(@)])
      BY <1>18, <1>s DEF HandlePipe, At, Sound, Busy, Idling, Thread
    <2> QED BY <1>18, <2>1, <1>h DEF HandlePipe
  <1>19. ASSUME NEW w \in Workers, IdleLeave(w) PROVE Places'
    <2>1. Sound([th[w] EXCEPT !.pc = "scan"])
      BY <1>19, <1>s DEF IdleLeave, At, Sound, Busy, Idling, Thread
    <2> QED BY <1>19, <2>1, <1>h DEF IdleLeave, Goto
  <1>20. ASSUME NEW w \in Workers, RunStep(w) PROVE Places'
    BY <1>20, <1>1, <1>2, <1>3 DEF RunStep
  <1>21. ASSUME NEW w \in Workers, NEW fd \in Fds, NEW e \in Event,
                Drain(w, fd, e) \/ DelEvent(w, fd, e) \/ Reuse(w, fd) \/ FireNull(w)
         PROVE  Places'
    BY <1>21, <1>u DEF Drain, DelEvent, Reuse, FireNull
  <1>22. ASSUME NEW w \in Workers, End(w) \/ Sleep(w) \/ Yield(w) PROVE Places'
    BY <1>22, <1>5 DEF End, Sleep, Yield
  <1>23. ASSUME NEW w \in Workers, BodyStep(w) PROVE Places'
    <2>1. \E fd \in Fds : \E e \in Event : TRUE
      BY IOAssumption DEF Event
    <2> QED BY <2>1, <1>23, <1>4, <1>7, <1>8, <1>9, <1>10, <1>11, <1>12, <1>21, <1>22
               DEF BodyStep, CancelEvent, CancelAll
  <1>24. ASSUME NEW w \in Workers, IdleStep(w) PROVE Places'
    BY <1>24, <1>13, <1>14, <1>15, <1>16, <1>17, <1>18, <1>19 DEF IdleStep
  <1>25. ASSUME NEW fd \in Fds, NEW c \in Condition, Ready(fd, c) PROVE Places'
    BY <1>25, <1>u DEF Ready
  <1>26. CASE Stop
    BY <1>26, <1>u DEF Stop
  <1>27. CASE UNCHANGED vars
    BY <1>27, <1>u DEF vars
  <1> QED BY <1>20, <1>23, <1>24, <1>25, <1>26, <1>27 DEF Next, WorkerStep, Faulted

-----------------------------------------------------------------------------
(***************************************************************************)
(* The three together                                                      *)
(***************************************************************************)

\* The types and the places.
Typed == Types /\ Flags /\ Places

\* Whatever the bodies, the timers, the kernel and the other workers do, every
\* variable keeps its type (the three counters as integers) and a worker at a place
\* has the local variables that the code there uses.
THEOREM TypedAlways == Spec => []Typed
  <1>1. Init => Typed
    BY TypesInit, PlacesInit DEF Typed
  <1>2. Typed /\ [Next]_vars => Typed'
    BY TypesNext, PlacesNext DEF Typed
  <1> QED BY <1>1, <1>2, PTL DEF Spec

-----------------------------------------------------------------------------
(***************************************************************************)
(* The program as it is registers nothing                                  *)
(***************************************************************************)

\* With EPOLL_CTL_DEL for the first event nothing is registered with epoll, nothing
\* waits, and nobody gets as far as the bookkeeping.
Unregistered ==
  firstOp = "DEL" =>
    /\ \A fd \in Fds : interest[fd] = Absent /\ events(fd) = {}
    /\ \A w \in Workers : th[w].pc # "added"

\* An epoll_ctl() that deletes what was never added fails, before anything is recorded.
LEMMA UnregisteredNext == Typed /\ Unregistered /\ [Next]_vars => Unregistered'
  <1> SUFFICES ASSUME Typed, Unregistered, [Next]_vars, firstOp' = "DEL"
               PROVE  /\ \A fd \in Fds : interest'[fd] = Absent /\ events(fd)' = {}
                      /\ \A w \in Workers : th'[w].pc # "added"
    BY DEF Unregistered
  <1> USE DEF Alive
  <1>1. firstOp = "DEL"
    <2>1. ASSUME NEW w \in Workers, RunStep(w) \/ IdleStep(w) PROVE UNCHANGED firstOp
      BY <2>1 DEF RunStep, IdleStep, Take, TakeNothing, Tickle, Write, IdleRead, IdleCheck,
                  EpollWait, Expire, Handle, HandlePipe, IdleLeave
    <2>2. ASSUME NEW w \in Workers, NEW fd, NEW e, NEW j,
                 \/ Spawn(w, j) \/ Drain(w, fd, e) \/ AddEvent(w, fd, e, j) \/ DelEvent(w, fd, e)
                 \/ CancelEvent(w, fd, e) \/ CancelAll(w, fd) \/ Reuse(w, fd)
          PROVE  UNCHANGED firstOp
      BY <2>2 DEF Calls, Spawn, Drain, AddEvent, DelEvent, CancelEvent, CancelAll, Cancel, Reuse
    <2>3. ASSUME NEW w \in Workers,
                 \/ Grow(w) \/ Added(w) \/ Fire(w) \/ FireNull(w) \/ Count(w)
                 \/ Yield(w) \/ Sleep(w) \/ End(w)
          PROVE  UNCHANGED firstOp
      BY <2>3 DEF Grow, Added, Fire, FireNull, Count, Yield, Sleep, End, Calls
    <2>4. ASSUME NEW w \in Workers, BodyStep(w) PROVE UNCHANGED firstOp
      BY <2>4, <2>2, <2>3 DEF BodyStep
    <2>5. ASSUME NEW fd, NEW c, Ready(fd, c) PROVE UNCHANGED firstOp
      BY <2>5 DEF Ready
    <2> QED BY <2>1, <2>4, <2>5 DEF Next, WorkerStep, Faulted, Stop, vars
  <1>2. /\ \A fd \in Fds : interest[fd] = Absent /\ events(fd) = {}
        /\ \A w \in Workers : th[w].pc # "added"
    BY <1>1 DEF Unregistered
  <1>3. Types /\ \A w \in Workers : th[w] \in Thread /\ Sound(th[w])
    BY DEF Typed, Types, Places
  \* What every step but a Reuse() does: the waiters and the registrations stay, and
  \* the worker that moves does not come to "added".
  <1>h. ASSUME NEW w \in Workers, NEW r, Become(w, r), r.pc # "added", UNCHANGED <<slot, interest>>
        PROVE  /\ \A fd \in Fds : interest'[fd] = Absent /\ events(fd)' = {}
               /\ \A u \in Workers : th'[u].pc # "added"
    <2>1. \A u \in Workers : th'[u] = IF u = w THEN r ELSE th[u]
      BY <1>h, <1>3 DEF Become, Types
    <2> QED BY <2>1, <1>h, <1>2 DEF events
  <1>i. ASSUME UNCHANGED <<slot, interest, th>>
        PROVE  /\ \A fd \in Fds : interest'[fd] = Absent /\ events(fd)' = {}
               /\ \A u \in Workers : th'[u].pc # "added"
    BY <1>i, <1>2 DEF events
  <1>4. ASSUME NEW w \in Workers, RunStep(w)
        PROVE  \E r : Become(w, r) /\ r.pc # "added" /\ UNCHANGED <<slot, interest>>
    <2>1. CASE Take(w)
      <3>1. PICK i \in DOMAIN tasks : Become(w, [Then(w, i < Len(tasks), "body") EXCEPT !.cur = tasks[i]])
        BY <2>1 DEF Take
      <3>2. [Then(w, i < Len(tasks), "body") EXCEPT !.cur = tasks[i]].pc # "added"
        BY <1>3 DEF Then, Thread
      <3> QED BY <2>1, <3>1, <3>2 DEF Take, epoll, ctx
    <2>2. CASE TakeNothing(w)
      <3>1. PICK p \in {"exit", "idle"} : Become(w, [th[w] EXCEPT !.pc = p])
        BY <2>2 DEF TakeNothing, Goto
      <3>2. [th[w] EXCEPT !.pc = p].pc # "added"
        BY <1>3 DEF Thread
      <3> QED BY <2>2, <3>1, <3>2 DEF TakeNothing, epoll, ctx
    <2>3. CASE Tickle(w) \/ Write(w)
      <3>1. \/ Become(w, Then(w, FALSE, th[w].back))
            \/ Become(w, [th[w] EXCEPT !.pc = "write"])
        BY <2>3 DEF Tickle, Write, Goto
      <3>2. Then(w, FALSE, th[w].back).pc # "added" /\ [th[w] EXCEPT !.pc = "write"].pc # "added"
        BY <1>3 DEF Then, Thread
      <3>3. UNCHANGED <<slot, interest>>
        BY <2>3 DEF Tickle, Write, epoll, ctx
      <3> QED BY <3>1, <3>2, <3>3
    <2> QED BY <1>4, <2>1, <2>2, <2>3 DEF RunStep
  <1>5. ASSUME NEW w \in Workers, IdleStep(w)
        PROVE  \E r : Become(w, r) /\ r.pc # "added" /\ UNCHANGED <<slot, interest>>
    <2>1. CASE IdleRead(w) \/ Expire(w) \/ IdleLeave(w)
      <3>1. PICK p \in {"check", "wait", "event", "scan"} : Become(w, [th[w] EXCEPT !.pc = p])
        BY <2>1 DEF IdleRead, Expire, IdleLeave, Goto
      <3>2. [th[w] EXCEPT !.pc = p].pc # "added"
        BY <1>3 DEF Thread
      <3>3. UNCHANGED <<slot, interest>>
        BY <2>1 DEF IdleRead, Expire, IdleLeave, epoll, ctx
      <3> QED BY <3>1, <3>2, <3>3
    <2>2. CASE IdleCheck(w)
      <3>1. [th[w] EXCEPT !.pc = IF Stopping THEN "leave" ELSE "wait", !.term = Stopping].pc # "added"
        BY <1>3 DEF Thread
      <3> QED BY <2>2, <3>1 DEF IdleCheck, epoll, ctx
    <2>3. CASE EpollWait(w)
      <3>1. PICK s \in SetToSeqs(Reports) : Become(w, [th[w] EXCEPT !.pc = "expire", !.got = s])
        BY <2>3 DEF EpollWait
      <3>2. [th[w] EXCEPT !.pc = "expire", !.got = s].pc # "added"
        BY <1>3 DEF Thread
      <3> QED BY <2>3, <3>1, <3>2 DEF EpollWait, ctx
    <2>4. CASE Handle(w) \/ HandlePipe(w)
      <3>1. Become(w, [th[w] EXCEPT !.got = Tail(@)]) /\ UNCHANGED <<slot, interest>>
        <4>1. CASE Handle(w)
          <5>1. events(Head(th[w].got).fd) = {}
            BY <4>1, <1>2 DEF Handle
          <5> QED BY <4>1, <5>1 DEF Handle, Wanted, epoll
        <4> QED BY <2>4, <4>1 DEF HandlePipe, epoll, ctx
      <3>2. th[w].pc = "event"
        BY <2>4 DEF Handle, HandlePipe, At
      <3>3. [th[w] EXCEPT !.got = Tail(@)].pc # "added"
        BY <3>2, <1>3 DEF Thread
      <3> QED BY <3>1, <3>3
    <2> QED BY <1>5, <2>1, <2>2, <2>3, <2>4 DEF IdleStep
  <1>6. ASSUME NEW w \in Workers, NEW fd \in Fds, NEW e, NEW j, AddLocked(w, fd, e, j)
        PROVE  \E r : Become(w, r) /\ r.pc # "added" /\ UNCHANGED interest
    <2>1. ~CtlWorks(AddOp(fd), fd)
      BY <1>1, <1>2 DEF AddOp, CtlWorks
    <2>2. [th[w] EXCEPT !.pc = "body", !.who = NoJob, !.todo = {}].pc # "added"
      BY <1>3 DEF Thread
    <2> QED BY <1>6, <2>1, <2>2 DEF AddLocked, epoll
  <1>7. ASSUME NEW w \in Workers, NEW fd \in Fds, NEW e \in Event, NEW j \in Jobs, AddEvent(w, fd, e, j)
        PROVE  \E r : Become(w, r) /\ r.pc # "added" /\ UNCHANGED <<slot, interest>>
    <2>1. CASE size > fd
      BY <1>7, <2>1, <1>6 DEF AddEvent
    <2>2. CASE ~(size > fd)
      <3>1. [th[w] EXCEPT !.pc = "grow", !.fd = fd, !.todo = {e}, !.who = j].pc # "added"
        BY <1>3 DEF Thread
      <3> QED BY <1>7, <2>2, <3>1 DEF AddEvent, epoll
    <2> QED BY <2>1, <2>2
  <1>8. ASSUME NEW w \in Workers, Grow(w)
        PROVE  \E r : Become(w, r) /\ r.pc # "added" /\ UNCHANGED <<slot, interest>>
    <2>1. th[w].fd \in Fds
      BY <1>3 DEF Thread
    <2> QED BY <2>1, <1>8, <1>6 DEF Grow
  <1>9. ASSUME NEW w \in Workers, NEW fd \in Fds, NEW e \in Event,
               Added(w) \/ DelEvent(w, fd, e) \/ CancelEvent(w, fd, e) \/ CancelAll(w, fd) \/ Fire(w)
        PROVE  FALSE
    <2>1. th[w].fd \in Fds
      BY <1>3 DEF Thread
    <2> QED BY <1>9, <1>2, <2>1 DEF Added, At, DelEvent, CancelEvent, CancelAll, Cancel, Fire
  <1>10. ASSUME NEW w \in Workers, NEW j \in Jobs, Spawn(w, j)
         PROVE  \E r : Become(w, r) /\ r.pc # "added" /\ UNCHANGED <<slot, interest>>
    <2>1. Then(w, tasks = <<>>, "body").pc # "added"
      BY <1>3 DEF Then, Thread
    <2> QED BY <1>10, <2>1 DEF Spawn, Schedule, epoll, ctx
  <1>11. ASSUME NEW w \in Workers, End(w) \/ Sleep(w) \/ Yield(w)
         PROVE  \E r : Become(w, r) /\ r.pc # "added" /\ UNCHANGED <<slot, interest>>
    <2>1. [th[w] EXCEPT !.pc = "scan", !.cur = NoJob].pc # "added"
      BY <1>3 DEF Thread
    <2> QED BY <1>11, <2>1 DEF End, Sleep, Yield, Leave, epoll, ctx
  <1>12. ASSUME NEW w \in Workers, Count(w)
         PROVE  \E r : Become(w, r) /\ r.pc # "added" /\ UNCHANGED <<slot, interest>>
    <2>1. PICK rest : \E p \in {"fire", "event", "body"} : Become(w, [th[w] EXCEPT !.todo = rest, !.pc = p])
      BY <1>12 DEF Count
    <2>2. \A p \in {"fire", "event", "body"} : [th[w] EXCEPT !.todo = rest, !.pc = p].pc # "added"
      BY <1>3 DEF Thread
    <2> QED BY <1>12, <2>1, <2>2 DEF Count, epoll
  <1>13. ASSUME NEW w \in Workers, NEW fd \in Fds, Reuse(w, fd)
         PROVE  UNCHANGED <<slot, interest, th>>
    <2>1. interest' = [interest EXCEPT ![fd] = Absent] /\ interest[fd] = Absent
      BY <1>13, <1>2 DEF Reuse
    <2>2. interest' = interest
      BY <2>1, <1>3 DEF Types
    <2> QED BY <1>13, <2>2 DEF Reuse, ctx
  <1>14. ASSUME NEW w \in Workers, NEW fd \in Fds, NEW e \in Event, Drain(w, fd, e) \/ FireNull(w)
         PROVE  UNCHANGED <<slot, interest, th>>
    BY <1>14 DEF Drain, FireNull, epoll, ctx
  <1>15. ASSUME NEW w \in Workers, BodyStep(w)
         PROVE  \/ \E r : Become(w, r) /\ r.pc # "added" /\ UNCHANGED <<slot, interest>>
                \/ UNCHANGED <<slot, interest, th>>
    <2>1. PICK fd0 \in Fds, e0 \in Event : TRUE
      BY IOAssumption DEF Event
    <2> QED BY <2>1, <1>15, <1>7, <1>8, <1>9, <1>10, <1>11, <1>12, <1>13, <1>14 DEF BodyStep
  <1>16. ASSUME NEW fd \in Fds, NEW c \in Condition, Ready(fd, c) PROVE UNCHANGED <<slot, interest, th>>
    BY <1>16 DEF Ready, ctx
  <1>17. CASE Stop \/ UNCHANGED vars
    BY <1>17, <1>i DEF Stop, vars, epoll, ctx
  <1> QED BY <1>h, <1>i, <1>4, <1>5, <1>15, <1>16, <1>17 DEF Next, WorkerStep, Faulted

\* As built, with EPOLL_CTL_DEL for an fd's first event, nobody ever waits for an
\* event, however many workers, descriptors and calls of addEvent() there are.
THEOREM NothingIsRegistered == Spec => []NothingRegistered
  <1>1. Init => Unregistered
    BY DEF Init, Unregistered, events
  <1>2. Typed /\ Unregistered => NothingRegistered
    BY DEF Unregistered, NothingRegistered, Registered
  <1> QED BY <1>1, <1>2, UnregisteredNext, TypedAlways, PTL DEF Spec

-----------------------------------------------------------------------------
(***************************************************************************)
(* The kinds of step, as the contexts see them                             *)
(***************************************************************************)

\* The worker has triggered an event and not counted it out; it holds a context.
Past(r) == r.pc = "count" \/ (r.pc \in {"tickle", "write"} /\ r.back = "count")
Holds(r) == r.pc \in {"added", "fire"} \/ Past(r)

\* Only w moves.
Alone(w) == \A u \in Workers \ {w} : th'[u] = th[u]

\* The bookkeeping about the past that contexts depend on.
SeenSame == seen'.both = seen.both /\ seen'.orphan = seen.orphan

\* w moves, neither to a lock nor from one, and may have new reports.
Quiet(w) ==
  /\ Alone(w)
  /\ \/ ~Holds(th[w]) /\ ~Holds(th'[w])
     \/ Past(th[w]) /\ Past(th'[w]) /\ th'[w].fd = th[w].fd /\ th'[w].todo = th[w].todo
  /\ Range(th'[w].got) \subseteq Range(th[w].got) \cup Reports
  /\ fault' \in {fault, "shrunk"} /\ SeenSame
  /\ UNCHANGED <<interest, slot, lock, pending>>

\* No worker moves, and no context.
Aside == SeenSame /\ UNCHANGED <<interest, slot, lock, pending, th, fault>>

\* The number of a closed fd is used again.
Reused(fd) ==
  /\ interest' = [interest EXCEPT ![fd] = Absent]
  /\ seen'.both = seen.both
  /\ seen'.orphan = seen.orphan \cup {f \in {fd} : interest[f] # Absent}
  /\ UNCHANGED <<fault, slot, lock, pending, th>>

\* w registers e and holds the context.
Locked(w, fd, e) ==
  /\ Alone(w) /\ ~Holds(th[w]) /\ lock[fd] = None /\ CtlWorks(AddOp(fd), fd)
  /\ interest' = [interest EXCEPT ![fd] = IF AddOp(fd) = "DEL" THEN Absent ELSE events(fd) \cup {e}]
  /\ lock' = [lock EXCEPT ![fd] = w]
  /\ th'[w].pc = "added" /\ th'[w].fd = fd /\ th'[w].todo = {e} /\ th'[w].got = th[w].got
  /\ fault' \in {fault, "shrunk"} /\ SeenSame
  /\ UNCHANGED <<slot, pending>>

\* w leaves epoll what it will not trigger, and holds the context.
Left(es) == IF es = {} THEN Absent ELSE es
Claimed(w, fd, es) ==
  /\ Alone(w) /\ ~Holds(th[w]) /\ lock[fd] = None /\ es \cap events(fd) # {}
  /\ es \subseteq events(fd) \/ \E r \in Range(th[w].got) : r.fd = fd /\ es = RealEvents(r)
  /\ interest' = [interest EXCEPT ![fd] = Left(events(fd) \ es)]
  /\ lock' = [lock EXCEPT ![fd] = w]
  /\ th'[w].pc = "fire" /\ th'[w].fd = fd /\ th'[w].todo = es
  /\ Range(th'[w].got) \subseteq Range(th[w].got)
  /\ SeenSame
  /\ UNCHANGED <<fault, slot, pending>>

\* delEvent().
Deleted(fd, e) ==
  /\ fault = "none" /\ lock[fd] = None /\ e \in events(fd)
  /\ interest' = [interest EXCEPT ![fd] = Left(events(fd) \ {e})]
  /\ pending' = pending - 1
  /\ slot' = [slot EXCEPT ![fd][e] = NoJob]
  /\ SeenSame
  /\ UNCHANGED <<fault, lock, th>>

\* What a step of w can be.
Kind(w) ==
  \/ Quiet(w)
  \/ \E fd \in Fds : Reused(fd)
  \/ \E fd \in Fds, e \in Event : Locked(w, fd, e) \/ Deleted(fd, e)
  \/ \E fd \in Fds : \E es \in SUBSET Event : Claimed(w, fd, es)
  \/ Added(w) \/ Fire(w) \/ FireNull(w) \/ Count(w)

\* The range of a tail.
LEMMA TailRange ==
  ASSUME NEW s \in Seq(Report), s # <<>>
  PROVE  Head(s) \in Range(s) /\ Range(Tail(s)) \subseteq Range(s)
  <1>1. Tail(s) \in Seq(Report) /\ Len(Tail(s)) = Len(s) - 1 /\ Len(s) \in Nat /\ Head(s) = s[1]
    BY HeadTailProperties, LenProperties
  <1>2. Len(s) >= 1
    BY EmptySeq, LenProperties
  <1>3. DOMAIN s = 1..Len(s) /\ DOMAIN Tail(s) = 1..(Len(s) - 1)
    BY <1>1, LenProperties
  <1>4. \A i \in 1..(Len(s) - 1) : Tail(s)[i] = s[i + 1] /\ i + 1 \in 1..Len(s)
    BY <1>1, HeadTailProperties
  <1>5. Head(s) \in Range(s)
    BY <1>1, <1>2, <1>3 DEF Range
  <1> QED BY <1>3, <1>4, <1>5 DEF Range

\* Every step is one of these kinds.
LEMMA Kinds ==
  ASSUME Typed, [Next]_vars
  PROVE  Aside \/ \E w \in Workers : Kind(w)
  <1> USE DEF Alive
  <1>1. /\ Types /\ Types'
        /\ \A w \in Workers : th[w] \in Thread /\ th'[w] \in Thread /\ Sound(th[w])
    BY TypesNext DEF Typed, Types, Places
  <1>b. ASSUME NEW w \in Workers, NEW r, Become(w, r) PROVE th'[w] = r /\ Alone(w)
    BY <1>b, <1>1 DEF Become, Types, Alone
  <1>r. Range(<<>>) = {} /\ \A w \in Workers : Range(th[w].got) \subseteq Range(th[w].got) \cup Reports
    BY DEF Range
  \* A worker that neither has nor takes a lock and hears nothing.
  <1>q. ASSUME NEW w \in Workers, NEW r, Become(w, r), ~Holds(th[w]), ~Holds(r), r.got = th[w].got,
               fault' \in {fault, "shrunk"}, SeenSame, UNCHANGED <<interest, slot, lock, pending>>
        PROVE  Kind(w)
    <2>1. Quiet(w)
      BY <1>q, <1>b, <1>r DEF Quiet
    <2> QED BY <2>1 DEF Kind
  <1>2. ASSUME NEW w \in Workers, Take(w) PROVE Kind(w)
    <2>1. PICK i \in DOMAIN tasks : Become(w, [Then(w, i < Len(tasks), "body") EXCEPT !.cur = tasks[i]])
      BY <1>2 DEF Take
    <2>2. ~Holds([Then(w, i < Len(tasks), "body") EXCEPT !.cur = tasks[i]])
      BY <1>1 DEF Then, Thread, Holds, Past
    <2>3. [Then(w, i < Len(tasks), "body") EXCEPT !.cur = tasks[i]].got = th[w].got
      BY <1>1 DEF Then, Thread
    <2>4. ~Holds(th[w])
      BY <1>2 DEF Take, At, Holds, Past
    <2> QED BY <1>2, <2>1, <2>2, <2>3, <2>4, <1>q DEF Take, SeenSame, epoll, ctx
  <1>3. ASSUME NEW w \in Workers, TakeNothing(w) PROVE Kind(w)
    <2>1. PICK p \in {"exit", "idle"} : Become(w, [th[w] EXCEPT !.pc = p])
      BY <1>3 DEF TakeNothing, Goto
    <2>2. ~Holds([th[w] EXCEPT !.pc = p]) /\ [th[w] EXCEPT !.pc = p].got = th[w].got
      BY <1>1 DEF Thread, Holds, Past
    <2>3. ~Holds(th[w])
      BY <1>3 DEF TakeNothing, At, Holds, Past
    <2> QED BY <1>3, <2>1, <2>2, <2>3, <1>q DEF TakeNothing, SeenSame, epoll, ctx
  <1>4. ASSUME NEW w \in Workers, Tickle(w) \/ Write(w) PROVE Kind(w)
    <2>1. PICK r \in {[th[w] EXCEPT !.pc = th[w].back, !.back = "scan"], [th[w] EXCEPT !.pc = "write"]} :
            Become(w, r)
      BY <1>4 DEF Tickle, Write, Goto, Then
    <2>2. th[w].pc \in {"tickle", "write"} /\ th[w].back \in {"body", "count"}
      BY <1>4, <1>1 DEF Tickle, Write, At, Sound
    <2>3. (Past(r) <=> Past(th[w])) /\ (Holds(r) <=> Past(r)) /\ (Holds(th[w]) <=> Past(th[w]))
      BY <2>2, <1>1 DEF Thread, Holds, Past
    <2>4. r.got = th[w].got /\ r.fd = th[w].fd /\ r.todo = th[w].todo
      BY <1>1 DEF Thread
    <2>5. SeenSame /\ UNCHANGED <<interest, slot, lock, pending, fault>>
      BY <1>4 DEF Tickle, Write, SeenSame, epoll, ctx
    <2>6. Quiet(w)
      BY <2>1, <2>3, <2>4, <2>5, <1>b, <1>r DEF Quiet
    <2> QED BY <2>6 DEF Kind
  <1>5. ASSUME NEW w \in Workers, NEW j \in Jobs, Spawn(w, j) PROVE Kind(w)
    <2>1. Become(w, Then(w, tasks = <<>>, "body")) /\ th[w].pc = "body"
      BY <1>5 DEF Spawn, Schedule, Calls, At
    <2>2. ~Holds(Then(w, tasks = <<>>, "body")) /\ Then(w, tasks = <<>>, "body").got = th[w].got
      BY <1>1 DEF Then, Thread, Holds, Past
    <2>3. ~Holds(th[w])
      BY <2>1 DEF Holds, Past
    <2>4. seen'.both = seen.both /\ seen'.orphan = seen.orphan
      BY <1>5, <1>1 DEF Spawn, Noted, Types, Seen
    <2> QED BY <1>5, <2>1, <2>2, <2>3, <2>4, <1>q DEF Spawn, Calls, SeenSame, epoll, ctx
  <1>6. ASSUME NEW w \in Workers, End(w) \/ Sleep(w) \/ Yield(w) PROVE Kind(w)
    <2>1. /\ Become(w, [th[w] EXCEPT !.pc = "scan", !.cur = NoJob])
          /\ UNCHANGED <<interest, slot, lock, pending, fault>> /\ th[w].pc \in {"body", "yield"}
      BY <1>6 DEF End, Sleep, Yield, Leave, Calls, At, epoll, ctx
    <2>2. /\ ~Holds([th[w] EXCEPT !.pc = "scan", !.cur = NoJob])
          /\ [th[w] EXCEPT !.pc = "scan", !.cur = NoJob].got = th[w].got
      BY <1>1 DEF Thread, Holds, Past
    <2>3. ~Holds(th[w])
      BY <2>1 DEF Holds, Past
    <2>4. SeenSame
      BY <1>6, <1>1 DEF End, Sleep, Yield, Noted, Types, Seen, SeenSame
    <2> QED BY <2>1, <2>2, <2>3, <2>4, <1>q
  <1>7. ASSUME NEW w \in Workers, NEW fd \in Fds, NEW e \in Event, NEW j, AddLocked(w, fd, e, j),
               th[w].pc \in {"body", "grow"}, fault' \in {fault, "shrunk"}, SeenSame,
               UNCHANGED <<slot, pending>>
        PROVE  Kind(w)
    <2>1. ~Holds(th[w])
      BY <1>7 DEF Holds, Past
    <2>2. CASE CtlWorks(AddOp(fd), fd)
      <3>1. Become(w, [th[w] EXCEPT !.pc = "added", !.fd = fd, !.todo = {e}, !.who = j])
        BY <1>7, <2>2 DEF AddLocked
      <3>2. Alone(w) /\ th'[w] = [th[w] EXCEPT !.pc = "added", !.fd = fd, !.todo = {e}, !.who = j]
        BY <3>1, <1>b
      <3>3. th'[w].pc = "added" /\ th'[w].fd = fd /\ th'[w].todo = {e} /\ th'[w].got = th[w].got
        BY <3>2, <1>1 DEF Thread
      <3>4. /\ interest' = [interest EXCEPT ![fd] = IF AddOp(fd) = "DEL" THEN Absent ELSE events(fd) \cup {e}]
            /\ lock[fd] = None /\ lock' = [lock EXCEPT ![fd] = w]
        BY <1>7, <2>2 DEF AddLocked, Ctl
      <3>5. Locked(w, fd, e)
        BY <1>7, <2>1, <2>2, <3>2, <3>3, <3>4 DEF Locked
      <3> QED BY <3>5 DEF Kind
    <2>3. CASE ~CtlWorks(AddOp(fd), fd)
      <3>1. /\ Become(w, [th[w] EXCEPT !.pc = "body", !.who = NoJob, !.todo = {}])
            /\ UNCHANGED <<interest, lock>>
        BY <1>7, <2>3 DEF AddLocked, epoll
      <3>2. /\ ~Holds([th[w] EXCEPT !.pc = "body", !.who = NoJob, !.todo = {}])
            /\ [th[w] EXCEPT !.pc = "body", !.who = NoJob, !.todo = {}].got = th[w].got
        BY <1>1 DEF Thread, Holds, Past
      <3> QED BY <1>7, <2>1, <3>1, <3>2, <1>q
    <2> QED BY <2>2, <2>3
  <1>8. ASSUME NEW w \in Workers, NEW fd \in Fds, NEW e \in Event, NEW j \in Jobs, AddEvent(w, fd, e, j)
        PROVE  Kind(w)
    <2>1. /\ th[w].pc = "body" /\ UNCHANGED <<slot, pending, fault>> /\ seen' = Noted
      BY <1>8 DEF AddEvent, Calls, At
    <2>2. SeenSame
      BY <2>1, <1>1 DEF Noted, Types, Seen, SeenSame
    <2>3. CASE size > fd
      BY <1>8, <2>1, <2>2, <2>3, <1>7 DEF AddEvent
    <2>4. CASE ~(size > fd)
      <3>1. /\ Become(w, [th[w] EXCEPT !.pc = "grow", !.fd = fd, !.todo = {e}, !.who = j])
            /\ UNCHANGED <<interest, lock>>
        BY <1>8, <2>4 DEF AddEvent, epoll
      <3>2. /\ ~Holds([th[w] EXCEPT !.pc = "grow", !.fd = fd, !.todo = {e}, !.who = j])
            /\ [th[w] EXCEPT !.pc = "grow", !.fd = fd, !.todo = {e}, !.who = j].got = th[w].got
        BY <1>1 DEF Thread, Holds, Past
      <3>3. ~Holds(th[w])
        BY <2>1 DEF Holds, Past
      <3> QED BY <2>1, <2>2, <3>1, <3>2, <3>3, <1>q
    <2> QED BY <2>3, <2>4
  <1>9. ASSUME NEW w \in Workers, Grow(w) PROVE Kind(w)
    <2> DEFINE e == CHOOSE e \in Event : e \in th[w].todo
    <2>1. /\ AddLocked(w, th[w].fd, e, th[w].who) /\ th[w].pc = "grow"
          /\ fault' \in {fault, "shrunk"} /\ SeenSame /\ UNCHANGED <<slot, pending>>
      BY <1>9 DEF Grow, At, SeenSame
    <2>2. e \in Event /\ th[w].fd \in Fds
      BY <2>1, <1>1 DEF Sound, Thread
    <2> HIDE DEF e
    <2> QED BY <2>1, <2>2, <1>7
  <1>10. ASSUME NEW w \in Workers, NEW fd \in Fds, Reuse(w, fd) PROVE Kind(w)
    <2>1. seen'.both = seen.both
      BY <1>10, <1>1 DEF Reuse, Noted, Types, Seen
    <2>2. seen'.orphan = seen.orphan \cup {f \in {fd} : interest[f] # Absent}
      BY <1>10, <1>1 DEF Reuse, Noted, Types, Seen
    <2>3. Reused(fd)
      BY <1>10, <2>1, <2>2 DEF Reuse, Calls, Reused, ctx
    <2> QED BY <2>3 DEF Kind
  <1>11. ASSUME NEW w \in Workers, NEW fd \in Fds, NEW e \in Event, DelEvent(w, fd, e) PROVE Kind(w)
    <2>1. seen'.both = seen.both /\ seen'.orphan = seen.orphan
      BY <1>11, <1>1 DEF DelEvent, Noted, Types, Seen
    <2>2. interest' = [interest EXCEPT ![fd] = Left(events(fd) \ {e})]
      BY <1>11 DEF DelEvent, CtlLeave, Ctl, LeftOp, Left
    <2>3. Deleted(fd, e)
      BY <1>11, <2>1, <2>2 DEF DelEvent, Calls, Deleted, SeenSame
    <2> QED BY <2>3 DEF Kind
  <1>12. ASSUME NEW w \in Workers, NEW fd \in Fds, NEW es \in SUBSET Event, Cancel(w, fd, es) PROVE Kind(w)
    <2>1. seen'.both = seen.both /\ seen'.orphan = seen.orphan
      BY <1>12, <1>1 DEF Cancel, Noted, Types, Seen
    <2>2. interest' = [interest EXCEPT ![fd] = Left(events(fd) \ es)]
      BY <1>12 DEF Cancel, CtlLeave, Ctl, LeftOp, Left
    <2>3. Alone(w) /\ th'[w] = [th[w] EXCEPT !.pc = "fire", !.fd = fd, !.todo = es]
      BY <1>12, <1>b DEF Cancel
    <2>4. /\ th'[w].pc = "fire" /\ th'[w].fd = fd /\ th'[w].todo = es
          /\ Range(th'[w].got) \subseteq Range(th[w].got)
      BY <2>3, <1>1 DEF Thread
    <2>5. ~Holds(th[w])
      BY <1>12 DEF Cancel, Calls, At, Holds, Past
    <2>6. /\ lock[fd] = None /\ es \cap events(fd) # {} /\ es \subseteq events(fd)
          /\ lock' = [lock EXCEPT ![fd] = w] /\ UNCHANGED <<fault, slot, pending>>
      BY <1>12 DEF Cancel, Calls
    <2>7. Claimed(w, fd, es)
      BY <2>1, <2>2, <2>3, <2>4, <2>5, <2>6 DEF Claimed, SeenSame
    <2> QED BY <2>7 DEF Kind
  <1>13. ASSUME NEW w \in Workers, NEW fd \in Fds, NEW e \in Event, CancelEvent(w, fd, e) \/ CancelAll(w, fd)
         PROVE  Kind(w)
    <2>1. {e} \in SUBSET Event /\ events(fd) \in SUBSET Event
      BY DEF events
    <2> QED BY <2>1, <1>12, <1>13 DEF CancelEvent, CancelAll
  <1>14. ASSUME NEW w \in Workers, IdleRead(w) \/ Expire(w) \/ IdleLeave(w) PROVE Kind(w)
    <2>1. PICK p \in {"check", "wait", "event", "scan"} : Become(w, [th[w] EXCEPT !.pc = p])
      BY <1>14 DEF IdleRead, Expire, IdleLeave, Goto
    <2>2. ~Holds([th[w] EXCEPT !.pc = p]) /\ [th[w] EXCEPT !.pc = p].got = th[w].got
      BY <1>1 DEF Thread, Holds, Past
    <2>3. ~Holds(th[w])
      BY <1>14 DEF IdleRead, Expire, IdleLeave, At, Holds, Past
    <2>4. SeenSame
      BY <1>14, <1>1 DEF IdleRead, Expire, IdleLeave, SeenSame, Types, Seen
    <2>5. UNCHANGED <<interest, slot, lock, pending, fault>>
      BY <1>14 DEF IdleRead, Expire, IdleLeave, epoll, ctx
    <2> QED BY <2>1, <2>2, <2>3, <2>4, <2>5, <1>q
  <1>15. ASSUME NEW w \in Workers, IdleCheck(w) PROVE Kind(w)
    <2>1. PICK p \in {"leave", "wait"} : Become(w, [th[w] EXCEPT !.pc = p, !.term = Stopping])
      BY <1>15 DEF IdleCheck
    <2>2. /\ ~Holds([th[w] EXCEPT !.pc = p, !.term = Stopping])
          /\ [th[w] EXCEPT !.pc = p, !.term = Stopping].got = th[w].got
      BY <1>1 DEF Thread, Holds, Past
    <2>3. ~Holds(th[w])
      BY <1>15 DEF IdleCheck, At, Holds, Past
    <2>4. SeenSame /\ UNCHANGED <<interest, slot, lock, pending, fault>>
      BY <1>15 DEF IdleCheck, SeenSame, epoll, ctx
    <2> QED BY <2>1, <2>2, <2>3, <2>4, <1>q
  <1>16. ASSUME NEW w \in Workers, EpollWait(w) PROVE Kind(w)
    <2>1. PICK s \in SetToSeqs(Reports) : Become(w, [th[w] EXCEPT !.pc = "expire", !.got = s])
      BY <1>16 DEF EpollWait
    <2>2. Range(s) \subseteq Reports
      BY DEF SetToSeqs, Range
    <2>3. Alone(w) /\ th'[w] = [th[w] EXCEPT !.pc = "expire", !.got = s]
      BY <2>1, <1>b
    <2>4. ~Holds(th'[w]) /\ th'[w].got = s
      BY <2>3, <1>1 DEF Thread, Holds, Past
    <2>5. ~Holds(th[w]) /\ SeenSame /\ UNCHANGED <<interest, slot, lock, pending, fault>>
      BY <1>16 DEF EpollWait, At, Holds, Past, SeenSame, ctx
    <2>6. Quiet(w)
      BY <2>2, <2>3, <2>4, <2>5 DEF Quiet
    <2> QED BY <2>6 DEF Kind
  <1>17. ASSUME NEW w \in Workers, HandlePipe(w) PROVE Kind(w)
    <2>1. th[w].got # <<>> /\ Become(w, [th[w] EXCEPT !.got = Tail(@)]) /\ th[w].pc = "event"
      BY <1>17 DEF HandlePipe, At
    <2>7. Alone(w) /\ th'[w] = [th[w] EXCEPT !.got = Tail(@)]
      BY <2>1, <1>b
    <2>2. Alone(w) /\ th'[w].got = Tail(th[w].got) /\ th'[w].pc = "event"
      BY <2>1, <2>7, <1>1 DEF Thread
    <2>3. Range(Tail(th[w].got)) \subseteq Range(th[w].got)
      BY <2>1, <1>1, TailRange DEF Thread
    <2>4. SeenSame /\ UNCHANGED <<interest, slot, lock, pending, fault>>
      BY <1>17 DEF HandlePipe, SeenSame, epoll, ctx
    <2>5. ~Holds(th[w]) /\ ~Holds(th'[w])
      BY <2>1, <2>2 DEF Holds, Past
    <2>6. Quiet(w)
      BY <2>2, <2>3, <2>4, <2>5 DEF Quiet
    <2> QED BY <2>6 DEF Kind
  <1>18. ASSUME NEW w \in Workers, Handle(w) PROVE Kind(w)
    <2> DEFINE r == Head(th[w].got)
               rest == events(r.fd) \ RealEvents(r)
    <2>1. /\ th[w].pc = "event" /\ th[w].got # <<>> /\ r.fd \in Fds /\ lock[r.fd] = None
          /\ SeenSame /\ UNCHANGED <<fault, slot, pending>>
          /\ \/ /\ Wanted(r) /\ Ctl(LeftOp(rest), r.fd, rest)
                /\ lock' = [lock EXCEPT ![r.fd] = w]
                /\ Become(w, [th[w] EXCEPT !.pc = "fire", !.fd = r.fd, !.todo = RealEvents(r),
                                    !.got = Tail(@)])
             \/ Become(w, [th[w] EXCEPT !.got = Tail(@)]) /\ UNCHANGED <<epoll, lock>>
      BY <1>18 DEF Handle, At, SeenSame
    <2>2. r \in Range(th[w].got) /\ Range(Tail(th[w].got)) \subseteq Range(th[w].got)
      BY <2>1, <1>1, TailRange DEF Thread
    <2>3. RealEvents(r) \in SUBSET Event
      BY DEF RealEvents, events
    <2>4. Wanted(r) => RealEvents(r) \cap events(r.fd) # {}
      BY DEF Wanted
    <2>5. ~Holds(th[w])
      BY <2>1 DEF Holds, Past
    <2> HIDE DEF r
    <2>6. CASE Become(w, [th[w] EXCEPT !.got = Tail(@)]) /\ UNCHANGED <<epoll, lock>>
      <3>4. Alone(w) /\ th'[w] = [th[w] EXCEPT !.got = Tail(@)]
        BY <2>6, <1>b
      <3>1. Alone(w) /\ th'[w].got = Tail(th[w].got) /\ th'[w].pc = "event"
        BY <2>1, <3>4, <1>1 DEF Thread
      <3>2. ~Holds(th'[w])
        BY <3>1 DEF Holds, Past
      <3>3. Quiet(w)
        BY <2>1, <2>2, <2>5, <2>6, <3>1, <3>2 DEF Quiet, epoll
      <3> QED BY <3>3 DEF Kind
    <2>7. CASE /\ Wanted(r) /\ Ctl(LeftOp(rest), r.fd, rest)
               /\ lock' = [lock EXCEPT ![r.fd] = w]
               /\ Become(w, [th[w] EXCEPT !.pc = "fire", !.fd = r.fd, !.todo = RealEvents(r),
                                   !.got = Tail(@)])
      <3>1. Alone(w) /\ th'[w] = [th[w] EXCEPT !.pc = "fire", !.fd = r.fd, !.todo = RealEvents(r),
                                           !.got = Tail(@)]
        BY <2>7, <1>b
      <3>2. /\ th'[w].pc = "fire" /\ th'[w].fd = r.fd /\ th'[w].todo = RealEvents(r)
            /\ th'[w].got = Tail(th[w].got)
        BY <3>1, <1>1 DEF Thread
      <3>3. interest' = [interest EXCEPT ![r.fd] = Left(events(r.fd) \ RealEvents(r))]
        BY <2>7 DEF Ctl, LeftOp, Left
      <3>4. Claimed(w, r.fd, RealEvents(r))
        BY <2>1, <2>2, <2>4, <2>5, <2>7, <3>1, <3>2, <3>3 DEF Claimed
      <3> QED BY <2>1, <2>3, <3>4 DEF Kind
    <2> QED BY <2>1, <2>6, <2>7
  <1>19. ASSUME NEW w \in Workers, RunStep(w) PROVE Kind(w)
    BY <1>19, <1>2, <1>3, <1>4 DEF RunStep
  <1>20. ASSUME NEW w \in Workers, IdleStep(w) PROVE Kind(w)
    BY <1>20, <1>14, <1>15, <1>16, <1>17, <1>18 DEF IdleStep
  <1>21. ASSUME NEW w \in Workers, NEW fd \in Fds, NEW e \in Event, Drain(w, fd, e) PROVE Aside
    BY <1>21, <1>1 DEF Drain, Calls, Aside, SeenSame, Noted, Types, Seen, ctx
  <1>22. ASSUME NEW w \in Workers, BodyStep(w) PROVE Kind(w) \/ Aside
    <2>1. PICK fd0 \in Fds, e0 \in Event : TRUE
      BY IOAssumption DEF Event
    <2>2. Added(w) \/ Fire(w) \/ FireNull(w) \/ Count(w) => Kind(w)
      BY DEF Kind
    <2> QED BY <2>1, <2>2, <1>22, <1>5, <1>6, <1>8, <1>9, <1>10, <1>11, <1>13, <1>21 DEF BodyStep
  <1>23. ASSUME NEW fd \in Fds, NEW c \in Condition, Ready(fd, c) PROVE Aside
    BY <1>23 DEF Ready, Aside, SeenSame, ctx
  <1>24. CASE Stop \/ UNCHANGED vars
    BY <1>24 DEF Stop, vars, Aside, SeenSame, epoll, ctx
  <1> QED BY <1>19, <1>20, <1>22, <1>23, <1>24 DEF Next, WorkerStep, Faulted

-----------------------------------------------------------------------------
(***************************************************************************)
(* Who holds a context                                                     *)
(***************************************************************************)

\* A context is locked by exactly the worker that is inside it.
LocksHeld ==
  \A fd \in Fds : \A w \in Workers : lock[fd] = w <=> Holds(th[w]) /\ th[w].fd = fd

\* What a worker is after one of the steps that end, or go on with, a context.
LEMMA Within ==
  ASSUME Typed, Typed', NEW w \in Workers
  PROVE  /\ Added(w) => /\ Alone(w) /\ ~Holds(th'[w]) /\ th[w].pc = "added" /\ th'[w].got = th[w].got
                        /\ \E e \in Event :
                             /\ th[w].todo = {e}
                             /\ slot' = [slot EXCEPT ![th[w].fd][e] = th[w].who]
                             /\ fault' = IF e \in events(th[w].fd) THEN "assert" ELSE fault
                             /\ seen'.both = (seen.both \/ events(th[w].fd) \cup {e} = Event)
                        /\ seen'.orphan = seen.orphan
         /\ Fire(w) => /\ Alone(w) /\ Past(th'[w]) /\ th[w].pc = "fire" /\ th'[w].got = th[w].got
                       /\ th'[w].pc # "fire" /\ th'[w].pc # "added"
                       /\ th'[w].fd = th[w].fd /\ th'[w].todo = th[w].todo /\ SeenSame
                       /\ UNCHANGED interest
         /\ Count(w) => /\ Alone(w) /\ th[w].pc = "count" /\ th'[w].got = th[w].got
                        /\ th'[w].fd = th[w].fd /\ th'[w].todo = th[w].todo \ {NextEvent(th[w].todo)}
                        /\ IF th'[w].todo = {} THEN ~Holds(th'[w]) ELSE th'[w].pc = "fire"
                        /\ SeenSame /\ UNCHANGED interest
  <1> USE DEF Alive
  <1>1. /\ Types /\ th[w] \in Thread /\ th'[w] \in Thread /\ Sound(th[w])
        /\ \A r : Become(w, r) => Alone(w) /\ th'[w] = r
    BY DEF Typed, Types, Places, Become, Alone
  <1>2. ASSUME Added(w)
        PROVE /\ Alone(w) /\ ~Holds(th'[w]) /\ th[w].pc = "added" /\ th'[w].got = th[w].got
              /\ \E e \in Event :
                   /\ th[w].todo = {e}
                   /\ slot' = [slot EXCEPT ![th[w].fd][e] = th[w].who]
                   /\ fault' = IF e \in events(th[w].fd) THEN "assert" ELSE fault
                   /\ seen'.both = (seen.both \/ events(th[w].fd) \cup {e} = Event)
              /\ seen'.orphan = seen.orphan
    <2>1. PICK p \in {"yield", "body"} : Become(w, [th[w] EXCEPT !.pc = p, !.who = NoJob, !.todo = {}])
      BY <1>2 DEF Added
    <2>2. Alone(w) /\ th'[w] = [th[w] EXCEPT !.pc = p, !.who = NoJob, !.todo = {}]
      BY <2>1, <1>1
    <2>3. ~Holds(th'[w]) /\ th'[w].got = th[w].got
      BY <2>2, <1>1 DEF Thread, Holds, Past
    <2>4. th[w].pc = "added"
      BY <1>2 DEF Added, At
    <2>5. PICK e \in Event : th[w].todo = {e}
      BY <2>4, <1>1 DEF Sound
    <2>6. (CHOOSE x \in Event : x \in th[w].todo) = e
      BY <2>5
    <2>7. /\ slot' = [slot EXCEPT ![th[w].fd][e] = th[w].who]
          /\ fault' = IF e \in events(th[w].fd) THEN "assert" ELSE fault
          /\ seen' = [seen EXCEPT !.both = @ \/ events(th[w].fd) \cup {e} = Event]
      BY <1>2, <2>6 DEF Added
    <2>8. /\ seen'.both = (seen.both \/ events(th[w].fd) \cup {e} = Event)
          /\ seen'.orphan = seen.orphan
      BY <2>7, <1>1 DEF Types, Seen
    <2> QED BY <2>2, <2>3, <2>4, <2>5, <2>7, <2>8
  <1>3. ASSUME Fire(w)
        PROVE /\ Alone(w) /\ Past(th'[w]) /\ th[w].pc = "fire" /\ th'[w].got = th[w].got
              /\ th'[w].pc # "fire" /\ th'[w].pc # "added"
              /\ th'[w].fd = th[w].fd /\ th'[w].todo = th[w].todo /\ SeenSame
              /\ UNCHANGED interest
    <2>1. Become(w, Then(w, tasks = <<>>, "count"))
      BY <1>3 DEF Fire, Schedule
    <2>2. Alone(w) /\ th'[w] = Then(w, tasks = <<>>, "count")
      BY <2>1, <1>1
    <2>3. /\ Past(th'[w]) /\ th'[w].got = th[w].got /\ th'[w].pc # "fire" /\ th'[w].pc # "added"
          /\ th'[w].fd = th[w].fd /\ th'[w].todo = th[w].todo
      BY <2>2, <1>1 DEF Then, Thread, Past
    <2>4. SeenSame
      BY <1>3, <1>1 DEF Fire, SeenSame, Types, Seen
    <2> QED BY <1>3, <2>2, <2>3, <2>4 DEF Fire, At, epoll
  <1>4. ASSUME Count(w)
        PROVE /\ Alone(w) /\ th[w].pc = "count" /\ th'[w].got = th[w].got
              /\ th'[w].fd = th[w].fd /\ th'[w].todo = th[w].todo \ {NextEvent(th[w].todo)}
              /\ IF th'[w].todo = {} THEN ~Holds(th'[w]) ELSE th'[w].pc = "fire"
              /\ SeenSame /\ UNCHANGED interest
    <2> DEFINE rest == th[w].todo \ {NextEvent(th[w].todo)}
               p == IF rest # {} THEN "fire" ELSE IF th[w].cur = NoJob THEN "event" ELSE "body"
    <2>1. Become(w, [th[w] EXCEPT !.todo = rest, !.pc = p])
      BY <1>4 DEF Count
    <2>2. Alone(w) /\ th'[w] = [th[w] EXCEPT !.todo = rest, !.pc = p]
      BY <2>1, <1>1
    <2>3. th'[w].got = th[w].got /\ th'[w].fd = th[w].fd /\ th'[w].todo = rest /\ th'[w].pc = p
      BY <2>2, <1>1 DEF Thread
    <2>4. IF th'[w].todo = {} THEN ~Holds(th'[w]) ELSE th'[w].pc = "fire"
      BY <2>3 DEF Holds, Past
    <2> QED BY <1>4, <2>2, <2>3, <2>4 DEF Count, At, SeenSame, epoll
  <1> QED BY <1>2, <1>3, <1>4

\* FdContext::mutex is taken on entering a context and given back on leaving it.
LEMMA LocksNext == Typed /\ LocksHeld /\ [Next]_vars => LocksHeld'
  <1> SUFFICES ASSUME Typed, LocksHeld, [Next]_vars,
                      NEW fd \in Fds, NEW u \in Workers
               PROVE  lock'[fd] = u <=> Holds(th'[u]) /\ th'[u].fd = fd
    BY DEF LocksHeld, Holds, Past
  <1>1. Typed'
    BY TypesNext, PlacesNext DEF Typed
  <1>2. /\ \A f \in Fds : \A w \in Workers : lock[f] = w <=> Holds(th[w]) /\ th[w].fd = f
        /\ lock \in [Fds -> Workers \cup {None}] /\ None \notin Workers
        /\ \A w \in Workers : th[w] \in Thread /\ th[w].fd \in Fds
    BY IOAssumption DEF LocksHeld, Typed, Types, Thread
  <1>3. CASE Aside
    BY <1>3, <1>2 DEF Aside
  <1>4. ASSUME NEW w \in Workers, Kind(w) PROVE lock'[fd] = u <=> Holds(th'[u]) /\ th'[u].fd = fd
    <2>1. CASE Quiet(w)
      BY <2>1, <1>2 DEF Quiet, Alone, Holds
    <2>2. CASE \E f \in Fds : Reused(f)
      BY <2>2, <1>2 DEF Reused
    <2>3. ASSUME NEW f \in Fds, NEW e \in Event, Locked(w, f, e)
          PROVE  lock'[fd] = u <=> Holds(th'[u]) /\ th'[u].fd = fd
      <3>1. Holds(th'[w]) /\ th'[w].fd = f /\ Alone(w) /\ ~Holds(th[w])
        BY <2>3 DEF Locked, Holds
      <3>2. lock' = [lock EXCEPT ![f] = w] /\ lock[f] = None
        BY <2>3 DEF Locked
      <3> QED BY <3>1, <3>2, <1>2 DEF Alone
    <2>4. ASSUME NEW f \in Fds, NEW es, Claimed(w, f, es)
          PROVE  lock'[fd] = u <=> Holds(th'[u]) /\ th'[u].fd = fd
      <3>1. Holds(th'[w]) /\ th'[w].fd = f /\ Alone(w) /\ ~Holds(th[w])
        BY <2>4 DEF Claimed, Holds
      <3>2. lock' = [lock EXCEPT ![f] = w] /\ lock[f] = None
        BY <2>4 DEF Claimed
      <3> QED BY <3>1, <3>2, <1>2 DEF Alone
    <2>5. ASSUME NEW f \in Fds, NEW e \in Event, Deleted(f, e)
          PROVE  lock'[fd] = u <=> Holds(th'[u]) /\ th'[u].fd = fd
      BY <2>5, <1>2 DEF Deleted
    <2>6. CASE Added(w)
      <3>1. Alone(w) /\ ~Holds(th'[w]) /\ Holds(th[w])
        BY <2>6, <1>1, Within DEF Holds
      <3>2. lock' = [lock EXCEPT ![th[w].fd] = None]
        BY <2>6 DEF Added
      <3> QED BY <3>1, <3>2, <1>2 DEF Alone
    <2>7. CASE Fire(w)
      <3>1. Alone(w) /\ Holds(th'[w]) /\ Holds(th[w]) /\ th'[w].fd = th[w].fd
        BY <2>7, <1>1, Within DEF Holds
      <3>2. UNCHANGED lock
        BY <2>7 DEF Fire
      <3> QED BY <3>1, <3>2, <1>2 DEF Alone
    <2>8. CASE FireNull(w)
      BY <2>8, <1>2 DEF FireNull, ctx
    <2>9. CASE Count(w)
      <3>1. /\ Alone(w) /\ Holds(th[w]) /\ th'[w].fd = th[w].fd
            /\ th'[w].todo = th[w].todo \ {NextEvent(th[w].todo)}
            /\ IF th'[w].todo = {} THEN ~Holds(th'[w]) ELSE Holds(th'[w])
        BY <2>9, <1>1, Within DEF Holds, Past
      <3>2. lock' = IF th'[w].todo = {} THEN [lock EXCEPT ![th[w].fd] = None] ELSE lock
        BY <2>9, <3>1 DEF Count
      <3> QED BY <3>1, <3>2, <1>2 DEF Alone
    <2> QED BY <1>4, <2>1, <2>2, <2>3, <2>4, <2>5, <2>6, <2>7, <2>8, <2>9 DEF Kind
  <1> QED BY <1>3, <1>4, Kinds

-----------------------------------------------------------------------------
(***************************************************************************)
(* What epoll watches for                                                  *)
(***************************************************************************)

\* events(fd) after a step.
After(fd) == {e \in Event : slot'[fd][e] # NoJob}

\* A slot that is filled adds an event, one that is emptied takes it away.
LEMMA EventsChange ==
  ASSUME Types, NEW fd \in Fds, NEW e \in Event, NEW j, slot' = [slot EXCEPT ![fd][e] = j]
  PROVE  /\ \A f \in Fds \ {fd} : After(f) = events(f)
         /\ j # NoJob => After(fd) = events(fd) \cup {e}
         /\ j = NoJob => After(fd) = events(fd) \ {e}
  <1>1. slot \in [Fds -> [Event -> Jobs \cup {NoJob}]]
    BY DEF Types, Slots
  <1>2. /\ \A f \in Fds \ {fd} : slot'[f] = slot[f]
        /\ \A x \in Event : slot'[fd][x] = IF x = e THEN j ELSE slot[fd][x]
    BY <1>1
  <1> QED BY <1>2 DEF events, After

\* While a worker counts out what it has triggered, nobody waits for that event.
Triggered == \A w \in Workers : Past(th[w]) => NextEvent(th[w].todo) \notin events(th[w].fd)

\* Of an fd that was not closed under its waiters epoll watches for what the context
\* says; while its holder adds, for one event more; while it triggers, for those left.
WatchedAt(fd) ==
  /\ lock[fd] = None => interest[fd] = Left(events(fd))
  /\ \A w \in Workers :
       lock[fd] = w => interest[fd] = IF th[w].pc = "added" THEN events(fd) \cup th[w].todo
                                      ELSE Left(events(fd) \ th[w].todo)

\* Of one that was, for nothing at all.
Lost(fd) == fd \in seen.orphan /\ interest[fd] = Absent

Watching == \A fd \in Fds : WatchedAt(fd) \/ Lost(fd)

\* Nobody can register an event anew between its triggering and its counting out,
\* for the context stays locked.
LEMMA TriggeredNext == Typed /\ LocksHeld /\ Triggered /\ [Next]_vars => Triggered'
  <1> SUFFICES ASSUME Typed, LocksHeld, Triggered, [Next]_vars, NEW u \in Workers, Past(th'[u])
               PROVE  NextEvent(th'[u].todo) \notin After(th'[u].fd)
    BY DEF Triggered, Past, NextEvent, events, After
  <1>1. Typed' /\ Types
    BY TypesNext, PlacesNext DEF Typed
  <1>2. /\ \A f \in Fds : \A w \in Workers : lock[f] = w <=> Holds(th[w]) /\ th[w].fd = f
        /\ None \notin Workers
        /\ \A w \in Workers : th[w] \in Thread /\ th[w].fd \in Fds /\ Sound(th[w])
        /\ Past(th[u]) => NextEvent(th[u].todo) \notin events(th[u].fd)
    BY IOAssumption DEF LocksHeld, Triggered, Typed, Types, Places, Thread
  \* Slots that stay the same and a worker that was past triggering.
  <1>f. ASSUME UNCHANGED slot, Past(th[u]), th'[u].fd = th[u].fd, th'[u].todo = th[u].todo
        PROVE  NextEvent(th'[u].todo) \notin After(th'[u].fd)
    BY <1>f, <1>2 DEF events, After
  \* A slot of a context that another worker holds, or nobody.
  <1>g. ASSUME Past(th[u]), UNCHANGED th, NEW f \in Fds, NEW e \in Event, f # th[u].fd,
               slot' = [slot EXCEPT ![f][e] = NoJob]
        PROVE  NextEvent(th'[u].todo) \notin After(th'[u].fd)
    <2>1. th[u].fd \in Fds \ {f} /\ th'[u] = th[u]
      BY <1>g, <1>2
    <2>2. After(th[u].fd) = events(th[u].fd)
      BY <2>1, <1>g, <1>1, EventsChange
    <2> QED BY <2>1, <2>2, <1>g, <1>2
  <1>3. CASE Aside
    BY <1>3, <1>f DEF Aside
  <1>4. ASSUME NEW w \in Workers, Kind(w)
        PROVE  NextEvent(th'[u].todo) \notin After(th'[u].fd)
    <2>1. CASE Quiet(w)
      BY <2>1, <1>f DEF Quiet, Alone, Holds
    <2>2. CASE \E f \in Fds : Reused(f)
      BY <2>2, <1>f DEF Reused
    <2>3. ASSUME NEW f \in Fds, NEW e \in Event, Locked(w, f, e)
          PROVE  NextEvent(th'[u].todo) \notin After(th'[u].fd)
      BY <2>3, <1>f DEF Locked, Alone, Past
    <2>4. ASSUME NEW f \in Fds, NEW es, Claimed(w, f, es)
          PROVE  NextEvent(th'[u].todo) \notin After(th'[u].fd)
      BY <2>4, <1>f DEF Claimed, Alone, Past
    <2>5. ASSUME NEW f \in Fds, NEW e \in Event, Deleted(f, e)
          PROVE  NextEvent(th'[u].todo) \notin After(th'[u].fd)
      <3>1. Past(th[u]) /\ Holds(th[u])
        BY <2>5 DEF Deleted, Holds
      <3>2. f # th[u].fd
        BY <2>5, <3>1, <1>2 DEF Deleted
      <3> QED BY <2>5, <3>1, <3>2, <1>g DEF Deleted
    <2>6. CASE Added(w)
      <3>1. /\ Alone(w) /\ ~Holds(th'[w]) /\ Holds(th[w])
            /\ \E e \in Event : slot' = [slot EXCEPT ![th[w].fd][e] = th[w].who]
        BY <2>6, <1>1, Within DEF Holds, Typed
      <3>2. u # w /\ th'[u] = th[u]
        BY <3>1 DEF Holds, Alone
      <3>3. th[u].fd # th[w].fd
        BY <3>1, <3>2, <1>2 DEF Holds
      <3>5. PICK e \in Event : slot' = [slot EXCEPT ![th[w].fd][e] = th[w].who]
        BY <3>1
      <3>6. th[w].fd \in Fds /\ th[u].fd \in Fds \ {th[w].fd}
        BY <3>3, <1>2
      <3>4. After(th[u].fd) = events(th[u].fd)
        BY <3>5, <3>6, <1>1, EventsChange
      <3> QED BY <3>2, <3>4, <1>2
    <2>7. CASE Fire(w)
      <3> DEFINE e == NextEvent(th[w].todo)
      <3>1. /\ Alone(w) /\ Holds(th[w]) /\ th'[w].fd = th[w].fd /\ th'[w].todo = th[w].todo
        BY <2>7, <1>1, Within DEF Holds, Typed
      <3>2. slot' = [slot EXCEPT ![th[w].fd][e] = NoJob] /\ e \in Event
        BY <2>7 DEF Fire, events
      <3> HIDE DEF e
      <3>3. After(th[w].fd) = events(th[w].fd) \ {e}
        BY <3>2, <1>1, <1>2, EventsChange
      <3>4. CASE u = w
        BY <3>1, <3>3, <3>4 DEF e
      <3>5. CASE u # w
        <4>1. th'[u] = th[u]
          BY <3>1, <3>5 DEF Alone
        <4>2. th[u].fd # th[w].fd
          BY <3>1, <3>5, <4>1, <1>2 DEF Holds
        <4>3. After(th[u].fd) = events(th[u].fd)
          BY <3>2, <4>2, <1>1, <1>2, EventsChange
        <4> QED BY <4>1, <4>3, <1>2
      <3> QED BY <3>4, <3>5
    <2>8. CASE FireNull(w)
      BY <2>8, <1>f DEF FireNull, ctx
    <2>9. CASE Count(w)
      <3>1. Alone(w) /\ ~Past(th'[w])
        <4>1. Alone(w) /\ (~Holds(th'[w]) \/ th'[w].pc = "fire")
          BY <2>9, <1>1, Within DEF Typed
        <4> QED BY <4>1 DEF Holds, Past
      <3>2. UNCHANGED slot /\ th'[u] = th[u]
        BY <2>9, <3>1 DEF Count, Alone
      <3> QED BY <3>2, <1>f
    <2> QED BY <1>4, <2>1, <2>2, <2>3, <2>4, <2>5, <2>6, <2>7, <2>8, <2>9 DEF Kind
  <1> QED BY <1>3, <1>4, Kinds

\* Each handler changes what epoll watches for and what the context waits for alike,
\* or goes on holding the context.
LEMMA WatchingNext == Typed /\ LocksHeld /\ Triggered /\ Watching /\ [Next]_vars => Watching'
  <1> SUFFICES ASSUME Typed, LocksHeld, Triggered, Watching, [Next]_vars,
                      NEW fd \in Fds
               PROVE  WatchedAt(fd)' \/ Lost(fd)'
    BY DEF Watching, WatchedAt, Lost
  <1>1. Typed' /\ Types
    BY TypesNext, PlacesNext DEF Typed
  <1>2. /\ \A f \in Fds : \A w \in Workers : lock[f] = w <=> Holds(th[w]) /\ th[w].fd = f
        /\ lock \in [Fds -> Workers \cup {None}] /\ None \notin Workers
        /\ interest \in [Fds -> (SUBSET Event) \cup {Absent}]
        /\ \A w \in Workers : th[w] \in Thread /\ th[w].fd \in Fds /\ Sound(th[w])
    BY IOAssumption DEF LocksHeld, Typed, Types, Places, Thread
  <1>o. WatchedAt(fd) \/ Lost(fd)
    BY DEF Watching
  <1>z. ASSUME Lost(fd), seen.orphan \subseteq seen'.orphan, interest'[fd] = interest[fd] PROVE Lost(fd)'
    BY <1>z DEF Lost
  <1>a. ASSUME lock'[fd] = None => interest'[fd] = Left(After(fd)),
               \A u \in Workers :
                 lock'[fd] = u => interest'[fd] = IF th'[u].pc = "added" THEN After(fd) \cup th'[u].todo
                                                  ELSE Left(After(fd) \ th'[u].todo)
        PROVE  WatchedAt(fd)'
    BY <1>a DEF WatchedAt, events, After
  \* A context and a registration that stay the same, and so does the holder.
  <1>f. ASSUME seen.orphan \subseteq seen'.orphan, lock'[fd] = lock[fd], interest'[fd] = interest[fd],
               After(fd) = events(fd),
               \A w \in Workers : lock[fd] = w =>
                 th'[w].todo = th[w].todo /\ (th'[w].pc = "added" <=> th[w].pc = "added")
        PROVE  WatchedAt(fd)' \/ Lost(fd)'
    <2>1. CASE WatchedAt(fd)
      BY <2>1, <1>f DEF WatchedAt, events, After
    <2> QED BY <2>1, <1>f, <1>o, <1>z
  <1>e. ASSUME UNCHANGED slot PROVE \A f \in Fds : After(f) = events(f)
    BY <1>e DEF events, After
  <1>3. CASE Aside
    BY <1>3, <1>f, <1>e DEF Aside, SeenSame
  <1>4. ASSUME NEW w \in Workers, Kind(w) PROVE WatchedAt(fd)' \/ Lost(fd)'
    <2>1. CASE Quiet(w)
      <3>1. \A u \in Workers : lock[fd] = u =>
              th'[u].todo = th[u].todo /\ (th'[u].pc = "added" <=> th[u].pc = "added")
        <4>1. \A u \in Workers \ {w} : th'[u] = th[u]
          BY <2>1 DEF Quiet, Alone
        <4>2. lock[fd] = w => Past(th[w]) /\ Past(th'[w]) /\ th'[w].todo = th[w].todo
          BY <2>1, <1>2 DEF Quiet
        <4>3. Past(th[w]) /\ Past(th'[w]) => th'[w].pc # "added" /\ th[w].pc # "added"
          BY DEF Past
        <4> QED BY <4>1, <4>2, <4>3
      <3> QED BY <2>1, <3>1, <1>f, <1>e DEF Quiet, SeenSame
    <2>2. ASSUME NEW f \in Fds, Reused(f) PROVE WatchedAt(fd)' \/ Lost(fd)'
      <3>1. /\ seen.orphan \subseteq seen'.orphan /\ UNCHANGED <<slot, lock, th>>
            /\ interest' = [interest EXCEPT ![f] = Absent]
            /\ interest[f] # Absent => f \in seen'.orphan
        BY <2>2 DEF Reused
      <3>2. CASE fd = f /\ interest[f] # Absent
        BY <3>1, <3>2, <1>2 DEF Lost
      <3>3. CASE fd # f \/ interest[f] = Absent
        <4>1. interest'[fd] = interest[fd]
          BY <3>1, <3>3, <1>2
        <4> QED BY <3>1, <4>1, <1>f, <1>e
      <3> QED BY <3>2, <3>3
    <2>3. ASSUME NEW f \in Fds, NEW e \in Event, Locked(w, f, e) PROVE WatchedAt(fd)' \/ Lost(fd)'
      <3>1. /\ seen.orphan \subseteq seen'.orphan /\ UNCHANGED slot /\ Alone(w) /\ ~Holds(th[w])
            /\ lock[f] = None /\ lock' = [lock EXCEPT ![f] = w]
            /\ interest' = [interest EXCEPT ![f] = IF AddOp(f) = "DEL" THEN Absent ELSE events(f) \cup {e}]
            /\ th'[w].pc = "added" /\ th'[w].todo = {e} /\ CtlWorks(AddOp(f), f)
        BY <2>3 DEF Locked, SeenSame
      <3>2. CASE fd = f
        <4>1. interest[f] = Left(events(f)) \/ interest[f] = Absent
          BY <3>1, <3>2, <1>o DEF WatchedAt, Lost
        <4>2. AddOp(f) # "DEL"
          BY <3>1, <4>1 DEF AddOp, CtlWorks, Left
        <4>3. interest'[f] = events(f) \cup {e} /\ lock'[f] = w
          BY <3>1, <4>2, <1>2
        <4>4. th'[w].pc = "added" /\ After(f) = events(f) /\ th'[w].todo = {e} /\ w # None
          BY <3>1, <1>2, <1>e
        <4> QED BY <3>2, <4>3, <4>4, <1>a
      <3>3. CASE fd # f
        <4>1. lock'[fd] = lock[fd] /\ interest'[fd] = interest[fd] /\ lock[fd] # w
          BY <3>1, <3>3, <1>2
        <4> QED BY <3>1, <4>1, <1>f, <1>e DEF Alone
      <3> QED BY <3>2, <3>3
    <2>4. ASSUME NEW f \in Fds, NEW es \in SUBSET Event, Claimed(w, f, es) PROVE WatchedAt(fd)' \/ Lost(fd)'
      <3>1. /\ seen.orphan \subseteq seen'.orphan /\ UNCHANGED slot /\ Alone(w) /\ ~Holds(th[w])
            /\ lock[f] = None /\ lock' = [lock EXCEPT ![f] = w]
            /\ interest' = [interest EXCEPT ![f] = Left(events(f) \ es)]
            /\ th'[w].pc = "fire" /\ th'[w].todo = es
        BY <2>4 DEF Claimed, SeenSame
      <3>2. CASE fd = f
        <4>1. interest'[f] = Left(events(f) \ es) /\ lock'[f] = w
          BY <3>1, <1>2
        <4>2. th'[w].pc = "fire" /\ After(f) = events(f) /\ th'[w].todo = es /\ w # None
          BY <3>1, <1>2, <1>e
        <4> QED BY <3>2, <4>1, <4>2, <1>a
      <3>3. CASE fd # f
        <4>1. lock'[fd] = lock[fd] /\ interest'[fd] = interest[fd] /\ lock[fd] # w
          BY <3>1, <3>3, <1>2
        <4> QED BY <3>1, <4>1, <1>f, <1>e DEF Alone
      <3> QED BY <3>2, <3>3
    <2>5. ASSUME NEW f \in Fds, NEW e \in Event, Deleted(f, e) PROVE WatchedAt(fd)' \/ Lost(fd)'
      <3>1. /\ seen.orphan \subseteq seen'.orphan /\ UNCHANGED <<lock, th>> /\ lock[f] = None
            /\ interest' = [interest EXCEPT ![f] = Left(events(f) \ {e})]
            /\ \A g \in Fds \ {f} : After(g) = events(g)
            /\ After(f) = events(f) \ {e}
        BY <2>5, <1>1, EventsChange DEF Deleted, SeenSame
      <3>2. CASE fd = f
        BY <3>1, <3>2, <1>2, ZenonT(30) DEF WatchedAt, events, After
      <3>3. CASE fd # f
        BY <3>1, <3>3, <1>2, <1>f
      <3> QED BY <3>2, <3>3
    <2>6. CASE Added(w)
      <3>1. /\ Alone(w) /\ Holds(th[w]) /\ th[w].pc = "added" /\ seen.orphan \subseteq seen'.orphan
            /\ \E e \in Event :
                 th[w].todo = {e} /\ slot' = [slot EXCEPT ![th[w].fd][e] = th[w].who]
        BY <2>6, <1>1, Within DEF Holds, Typed
      <3>2. PICK e \in Event : th[w].todo = {e} /\ slot' = [slot EXCEPT ![th[w].fd][e] = th[w].who]
        BY <3>1
      <3>3. th[w].who # NoJob
        BY <3>1, <1>2 DEF Sound
      <3>4. /\ \A g \in Fds \ {th[w].fd} : After(g) = events(g)
            /\ After(th[w].fd) = events(th[w].fd) \cup {e}
        <4>1. th[w].fd \in Fds
          BY <1>2
        <4> QED BY <3>2, <3>3, <4>1, <1>1, EventsChange
      <3>5. UNCHANGED interest /\ lock' = [lock EXCEPT ![th[w].fd] = None]
        BY <2>6 DEF Added, epoll
      <3>8. CASE Lost(fd)
        BY <3>1, <3>5, <3>8, <1>z
      <3>6. CASE fd = th[w].fd /\ WatchedAt(fd)
        <4>1. lock[fd] = w
          BY <3>1, <3>6, <1>2
        <4>2. interest[fd] = events(fd) \cup {e}
          BY <3>1, <3>2, <3>6, <4>1 DEF WatchedAt
        <4>3. interest'[fd] = Left(After(fd)) /\ lock'[fd] = None
          BY <3>4, <3>5, <3>6, <4>2, <1>2 DEF Left
        <4> QED BY <4>3, <1>2 DEF WatchedAt, events, After
      <3>7. CASE fd # th[w].fd
        <4>1. lock'[fd] = lock[fd] /\ lock[fd] # w
          BY <3>5, <3>7, <1>2
        <4> QED BY <3>1, <3>4, <3>5, <3>7, <4>1, <1>f DEF Alone
      <3> QED BY <3>6, <3>7, <3>8, <1>o
    <2>7. CASE Fire(w)
      <3> DEFINE e == NextEvent(th[w].todo)
      <3>1. /\ Alone(w) /\ Holds(th[w]) /\ th[w].pc = "fire" /\ th'[w].pc # "added"
            /\ th'[w].todo = th[w].todo /\ seen.orphan \subseteq seen'.orphan /\ UNCHANGED interest
        BY <2>7, <1>1, Within DEF Holds, Typed, SeenSame
      <3>2. slot' = [slot EXCEPT ![th[w].fd][e] = NoJob] /\ e \in Event /\ UNCHANGED lock
        BY <2>7 DEF Fire, events
      <3>8. e \in th[w].todo
        BY <3>1, <1>2 DEF NextEvent, Sound, Thread, Event
      <3> HIDE DEF e
      <3>3. /\ \A g \in Fds \ {th[w].fd} : After(g) = events(g)
            /\ After(th[w].fd) = events(th[w].fd) \ {e}
        BY <3>2, <1>1, <1>2, EventsChange
      <3>6. CASE Lost(fd)
        BY <3>1, <3>6, <1>z
      <3>4. CASE fd = th[w].fd /\ WatchedAt(fd)
        <4>1. lock[fd] = w /\ lock'[fd] = w
          BY <3>1, <3>2, <3>4, <1>2
        <4>2. interest[fd] = Left(events(fd) \ th[w].todo)
          BY <3>1, <3>4, <4>1 DEF WatchedAt
        <4>3. After(fd) \ th[w].todo = events(fd) \ th[w].todo
          BY <3>3, <3>4, <3>8
        <4>4. interest'[fd] = Left(After(fd) \ th'[w].todo)
          BY <3>1, <4>2, <4>3
        <4>5. lock'[fd] # None /\ \A u \in Workers : lock'[fd] = u => u = w
          BY <4>1, <1>2
        <4>6. WatchedAt(fd)'
          BY <3>1, <4>4, <4>5, <1>a
        <4> QED BY <4>6
      <3>5. CASE fd # th[w].fd
        <4>1. lock'[fd] = lock[fd] /\ lock[fd] # w
          BY <3>2, <3>5, <1>2
        <4> QED BY <3>1, <3>3, <3>5, <4>1, <1>f DEF Alone
      <3> QED BY <3>4, <3>5, <3>6, <1>o
    <2>8. CASE FireNull(w)
      BY <2>8, <1>f, <1>e DEF FireNull, ctx, epoll
    <2>9. CASE Count(w)
      <3>1. /\ Alone(w) /\ Past(th[w]) /\ Holds(th[w]) /\ seen.orphan \subseteq seen'.orphan /\ UNCHANGED interest
            /\ th'[w].todo = th[w].todo \ {NextEvent(th[w].todo)} /\ th'[w].pc # "added"
        BY <2>9, <1>1, Within DEF Holds, Past, Typed, SeenSame
      <3>2. /\ UNCHANGED slot /\ lock' = IF th'[w].todo = {} THEN [lock EXCEPT ![th[w].fd] = None] ELSE lock
        BY <2>9, <3>1 DEF Count
      <3>5. CASE Lost(fd)
        BY <3>1, <3>5, <1>z
      <3>3. CASE fd = th[w].fd /\ WatchedAt(fd)
        <4>1. lock[fd] = w /\ th[w].pc # "added"
          BY <3>1, <3>3, <1>2 DEF Past
        <4>2. interest[fd] = Left(events(fd) \ th[w].todo)
          BY <4>1, <3>1, <3>3 DEF WatchedAt
        <4>3. events(fd) \ th[w].todo = events(fd) \ th'[w].todo
          BY <3>1, <3>3 DEF Triggered
        <4>4. interest'[fd] = Left(After(fd) \ th'[w].todo)
          BY <3>1, <3>2, <4>2, <4>3, <1>e
        <4>5. CASE th'[w].todo = {}
          <5>1. lock'[fd] = None
            BY <3>2, <3>3, <4>5, <1>2
          <5> QED BY <4>4, <4>5, <5>1, <1>2 DEF WatchedAt, Left, events, After
        <4>6. CASE th'[w].todo # {}
          <5>1. lock'[fd] = w
            BY <3>2, <4>1, <4>6
          <5> QED BY <3>1, <4>4, <5>1, <1>2 DEF WatchedAt, Left, events, After
        <4> QED BY <4>5, <4>6
      <3>4. CASE fd # th[w].fd
        <4>1. lock'[fd] = lock[fd] /\ lock[fd] # w
          BY <3>2, <3>4, <1>2
        <4> QED BY <3>1, <3>2, <3>4, <4>1, <1>f, <1>e DEF Alone
      <3> QED BY <3>3, <3>4, <3>5, <1>o
    <2> QED BY <1>4, <2>1, <2>2, <2>3, <2>4, <2>5, <2>6, <2>7, <2>8, <2>9 DEF Kind
  <1> QED BY <1>3, <1>4, Kinds

\* The locks, the registrations and what is triggered.
Guarded == Typed /\ LocksHeld /\ Triggered /\ Watching

\* The discipline of the context locks holds at all times, closed descriptors included.
THEOREM GuardedAlways == Spec => []Guarded
  <1>1. Init => Guarded
    <2> SUFFICES ASSUME Init PROVE Guarded
      OBVIOUS
    <2>1. Typed
      BY TypesInit, PlacesInit DEF Typed
    <2>2. /\ \A w \in Workers : th[w].pc = "scan" /\ ~Holds(th[w]) /\ ~Past(th[w])
          /\ \A fd \in Fds : lock[fd] = None /\ interest[fd] = Absent /\ events(fd) = {}
      BY DEF Init, Holds, Past, events
    <2> QED BY <2>1, <2>2, IOAssumption DEF Guarded, LocksHeld, Triggered, Watching, WatchedAt, Left
  <1>2. Guarded /\ [Next]_vars => Guarded'
    BY TypesNext, PlacesNext, LocksNext, TriggeredNext, WatchingNext DEF Guarded, Typed
  <1> QED BY <1>1, <1>2, PTL DEF Spec

\* On an fd that was not closed under its waiters, epoll watches for exactly what the
\* context has waiters for whenever the context is not locked: addEvent(), delEvent(),
\* cancelEvent(), cancelAll() and idle() leave the two alike, whoever runs them and
\* in whatever order.
THEOREM WatchedAlways == Spec => []Watched
  <1>1. Guarded => Watched
    BY DEF Guarded, Watching, WatchedAt, Lost, Watched, Left
  <1> QED BY <1>1, GuardedAlways, PTL

-----------------------------------------------------------------------------
(***************************************************************************)
(* The count of registered events                                          *)
(***************************************************************************)

\* The sets PendingExact counts are finite, and who is counting is who is past
\* the triggering.
LEMMA CountedFinite ==
  ASSUME Typed
  PROVE  /\ IsFiniteSet(Registered) /\ Cardinality(Registered) \in Nat
         /\ IsFiniteSet(Counting) /\ Cardinality(Counting) \in Nat
         /\ Counting = {w \in Workers : Past(th[w])}
  <1>1. IsFiniteSet(Event)
    <2>1. IsFiniteSet({"READ"})
      BY FS_Singleton
    <2>2. IsFiniteSet({"READ"} \cup {"WRITE"})
      BY <2>1, FS_AddElement
    <2>3. Event = {"READ"} \cup {"WRITE"}
      BY DEF Event
    <2> QED BY <2>2, <2>3
  <1>2. IsFiniteSet(Fds \X Event)
    BY <1>1, IOAssumption, FS_Product
  <1>3. IsFiniteSet(Registered)
    BY <1>2, FS_Subset DEF Registered
  <1>4. Counting = {w \in Workers : Past(th[w])}
    BY DEF Counting, At, Past
  <1>5. IsFiniteSet(Counting)
    BY <1>4, IOAssumption, FS_Subset
  <1> QED BY <1>3, <1>4, <1>5, FS_CardinalityType

\* The count is a number, and is exact as long as nothing has gone wrong.
Exact == pending \in Nat /\ PendingExact

\* Every change of m_pendingEventCount goes with one of the sets it counts.
LEMMA ExactNext == Typed /\ Exact /\ [Next]_vars => Exact'
  <1> SUFFICES ASSUME Typed, Exact, [Next]_vars PROVE Exact'
    OBVIOUS
  <1> DEFINE n == Cardinality(Registered)
             m == Cardinality(Counting)
             Known == {p \in Fds \X Event : p[2] \in After(p[1])}
             Late == {w \in Workers : Past(th'[w])}
  <1>1. Typed' /\ Types
    BY TypesNext, PlacesNext DEF Typed
  <1>2. /\ IsFiniteSet(Registered) /\ n \in Nat /\ IsFiniteSet(Counting) /\ m \in Nat
        /\ Counting = {w \in Workers : Past(th[w])}
    BY CountedFinite
  <1>3. Registered' = Known /\ Counting' = Late
    BY DEF Registered, events, After, Counting, Past, At
  <1>4. Registered = {p \in Fds \X Event : p[2] \in events(p[1])}
    BY DEF Registered
  <1>5. pending \in Nat /\ (fault = "none" => pending = n + m)
    BY DEF Exact, PendingExact
  <1>x. ASSUME pending' \in Nat, fault' = "none" => pending' = Cardinality(Known) + Cardinality(Late)
        PROVE  Exact'
    BY <1>x, <1>3 DEF Exact, PendingExact
  <1>6. \A w \in Workers : th[w] \in Thread /\ th[w].fd \in Fds /\ Sound(th[w])
    BY DEF Typed, Types, Places, Thread
  <1>s. ASSUME UNCHANGED slot PROVE Known = Registered
    BY <1>s, <1>4 DEF events, After
  <1>t. ASSUME NEW w \in Workers, Alone(w), ~Past(th[w]), ~Past(th'[w]) PROVE Late = Counting
    BY <1>t, <1>2 DEF Alone
  <1>u. ASSUME UNCHANGED slot, UNCHANGED pending, Late = Counting, fault' = "none" => fault = "none"
        PROVE  Exact'
    BY <1>u, <1>s, <1>5, <1>x
  <1> HIDE DEF n, m, Known, Late
  <1>7. CASE Aside
    <2>1. Late = Counting
      BY <1>7, <1>2 DEF Aside, Late
    <2> QED BY <1>7, <2>1, <1>u DEF Aside
  <1>8. ASSUME NEW w \in Workers, Kind(w) PROVE Exact'
    <2>1. CASE Quiet(w)
      <3>1. Late = Counting
        BY <2>1, <1>2 DEF Quiet, Alone, Late, Holds
      <3> QED BY <2>1, <3>1, <1>u DEF Quiet
    <2>2. ASSUME NEW f \in Fds, Reused(f) PROVE Exact'
      <3>1. Late = Counting
        BY <2>2, <1>2 DEF Reused, Late
      <3> QED BY <2>2, <3>1, <1>u DEF Reused
    <2>3. ASSUME NEW f \in Fds, NEW e \in Event, Locked(w, f, e) PROVE Exact'
      <3>1. Alone(w) /\ ~Past(th[w]) /\ ~Past(th'[w])
        BY <2>3 DEF Locked, Holds, Past
      <3> QED BY <2>3, <3>1, <1>t, <1>u DEF Locked
    <2>4. ASSUME NEW f \in Fds, NEW es, Claimed(w, f, es) PROVE Exact'
      <3>1. Alone(w) /\ ~Past(th[w]) /\ ~Past(th'[w])
        BY <2>4 DEF Claimed, Holds, Past
      <3> QED BY <2>4, <3>1, <1>t, <1>u DEF Claimed
    <2>5. ASSUME NEW f \in Fds, NEW e \in Event, Deleted(f, e) PROVE Exact'
      <3>1. /\ fault = "none" /\ e \in events(f) /\ pending' = pending - 1 /\ UNCHANGED th
            /\ slot' = [slot EXCEPT ![f][e] = NoJob]
        BY <2>5 DEF Deleted
      <3>2. Known = Registered \ {<<f, e>>} /\ <<f, e>> \in Registered
        <4>1. (\A g \in Fds \ {f} : After(g) = events(g)) /\ After(f) = events(f) \ {e}
          BY <3>1, <1>1, EventsChange
        <4> QED BY <4>1, <3>1, <1>4 DEF Known
      <3>3. Cardinality(Known) = n - 1
        BY <3>2, <1>2, FS_RemoveElement DEF n
      <3>4. Late = Counting
        BY <3>1, <1>2 DEF Late
      <3>5. n > 0
        BY <3>2, <1>2, FS_EmptySet DEF n
      <3> QED BY <3>1, <3>3, <3>4, <3>5, <1>2, <1>5, <1>x DEF m
    <2>6. CASE Added(w)
      <3>1. /\ Alone(w) /\ th[w].pc = "added" /\ ~Holds(th'[w])
            /\ \E e \in Event :
                 /\ th[w].todo = {e} /\ slot' = [slot EXCEPT ![th[w].fd][e] = th[w].who]
                 /\ fault' = IF e \in events(th[w].fd) THEN "assert" ELSE fault
        BY <2>6, <1>1, Within DEF Typed
      <3>2. PICK e \in Event :
              /\ th[w].todo = {e} /\ slot' = [slot EXCEPT ![th[w].fd][e] = th[w].who]
              /\ fault' = IF e \in events(th[w].fd) THEN "assert" ELSE fault
        BY <3>1
      <3>3. pending' = pending + 1 /\ fault = "none"
        BY <2>6 DEF Added
      <3>4. Late = Counting
        BY <3>1, <1>t DEF Holds, Past
      <3>5. CASE e \in events(th[w].fd)
        BY <3>2, <3>3, <3>5, <1>5, <1>x
      <3>6. CASE e \notin events(th[w].fd)
        <4>1. th[w].who # NoJob /\ th[w].fd \in Fds
          BY <3>1, <1>6 DEF Sound
        <4>2. /\ \A g \in Fds \ {th[w].fd} : After(g) = events(g)
              /\ After(th[w].fd) = events(th[w].fd) \cup {e}
          BY <3>2, <4>1, <1>1, EventsChange
        <4>3. Known = Registered \cup {<<th[w].fd, e>>} /\ <<th[w].fd, e>> \notin Registered
          BY <4>1, <4>2, <3>6, <1>4 DEF Known
        <4>4. Cardinality(Known) = n + 1
          BY <4>3, <1>2, FS_AddElement DEF n
        <4> QED BY <3>3, <3>4, <4>4, <1>2, <1>5, <1>x DEF m
      <3> QED BY <3>5, <3>6
    <2>7. CASE Fire(w)
      <3> DEFINE e == NextEvent(th[w].todo)
      <3>1. Alone(w) /\ th[w].pc = "fire" /\ Past(th'[w])
        BY <2>7, <1>1, Within DEF Typed
      <3>2. /\ e \in events(th[w].fd) /\ slot' = [slot EXCEPT ![th[w].fd][e] = NoJob]
            /\ UNCHANGED pending /\ fault = "none"
        BY <2>7 DEF Fire, Alive
      <3>3. e \in Event /\ th[w].fd \in Fds
        BY <3>2, <1>6 DEF events
      <3> HIDE DEF e
      <3>4. /\ \A g \in Fds \ {th[w].fd} : After(g) = events(g)
            /\ After(th[w].fd) = events(th[w].fd) \ {e}
        BY <3>2, <3>3, <1>1, EventsChange
      <3>5. Known = Registered \ {<<th[w].fd, e>>} /\ <<th[w].fd, e>> \in Registered
        BY <3>2, <3>3, <3>4, <1>4 DEF Known
      <3>6. Cardinality(Known) = n - 1
        BY <3>5, <1>2, FS_RemoveElement DEF n
      <3>7. Late = Counting \cup {w} /\ w \notin Counting
        BY <3>1, <1>2 DEF Alone, Past, Late
      <3>8. Cardinality(Late) = m + 1
        BY <3>7, <1>2, FS_AddElement DEF m
      <3> QED BY <3>2, <3>6, <3>8, <1>2, <1>5, <1>x
    <2>8. CASE FireNull(w)
      BY <2>8, <1>5, <1>x DEF FireNull
    <2>9. CASE Count(w)
      <3>1. Alone(w) /\ th[w].pc = "count" /\ (~Holds(th'[w]) \/ th'[w].pc = "fire")
        BY <2>9, <1>1, Within DEF Typed
      <3>2. Late = Counting \ {w} /\ w \in Counting
        BY <3>1, <1>2 DEF Alone, Past, Holds, Late
      <3>3. Cardinality(Late) = m - 1
        BY <3>2, <1>2, FS_RemoveElement DEF m
      <3>5. m > 0
        BY <3>2, <1>2, FS_EmptySet DEF m
      <3>4. UNCHANGED slot /\ pending' = pending - 1 /\ fault = "none"
        BY <2>9 DEF Count, Alive
      <3> QED BY <3>3, <3>4, <3>5, <1>2, <1>5, <1>s, <1>x DEF n
    <2> QED BY <1>8, <2>1, <2>2, <2>3, <2>4, <2>5, <2>6, <2>7, <2>8, <2>9 DEF Kind
  <1> QED BY <1>7, <1>8, Kinds

\* No event is registered at first, and the count is 0.
LEMMA ExactInit == Init => Exact
  <1> SUFFICES ASSUME Init PROVE Exact
    OBVIOUS
  <1>1. Registered = {} /\ Counting = {}
    BY DEF Init, Registered, events, Counting, At
  <1>2. Cardinality({}) = 0
    BY FS_EmptySet
  <1> QED BY <1>1, <1>2 DEF Init, Exact, PendingExact

\* m_pendingEventCount, which stopping() reads without a lock, is at every moment the
\* number of registered events and of those that are triggered and not yet counted
\* out: addEvent(), delEvent(), cancelEvent(), cancelAll() and idle() never lose a
\* count or count twice.
THEOREM PendingAlwaysExact == Spec => []PendingExact
  <1>1. Exact => PendingExact
    BY DEF Exact
  <1> QED BY <1>1, ExactInit, ExactNext, TypedAlways, PTL DEF Spec

-----------------------------------------------------------------------------
(***************************************************************************)
(* One event at a time                                                     *)
(***************************************************************************)

\* A report of both events, which the handler takes at its word.
Double(r) == r.fd \in Fds /\ Event \subseteq r.what /\ "HUP" \notin r.what

\* A worker has registered the second event of an fd and not yet recorded it.
Completing(fd) ==
  \E u \in Workers : lock[fd] = u /\ th[u].pc = "added" /\ events(fd) \cup th[u].todo = Event

\* As long as no fd had both its events waited for: no context has both, what is
\* triggered is waited for and is not both, and both are reported only while somebody
\* is about to have both waited for.
OneEvent ==
  /\ \A fd \in Fds : events(fd) # Event
  /\ \A w \in Workers : th[w].pc = "fire" => th[w].todo \subseteq events(th[w].fd)
  /\ \A w \in Workers : th[w].pc = "fire" \/ Past(th[w]) => th[w].todo # Event
  /\ fault # "null"
NoDoubles == \A w \in Workers : \A r \in Range(th[w].got) : Double(r) => Completing(r.fd)
OneKind == ~seen.both => OneEvent /\ NoDoubles

\* The events are two.
LEMMA TwoEvents ==
  ASSUME NEW es \in SUBSET Event, es # {}
  PROVE  /\ NextEvent(es) \in es
         /\ es # Event => es = {NextEvent(es)}
         /\ \A xs : es # Event /\ es \cap xs # {} => es \subseteq xs
  BY DEF Event, NextEvent

\* A step that leaves seen.both as it is FALSE neither began nor completed such a pair.
LEMMA BothSeen ==
  ASSUME Typed, [Next]_vars, ~seen'.both
  PROVE  /\ ~seen.both
         /\ \A w \in Workers : Added(w) => events(th[w].fd) \cup th[w].todo # Event
  <1>1. Typed' /\ seen.both \in BOOLEAN
    BY TypesNext, PlacesNext DEF Typed, Types, Seen
  <1>2. ASSUME NEW w \in Workers, Added(w)
        PROVE  ~seen.both /\ events(th[w].fd) \cup th[w].todo # Event
    BY <1>1, <1>2, Within
  <1>3. CASE Aside
    BY <1>3, <1>2 DEF Aside, SeenSame, Added, epoll
  <1>4. ASSUME NEW w \in Workers, Kind(w) PROVE ~seen.both
    <2>1. CASE Quiet(w)
      BY <2>1 DEF Quiet, SeenSame
    <2>2. ASSUME NEW f \in Fds, NEW e \in Event, NEW es, Reused(f) \/ Locked(w, f, e) \/ Deleted(f, e) \/ Claimed(w, f, es)
          PROVE  ~seen.both
      BY <2>2 DEF Reused, Locked, Deleted, Claimed, SeenSame
    <2>3. CASE Added(w)
      BY <2>3, <1>2
    <2>4. CASE Fire(w) \/ Count(w)
      BY <2>4, <1>1, Within DEF SeenSame
    <2>5. CASE FireNull(w)
      BY <2>5 DEF FireNull
    <2>6. PICK f0 \in Fds, e0 \in Event : TRUE
      BY IOAssumption DEF Event
    <2> QED BY <1>4, <2>1, <2>2, <2>3, <2>4, <2>5, <2>6 DEF Kind
  <1> QED BY <1>2, <1>3, <1>4, Kinds

\* epoll reports both events only of an fd whose second event is being registered.
LEMMA ReportsDouble ==
  ASSUME Guarded, OneEvent, NEW r \in Reports, Double(r)
  PROVE  Completing(r.fd)
  <1> DEFINE fd == r.fd
  <1>1. fd \in Fds /\ Pipe \notin Fds /\ r.what # {}
    BY IOAssumption DEF Double, Event
  <1>2. r.what \subseteq interest[fd] \cup {"HUP"}
    <2>1. PICK f \in onlist \cap Fds : r = [fd |-> f, what |-> level[f] \cap (interest[f] \cup {"HUP"})]
      BY <1>1 DEF Reports
    <2> QED BY <2>1
  <1>3. Event \subseteq interest[fd]
    BY <1>2 DEF Double, Event
  <1>4. ~(Event \subseteq Absent) /\ events(fd) \subseteq Event /\ events(fd) # Event
    BY <1>1 DEF Event, Absent, events, OneEvent
  <1>5. WatchedAt(fd) /\ lock[fd] \in Workers \cup {None} /\ \A u \in Workers : th[u].todo \subseteq Event
    BY <1>1, <1>3, <1>4 DEF Guarded, Watching, Lost, Typed, Types, Thread
  <1>6. lock[fd] # None
    BY <1>3, <1>4, <1>5 DEF WatchedAt, Left
  <1>7. PICK u \in Workers : lock[fd] = u
    BY <1>5, <1>6
  <1>8. th[u].pc = "added" /\ interest[fd] = events(fd) \cup th[u].todo
    <2>1. CASE th[u].pc # "added"
      <3>1. interest[fd] = Left(events(fd) \ th[u].todo)
        BY <2>1, <1>5, <1>7 DEF WatchedAt
      <3> QED BY <3>1, <1>3, <1>4 DEF Left
    <2> QED BY <2>1, <1>5, <1>7 DEF WatchedAt
  <1>9. events(fd) \cup th[u].todo = Event
    BY <1>3, <1>4, <1>5, <1>8
  <1> QED BY <1>7, <1>8, <1>9 DEF Completing

\* Who is about to have both waited for still is, unless they now are.
LEMMA CompletingNext ==
  ASSUME Guarded, [Next]_vars, ~seen'.both, NEW fd \in Fds, Completing(fd)
  PROVE  Completing(fd)'
  <1>1. PICK u \in Workers : lock[fd] = u /\ th[u].pc = "added" /\ events(fd) \cup th[u].todo = Event
    BY DEF Completing
  <1>2. /\ Typed /\ Typed' /\ Types
        /\ \A f \in Fds : \A w \in Workers : lock[f] = w <=> Holds(th[w]) /\ th[w].fd = f
        /\ lock \in [Fds -> Workers \cup {None}] /\ None \notin Workers
        /\ \A w \in Workers : th[w].fd \in Fds
    BY TypesNext, PlacesNext, IOAssumption DEF Guarded, LocksHeld, Typed, Types, Thread
  <1>3. Holds(th[u]) /\ ~Past(th[u]) /\ th[u].fd = fd /\ u # None
    BY <1>1, <1>2 DEF Holds, Past
  <1>c. ASSUME lock'[fd] = lock[fd], After(fd) = events(fd), th'[u] = th[u] PROVE Completing(fd)'
    BY <1>c, <1>1 DEF Completing, events, After
  <1>e. ASSUME UNCHANGED slot PROVE After(fd) = events(fd)
    BY <1>e DEF events, After
  <1>4. CASE Aside
    BY <1>4, <1>c, <1>e DEF Aside
  <1>5. ASSUME NEW w \in Workers, Kind(w) PROVE Completing(fd)'
    <2>1. CASE Quiet(w)
      BY <2>1, <1>3, <1>c, <1>e DEF Quiet, Alone
    <2>2. ASSUME NEW f \in Fds, Reused(f) PROVE Completing(fd)'
      BY <2>2, <1>c, <1>e DEF Reused
    <2>3. ASSUME NEW f \in Fds, NEW e \in Event, NEW es, Locked(w, f, e) \/ Claimed(w, f, es)
          PROVE  Completing(fd)'
      <3>1. /\ Alone(w) /\ ~Holds(th[w]) /\ lock[f] = None /\ lock' = [lock EXCEPT ![f] = w]
            /\ UNCHANGED slot
        BY <2>3 DEF Locked, Claimed
      <3>2. u # w /\ f # fd
        BY <3>1, <1>1, <1>3
      <3> QED BY <3>1, <3>2, <1>2, <1>c, <1>e DEF Alone
    <2>4. ASSUME NEW f \in Fds, NEW e \in Event, Deleted(f, e) PROVE Completing(fd)'
      <3>1. f # fd
        BY <2>4, <1>1, <1>3 DEF Deleted
      <3>2. After(fd) = events(fd)
        BY <2>4, <3>1, <1>2, EventsChange DEF Deleted
      <3> QED BY <2>4, <3>2, <1>c DEF Deleted
    <2>5. CASE Added(w)
      <3>1. u # w
        BY <2>5, <1>1, <1>2, <1>3, BothSeen
      <3>2. Alone(w) /\ Holds(th[w]) /\ \E e \in Event : slot' = [slot EXCEPT ![th[w].fd][e] = th[w].who]
        BY <2>5, <1>2, Within DEF Holds
      <3>3. th[w].fd # fd
        BY <3>1, <3>2, <1>1, <1>2
      <3>4. PICK e \in Event : slot' = [slot EXCEPT ![th[w].fd][e] = th[w].who]
        BY <3>2
      <3>7. th[w].fd \in Fds /\ fd \in Fds \ {th[w].fd}
        BY <3>3, <1>2
      <3>5. After(fd) = events(fd)
        BY <3>4, <3>7, <1>2, EventsChange
      <3>6. lock'[fd] = lock[fd]
        BY <2>5, <3>3, <1>2 DEF Added
      <3> QED BY <3>1, <3>2, <3>5, <3>6, <1>c DEF Alone
    <2>6. CASE Fire(w)
      <3>1. Alone(w) /\ Holds(th[w]) /\ th[w].pc = "fire"
        BY <2>6, <1>2, Within DEF Holds
      <3>2. u # w /\ th[w].fd # fd
        BY <3>1, <1>1, <1>2
      <3>3. NextEvent(th[w].todo) \in Event /\ slot' = [slot EXCEPT ![th[w].fd][NextEvent(th[w].todo)] = NoJob]
        BY <2>6 DEF Fire, events
      <3>4. After(fd) = events(fd)
        BY <3>2, <3>3, <1>2, EventsChange
      <3> QED BY <2>6, <3>1, <3>2, <3>4, <1>c DEF Alone, Fire
    <2>7. CASE FireNull(w)
      BY <2>7, <1>c, <1>e DEF FireNull, ctx
    <2>8. CASE Count(w)
      <3>1. Alone(w) /\ Holds(th[w]) /\ th[w].pc = "count"
        BY <2>8, <1>2, Within DEF Holds, Past
      <3>2. u # w /\ th[w].fd # fd
        BY <3>1, <1>1, <1>2
      <3>3. UNCHANGED slot /\ lock' \in {lock, [lock EXCEPT ![th[w].fd] = None]}
        BY <2>8 DEF Count
      <3>4. lock'[fd] = lock[fd]
        BY <3>2, <3>3, <1>2
      <3> QED BY <3>1, <3>2, <3>3, <3>4, <1>c, <1>e DEF Alone
    <2>9. PICK f0 \in Fds, e0 \in Event : TRUE
      BY IOAssumption DEF Event
    <2> QED BY <1>5, <2>1, <2>2, <2>3, <2>4, <2>5, <2>6, <2>7, <2>8, <2>9 DEF Kind
  <1> QED BY <1>4, <1>5, <1>2, Kinds

\* A report of both events comes from a wait during the registration of the second.
LEMMA NoDoublesNext ==
  ASSUME Guarded, OneEvent, NoDoubles, [Next]_vars, ~seen'.both
  PROVE  NoDoubles'
  <1> SUFFICES ASSUME NEW u \in Workers, NEW r \in Range(th'[u].got), Double(r) PROVE Completing(r.fd)'
    BY DEF NoDoubles, Double, Completing, events, Range
  <1>1. /\ Typed /\ Typed' /\ r.fd \in Fds
    BY TypesNext, PlacesNext DEF Guarded, Typed, Double
  <1>2. r \in Range(th[u].got) \cup Reports
    <2>1. CASE Aside
      BY <2>1 DEF Aside
    <2>2. ASSUME NEW w \in Workers, Kind(w) PROVE Range(th'[u].got) \subseteq Range(th[u].got) \cup Reports
      <3>1. CASE Quiet(w)
        BY <3>1 DEF Quiet, Alone
      <3>2. ASSUME NEW f \in Fds, NEW e \in Event, NEW es,
                   Reused(f) \/ Locked(w, f, e) \/ Deleted(f, e) \/ Claimed(w, f, es)
            PROVE  Range(th'[u].got) \subseteq Range(th[u].got) \cup Reports
        BY <3>2 DEF Reused, Locked, Deleted, Claimed, Alone
      <3>3. CASE Added(w) \/ Fire(w) \/ Count(w)
        BY <3>3, <1>1, Within DEF Alone
      <3>4. CASE FireNull(w)
        BY <3>4 DEF FireNull
      <3>5. PICK f0 \in Fds, e0 \in Event : TRUE
        BY IOAssumption DEF Event
      <3> QED BY <2>2, <3>1, <3>2, <3>3, <3>4, <3>5 DEF Kind
    <2> QED BY <2>1, <2>2, <1>1, Kinds
  <1>3. Completing(r.fd)
    BY <1>2, ReportsDouble DEF NoDoubles
  <1> DEFINE fd == r.fd
  <1> HIDE DEF fd
  <1>4. Completing(fd)'
    BY <1>1, <1>3, CompletingNext DEF fd
  <1> QED BY <1>4 DEF fd

\* As long as no fd had both events waited for, contexts and triggers are of one event.
LEMMA OneEventNext ==
  ASSUME Guarded, OneEvent, NoDoubles, [Next]_vars, ~seen'.both
  PROVE  OneEvent'
  <1>1. /\ Typed /\ Typed' /\ Types
        /\ \A f \in Fds : \A w \in Workers : lock[f] = w <=> Holds(th[w]) /\ th[w].fd = f
        /\ lock \in [Fds -> Workers \cup {None}] /\ None \notin Workers
        /\ \A w \in Workers : th[w].fd \in Fds /\ th[w] \in Thread /\ Sound(th[w]) /\ th[w].todo \in SUBSET Event
    BY TypesNext, PlacesNext, IOAssumption DEF Guarded, LocksHeld, Typed, Types, Thread, Places
  <1>2. /\ \A f \in Fds : events(f) # Event /\ events(f) \in SUBSET Event
        /\ \A w \in Workers : th[w].pc = "fire" => th[w].todo \subseteq events(th[w].fd)
        /\ \A w \in Workers : th[w].pc = "fire" \/ Past(th[w]) => th[w].todo # Event
        /\ fault # "null"
    BY DEF OneEvent, events
  <1>a. ASSUME \A f \in Fds : After(f) # Event,
               \A u \in Workers : th'[u].pc = "fire" => th'[u].todo \subseteq After(th'[u].fd),
               \A u \in Workers : th'[u].pc = "fire" \/ Past(th'[u]) => th'[u].todo # Event,
               fault' # "null"
        PROVE  OneEvent'
    BY <1>a DEF OneEvent, events, After, Past
  <1>e. ASSUME UNCHANGED slot PROVE \A f \in Fds : After(f) = events(f)
    BY <1>e DEF events, After
  \* Nothing that is triggered moves, and the waiters stay.
  <1>f. ASSUME UNCHANGED slot, fault' # "null",
               \A u \in Workers : \/ th'[u] = th[u]
                                  \/ ~Holds(th'[u])
                                  \/ /\ Past(th[u]) /\ th'[u].pc # "fire" /\ th'[u].todo = th[u].todo
        PROVE  OneEvent'
    <2>1. \A u \in Workers : th'[u].pc = "fire" => th'[u] = th[u]
      BY <1>f DEF Holds
    <2>2. \A u \in Workers : Past(th'[u]) => th'[u] = th[u] \/ (Past(th[u]) /\ th'[u].todo = th[u].todo)
      BY <1>f DEF Holds
    <2> QED BY <2>1, <2>2, <1>f, <1>e, <1>1, <1>2, <1>a
  <1>3. CASE Aside
    BY <1>3, <1>2, <1>f DEF Aside
  <1>4. ASSUME NEW w \in Workers, Kind(w) PROVE OneEvent'
    <2>1. CASE Quiet(w)
      <3>1. Past(th'[w]) => th'[w].pc # "fire"
        BY DEF Past
      <3>2. fault' # "null"
        BY <2>1, <1>2 DEF Quiet
      <3> QED BY <2>1, <3>1, <3>2, <1>f DEF Quiet, Alone
    <2>2. ASSUME NEW f \in Fds, Reused(f) PROVE OneEvent'
      BY <2>2, <1>2, <1>f DEF Reused
    <2>3. ASSUME NEW f \in Fds, NEW e \in Event, Locked(w, f, e) PROVE OneEvent'
      <3>1. fault' # "null" /\ UNCHANGED slot /\ th'[w].pc = "added" /\ Alone(w)
        BY <2>3, <1>2 DEF Locked
      <3> QED BY <3>1, <1>a, <1>e, <1>1, <1>2 DEF Alone, Past
    <2>4. ASSUME NEW f \in Fds, NEW es \in SUBSET Event, Claimed(w, f, es) PROVE OneEvent'
      <3>1. /\ Alone(w) /\ lock[f] = None /\ es \cap events(f) # {} /\ UNCHANGED <<fault, slot>>
            /\ es \subseteq events(f) \/ \E r \in Range(th[w].got) : r.fd = f /\ es = RealEvents(r)
            /\ th'[w].pc = "fire" /\ th'[w].fd = f /\ th'[w].todo = es
        BY <2>4 DEF Claimed
      <3>2. es # Event
        <4>1. ASSUME NEW r \in Range(th[w].got), r.fd = f, es = RealEvents(r) PROVE es # Event
          <5>1. ~Completing(f)
            BY <3>1, <1>1 DEF Completing
          <5>2. ~Double(r)
            BY <4>1, <5>1 DEF NoDoubles
          <5> QED BY <4>1, <5>2, <1>2 DEF RealEvents, Double
        <4>2. CASE es \subseteq events(f)
          BY <4>2, <1>2
        <4> QED BY <3>1, <4>1, <4>2
      <3>3. es \subseteq events(f)
        BY <3>1, <3>2, TwoEvents
      <3> QED BY <3>1, <3>2, <3>3, <1>a, <1>e, <1>1, <1>2 DEF Alone
    <2>5. ASSUME NEW f \in Fds, NEW e \in Event, Deleted(f, e) PROVE OneEvent'
      <3>1. /\ (\A g \in Fds \ {f} : After(g) = events(g)) /\ After(f) = events(f) \ {e}
            /\ UNCHANGED <<fault, th>> /\ lock[f] = None
        BY <2>5, <1>1, EventsChange DEF Deleted
      <3>2. \A u \in Workers : th[u].pc = "fire" => th[u].fd # f
        BY <3>1, <1>1 DEF Holds
      <3>3. \A u \in Workers : th'[u].pc = "fire" => th'[u].todo \subseteq After(th'[u].fd)
        BY <3>1, <3>2, <1>1, <1>2
      <3>4. \A g \in Fds : After(g) # Event
        BY <3>1, <1>2
      <3> QED BY <3>1, <3>3, <3>4, <1>a, <1>2
    <2>6. CASE Added(w)
      <3>1. /\ Alone(w) /\ th[w].pc = "added" /\ ~Holds(th'[w])
            /\ events(th[w].fd) \cup th[w].todo # Event
            /\ \E e \in Event :
                 /\ th[w].todo = {e} /\ slot' = [slot EXCEPT ![th[w].fd][e] = th[w].who]
                 /\ fault' = IF e \in events(th[w].fd) THEN "assert" ELSE fault
        BY <2>6, <1>1, Within, BothSeen
      <3>2. PICK e \in Event : /\ th[w].todo = {e} /\ slot' = [slot EXCEPT ![th[w].fd][e] = th[w].who]
                               /\ fault' \in {"assert", fault}
        BY <3>1
      <3>3. th[w].who # NoJob /\ th[w].fd \in Fds /\ Holds(th[w])
        BY <3>1, <1>1 DEF Sound, Holds
      <3>10. Types
        BY <1>1
      <3>4. /\ \A g \in Fds \ {th[w].fd} : After(g) = events(g)
            /\ After(th[w].fd) = events(th[w].fd) \cup {e}
        BY <3>2, <3>3, <3>10, EventsChange
      <3>5. \A g \in Fds : After(g) # Event
        BY <3>1, <3>2, <3>4, <1>2
      <3>6. \A u \in Workers : th'[u].pc = "fire" \/ Past(th'[u]) => u # w /\ th'[u] = th[u]
        BY <3>1 DEF Alone, Holds
      <3>7. \A u \in Workers : th[u].pc = "fire" /\ u # w => th[u].fd # th[w].fd
        BY <3>3, <1>1 DEF Holds
      <3>8. \A u \in Workers : th'[u].pc = "fire" => th'[u].todo \subseteq After(th'[u].fd)
        BY <3>4, <3>6, <3>7, <1>1, <1>2
      <3>9. fault' # "null"
        BY <3>2, <1>2
      <3> QED BY <3>5, <3>6, <3>8, <3>9, <1>a, <1>2
    <2>7. CASE Fire(w)
      <3> DEFINE e == NextEvent(th[w].todo)
      <3>1. /\ Alone(w) /\ th[w].pc = "fire" /\ th'[w].pc # "fire" /\ th'[w].todo = th[w].todo /\ Holds(th[w])
        BY <2>7, <1>1, Within DEF Holds
      <3>2. slot' = [slot EXCEPT ![th[w].fd][e] = NoJob] /\ e \in Event /\ UNCHANGED fault
        BY <2>7 DEF Fire, Alive, events
      <3> HIDE DEF e
      <3>3. th[w].fd \in Fds
        BY <1>1
      <3>4. /\ \A g \in Fds \ {th[w].fd} : After(g) = events(g)
            /\ After(th[w].fd) = events(th[w].fd) \ {e}
        BY <3>2, <3>3, <1>1, EventsChange
      <3>5. \A g \in Fds : After(g) # Event
        BY <3>2, <3>4, <1>2
      <3>6. \A u \in Workers : th'[u].pc = "fire" => u # w /\ th'[u] = th[u] /\ th[u].fd # th[w].fd
        BY <3>1, <1>1 DEF Alone, Holds
      <3>7. \A u \in Workers : th'[u].pc = "fire" => th'[u].todo \subseteq After(th'[u].fd)
        BY <3>4, <3>6, <1>1, <1>2
      <3>8. \A u \in Workers : th'[u].pc = "fire" \/ Past(th'[u]) => th'[u].todo # Event
        BY <3>1, <1>2 DEF Alone
      <3> QED BY <3>2, <3>5, <3>7, <3>8, <1>a, <1>2
    <2>8. ~FireNull(w)
      <3>1. th[w].pc = "fire" /\ th[w].todo # {} => NextEvent(th[w].todo) \in events(th[w].fd)
        BY <1>1, <1>2, TwoEvents
      <3> QED BY <3>1, <1>1 DEF FireNull, At, Sound
    <2>9. CASE Count(w)
      <3>1. /\ Alone(w) /\ th[w].pc = "count"
            /\ th'[w].todo = th[w].todo \ {NextEvent(th[w].todo)}
            /\ IF th'[w].todo = {} THEN ~Holds(th'[w]) ELSE th'[w].pc = "fire"
        BY <2>9, <1>1, Within
      <3>2. th'[w].todo = {}
        BY <3>1, <1>1, <1>2, TwoEvents DEF Sound, Past
      <3>3. UNCHANGED <<slot, fault>>
        BY <2>9 DEF Count, Alive
      <3> QED BY <3>1, <3>2, <3>3, <1>f, <1>2 DEF Alone
    <2>10. PICK f0 \in Fds, e0 \in Event : TRUE
      BY IOAssumption DEF Event
    <2> QED BY <1>4, <2>1, <2>2, <2>3, <2>4, <2>5, <2>6, <2>7, <2>8, <2>9, <2>10 DEF Kind
  <1> QED BY <1>1, <1>3, <1>4, Kinds

\* The two together are kept by every step.
LEMMA OneKindNext == Guarded /\ OneKind /\ [Next]_vars => OneKind'
  <1> SUFFICES ASSUME Guarded, OneKind, [Next]_vars, ~seen'.both PROVE OneEvent' /\ NoDoubles'
    BY DEF OneKind
  <1>1. OneEvent /\ NoDoubles
    BY BothSeen DEF Guarded, OneKind
  <1> QED BY <1>1, OneEventNext, NoDoublesNext

\* At first nobody waits and nothing is reported.
LEMMA OneKindInit == Init => OneKind
  <1> SUFFICES ASSUME Init PROVE OneEvent /\ NoDoubles
    BY DEF OneKind
  <1>1. /\ \A w \in Workers : th[w].pc = "scan" /\ th[w].got = <<>> /\ ~Past(th[w])
        /\ \A fd \in Fds : events(fd) = {}
        /\ fault = "none" /\ Event # {} /\ Range(<<>>) = {}
    BY DEF Init, Past, events, Event, Range
  <1> QED BY <1>1 DEF OneEvent, NoDoubles

\* An fd that is waited for one event at a time never has an empty context triggered:
\* whatever becomes of an event between epoll_wait() and its handling, the report is
\* skipped or is about a waiter that is there.
THEOREM OneKindAlwaysSafe == Spec => []OneKindSafe
  <1>1. OneKind => OneKindSafe
    BY DEF OneKind, OneEvent, OneKindSafe
  <1> QED BY <1>1, OneKindInit, OneKindNext, GuardedAlways, PTL DEF Spec

-----------------------------------------------------------------------------
(***************************************************************************)
(* The kinds of step, as the pool sees them                                *)
(***************************************************************************)

\* A worker runs a task, or is in idle().
Active(r) == r.cur # NoJob
Idles(r) == r.cur = NoJob /\ r.pc \notin {"scan", "exit"}

\* The counts follow what w does.
Counted(w) ==
  LET r == th[w]
      s == th'[w] IN
  \/ UNCHANGED count /\ (Active(s) <=> Active(r)) /\ (Idles(s) <=> Idles(r))
  \/ count' = [count EXCEPT !.active = @ + 1] /\ ~Active(r) /\ Active(s) /\ ~Idles(r)
  \/ count' = [count EXCEPT !.active = @ - 1] /\ Active(r) /\ ~Active(s) /\ ~Idles(s)
  \/ count' = [count EXCEPT !.idle = @ + 1] /\ ~Idles(r) /\ Idles(s) /\ ~Active(r)
  \/ count' = [count EXCEPT !.idle = @ - 1] /\ Idles(r) /\ ~Idles(s) /\ ~Active(s)

\* No event is registered by the step.
Fewer == \A fd \in Fds : After(fd) \subseteq events(fd)
\* Some worker's idle fiber has ended.
SomeoneLeft == \E u \in Workers : th[u].term

\* What a step of w does to the counts, the list and the way out.
Walk(w) ==
  /\ Alone(w) /\ Counted(w)
  \* Only the check of stopping() ends an idle fiber, and only a count of 0 leads to it.
  /\ th'[w].term => \/ th[w].term
                    \/ th[w].pc = "check" /\ Stopping /\ UNCHANGED tasks /\ th'[w].cur = th[w].cur
  /\ th'[w].pc = "check" => th[w].pc = "check" \/ (fault = "none" /\ pending = 0)
  \* After that nothing begins that is not noted as late.
  /\ th[w].cur = NoJob /\ tasks = <<>> /\ SomeoneLeft /\ ~seen'.late => tasks' = <<>> /\ th'[w].cur = NoJob
  /\ seen.late => seen'.late
  \* Only a body registers events.
  /\ Fewer \/ (th[w].cur # NoJob /\ th'[w].term = th[w].term /\ th'[w].pc # "check")

\* A step of nobody, or one that moves no worker.
StandStill == UNCHANGED <<th, count, tasks>> /\ seen'.late = seen.late /\ Fewer

\* Every step leaves the workers alone or is a walk of one of them.
LEMMA Walks ==
  ASSUME Typed, [Next]_vars
  PROVE  StandStill \/ \E w \in Workers : Walk(w)
  <1> USE DEF Alive
  <1>1. /\ Types /\ Types' /\ NoJob \notin Jobs
        /\ \A w \in Workers : th[w] \in Thread /\ th'[w] \in Thread /\ Sound(th[w])
    BY TypesNext, IOAssumption DEF Typed, Types, Places
  <1>b. ASSUME NEW w \in Workers, NEW r, Become(w, r) PROVE th'[w] = r /\ Alone(w)
    BY <1>b, <1>1 DEF Become, Types, Alone
  <1>n. Noted.late = seen.late /\ \A b : [seen EXCEPT !.late = b].late = b
    BY <1>1 DEF Noted, Types, Seen
  <1>e. UNCHANGED slot => Fewer
    BY DEF Fewer, events, After
  \* A worker that goes on with what it does, is no nearer its end and schedules nothing.
  <1>q. ASSUME NEW w \in Workers, Alone(w), th'[w].cur = th[w].cur, th'[w].term = th[w].term,
               th'[w].pc \notin {"scan", "exit", "check"},
               th[w].pc \notin {"scan", "exit"}, UNCHANGED <<slot, count, tasks>>, seen.late => seen'.late
        PROVE  Walk(w)
    <2>1. Counted(w)
      BY <1>q DEF Counted, Active, Idles
    <2> QED BY <2>1, <1>q, <1>e DEF Walk
  <1>2. ASSUME NEW w \in Workers, Take(w) PROVE Walk(w)
    <2>1. PICK i \in DOMAIN tasks : Become(w, [Then(w, i < Len(tasks), "body") EXCEPT !.cur = tasks[i]])
      BY <1>2 DEF Take
    <2>2. tasks[i] # NoJob /\ tasks # <<>>
      <3>1. tasks \in Seq(Jobs) /\ i \in 1..Len(tasks)
        BY <1>1, LenProperties DEF Types
      <3>2. tasks[i] \in Jobs
        BY <3>1, ElementOfSeq
      <3>3. tasks # <<>>
        BY <3>1, EmptySeq
      <3> QED BY <3>2, <3>3, <1>1
    <2>3. Alone(w) /\ th'[w] = [Then(w, i < Len(tasks), "body") EXCEPT !.cur = tasks[i]]
      BY <2>1, <1>b
    <2>4. th'[w].cur = tasks[i] /\ th'[w].term = th[w].term /\ th'[w].pc \in {"tickle", "body"}
      BY <2>3, <1>1 DEF Then, Thread
    <2>5. th[w].pc = "scan" /\ th[w].cur = NoJob
      BY <1>2, <1>1 DEF Take, At, Sound
    <2>6. /\ count' = [count EXCEPT !.active = @ + 1] /\ UNCHANGED <<slot, seen>>
      BY <1>2 DEF Take, ctx
    <2>7. Counted(w)
      BY <2>2, <2>4, <2>5, <2>6 DEF Counted, Active, Idles
    <2> QED BY <2>2, <2>3, <2>4, <2>6, <2>7, <1>e DEF Walk
  <1>3. ASSUME NEW w \in Workers, TakeNothing(w) PROVE Walk(w)
    <2> DEFINE p == IF th[w].term THEN "exit" ELSE "idle"
    <2>1. Become(w, [th[w] EXCEPT !.pc = p])
      BY <1>3 DEF TakeNothing, Goto
    <2>2. Alone(w) /\ th'[w] = [th[w] EXCEPT !.pc = p]
      BY <2>1, <1>b
    <2>3. th'[w].pc = p /\ th'[w].cur = th[w].cur /\ th'[w].term = th[w].term
      BY <2>2, <1>1 DEF Thread
    <2>4. th[w].pc = "scan" /\ th[w].cur = NoJob
      BY <1>3, <1>1 DEF TakeNothing, At, Sound
    <2>5. /\ count' = IF th[w].term THEN count ELSE [count EXCEPT !.idle = @ + 1]
          /\ UNCHANGED <<slot, seen, tasks>>
      BY <1>3 DEF TakeNothing, ctx
    <2>6. Counted(w)
      BY <2>3, <2>4, <2>5 DEF Counted, Active, Idles
    <2> QED BY <2>2, <2>3, <2>4, <2>5, <2>6, <1>e DEF Walk
  <1>4. ASSUME NEW w \in Workers, Tickle(w) \/ Write(w) PROVE Walk(w)
    <2>1. PICK r \in {[th[w] EXCEPT !.pc = th[w].back, !.back = "scan"], [th[w] EXCEPT !.pc = "write"]} :
            Become(w, r)
      BY <1>4 DEF Tickle, Write, Goto, Then
    <2>2. th[w].pc \in {"tickle", "write"} /\ th[w].back \in {"body", "count"}
      BY <1>4, <1>1 DEF Tickle, Write, At, Sound
    <2>3. Alone(w) /\ th'[w] = r
      BY <2>1, <1>b
    <2>4. /\ th'[w].cur = th[w].cur /\ th'[w].term = th[w].term
          /\ th'[w].pc \in {"body", "count", "write"}
      BY <2>2, <2>3, <1>1 DEF Thread
    <2>5. UNCHANGED <<slot, count, tasks, seen>>
      BY <1>4 DEF Tickle, Write, ctx, sched
    <2> QED BY <2>2, <2>3, <2>4, <2>5, <1>q
  <1>5. ASSUME NEW w \in Workers, NEW j \in Jobs, Spawn(w, j) PROVE Walk(w)
    <2>1. Become(w, Then(w, tasks = <<>>, "body")) /\ th[w].pc = "body"
      BY <1>5 DEF Spawn, Schedule, Calls, At
    <2>2. Alone(w) /\ th'[w] = Then(w, tasks = <<>>, "body") /\ th[w].cur # NoJob
      BY <2>1, <1>b, <1>1 DEF Sound, Busy
    <2>3. th'[w].cur = th[w].cur /\ th'[w].term = th[w].term /\ th'[w].pc \in {"tickle", "body"}
      BY <2>2, <1>1 DEF Then, Thread
    <2>4. UNCHANGED <<slot, count>> /\ seen' = Noted
      BY <1>5 DEF Spawn, ctx
    <2>5. Counted(w)
      BY <2>1, <2>3, <2>4 DEF Counted, Active, Idles
    <2> QED BY <2>2, <2>3, <2>4, <2>5, <1>e, <1>n DEF Walk
  <1>6. ASSUME NEW w \in Workers, End(w) \/ Sleep(w) \/ Yield(w) PROVE Walk(w)
    <2>1. /\ Become(w, [th[w] EXCEPT !.pc = "scan", !.cur = NoJob]) /\ th[w].pc \in {"body", "yield"}
          /\ count' = [count EXCEPT !.active = @ - 1] /\ UNCHANGED <<slot, tasks>>
          /\ seen' \in {seen, Noted}
      BY <1>6 DEF End, Sleep, Yield, Leave, Calls, At, ctx
    <2>2. Alone(w) /\ th'[w] = [th[w] EXCEPT !.pc = "scan", !.cur = NoJob] /\ th[w].cur # NoJob
      BY <2>1, <1>b, <1>1 DEF Sound, Busy
    <2>3. th'[w].cur = NoJob /\ th'[w].term = th[w].term /\ th'[w].pc = "scan"
      BY <2>2, <1>1 DEF Thread
    <2>4. Counted(w)
      BY <2>1, <2>2, <2>3 DEF Counted, Active, Idles
    <2> QED BY <2>1, <2>2, <2>3, <2>4, <1>e, <1>n DEF Walk
  <1>7. ASSUME NEW w \in Workers, NEW fd, NEW e, NEW j, AddLocked(w, fd, e, j),
               th[w].pc \in {"body", "grow"}, UNCHANGED <<slot, count, tasks>>, seen.late => seen'.late
        PROVE  Walk(w)
    <2>1. PICK r \in {[th[w] EXCEPT !.pc = "added", !.fd = fd, !.todo = {e}, !.who = j],
                      [th[w] EXCEPT !.pc = "body", !.who = NoJob, !.todo = {}]} : Become(w, r)
      BY <1>7 DEF AddLocked
    <2>2. Alone(w) /\ th'[w] = r
      BY <2>1, <1>b
    <2>3. th'[w].cur = th[w].cur /\ th'[w].term = th[w].term /\ th'[w].pc \in {"added", "body"}
      BY <2>2, <1>1 DEF Thread
    <2> QED BY <2>2, <2>3, <1>7, <1>q
  <1>8. ASSUME NEW w \in Workers, NEW fd \in Fds, NEW e \in Event, NEW j \in Jobs, AddEvent(w, fd, e, j)
        PROVE  Walk(w)
    <2>1. th[w].pc = "body" /\ UNCHANGED <<slot, count, tasks>> /\ seen' = Noted
      BY <1>8 DEF AddEvent, Calls, At, sched
    <2>2. CASE size > fd
      BY <1>8, <2>1, <2>2, <1>7, <1>n DEF AddEvent
    <2>3. CASE ~(size > fd)
      <3>1. Become(w, [th[w] EXCEPT !.pc = "grow", !.fd = fd, !.todo = {e}, !.who = j])
        BY <1>8, <2>3 DEF AddEvent
      <3>2. Alone(w) /\ th'[w] = [th[w] EXCEPT !.pc = "grow", !.fd = fd, !.todo = {e}, !.who = j]
        BY <3>1, <1>b
      <3>3. th'[w].cur = th[w].cur /\ th'[w].term = th[w].term /\ th'[w].pc = "grow"
        BY <3>2, <1>1 DEF Thread
      <3> QED BY <2>1, <3>2, <3>3, <1>q, <1>n
    <2> QED BY <2>2, <2>3
  <1>9. ASSUME NEW w \in Workers, Grow(w) PROVE Walk(w)
    <2>1. UNCHANGED <<slot, count, tasks, seen>> /\ th[w].pc = "grow"
      BY <1>9 DEF Grow, At, sched
    <2>2. AddLocked(w, th[w].fd, CHOOSE e \in Event : e \in th[w].todo, th[w].who)
      BY <1>9 DEF Grow
    <2> QED BY <2>1, <2>2, <1>7
  <1>10. ASSUME NEW w \in Workers, Added(w) PROVE Walk(w)
    <2>1. PICK p \in {"yield", "body"} : Become(w, [th[w] EXCEPT !.pc = p, !.who = NoJob, !.todo = {}])
      BY <1>10 DEF Added
    <2>2. Alone(w) /\ th'[w] = [th[w] EXCEPT !.pc = p, !.who = NoJob, !.todo = {}]
      BY <2>1, <1>b
    <2>3. th'[w].cur = th[w].cur /\ th'[w].term = th[w].term /\ th'[w].pc = p
      BY <2>2, <1>1 DEF Thread
    <2>4. th[w].pc = "added" /\ th[w].cur # NoJob
      BY <1>10, <1>1 DEF Added, At, Sound, Busy
    <2>5. UNCHANGED <<count, tasks>> /\ seen'.late = seen.late
      BY <1>10, <1>1 DEF Added, sched, Types, Seen
    <2>6. Counted(w)
      BY <2>3, <2>4, <2>5 DEF Counted, Active, Idles
    <2> QED BY <2>2, <2>3, <2>4, <2>5, <2>6 DEF Walk
  <1>11. ASSUME NEW w \in Workers, NEW fd, NEW es, Cancel(w, fd, es) PROVE Walk(w)
    <2>1. Alone(w) /\ th'[w] = [th[w] EXCEPT !.pc = "fire", !.fd = fd, !.todo = es]
      BY <1>11, <1>b DEF Cancel
    <2>2. th'[w].cur = th[w].cur /\ th'[w].term = th[w].term /\ th'[w].pc = "fire"
      BY <2>1, <1>1 DEF Thread
    <2>3. th[w].pc = "body" /\ UNCHANGED <<slot, count, tasks>> /\ seen' = Noted
      BY <1>11 DEF Cancel, Calls, At, sched
    <2> QED BY <2>1, <2>2, <2>3, <1>q, <1>n
  <1>12. ASSUME NEW w \in Workers, Fire(w) PROVE Walk(w)
    <2>1. Alone(w) /\ th'[w] = Then(w, tasks = <<>>, "count")
      BY <1>12, <1>b DEF Fire, Schedule
    <2>2. th'[w].cur = th[w].cur /\ th'[w].term = th[w].term /\ th'[w].pc \in {"tickle", "count"}
      BY <2>1, <1>1 DEF Then, Thread
    <2>3. th[w].pc = "fire" /\ UNCHANGED count
      BY <1>12 DEF Fire, At
    <2>4. seen'.late = (seen.late \/ SomeoneLeft)
      BY <1>12, <1>n DEF Fire, SomeoneLeft
    <2>5. Fewer
      <3>1. /\ slot' = [slot EXCEPT ![th[w].fd][NextEvent(th[w].todo)] = NoJob]
            /\ NextEvent(th[w].todo) \in Event
        BY <1>12 DEF Fire, events
      <3>2. th[w].fd \in Fds
        BY <1>1 DEF Thread
      <3>3. /\ \A f \in Fds \ {th[w].fd} : After(f) = events(f)
            /\ After(th[w].fd) = events(th[w].fd) \ {NextEvent(th[w].todo)}
        BY <3>1, <3>2, <1>1, EventsChange
      <3> QED BY <3>3 DEF Fewer
    <2>6. Counted(w)
      BY <2>2, <2>3 DEF Counted, Active, Idles
    <2> QED BY <2>1, <2>2, <2>4, <2>5, <2>6 DEF Walk
  <1>13. ASSUME NEW w \in Workers, Count(w) PROVE Walk(w)
    <2> DEFINE rest == th[w].todo \ {NextEvent(th[w].todo)}
               p == IF rest # {} THEN "fire" ELSE IF th[w].cur = NoJob THEN "event" ELSE "body"
    <2>1. Alone(w) /\ th'[w] = [th[w] EXCEPT !.todo = rest, !.pc = p]
      BY <1>13, <1>b DEF Count
    <2>2. th'[w].cur = th[w].cur /\ th'[w].term = th[w].term /\ th'[w].pc = p
      BY <2>1, <1>1 DEF Thread
    <2>3. th[w].pc = "count" /\ UNCHANGED <<slot, count, tasks, seen>>
      BY <1>13 DEF Count, At, sched
    <2> QED BY <2>1, <2>2, <2>3, <1>q
  <1>14. ASSUME NEW w \in Workers, IdleRead(w) PROVE Walk(w)
    <2> DEFINE p == IF pending = 0 THEN "check" ELSE "wait"
    <2>1. Alone(w) /\ th'[w] = [th[w] EXCEPT !.pc = p]
      BY <1>14, <1>b DEF IdleRead, Goto
    <2>2. th'[w].cur = th[w].cur /\ th'[w].term = th[w].term /\ th'[w].pc = p
      BY <2>1, <1>1 DEF Thread
    <2>3. th[w].pc = "idle" /\ fault = "none" /\ UNCHANGED <<slot, count, tasks, seen>>
      BY <1>14 DEF IdleRead, At, ctx, sched
    <2>4. Counted(w)
      BY <2>2, <2>3 DEF Counted, Active, Idles
    <2> QED BY <2>1, <2>2, <2>3, <2>4, <1>e DEF Walk
  <1>15. ASSUME NEW w \in Workers, IdleCheck(w) PROVE Walk(w)
    <2> DEFINE p == IF Stopping THEN "leave" ELSE "wait"
    <2>1. Alone(w) /\ th'[w] = [th[w] EXCEPT !.pc = p, !.term = Stopping]
      BY <1>15, <1>b DEF IdleCheck
    <2>2. th'[w].cur = th[w].cur /\ th'[w].term = Stopping /\ th'[w].pc = p
      BY <2>1, <1>1 DEF Thread
    <2>3. th[w].pc = "check" /\ UNCHANGED <<slot, count, tasks, seen>>
      BY <1>15 DEF IdleCheck, At, ctx, sched
    <2>4. Counted(w)
      BY <2>2, <2>3 DEF Counted, Active, Idles
    <2> QED BY <2>1, <2>2, <2>3, <2>4, <1>e DEF Walk
  <1>16. ASSUME NEW w \in Workers, EpollWait(w) PROVE Walk(w)
    <2>1. PICK s \in SetToSeqs(Reports) : Become(w, [th[w] EXCEPT !.pc = "expire", !.got = s])
      BY <1>16 DEF EpollWait
    <2>2. Alone(w) /\ th'[w] = [th[w] EXCEPT !.pc = "expire", !.got = s]
      BY <2>1, <1>b
    <2>3. th'[w].cur = th[w].cur /\ th'[w].term = th[w].term /\ th'[w].pc = "expire"
      BY <2>2, <1>1 DEF Thread
    <2>4. th[w].pc = "wait" /\ UNCHANGED <<slot, count, tasks, seen>>
      BY <1>16 DEF EpollWait, At, ctx, sched
    <2> QED BY <2>2, <2>3, <2>4, <1>q
  <1>17. ASSUME NEW w \in Workers, Expire(w) PROVE Walk(w)
    <2>1. Alone(w) /\ th'[w] = [th[w] EXCEPT !.pc = "event"]
      BY <1>17, <1>b DEF Expire, Goto
    <2>2. th'[w].cur = th[w].cur /\ th'[w].term = th[w].term /\ th'[w].pc = "event"
      BY <2>1, <1>1 DEF Thread
    <2>3. th[w].pc = "expire" /\ UNCHANGED <<slot, count>>
      BY <1>17 DEF Expire, At, ctx
    <2>4. PICK S \in SUBSET {j \in Jobs : life[j] = "asleep"} :
            /\ \E s \in SetToSeqs(S) : tasks' = tasks \o s
            /\ seen' = [seen EXCEPT !.late = @ \/ (S # {} /\ \E u \in Workers : th[u].term)]
      BY <1>17 DEF Expire
    <2>5. seen'.late = (seen.late \/ (S # {} /\ SomeoneLeft))
      BY <2>4, <1>n DEF SomeoneLeft
    <2>6. S = {} => tasks' = tasks
      <3>1. ASSUME S = {}, NEW s \in SetToSeqs(S) PROVE s = <<>>
        <4>1. s \in Seq({})
          BY <3>1, FS_EmptySet, OrderIsSeq
        <4> QED BY <4>1, EmptySeq, LenProperties, ElementOfSeq
      <3>2. tasks \o <<>> = tasks
        BY <1>1, ConcatEmptySeq DEF Types
      <3> QED BY <2>4, <3>1, <3>2
    <2>7. Counted(w)
      BY <2>2, <2>3 DEF Counted, Active, Idles
    <2> QED BY <2>1, <2>2, <2>3, <2>5, <2>6, <2>7, <1>e DEF Walk
  <1>18. ASSUME NEW w \in Workers, Handle(w) \/ HandlePipe(w) PROVE Walk(w)
    <2> DEFINE r == Head(th[w].got)
    <2>1. PICK s \in {[th[w] EXCEPT !.pc = "fire", !.fd = r.fd, !.todo = RealEvents(r), !.got = Tail(@)],
                      [th[w] EXCEPT !.got = Tail(@)]} : Become(w, s)
      BY <1>18 DEF Handle, HandlePipe
    <2>2. th[w].pc = "event" /\ UNCHANGED <<slot, count, tasks, seen>>
      BY <1>18 DEF Handle, HandlePipe, At, ctx, sched
    <2>3. Alone(w) /\ th'[w] = s
      BY <2>1, <1>b
    <2> HIDE DEF r
    <2>4. th'[w].cur = th[w].cur /\ th'[w].term = th[w].term /\ th'[w].pc \in {"fire", "event"}
      BY <2>2, <2>3, <1>1 DEF Thread
    <2> QED BY <2>2, <2>3, <2>4, <1>q
  <1>19. ASSUME NEW w \in Workers, IdleLeave(w) PROVE Walk(w)
    <2>1. Alone(w) /\ th'[w] = [th[w] EXCEPT !.pc = "scan"]
      BY <1>19, <1>b DEF IdleLeave, Goto
    <2>2. th'[w].cur = th[w].cur /\ th'[w].term = th[w].term /\ th'[w].pc = "scan"
      BY <2>1, <1>1 DEF Thread
    <2>3. /\ th[w].pc \in {"leave", "event"} /\ th[w].cur = NoJob /\ UNCHANGED <<slot, tasks, seen>>
          /\ count' = [count EXCEPT !.idle = @ - 1]
      BY <1>19, <1>1 DEF IdleLeave, At, ctx, Sound, Idling
    <2>4. Counted(w)
      BY <2>2, <2>3 DEF Counted, Active, Idles
    <2> QED BY <2>1, <2>2, <2>3, <2>4, <1>e DEF Walk
  <1>20. ASSUME NEW w \in Workers, NEW fd \in Fds, NEW e \in Event,
                Drain(w, fd, e) \/ Reuse(w, fd) \/ FireNull(w)
         PROVE  StandStill
    <2>1. UNCHANGED <<th, count, tasks, slot>>
      BY <1>20 DEF Drain, Reuse, FireNull, ctx, sched
    <2>2. seen'.late = seen.late
      BY <1>20, <1>1 DEF Drain, Reuse, FireNull, Noted, Types, Seen
    <2> QED BY <2>1, <2>2, <1>e DEF StandStill
  <1>21. ASSUME NEW w \in Workers, NEW fd \in Fds, NEW e \in Event, DelEvent(w, fd, e) PROVE StandStill
    <2>1. UNCHANGED <<th, count, tasks>> /\ slot' = [slot EXCEPT ![fd][e] = NoJob] /\ seen' = Noted
      BY <1>21 DEF DelEvent, sched
    <2>2. Fewer
      BY <2>1, <1>1, EventsChange DEF Fewer
    <2> QED BY <2>1, <2>2, <1>n DEF StandStill
  <1>22. ASSUME NEW w \in Workers, RunStep(w) PROVE Walk(w)
    BY <1>22, <1>2, <1>3, <1>4 DEF RunStep
  <1>23. ASSUME NEW w \in Workers, IdleStep(w) PROVE Walk(w)
    BY <1>23, <1>14, <1>15, <1>16, <1>17, <1>18, <1>19 DEF IdleStep
  <1>24. ASSUME NEW w \in Workers, BodyStep(w) PROVE Walk(w) \/ StandStill
    <2>1. PICK fd0 \in Fds, e0 \in Event : TRUE
      BY IOAssumption DEF Event
    <2> QED BY <2>1, <1>24, <1>5, <1>6, <1>8, <1>9, <1>10, <1>11, <1>12, <1>13, <1>20, <1>21
               DEF BodyStep, CancelEvent, CancelAll
  <1>25. ASSUME NEW fd \in Fds, NEW c \in Condition, Ready(fd, c) PROVE StandStill
    BY <1>25, <1>e DEF Ready, StandStill, ctx, sched
  <1>26. CASE Stop \/ UNCHANGED vars
    BY <1>26, <1>e DEF Stop, vars, StandStill, ctx, sched
  <1> QED BY <1>22, <1>23, <1>24, <1>25, <1>26 DEF Next, WorkerStep, Faulted

-----------------------------------------------------------------------------
(***************************************************************************)
(* The counts of threads                                                   *)
(***************************************************************************)

\* The counts are the numbers of workers in either camp.
Running == {w \in Workers : Active(th[w])}
Waiting == {w \in Workers : Idles(th[w])}
CountsExact == count.active = Cardinality(Running) /\ count.idle = Cardinality(Waiting)

\* Sets of workers are finite, and one worker more or less counts as one.
LEMMA WorkersFinite ==
  ASSUME NEW S \in SUBSET Workers
  PROVE  /\ IsFiniteSet(S) /\ Cardinality(S) \in Nat
         /\ \A w \in Workers : /\ w \notin S => Cardinality(S \cup {w}) = Cardinality(S) + 1
                               /\ w \in S => Cardinality(S \ {w}) = Cardinality(S) - 1
  <1>1. IsFiniteSet(S)
    BY IOAssumption, FS_Subset
  <1> QED BY <1>1, FS_CardinalityType, FS_AddElement, FS_RemoveElement

\* run() and idle() change a count when, and only when, their worker changes camp.
LEMMA CountsNext == Typed /\ CountsExact /\ [Next]_vars => CountsExact'
  <1> SUFFICES ASSUME Typed, CountsExact, [Next]_vars PROVE CountsExact'
    OBVIOUS
  <1> DEFINE R == {w \in Workers : Active(th'[w])}
             W == {w \in Workers : Idles(th'[w])}
  <1>1. Running' = R /\ Waiting' = W /\ count \in [active : Int, idle : Int]
    BY DEF Running, Waiting, Active, Idles, Typed, Types, Counter
  <1>x. ASSUME count'.active = Cardinality(R), count'.idle = Cardinality(W) PROVE CountsExact'
    BY <1>x, <1>1 DEF CountsExact
  <1>2. /\ Running \in SUBSET Workers /\ Waiting \in SUBSET Workers
        /\ count.active = Cardinality(Running) /\ count.idle = Cardinality(Waiting)
    BY DEF Running, Waiting, CountsExact
  <1>3. CASE StandStill
    <2>1. R = Running /\ W = Waiting /\ UNCHANGED count
      BY <1>3 DEF StandStill, Running, Waiting
    <2> QED BY <2>1, <1>2, <1>x
  <1>4. ASSUME NEW w \in Workers, Walk(w) PROVE CountsExact'
    <2> DEFINE r == th[w]
               s == th'[w]
    <2>1. \A u \in Workers \ {w} : th'[u] = th[u]
      BY <1>4 DEF Walk, Alone
    <2>2. /\ R = IF Active(s) THEN Running \cup {w} ELSE Running \ {w}
          /\ W = IF Idles(s) THEN Waiting \cup {w} ELSE Waiting \ {w}
          /\ w \in Running <=> Active(r)
          /\ w \in Waiting <=> Idles(r)
      BY <2>1 DEF Running, Waiting
    <2>3. ~(Active(s) /\ Idles(s)) /\ ~(Active(r) /\ Idles(r))
      BY DEF Active, Idles
    <2>4. Counted(w)
      BY <1>4 DEF Walk
    <2>5. CASE UNCHANGED count /\ (Active(s) <=> Active(r)) /\ (Idles(s) <=> Idles(r))
      <3>1. R = Running /\ W = Waiting
        BY <2>2, <2>5
      <3> QED BY <3>1, <2>5, <1>2, <1>x
    <2>6. CASE count' = [count EXCEPT !.active = @ + 1] /\ ~Active(r) /\ Active(s) /\ ~Idles(r)
      <3>1. R = Running \cup {w} /\ w \notin Running /\ W = Waiting
        BY <2>2, <2>3, <2>6
      <3>2. Cardinality(R) = Cardinality(Running) + 1
        BY <3>1, <1>2, WorkersFinite
      <3> QED BY <3>1, <3>2, <2>6, <1>1, <1>2, <1>x
    <2>7. CASE count' = [count EXCEPT !.active = @ - 1] /\ Active(r) /\ ~Active(s) /\ ~Idles(s)
      <3>1. R = Running \ {w} /\ w \in Running /\ W = Waiting
        BY <2>2, <2>3, <2>7
      <3>2. Cardinality(R) = Cardinality(Running) - 1
        BY <3>1, <1>2, WorkersFinite
      <3> QED BY <3>1, <3>2, <2>7, <1>1, <1>2, <1>x
    <2>8. CASE count' = [count EXCEPT !.idle = @ + 1] /\ ~Idles(r) /\ Idles(s) /\ ~Active(r)
      <3>1. W = Waiting \cup {w} /\ w \notin Waiting /\ R = Running
        BY <2>2, <2>3, <2>8
      <3>2. Cardinality(W) = Cardinality(Waiting) + 1
        BY <3>1, <1>2, WorkersFinite
      <3> QED BY <3>1, <3>2, <2>8, <1>1, <1>2, <1>x
    <2>9. CASE count' = [count EXCEPT !.idle = @ - 1] /\ Idles(r) /\ ~Idles(s) /\ ~Active(s)
      <3>1. W = Waiting \ {w} /\ w \in Waiting /\ R = Running
        BY <2>2, <2>3, <2>9
      <3>2. Cardinality(W) = Cardinality(Waiting) - 1
        BY <3>1, <1>2, WorkersFinite
      <3> QED BY <3>1, <3>2, <2>9, <1>1, <1>2, <1>x
    <2> QED BY <2>4, <2>5, <2>6, <2>7, <2>8, <2>9 DEF Counted
  <1> QED BY <1>3, <1>4, Walks

\* Nobody runs and nobody idles at first.
LEMMA CountsInit == Init => CountsExact
  <1> SUFFICES ASSUME Init PROVE CountsExact
    OBVIOUS
  <1>1. Running = {} /\ Waiting = {} /\ count.active = 0 /\ count.idle = 0
    BY DEF Init, Running, Waiting, Active, Idles
  <1> QED BY <1>1, FS_EmptySet DEF CountsExact

\* All that is known of every reachable state so far.
Sane == Guarded /\ Exact /\ CountsExact

\* All of it holds at all times.
THEOREM SaneAlways == Spec => []Sane
  <1>1. Init => Exact /\ CountsExact
    BY ExactInit, CountsInit
  <1>2. Guarded /\ Exact /\ CountsExact /\ [Next]_vars => Exact' /\ CountsExact'
    BY ExactNext, CountsNext DEF Guarded
  <1> QED BY <1>1, <1>2, GuardedAlways, PTL DEF Spec, Sane

\* Every variable has its type; in particular m_pendingEventCount and the two thread
\* counts, which are only ever added to and subtracted from, never go below zero.
THEOREM TypeAlwaysOK == Spec => []TypeOK
  <1>1. Sane => TypeOK
    <2> SUFFICES ASSUME Sane PROVE TypeOK
      OBVIOUS
    <2>1. Types /\ Flags /\ pending \in Nat
      BY DEF Sane, Guarded, Typed, Exact
    <2>2. Running \in SUBSET Workers /\ Waiting \in SUBSET Workers
      BY DEF Running, Waiting
    <2>3. count \in [active : Nat, idle : Nat]
      BY <2>1, <2>2, WorkersFinite DEF Types, Counter, Sane, CountsExact
    <2> QED BY <2>1, <2>3 DEF Types, Flags, TypeOK, Seen, Slots, Life
  <1> QED BY <1>1, SaneAlways, PTL

-----------------------------------------------------------------------------
(***************************************************************************)
(* Somebody is left                                                        *)
(***************************************************************************)

\* Once an idle fiber has ended nothing runs and nothing is scheduled.  As long as an
\* event is registered, some worker is neither past the check of stopping() nor at it.
Leaving == ~seen.late /\ SomeoneLeft => tasks = <<>> /\ \A u \in Workers : th[u].cur = NoJob
Watcher == ~seen.late /\ Registered # {} => \E u \in Workers : ~th[u].term /\ th[u].pc # "check"

\* stopping() is true only with an empty list and no active thread; then only what
\* is scheduled from outside, which is noted as late, can begin again.
LEMMA LeavingNext == Sane /\ Leaving /\ [Next]_vars => Leaving'
  <1> SUFFICES ASSUME Sane, Leaving, [Next]_vars, ~seen'.late, NEW u \in Workers, th'[u].term
               PROVE  tasks' = <<>> /\ \A v \in Workers : th'[v].cur = NoJob
    BY DEF Leaving, SomeoneLeft
  <1>1. Typed
    BY DEF Sane, Guarded
  <1>2. CASE StandStill
    BY <1>2 DEF StandStill, Leaving, SomeoneLeft
  <1>3. ASSUME NEW w \in Workers, Walk(w)
        PROVE  tasks' = <<>> /\ \A v \in Workers : th'[v].cur = NoJob
    <2>1. ~seen.late /\ \A v \in Workers \ {w} : th'[v] = th[v]
      BY <1>3 DEF Walk, Alone
    <2>2. CASE SomeoneLeft
      <3>1. tasks = <<>> /\ \A v \in Workers : th[v].cur = NoJob
        BY <2>1, <2>2 DEF Leaving
      <3>2. tasks' = <<>> /\ th'[w].cur = NoJob
        BY <3>1, <2>2, <1>3 DEF Walk
      <3> QED BY <3>1, <3>2, <2>1
    <2>3. CASE ~SomeoneLeft
      <3>1. u = w
        BY <2>1, <2>3 DEF SomeoneLeft
      <3>2. Stopping /\ UNCHANGED tasks /\ th'[w].cur = th[w].cur
        BY <3>1, <2>3, <1>3 DEF Walk, SomeoneLeft
      <3>3. Cardinality(Running) = 0 /\ IsFiniteSet(Running)
        <4>1. Running \in SUBSET Workers
          BY DEF Running
        <4> QED BY <4>1, <3>2, WorkersFinite DEF Stopping, Sane, CountsExact
      <3>4. Running = {}
        BY <3>3, FS_EmptySet
      <3>5. \A v \in Workers : th[v].cur = NoJob
        BY <3>4 DEF Running, Active
      <3> QED BY <3>2, <3>5, <2>1 DEF Stopping
    <2> QED BY <2>2, <2>3
  <1> QED BY <1>1, <1>2, <1>3, Walks

\* The worker whose body registers an event does not leave in that step; and none
\* comes to the check of stopping() while an event is registered.
LEMMA WatcherNext == Sane /\ Leaving /\ Watcher /\ [Next]_vars => Watcher'
  <1> SUFFICES ASSUME Sane, Leaving, Watcher, [Next]_vars, ~seen'.late, Registered' # {}
               PROVE  \E u \in Workers : ~th'[u].term /\ th'[u].pc # "check"
    BY DEF Watcher
  <1>1. Typed
    BY DEF Sane, Guarded
  <1>e. Fewer => Registered # {}
    <2>1. Registered' = {p \in Fds \X Event : p[2] \in After(p[1])}
      BY DEF Registered, events, After
    <2> QED BY <2>1 DEF Fewer, Registered
  <1>2. CASE StandStill
    BY <1>2, <1>e DEF StandStill, Watcher
  <1>3. ASSUME NEW w \in Workers, Walk(w)
        PROVE  \E u \in Workers : ~th'[u].term /\ th'[u].pc # "check"
    <2>1. ~seen.late /\ \A v \in Workers \ {w} : th'[v] = th[v]
      BY <1>3 DEF Walk, Alone
    <2>2. CASE Fewer
      <3>1. Registered # {}
        BY <2>2, <1>e
      <3>2. PICK u \in Workers : ~th[u].term /\ th[u].pc # "check"
        BY <3>1, <2>1 DEF Watcher
      <3>3. CASE u # w
        BY <3>2, <3>3, <2>1
      <3>4. CASE u = w
        <4>1. ~th'[w].term
          BY <3>2, <3>4, <1>3 DEF Walk
        <4>2. fault = "none" => pending # 0
          <5>1. /\ IsFiniteSet(Registered) /\ Cardinality(Registered) \in Nat
                /\ Cardinality(Counting) \in Nat
            BY <1>1, CountedFinite
          <5>2. Cardinality(Registered) # 0
            BY <3>1, <5>1, FS_EmptySet
          <5> QED BY <5>1, <5>2 DEF Sane, Exact, PendingExact
        <4>3. th'[w].pc # "check"
          BY <3>2, <3>4, <4>2, <1>3 DEF Walk
        <4> QED BY <4>1, <4>3
      <3> QED BY <3>3, <3>4
    <2>3. CASE th[w].cur # NoJob /\ th'[w].term = th[w].term /\ th'[w].pc # "check"
      <3>1. ~th[w].term
        BY <2>1, <2>3 DEF Leaving, SomeoneLeft
      <3> QED BY <2>3, <3>1
    <2> QED BY <2>2, <2>3, <1>3 DEF Walk
  <1> QED BY <1>1, <1>2, <1>3, Walks

\* As long as an event is registered, not every worker has left: although stopping()
\* reads the count before it asks whether the scheduler is stopping, a body that adds
\* an event in between keeps its own worker from leaving.  (What is scheduled into a
\* pool that is leaving is excepted.)
THEOREM AlwaysAttended == Spec => []Attended
  <1>1. Init => Leaving /\ Watcher
    <2> SUFFICES ASSUME Init PROVE Leaving /\ Watcher
      OBVIOUS
    <2>1. \A w \in Workers : th[w].term = FALSE
      BY DEF Init
    <2>2. \A fd \in Fds, e \in Event : slot[fd][e] = NoJob
      BY DEF Init
    <2>3. Registered = {}
      BY <2>2 DEF Registered, events
    <2> QED BY <2>1, <2>3 DEF Leaving, Watcher, SomeoneLeft
  <1>2. Sane /\ Leaving /\ Watcher /\ [Next]_vars => Leaving' /\ Watcher'
    BY LeavingNext, WatcherNext
  <1>3. Watcher => Attended
    BY DEF Watcher, Attended
  <1> QED BY <1>1, <1>2, <1>3, SaneAlways, PTL DEF Spec

-----------------------------------------------------------------------------
(***************************************************************************)
(* Every job is in one place.                                              *)
(***************************************************************************)

\* The job a worker is busy with: one that has registered itself waits already.
Runs(r) == IF r.pc = "yield" THEN NoJob ELSE r.cur
Adding(r) == r.pc \in {"grow", "added"}

NoRepeats(q) == \A i, k \in DOMAIN q : q[i] = q[k] => i = k
Has(q, j) == \E i \in DOMAIN q : q[i] = j
Run(j) == \E w \in Workers : Runs(th[w]) = j
Waits(j) == \E fd \in Fds, e \in Event : slot[fd][e] = j

\* Wherever jobs are they are there once.
Once ==
  /\ NoRepeats(tasks)
  /\ \A w, u \in Workers : th[w].cur = th[u].cur /\ th[w].cur # NoJob => w = u
  /\ \A fd, gd \in Fds, e, f \in Event : slot[fd][e] = slot[gd][f] /\ slot[fd][e] # NoJob => fd = gd /\ e = f

\* The list, the workers and the contexts have no job in common, and have exactly
\* the jobs that live.
Apart == \A j \in Jobs : /\ ~(Has(tasks, j) /\ Run(j)) /\ ~(Has(tasks, j) /\ Waits(j)) /\ ~(Run(j) /\ Waits(j))
                         /\ life[j] = "live" <=> Has(tasks, j) \/ Run(j) \/ Waits(j)

\* addEvent() is called for the calling fiber, or for a callback that nobody has yet.
Asked ==
  \A w \in Workers :
    IF Adding(th[w])
    THEN \/ th[w].who = th[w].cur
         \/ life[th[w].who] = "fresh" /\ \A u \in Workers \ {w} : th[u].who # th[w].who
    ELSE th[w].who = NoJob

Home == Once /\ Apart /\ Asked

-----------------------------------------------------------------------------
(***************************************************************************)
(* What a step does with the jobs                                          *)
(***************************************************************************)

Only(w) == \A u \in Workers \ {w} : th'[u] = th[u]

\* w goes on with what it has.
Keeps(w) ==
  /\ Only(w)
  /\ th'[w].cur = th[w].cur /\ th'[w].who = th[w].who
  /\ th'[w].pc = "yield" <=> th[w].pc = "yield"
  /\ Adding(th'[w]) <=> Adding(th[w])

Stays(w) == Keeps(w) /\ UNCHANGED <<tasks, slot, life>>

Takes(w, i) ==
  /\ Only(w) /\ th[w].cur = NoJob /\ ~Adding(th[w]) /\ Takeable(tasks[i])
  /\ th'[w].cur = tasks[i] /\ th'[w].who = th[w].who
  /\ th'[w].pc # "yield" /\ ~Adding(th'[w])
  /\ tasks' = RemoveAt(tasks, i) /\ UNCHANGED <<slot, life>>

Spawns(w, j) ==
  /\ Keeps(w) /\ Unused(j)
  /\ tasks' = Append(tasks, j) /\ life' = [life EXCEPT ![j] = "live"] /\ UNCHANGED slot

Leaves(w, l) ==
  /\ Only(w) /\ th[w].cur # NoJob /\ ~Adding(th[w])
  /\ IF th[w].pc = "yield" THEN l = life[th[w].cur] ELSE l \notin {"live", "fresh"}
  /\ th'[w].cur = NoJob /\ th'[w].who = th[w].who /\ th'[w].pc # "yield" /\ ~Adding(th'[w])
  /\ life' = [life EXCEPT ![th[w].cur] = l] /\ UNCHANGED <<tasks, slot>>

Asks(w, j) ==
  /\ Only(w) /\ ~Adding(th[w]) /\ th[w].pc # "yield" /\ th'[w].pc # "yield"
  /\ j = th[w].cur \/ Unused(j)
  /\ th'[w].cur = th[w].cur /\ th'[w].who = j /\ Adding(th'[w])
  /\ UNCHANGED <<tasks, slot, life>>

\* epoll_ctl() has failed.
Drops(w) ==
  /\ Only(w) /\ th[w].pc # "yield" /\ th'[w].pc # "yield"
  /\ th'[w].cur = th[w].cur /\ th'[w].who = NoJob /\ ~Adding(th'[w])
  /\ UNCHANGED <<tasks, slot, life>>

Records(w, fd, e) ==
  /\ Only(w) /\ Adding(th[w]) /\ slot[fd][e] = NoJob
  /\ th'[w].cur = th[w].cur /\ th'[w].who = NoJob /\ ~Adding(th'[w])
  /\ th'[w].pc = "yield" <=> th[w].who = th[w].cur
  /\ slot' = [slot EXCEPT ![fd][e] = th[w].who]
  /\ life' = [life EXCEPT ![th[w].who] = "live"] /\ UNCHANGED tasks

Deletes(fd, e) ==
  /\ slot[fd][e] # NoJob
  /\ slot' = [slot EXCEPT ![fd][e] = NoJob] /\ life' = [life EXCEPT ![slot[fd][e]] = "dropped"]
  /\ UNCHANGED <<tasks, th>>

Triggers(w, fd, e) ==
  /\ Keeps(w) /\ slot[fd][e] # NoJob
  /\ tasks' = Append(tasks, slot[fd][e]) /\ slot' = [slot EXCEPT ![fd][e] = NoJob] /\ UNCHANGED life

\* The sleepers whose timers are due.
Wakes(w, S, s) ==
  /\ Keeps(w) /\ \A j \in S : life[j] = "asleep"
  /\ tasks' = tasks \o s /\ life' = [j \in Jobs |-> IF j \in S THEN "live" ELSE life[j]]
  /\ UNCHANGED slot

Move ==
  \/ UNCHANGED <<tasks, slot, life, th>>
  \/ \E w \in Workers :
       \/ Stays(w) \/ Drops(w)
       \/ \E i \in DOMAIN tasks : Takes(w, i)
       \/ \E j \in Jobs : Spawns(w, j) \/ Asks(w, j)
       \/ \E l \in Life : Leaves(w, l)
       \/ \E fd \in Fds, e \in Event : Records(w, fd, e) \/ Triggers(w, fd, e)
       \/ \E S \in SUBSET Jobs : \E s \in SetToSeqs(S) : Wakes(w, S, s)
  \/ \E fd \in Fds, e \in Event : Deletes(fd, e)

\* Every step but those that leave defined behaviour is one of these.
LEMMA Moves ==
  ASSUME Typed, [Next]_vars, fault' = "none"
  PROVE  Move
  <1> USE DEF Alive
  <1>t. \A w \in Workers : th[w] \in Thread /\ Sound(th[w])
    BY DEF Typed, Types, Places
  <1>T. th \in [Workers -> Thread]
    BY DEF Typed, Types
  <1>m. ASSUME NEW w \in Workers
        PROVE  /\ Stays(w) \/ Drops(w) => Move
               /\ \A i \in DOMAIN tasks : Takes(w, i) => Move
               /\ \A j \in Jobs : Spawns(w, j) \/ Asks(w, j) => Move
               /\ \A l \in Life : Leaves(w, l) => Move
               /\ \A fd \in Fds, e \in Event : Records(w, fd, e) \/ Triggers(w, fd, e) \/ Deletes(fd, e) => Move
               /\ \A S \in SUBSET Jobs : \A s \in SetToSeqs(S) : Wakes(w, S, s) => Move
    <2> USE DEF Move
    <2>1. Stays(w) \/ Drops(w) => Move
      OBVIOUS
    <2>2. \A i \in DOMAIN tasks : Takes(w, i) => Move
      OBVIOUS
    <2>3. \A j \in Jobs : Spawns(w, j) \/ Asks(w, j) => Move
      OBVIOUS
    <2>4. \A l \in Life : Leaves(w, l) => Move
      OBVIOUS
    <2>5. \A fd \in Fds, e \in Event : Records(w, fd, e) \/ Triggers(w, fd, e) \/ Deletes(fd, e) => Move
      OBVIOUS
    <2>6. \A S \in SUBSET Jobs : \A s \in SetToSeqs(S) : Wakes(w, S, s) => Move
      OBVIOUS
    <2> QED BY <2>1, <2>2, <2>3, <2>4, <2>5, <2>6, Zenon
  <1>u. UNCHANGED <<tasks, slot, life, th>> => Move
    BY DEF Move
  <1>h. ASSUME NEW w \in Workers, Only(w), th'[w].cur = th[w].cur, th'[w].who = th[w].who,
               th'[w].pc = "yield" <=> th[w].pc = "yield", Adding(th'[w]) <=> Adding(th[w]),
               UNCHANGED <<tasks, slot, life>>
        PROVE  Move
    BY <1>h, <1>m DEF Stays, Keeps
  <1>1. ASSUME NEW w \in Workers, RunStep(w) PROVE Move
    <2>1. CASE Take(w)
      <3>1. PICK i \in DOMAIN tasks :
              /\ Takeable(tasks[i]) /\ tasks' = RemoveAt(tasks, i)
              /\ Become(w, [Then(w, i < Len(tasks), "body") EXCEPT !.cur = tasks[i]])
        BY <2>1 DEF Take
      <3>2. th[w].pc = "scan" /\ th[w].cur = NoJob /\ UNCHANGED <<slot, life>>
        BY <2>1, <1>t DEF Take, At, Sound, ctx
      <3>3. Then(w, i < Len(tasks), "body") \in Thread
        BY <1>t, ZenonT(30) DEF Then, Thread, Place
      <3>4. /\ Only(w) /\ th'[w].cur = tasks[i] /\ th'[w].who = th[w].who
            /\ th'[w].pc \in {"tickle", "body"}
        BY <3>1, <3>3, <1>T DEF Then, Thread, Become, Only
      <3>5. Takes(w, i)
        BY <3>1, <3>2, <3>4 DEF Takes, Adding
      <3> QED BY <1>m, <3>5
    <2>2. CASE TakeNothing(w)
      <3>1. PICK p \in {"exit", "idle"} : Become(w, [th[w] EXCEPT !.pc = p])
        BY <2>2 DEF TakeNothing, Goto
      <3> QED BY <1>h, <2>2, <3>1, <1>T DEF TakeNothing, Adding, At, ctx, Thread, Become, Only
    <2>3. CASE Tickle(w) \/ Write(w)
      <3>1. th[w].back \in {"body", "count"} /\ th[w].pc \in {"tickle", "write"}
        BY <2>3, <1>t DEF Tickle, Write, At, Sound
      <3>2. \/ Become(w, Then(w, FALSE, th[w].back)) \/ Become(w, [th[w] EXCEPT !.pc = "write"])
        BY <2>3 DEF Tickle, Write, Goto
      <3>3. /\ Only(w) /\ th'[w].cur = th[w].cur /\ th'[w].who = th[w].who
            /\ th'[w].pc \in {"body", "count", "write"}
        <4>1. CASE Become(w, Then(w, FALSE, th[w].back))
          BY <3>1, <4>1, <1>T DEF Then, Thread, Become, Only
        <4>2. CASE Become(w, [th[w] EXCEPT !.pc = "write"])
          BY <4>2, <1>T DEF Thread, Become, Only
        <4> QED BY <3>2, <4>1, <4>2
      <3>4. UNCHANGED <<tasks, slot, life>>
        BY <2>3 DEF Tickle, Write, ctx, sched
      <3> QED BY <1>h, <3>1, <3>3, <3>4 DEF Adding
    <2> QED BY <1>1, <2>1, <2>2, <2>3 DEF RunStep
  <1>2. ASSUME NEW w \in Workers, IdleStep(w) PROVE Move
    <2>1. CASE IdleRead(w) \/ IdleLeave(w)
      <3>1. PICK p \in {"check", "wait", "scan"} : Become(w, [th[w] EXCEPT !.pc = p])
        BY <2>1 DEF IdleRead, IdleLeave, Goto
      <3>2. th[w].pc \in {"idle", "leave", "event"} /\ UNCHANGED <<tasks, slot, life>>
        BY <2>1 DEF IdleRead, IdleLeave, At, ctx, sched
      <3> QED BY <1>h, <3>1, <3>2, <1>T DEF Adding, Thread, Become, Only
    <2>2. CASE IdleCheck(w)
      <3>1. PICK p \in {"leave", "wait"} : Become(w, [th[w] EXCEPT !.pc = p, !.term = Stopping])
        BY <2>2 DEF IdleCheck
      <3>2. th'[w].cur = th[w].cur /\ th'[w].who = th[w].who /\ th'[w].pc = p /\ Only(w)
        BY <3>1, <1>T DEF Thread, Become, Only
      <3> QED BY <1>h, <2>2, <3>2 DEF IdleCheck, Adding, At, ctx, sched
    <2>3. CASE EpollWait(w)
      <3>1. PICK s : Become(w, [th[w] EXCEPT !.pc = "expire", !.got = s])
        BY <2>3 DEF EpollWait
      <3>2. th'[w].cur = th[w].cur /\ th'[w].who = th[w].who /\ th'[w].pc = "expire" /\ Only(w)
        BY <3>1, <1>T DEF Thread, Become, Only
      <3> QED BY <1>h, <2>3, <3>2 DEF EpollWait, Adding, At, ctx, sched
    <2>4. CASE Expire(w)
      <3>1. PICK S \in SUBSET {j \in Jobs : life[j] = "asleep"} :
              /\ \E s \in SetToSeqs(S) : tasks' = tasks \o s
              /\ life' = [j \in Jobs |-> IF j \in S THEN "live" ELSE life[j]]
        BY <2>4 DEF Expire
      <3>2. PICK s \in SetToSeqs(S) : tasks' = tasks \o s
        BY <3>1
      <3>3. th[w].pc = "expire" /\ Become(w, [th[w] EXCEPT !.pc = "event"]) /\ UNCHANGED slot
        BY <2>4 DEF Expire, Goto, At, ctx
      <3>4. Keeps(w)
        BY <3>3, <1>T DEF Keeps, Adding, Thread, Become, Only
      <3>5. Wakes(w, S, s)
        BY <3>1, <3>2, <3>3, <3>4 DEF Wakes
      <3>6. S \in SUBSET Jobs
        OBVIOUS
      <3> QED BY <1>m, <3>5, <3>6
    <2>5. CASE Handle(w)
      <3>1. UNCHANGED <<tasks, slot, life>> /\ th[w].pc = "event"
        BY <2>5 DEF Handle, At, sched
      <3>2. \/ Become(w, [th[w] EXCEPT !.got = Tail(@)])
            \/ \E es : Become(w, [th[w] EXCEPT !.pc = "fire", !.fd = Head(th[w].got).fd, !.todo = es,
                                              !.got = Tail(@)])
        BY <2>5 DEF Handle
      <3>3. Only(w) /\ th'[w].cur = th[w].cur /\ th'[w].who = th[w].who /\ th'[w].pc \in {"event", "fire"}
        BY <3>1, <3>2, <1>T, ZenonT(30) DEF Thread, Become, Only
      <3> QED BY <1>h, <3>1, <3>3 DEF Adding
    <2>6. CASE HandlePipe(w)
      <3>1. UNCHANGED <<tasks, slot, life>> /\ th[w].pc = "event"
        BY <2>6 DEF HandlePipe, At, sched, ctx
      <3>2. Become(w, [th[w] EXCEPT !.got = Tail(@)])
        BY <2>6 DEF HandlePipe
      <3>3. Only(w) /\ th'[w].cur = th[w].cur /\ th'[w].who = th[w].who /\ th'[w].pc = "event"
        BY <3>1, <3>2, <1>T DEF Thread, Become, Only
      <3> QED BY <1>h, <3>1, <3>3 DEF Adding
    <2> QED BY <1>2, <2>1, <2>2, <2>3, <2>4, <2>5, <2>6 DEF IdleStep
  <1>3. ASSUME NEW w \in Workers, NEW j \in Jobs, Spawn(w, j) PROVE Move
    <2>1. /\ th[w].pc = "body" /\ Unused(j) /\ tasks' = Append(tasks, j) /\ UNCHANGED slot
          /\ Become(w, Then(w, tasks = <<>>, "body")) /\ life' = [life EXCEPT ![j] = "live"]
      BY <1>3 DEF Spawn, Calls, At, Schedule, ctx
    <2>2. Only(w) /\ th'[w].cur = th[w].cur /\ th'[w].who = th[w].who /\ th'[w].pc \in {"tickle", "body"}
      BY <2>1, <1>T DEF Then, Thread, Become, Only
    <2>3. Spawns(w, j)
      BY <2>1, <2>2 DEF Spawns, Keeps, Adding
    <2> QED BY <1>m, <2>3
  <1>4. ASSUME NEW w \in Workers, NEW fd \in Fds, NEW e \in Event, NEW j \in Jobs, AddLocked(w, fd, e, j)
        PROVE  /\ Only(w) /\ th'[w].cur = th[w].cur
               /\ \/ th'[w].pc = "added" /\ th'[w].who = j
                  \/ th'[w].pc = "body" /\ th'[w].who = NoJob
    <2>1. \/ Become(w, [th[w] EXCEPT !.pc = "added", !.fd = fd, !.todo = {e}, !.who = j])
          \/ Become(w, [th[w] EXCEPT !.pc = "body", !.who = NoJob, !.todo = {}])
      BY <1>4 DEF AddLocked
    <2>2. CASE Become(w, [th[w] EXCEPT !.pc = "added", !.fd = fd, !.todo = {e}, !.who = j])
      BY <2>2, <1>T DEF Thread, Become, Only
    <2>3. CASE Become(w, [th[w] EXCEPT !.pc = "body", !.who = NoJob, !.todo = {}])
      BY <2>3, <1>T DEF Thread, Become, Only
    <2> QED BY <2>1, <2>2, <2>3
  <1>5. ASSUME NEW w \in Workers, NEW fd \in Fds, NEW e \in Event, NEW j \in Jobs, AddEvent(w, fd, e, j)
        PROVE  Move
    <2>1. /\ th[w].pc = "body" /\ (j = th[w].cur \/ Unused(j)) /\ UNCHANGED <<tasks, slot, life>>
      BY <1>5 DEF AddEvent, Calls, At, sched
    <2>2. /\ Only(w) /\ th'[w].cur = th[w].cur
          /\ \/ th'[w].pc \in {"grow", "added"} /\ th'[w].who = j
             \/ th'[w].pc = "body" /\ th'[w].who = NoJob
      <3>1. CASE size > fd
        BY <3>1, <1>5, <1>4 DEF AddEvent
      <3>2. CASE ~(size > fd)
        <4>1. Become(w, [th[w] EXCEPT !.pc = "grow", !.fd = fd, !.todo = {e}, !.who = j])
          BY <3>2, <1>5 DEF AddEvent
        <4> QED BY <4>1, <1>T DEF Thread, Become, Only
      <3> QED BY <3>1, <3>2
    <2>3. Asks(w, j) \/ Drops(w)
      BY <2>1, <2>2 DEF Asks, Drops, Adding
    <2> QED BY <1>m, <2>3
  <1>6. ASSUME NEW w \in Workers, Grow(w) PROVE Move
    <2>1. th[w].fd \in Fds /\ th[w].who \in Jobs /\ \E e \in Event : th[w].todo = {e}
      BY <1>6, <1>t DEF Grow, At, Sound, Thread
    <2>2. /\ th[w].pc = "grow" /\ UNCHANGED <<tasks, slot, life>>
          /\ \E e \in Event : AddLocked(w, th[w].fd, e, th[w].who)
      BY <1>6, <2>1 DEF Grow, At, sched
    <2>3. Stays(w) \/ Drops(w)
      BY <2>1, <2>2, <1>4 DEF Stays, Keeps, Drops, Adding
    <2> QED BY <1>m, <2>3
  <1>7. ASSUME NEW w \in Workers, Added(w) PROVE Move
    <2>1. PICK e \in Event : th[w].todo = {e}
      BY <1>7, <1>t DEF Added, At, Sound
    <2> DEFINE fd == th[w].fd
               p == IF th[w].who = th[w].cur THEN "yield" ELSE "body"
    <2>2. fd \in Fds /\ (CHOOSE x \in Event : x \in th[w].todo) = e
      BY <2>1, <1>t DEF Thread
    <2>3. /\ th[w].pc = "added" /\ e \notin events(fd) /\ UNCHANGED tasks
          /\ slot' = [slot EXCEPT ![fd][e] = th[w].who] /\ life' = [life EXCEPT ![th[w].who] = "live"]
          /\ Become(w, [th[w] EXCEPT !.pc = p, !.who = NoJob, !.todo = {}])
      BY <1>7, <2>2 DEF Added, At, sched
    <2>4. Only(w) /\ th'[w].cur = th[w].cur /\ th'[w].who = NoJob /\ th'[w].pc = p
      BY <2>3, <1>T DEF Thread, Become, Only
    <2>5. Records(w, fd, e)
      BY <2>3, <2>4 DEF Records, Adding, events
    <2> QED BY <1>m, <2>2, <2>5
  <1>8. ASSUME NEW w \in Workers, NEW fd \in Fds, NEW e \in Event, DelEvent(w, fd, e) PROVE Move
    <2>1. Deletes(fd, e)
      BY <1>8 DEF DelEvent, Deletes, events, sched
    <2> QED BY <1>m, <2>1
  <1>9. ASSUME NEW w \in Workers, NEW fd, NEW es, Cancel(w, fd, es) PROVE Move
    <2>1. /\ th[w].pc = "body" /\ UNCHANGED <<tasks, slot, life>>
          /\ Become(w, [th[w] EXCEPT !.pc = "fire", !.fd = fd, !.todo = es])
      BY <1>9 DEF Cancel, Calls, At, sched
    <2>2. Only(w) /\ th'[w].cur = th[w].cur /\ th'[w].who = th[w].who /\ th'[w].pc = "fire"
      BY <2>1, <1>T DEF Thread, Become, Only
    <2> QED BY <1>h, <2>1, <2>2 DEF Adding
  <1>10. ASSUME NEW w \in Workers, Fire(w) PROVE Move
    <2> DEFINE fd == th[w].fd
               e == NextEvent(th[w].todo)
    <2>1. fd \in Fds /\ e \in Event
      BY <1>t DEF Thread, NextEvent, Event
    <2>2. /\ th[w].pc = "fire" /\ e \in events(fd) /\ tasks' = Append(tasks, slot[fd][e])
          /\ Become(w, Then(w, tasks = <<>>, "count"))
          /\ slot' = [slot EXCEPT ![fd][e] = NoJob] /\ UNCHANGED life
      BY <1>10 DEF Fire, At, Schedule
    <2>3. Only(w) /\ th'[w].cur = th[w].cur /\ th'[w].who = th[w].who /\ th'[w].pc \in {"tickle", "count"}
      BY <2>2, <1>T DEF Then, Thread, Become, Only
    <2>4. Triggers(w, fd, e)
      BY <2>2, <2>3 DEF Triggers, Keeps, Adding, events
    <2> QED BY <1>m, <2>1, <2>4
  <1>11. ASSUME NEW w \in Workers, Count(w) PROVE Move
    <2>1. /\ th[w].pc = "count" /\ UNCHANGED <<tasks, slot, life>>
          /\ \E rest : \E p \in {"fire", "event", "body"} : Become(w, [th[w] EXCEPT !.todo = rest, !.pc = p])
      BY <1>11 DEF Count, At, sched
    <2>2. Only(w) /\ th'[w].cur = th[w].cur /\ th'[w].who = th[w].who /\ th'[w].pc \in {"fire", "event", "body"}
      BY <2>1, <1>T DEF Thread, Become, Only
    <2> QED BY <1>h, <2>1, <2>2 DEF Adding
  <1>12. ASSUME NEW w \in Workers, Yield(w) \/ Sleep(w) \/ End(w) PROVE Move
    <2>1. th[w].pc \in {"body", "yield"} /\ th[w].cur # NoJob /\ th[w].cur \in Jobs
      BY <1>12, <1>t DEF Yield, Sleep, End, Calls, At, Sound, Busy, Thread
    <2>2. PICK l : /\ Leave(w, l)
                   /\ IF th[w].pc = "yield" THEN l = life[th[w].cur] ELSE l \in {"ended", "asleep"}
      BY <1>12 DEF Yield, Sleep, End, Calls, At
    <2>3. l \in Life
      BY <2>1, <2>2 DEF Typed, Types, Life
    <2>4. /\ life' = [life EXCEPT ![th[w].cur] = l] /\ UNCHANGED <<tasks, slot>>
          /\ Become(w, [th[w] EXCEPT !.pc = "scan", !.cur = NoJob])
      BY <2>2 DEF Leave, ctx
    <2>5. Only(w) /\ th'[w].cur = NoJob /\ th'[w].who = th[w].who /\ th'[w].pc = "scan"
      BY <2>4, <1>T DEF Thread, Become, Only
    <2>6. Leaves(w, l)
      BY <2>1, <2>2, <2>4, <2>5 DEF Leaves, Adding
    <2> QED BY <1>m, <2>3, <2>6
  <1>13. ASSUME NEW w \in Workers, NEW fd, NEW e, Drain(w, fd, e) \/ Reuse(w, fd) PROVE Move
    BY <1>u, <1>13 DEF Drain, Reuse, ctx, sched
  <1>14. ASSUME NEW w \in Workers, BodyStep(w) PROVE Move
    BY <1>14, <1>3, <1>5, <1>6, <1>7, <1>8, <1>9, <1>10, <1>11, <1>12, <1>13
       DEF BodyStep, CancelEvent, CancelAll, FireNull
  <1>15. CASE Stop \/ Faulted \/ UNCHANGED vars \/ \E fd \in Fds, c \in Condition : Ready(fd, c)
    BY <1>u, <1>15 DEF Stop, Faulted, vars, Ready, ctx, sched
  <1> QED BY <1>1, <1>2, <1>14, <1>15 DEF Next, WorkerStep

-----------------------------------------------------------------------------
(***************************************************************************)
(* What the list holds after it is changed                                 *)
(***************************************************************************)

\* The list without its i-th task has the others, in order.
LEMMA Removed ==
  ASSUME NEW q \in Seq(Jobs), NEW i \in 1..Len(q), NEW r, r = RemoveAt(q, i)
  PROVE  /\ DOMAIN r = 1..(Len(q) - 1)
         /\ \A k \in 1..(Len(q) - 1) : r[k] = IF k < i THEN q[k] ELSE q[k + 1]
  <1> DEFINE a == SubSeq(q, 1, i - 1)
             b == SubSeq(q, i + 1, Len(q))
  <1>1. Len(q) \in Nat /\ \A k \in 1..Len(q) : q[k] \in Jobs
    BY LenProperties, ElementOfSeq
  <1>2. a \in Seq(Jobs) /\ Len(a) = i - 1 /\ \A k \in 1..(i - 1) : a[k] = q[k]
    <2>1. \A k \in 1..(i - 1) : q[k] \in Jobs
      BY <1>1
    <2>2. i - 1 \in Int /\ 1 \in Int
      BY <1>1
    <2>3. /\ a \in Seq(Jobs) /\ Len(a) = IF 1 <= i - 1 THEN (i - 1) - 1 + 1 ELSE 0
          /\ \A k \in 1..((i - 1) - 1 + 1) : a[k] = q[1 + k - 1]
      BY <2>1, <2>2, SubSeqProperties
    <2> QED BY <2>3, <1>1
  <1>3. /\ b \in Seq(Jobs) /\ Len(b) = Len(q) - i
        /\ \A k \in 1..(Len(q) - i) : b[k] = q[i + k]
    <2>1. \A k \in (i + 1)..Len(q) : q[k] \in Jobs
      BY <1>1
    <2>2. i + 1 \in Int /\ Len(q) \in Int
      BY <1>1
    <2>3. /\ b \in Seq(Jobs) /\ Len(b) = IF i + 1 <= Len(q) THEN Len(q) - (i + 1) + 1 ELSE 0
          /\ \A k \in 1..(Len(q) - (i + 1) + 1) : b[k] = q[(i + 1) + k - 1]
      BY <2>1, <2>2, SubSeqProperties
    <2> QED BY <2>3, <1>1
  <1> HIDE DEF a, b
  <1>4. /\ a \o b \in Seq(Jobs) /\ Len(a \o b) = Len(q) - 1
        /\ \A k \in 1..(Len(q) - 1) : (a \o b)[k] = IF k <= i - 1 THEN a[k] ELSE b[k - (i - 1)]
    <2>1. /\ a \o b \in Seq(Jobs) /\ Len(a \o b) = Len(a) + Len(b)
          /\ \A k \in 1..(Len(a) + Len(b)) : (a \o b)[k] = IF k <= Len(a) THEN a[k] ELSE b[k - Len(a)]
      BY <1>2, <1>3, ConcatProperties
    <2>2. Len(a) + Len(b) = Len(q) - 1 /\ Len(a) = i - 1
      BY <1>1, <1>2, <1>3
    <2> QED BY <2>1, <2>2
  <1>5. DOMAIN (a \o b) = 1..(Len(q) - 1)
    BY <1>4, LenProperties
  <1>6. \A k \in 1..(Len(q) - 1) : (a \o b)[k] = IF k < i THEN q[k] ELSE q[k + 1]
    <2> SUFFICES ASSUME NEW k \in 1..(Len(q) - 1)
                 PROVE  (a \o b)[k] = IF k < i THEN q[k] ELSE q[k + 1]
      OBVIOUS
    <2>1. CASE k < i
      BY <2>1, <1>1, <1>2, <1>4
    <2>2. CASE ~(k < i)
      <3>1. k - (i - 1) \in 1..(Len(q) - i) /\ ~(k <= i - 1) /\ i + (k - (i - 1)) = k + 1
        BY <2>2, <1>1
      <3> QED BY <2>2, <3>1, <1>3, <1>4
    <2> QED BY <2>1, <2>2
  <1>7. r = a \o b
    BY DEF RemoveAt, a, b
  <1> QED BY <1>5, <1>6, <1>7

\* An order of a finite set has each of its members once.
LEMMA OrderHasAll ==
  ASSUME NEW S, IsFiniteSet(S), NEW s \in SetToSeqs(S)
  PROVE  /\ s \in Seq(S) /\ DOMAIN s = 1..Len(s)
         /\ \A i, k \in 1..Len(s) : s[i] = s[k] => i = k
         /\ \A x \in S : \E i \in 1..Len(s) : s[i] = x
  <1> DEFINE D == 1..Cardinality(S)
  <1>1. Cardinality(S) \in Nat
    BY FS_CardinalityType
  <1>2. s \in [D -> S] /\ \A i, k \in D : i # k => s[i] # s[k]
    BY DEF SetToSeqs
  <1>3. s \in Seq(S)
    BY OrderIsSeq
  <1>4. Len(s) \in Nat /\ DOMAIN s = 1..Len(s)
    BY <1>3, LenProperties
  <1>5. 1..Len(s) = D
    BY <1>2, <1>4
  <1>6. ASSUME NEW x \in S, \A i \in D : s[i] # x PROVE FALSE
    <2>1. s \in [D -> S \ {x}]
      BY <1>2, <1>6
    <2>2. IsFiniteSet(S \ {x}) /\ Cardinality(S \ {x}) = Cardinality(S) - 1
      BY FS_RemoveElement
    <2>3. IsFiniteSet(D) /\ Cardinality(D) = Cardinality(S)
      <3>1. IsFiniteSet(D) /\ Cardinality(D) = IF 1 > Cardinality(S) THEN 0 ELSE Cardinality(S) - 1 + 1
        BY <1>1, FS_Interval
      <3> QED BY <3>1, <1>1
    <2>4. Cardinality(S \ {x}) < Cardinality(D)
      BY <2>2, <2>3, <1>1
    <2> HIDE DEF D
    <2>5. \E i, k \in D : i # k /\ s[i] = s[k]
      BY <2>1, <2>2, <2>3, <2>4, FS_PigeonHole
    <2> QED BY <2>5, <1>2
  <1> QED BY <1>2, <1>3, <1>4, <1>5, <1>6

\* What the list has after each way of changing it.
LEMMA AfterRemoval ==
  ASSUME NEW q \in Seq(Jobs), NEW i \in DOMAIN q, NEW r, r = RemoveAt(q, i), NoRepeats(q)
  PROVE  NoRepeats(r) /\ \A j : Has(r, j) <=> Has(q, j) /\ j # q[i]
  <1>1. Len(q) \in Nat /\ DOMAIN q = 1..Len(q)
    BY LenProperties
  <1>2. /\ DOMAIN r = 1..(Len(q) - 1)
        /\ \A k \in 1..(Len(q) - 1) : r[k] = IF k < i THEN q[k] ELSE q[k + 1]
    BY <1>1, Removed
  <1>3. NoRepeats(r)
    <2> SUFFICES ASSUME NEW k \in 1..(Len(q) - 1), NEW l \in 1..(Len(q) - 1), r[k] = r[l]
                 PROVE  k = l
      BY <1>2 DEF NoRepeats
    <2>1. \A m \in 1..(Len(q) - 1) : m \in 1..Len(q) /\ m + 1 \in 1..Len(q)
      BY <1>1
    <2>2. /\ (IF k < i THEN k ELSE k + 1) \in DOMAIN q /\ (IF l < i THEN l ELSE l + 1) \in DOMAIN q
          /\ q[IF k < i THEN k ELSE k + 1] = q[IF l < i THEN l ELSE l + 1]
      BY <2>1, <1>1, <1>2
    <2>3. (IF k < i THEN k ELSE k + 1) = (IF l < i THEN l ELSE l + 1)
      BY <2>2 DEF NoRepeats
    <2> QED BY <2>3, <1>1
  <1>4. ASSUME NEW j, Has(r, j) PROVE Has(q, j) /\ j # q[i]
    <2>1. PICK k \in 1..(Len(q) - 1) : r[k] = j
      BY <1>2, <1>4 DEF Has
    <2> DEFINE m == IF k < i THEN k ELSE k + 1
    <2>2. m \in DOMAIN q /\ q[m] = j /\ m # i
      BY <2>1, <1>1, <1>2
    <2> HIDE DEF m
    <2> QED BY <2>2 DEF Has, NoRepeats
  <1>5. ASSUME NEW j, Has(q, j), j # q[i] PROVE Has(r, j)
    <2>1. PICK m \in DOMAIN q : q[m] = j
      BY <1>5 DEF Has
    <2>2. m # i
      BY <2>1, <1>5
    <2> DEFINE k == IF m < i THEN m ELSE m - 1
    <2>3. k \in 1..(Len(q) - 1) /\ r[k] = j
      <3>1. CASE m < i
        BY <3>1, <2>1, <1>1, <1>2
      <3>2. CASE m > i
        <4>1. m - 1 \in 1..(Len(q) - 1) /\ ~(m - 1 < i) /\ (m - 1) + 1 = m /\ k = m - 1
          BY <3>2, <1>1
        <4> QED BY <4>1, <2>1, <1>2
      <3> QED BY <3>1, <3>2, <2>2, <1>1
    <2> QED BY <2>3, <1>2 DEF Has
  <1> QED BY <1>3, <1>4, <1>5

\* What a job at the end of the list, or jobs behind it, change.
LEMMA AfterAppend ==
  ASSUME NEW q \in Seq(Jobs), NEW j \in Jobs, NEW r, r = Append(q, j), NoRepeats(q), ~Has(q, j)
  PROVE  NoRepeats(r) /\ \A k : Has(r, k) <=> Has(q, k) \/ k = j
  <1>1. Len(q) \in Nat /\ DOMAIN q = 1..Len(q)
    BY LenProperties
  <1>2. /\ r \in Seq(Jobs) /\ Len(r) = Len(q) + 1
        /\ \A i \in 1..Len(q) : r[i] = q[i]
        /\ r[Len(q) + 1] = j
    BY AppendProperties
  <1>3. DOMAIN r = 1..(Len(q) + 1)
    BY <1>2, LenProperties
  <1> QED BY <1>1, <1>2, <1>3 DEF NoRepeats, Has

\* A set of jobs in any order behind the list.
LEMMA AfterConcat ==
  ASSUME NEW q \in Seq(Jobs), NEW S \in SUBSET Jobs, NEW s \in SetToSeqs(S), NEW r, r = q \o s,
         NoRepeats(q), \A j \in S : ~Has(q, j)
  PROVE  NoRepeats(r) /\ \A k : Has(r, k) <=> Has(q, k) \/ k \in S
  <1>0. IsFiniteSet(S)
    BY IOAssumption, FS_Subset
  <1>1. Len(q) \in Nat /\ DOMAIN q = 1..Len(q)
    BY LenProperties
  <1>2. /\ s \in Seq(S) /\ DOMAIN s = 1..Len(s)
        /\ \A i, k \in 1..Len(s) : s[i] = s[k] => i = k
        /\ \A x \in S : \E i \in 1..Len(s) : s[i] = x
    BY <1>0, OrderHasAll
  <1>3. s \in Seq(Jobs) /\ Len(s) \in Nat /\ \A i \in 1..Len(s) : s[i] \in S
    BY <1>2, LenProperties, ElementOfSeq, SeqMonotonic
  <1>4. /\ r \in Seq(Jobs) /\ Len(r) = Len(q) + Len(s)
        /\ \A i \in 1..(Len(q) + Len(s)) : r[i] = IF i <= Len(q) THEN q[i] ELSE s[i - Len(q)]
    BY <1>3, ConcatProperties
  <1>5. DOMAIN r = 1..(Len(q) + Len(s))
    BY <1>4, LenProperties
  <1>6. /\ \A i \in 1..(Len(q) + Len(s)) : ~(i <= Len(q)) => i - Len(q) \in 1..Len(s)
        /\ \A i \in 1..Len(s) : /\ Len(q) + i \in 1..(Len(q) + Len(s)) /\ ~(Len(q) + i <= Len(q))
                                /\ (Len(q) + i) - Len(q) = i
    BY <1>1, <1>3
  <1>7. NoRepeats(r)
    <2> SUFFICES ASSUME NEW i \in 1..(Len(q) + Len(s)), NEW k \in 1..(Len(q) + Len(s)), r[i] = r[k]
                 PROVE  i = k
      BY <1>5 DEF NoRepeats
    <2>1. CASE i <= Len(q) /\ k <= Len(q)
      <3>1. i \in DOMAIN q /\ k \in DOMAIN q /\ q[i] = q[k]
        BY <2>1, <1>1, <1>4
      <3> QED BY <3>1 DEF NoRepeats
    <2>2. CASE ~(i <= Len(q)) /\ ~(k <= Len(q))
      <3>1. s[i - Len(q)] = s[k - Len(q)]
        BY <2>2, <1>4
      <3>2. i - Len(q) = k - Len(q)
        BY <3>1, <2>2, <1>2, <1>6
      <3> QED BY <3>2, <1>1, <1>3
    <2>3. ASSUME NEW x \in 1..(Len(q) + Len(s)), NEW y \in 1..(Len(q) + Len(s)),
                 x <= Len(q), ~(y <= Len(q)), r[x] = r[y]
          PROVE  FALSE
      <3>1. x \in DOMAIN q /\ q[x] = r[x]
        BY <2>3, <1>1, <1>4
      <3>2. r[y] \in S
        BY <2>3, <1>3, <1>4, <1>6
      <3> QED BY <3>1, <3>2, <2>3 DEF Has
    <2> QED BY <2>1, <2>2, <2>3
  <1>8. ASSUME NEW k, Has(r, k) PROVE Has(q, k) \/ k \in S
    <2>1. PICK i \in 1..(Len(q) + Len(s)) : r[i] = k
      BY <1>5, <1>8 DEF Has
    <2>2. CASE i <= Len(q)
      BY <2>1, <2>2, <1>1, <1>4 DEF Has
    <2>3. CASE ~(i <= Len(q))
      BY <2>1, <2>3, <1>3, <1>4, <1>6
    <2> QED BY <2>2, <2>3
  <1>9. ASSUME NEW k, Has(q, k) PROVE Has(r, k)
    <2>1. PICK i \in DOMAIN q : q[i] = k
      BY <1>9 DEF Has
    <2>2. i \in 1..(Len(q) + Len(s)) /\ i <= Len(q)
      BY <2>1, <1>1, <1>3
    <2> QED BY <2>1, <2>2, <1>4, <1>5 DEF Has
  <1>10. ASSUME NEW k \in S PROVE Has(r, k)
    <2>1. PICK i \in 1..Len(s) : s[i] = k
      BY <1>2
    <2>2. Len(q) + i \in 1..(Len(q) + Len(s)) /\ r[Len(q) + i] = k
      BY <2>1, <1>4, <1>6
    <2> QED BY <2>2, <1>5 DEF Has
  <1> QED BY <1>7, <1>8, <1>9, <1>10

-----------------------------------------------------------------------------
(***************************************************************************)
(* Home is invariant                                                       *)
(***************************************************************************)

\* Every move leaves each job in one place or none.
LEMMA HomeMove ==
  ASSUME Typed, Typed', Home, Move
  PROVE  Home'
  <1>t. /\ tasks \in Seq(Jobs) /\ tasks' \in Seq(Jobs)
        /\ \A w \in Workers : th[w] \in Thread /\ th'[w] \in Thread /\ Sound(th[w]) /\ Sound(th'[w])
        /\ slot \in [Fds -> Slots] /\ life \in [Jobs -> Life] /\ NoJob \notin Jobs
    BY IOAssumption DEF Typed, Types, Places
  <1>l. \A i \in DOMAIN tasks : tasks[i] \in Jobs
    BY <1>t, LenProperties, ElementOfSeq
  <1>w. \A w \in Workers : /\ th[w].cur \in Jobs \cup {NoJob} /\ th[w].who \in Jobs \cup {NoJob}
                           /\ Adding(th[w]) => th[w].cur \in Jobs /\ th[w].who \in Jobs /\ th[w].pc # "yield"
                           /\ th[w].pc = "yield" => th[w].cur \in Jobs
    BY <1>t DEF Thread, Sound, Adding, Busy
  <1>h. /\ NoRepeats(tasks)
        /\ \A w, u \in Workers : th[w].cur = th[u].cur /\ th[w].cur # NoJob => w = u
        /\ \A fd, gd \in Fds, e, f \in Event : slot[fd][e] = slot[gd][f] /\ slot[fd][e] # NoJob => fd = gd /\ e = f
        /\ Apart /\ Asked
    BY DEF Home, Once
  <1>1. CASE UNCHANGED <<tasks, slot, life, th>>
    BY <1>1 DEF Home, Once, Apart, Asked, Run, Waits
  <1>k. ASSUME NEW w \in Workers, Keeps(w)
        PROVE  /\ \A u, v \in Workers : th'[u].cur = th'[v].cur /\ th'[u].cur # NoJob => u = v
               /\ \A j : Run(j)' <=> Run(j)
    <2>1. \A u \in Workers : th'[u].cur = th[u].cur /\ Runs(th'[u]) = Runs(th[u])
      BY <1>k DEF Keeps, Only, Runs
    <2> QED BY <2>1, <1>h DEF Run
  \* Whoever goes on asks for the same, if none of those become fresh no more.
  <1>a. ASSUME NEW w \in Workers, Keeps(w),
               \A j \in Jobs : life[j] = "fresh" /\ (\E u \in Workers : th[u].who = j) => life'[j] = "fresh"
        PROVE  Asked'
    <2>1. \A u \in Workers : /\ th'[u].cur = th[u].cur /\ th'[u].who = th[u].who
                             /\ Adding(th'[u]) <=> Adding(th[u])
      BY <1>a DEF Keeps, Only
    <2> QED BY <2>1, <1>a, <1>h, <1>w DEF Asked
  <1>2. ASSUME NEW w \in Workers, Stays(w) PROVE Home'
    <2>1. Keeps(w) /\ UNCHANGED <<tasks, slot, life>>
      BY <1>2 DEF Stays
    <2>2. Once'
      BY <2>1, <1>h, <1>k DEF Once
    <2>3. Apart'
      BY <2>1, <1>h, <1>k DEF Apart, Waits
    <2>4. Asked'
      BY <2>1, <1>a
    <2> QED BY <2>2, <2>3, <2>4 DEF Home
  <1>3. ASSUME NEW w \in Workers, Drops(w) PROVE Home'
    <2>1. \A u \in Workers : th'[u].cur = th[u].cur /\ Runs(th'[u]) = Runs(th[u])
      BY <1>3 DEF Drops, Only, Runs
    <2>2. UNCHANGED <<tasks, slot, life>>
      BY <1>3 DEF Drops
    <2>3. Once'
      BY <2>1, <2>2, <1>h DEF Once
    <2>4. Apart'
      BY <2>1, <2>2, <1>h DEF Apart, Waits, Run
    <2>5. Asked'
      BY <1>3, <2>1, <2>2, <1>h, <1>w, <1>t DEF Asked, Drops, Only
    <2> QED BY <2>3, <2>4, <2>5 DEF Home
  <1>4. ASSUME NEW w \in Workers, NEW i \in DOMAIN tasks, Takes(w, i) PROVE Home'
    <2> DEFINE j == tasks[i]
    <2>0. /\ Only(w) /\ th[w].cur = NoJob /\ ~Adding(th[w]) /\ Takeable(j)
          /\ th'[w].cur = j /\ th'[w].who = th[w].who
          /\ th'[w].pc # "yield" /\ ~Adding(th'[w])
          /\ tasks' = RemoveAt(tasks, i) /\ UNCHANGED <<slot, life>>
      BY <1>4 DEF Takes
    <2>1. j \in Jobs /\ Has(tasks, j)
      BY <1>l DEF Has
    <2> HIDE DEF j
    <2>2. NoRepeats(tasks') /\ \A k : Has(tasks', k) <=> Has(tasks, k) /\ k # j
      BY <2>0, <1>t, <1>h, AfterRemoval DEF j
    <2>3. \A u, v \in Workers : th'[u].cur = th'[v].cur /\ th'[u].cur # NoJob => u = v
      BY <2>0, <1>h DEF Only, Takeable
    <2>4. \A k \in Jobs : Run(k)' <=> Run(k) \/ k = j
      <3>1. Runs(th'[w]) = j /\ Runs(th[w]) = NoJob /\ \A u \in Workers \ {w} : Runs(th'[u]) = Runs(th[u])
        BY <2>0 DEF Only, Runs
      <3> QED BY <3>1, <1>t DEF Run
    <2>5. Once'
      BY <2>0, <2>2, <2>3, <1>h DEF Once
    <2>6. Apart'
      BY <2>0, <2>1, <2>2, <2>4, <1>h DEF Apart, Waits
    <2>7. Asked'
      BY <2>0, <1>h DEF Asked, Only
    <2> QED BY <2>5, <2>6, <2>7 DEF Home
  <1>5. ASSUME NEW w \in Workers, NEW j \in Jobs, Spawns(w, j) PROVE Home'
    <2>0. /\ Keeps(w) /\ life[j] = "fresh" /\ (\A u \in Workers : th[u].who # j)
          /\ tasks' = Append(tasks, j) /\ life' = [life EXCEPT ![j] = "live"] /\ UNCHANGED slot
      BY <1>5 DEF Spawns, Unused
    <2>1. ~Has(tasks, j) /\ ~Run(j) /\ ~Waits(j)
      BY <2>0, <1>h DEF Apart
    <2>2. NoRepeats(tasks') /\ \A k : Has(tasks', k) <=> Has(tasks, k) \/ k = j
      BY <2>0, <2>1, <1>t, <1>h, AfterAppend
    <2>3. \A k \in Jobs : life'[k] = IF k = j THEN "live" ELSE life[k]
      BY <2>0, <1>t
    <2>4. Once'
      BY <2>0, <2>2, <1>k, <1>h DEF Once
    <2>5. Apart'
      BY <2>0, <2>1, <2>2, <2>3, <1>k, <1>h DEF Apart, Waits
    <2>6. Asked'
      BY <2>0, <2>3, <1>a
    <2> QED BY <2>4, <2>5, <2>6 DEF Home
  <1>6. ASSUME NEW w \in Workers, NEW l \in Life, Leaves(w, l) PROVE Home'
    <2> DEFINE j == th[w].cur
    <2>0. /\ Only(w) /\ j # NoJob /\ ~Adding(th[w])
          /\ IF th[w].pc = "yield" THEN l = life[j] ELSE l \notin {"live", "fresh"}
          /\ th'[w].cur = NoJob /\ th'[w].who = th[w].who /\ th'[w].pc # "yield" /\ ~Adding(th'[w])
          /\ life' = [life EXCEPT ![j] = l] /\ UNCHANGED <<tasks, slot>>
      BY <1>6 DEF Leaves
    <2>1. j \in Jobs
      BY <2>0, <1>w
    <2>2. \A k \in Jobs : life'[k] = IF k = j THEN l ELSE life[k]
      BY <2>0, <1>t
    <2>3. \A u \in Workers \ {w} : Runs(th'[u]) = Runs(th[u]) /\ th[u].cur # j
      BY <2>0, <1>h DEF Only, Runs
    <2>4. Runs(th'[w]) = NoJob /\ Runs(th[w]) = IF th[w].pc = "yield" THEN NoJob ELSE j
      BY <2>0 DEF Runs
    <2>5. \A k \in Jobs : Run(k)' <=> Run(k) /\ k # Runs(th[w])
      <3>1. \A u \in Workers \ {w} : Runs(th[u]) # j
        BY <2>3, <2>1, <1>t DEF Runs
      <3> QED BY <2>3, <2>4, <3>1, <1>t DEF Run
    <2>6. Once'
      BY <2>0, <1>h DEF Once, Only
    <2>7. Apart'
      <3>1. CASE th[w].pc = "yield"
        BY <3>1, <2>0, <2>2, <2>4, <2>5, <1>h, <1>t DEF Apart, Waits
      <3>2. CASE th[w].pc # "yield"
        <4>1. Run(j)
          BY <3>2, <2>4 DEF Run
        <4> QED BY <4>1, <3>2, <2>0, <2>1, <2>2, <2>4, <2>5, <1>h DEF Apart, Waits
      <3> QED BY <3>1, <3>2
    <2>8. Asked'
      <3>1. ASSUME NEW u \in Workers, Adding(th'[u])
            PROVE  \/ th'[u].who = th'[u].cur
                   \/ life'[th'[u].who] = "fresh" /\ \A v \in Workers \ {u} : th'[v].who # th'[u].who
        <4>1. u # w /\ th'[u] = th[u] /\ Adding(th[u]) /\ th[u].who \in Jobs
          BY <3>1, <2>0, <1>w DEF Only
        <4>2. \A v \in Workers : th'[v].who = th[v].who
          BY <2>0 DEF Only
        <4>3. CASE th[u].who = th[u].cur
          BY <4>1, <4>3
        <4>4. CASE life[th[u].who] = "fresh" /\ \A v \in Workers \ {u} : th[v].who # th[u].who
          <5>1. life'[th[u].who] = "fresh"
            <6>1. CASE th[w].pc = "yield"
              BY <6>1, <4>1, <4>4, <2>0, <2>2
            <6>2. CASE th[w].pc # "yield"
              <7>1. Run(j)
                BY <6>2, <2>4 DEF Run
              <7>2. life[j] = "live"
                BY <7>1, <2>1, <1>h DEF Apart
              <7> QED BY <7>2, <4>1, <4>4, <2>2
            <6> QED BY <6>1, <6>2
          <5> QED BY <5>1, <4>1, <4>2, <4>4
        <4> QED BY <4>1, <4>3, <4>4, <1>h DEF Asked
      <3>2. \A u \in Workers : ~Adding(th'[u]) => th'[u].who = NoJob
        BY <2>0, <1>h DEF Asked, Only
      <3> QED BY <3>1, <3>2 DEF Asked
    <2> QED BY <2>6, <2>7, <2>8 DEF Home
  <1>7. ASSUME NEW w \in Workers, NEW j \in Jobs, Asks(w, j) PROVE Home'
    <2>0. /\ Only(w) /\ ~Adding(th[w]) /\ th[w].pc # "yield" /\ th'[w].pc # "yield"
          /\ j = th[w].cur \/ (life[j] = "fresh" /\ \A u \in Workers : th[u].who # j)
          /\ th'[w].cur = th[w].cur /\ th'[w].who = j /\ Adding(th'[w])
          /\ UNCHANGED <<tasks, slot, life>>
      BY <1>7 DEF Asks, Unused
    <2>1. \A u \in Workers : th'[u].cur = th[u].cur /\ Runs(th'[u]) = Runs(th[u])
      BY <2>0 DEF Only, Runs
    <2>3. Once'
      BY <2>0, <2>1, <1>h DEF Once
    <2>4. Apart'
      BY <2>0, <2>1, <1>h DEF Apart, Waits, Run
    <2>5. ASSUME NEW u \in Workers
          PROVE  IF Adding(th'[u])
                 THEN \/ th'[u].who = th'[u].cur
                      \/ life'[th'[u].who] = "fresh" /\ \A v \in Workers \ {u} : th'[v].who # th'[u].who
                 ELSE th'[u].who = NoJob
      <3>1. CASE u = w
        BY <3>1, <2>0 DEF Only
      <3>2. CASE u # w
        <4>1. th'[u] = th[u]
          BY <3>2, <2>0 DEF Only
        <4>2. ASSUME Adding(th[u]), life[th[u].who] = "fresh",
                     \A v \in Workers \ {u} : th[v].who # th[u].who
              PROVE  \A v \in Workers \ {u} : th'[v].who # th[u].who
          <5>1. j # th[u].who
            <6>1. CASE j = th[w].cur
              <7>1. Run(j)
                BY <6>1, <2>0 DEF Run, Runs
              <7>2. life[j] = "live"
                BY <7>1, <1>h DEF Apart
              <7> QED BY <7>2, <4>2
            <6>2. CASE \A v \in Workers : th[v].who # j
              BY <6>2
            <6> QED BY <6>1, <6>2, <2>0
          <5> QED BY <5>1, <4>2, <2>0 DEF Only
        <4> QED BY <4>1, <4>2, <2>0, <1>h DEF Asked
      <3> QED BY <3>1, <3>2
    <2>6. Asked'
      BY <2>5 DEF Asked
    <2> QED BY <2>3, <2>4, <2>6 DEF Home
  <1>s. ASSUME NEW fd \in Fds, NEW e \in Event, NEW j, slot' = [slot EXCEPT ![fd][e] = j]
        PROVE  /\ slot'[fd][e] = j
               /\ \A gd \in Fds, f \in Event : gd # fd \/ f # e => slot'[gd][f] = slot[gd][f]
    BY <1>s, <1>t DEF Slots
  \* A slot is emptied.
  <1>e. ASSUME NEW fd \in Fds, NEW e \in Event, slot[fd][e] # NoJob,
               slot' = [slot EXCEPT ![fd][e] = NoJob]
        PROVE  /\ \A gd, hd \in Fds, f, g \in Event :
                    slot'[gd][f] = slot'[hd][g] /\ slot'[gd][f] # NoJob => gd = hd /\ f = g
               /\ slot[fd][e] \in Jobs /\ Waits(slot[fd][e])
               /\ \A j \in Jobs : Waits(j)' <=> Waits(j) /\ j # slot[fd][e]
    <2>1. /\ slot'[fd][e] = NoJob
          /\ \A gd \in Fds, f \in Event : gd # fd \/ f # e => slot'[gd][f] = slot[gd][f]
      <3>1. slot' = [slot EXCEPT ![fd][e] = NoJob]
        BY <1>e
      <3> QED BY <3>1, <1>t DEF Slots
    <2>2. slot[fd][e] \in Jobs
      BY <1>e, <1>t DEF Slots
    <2>3. \A gd, hd \in Fds, f, g \in Event :
            slot'[gd][f] = slot'[hd][g] /\ slot'[gd][f] # NoJob => gd = hd /\ f = g
      BY <2>1, <1>h
    <2>4. ASSUME NEW j \in Jobs, Waits(j)' PROVE Waits(j) /\ j # slot[fd][e]
      <3>1. PICK gd \in Fds, f \in Event : slot'[gd][f] = j
        BY <2>4 DEF Waits
      <3>2. (gd # fd \/ f # e) /\ slot[gd][f] = j
        BY <3>1, <2>1, <1>t
      <3> QED BY <3>2, <1>h, <1>t DEF Waits
    <2>5. ASSUME NEW j \in Jobs, Waits(j), j # slot[fd][e] PROVE Waits(j)'
      BY <2>5, <2>1 DEF Waits
    <2> QED BY <2>2, <2>3, <2>4, <2>5 DEF Waits
  <1>8. ASSUME NEW w \in Workers, NEW fd \in Fds, NEW e \in Event, Records(w, fd, e) PROVE Home'
    <2> DEFINE j == th[w].who
    <2>0. /\ Only(w) /\ Adding(th[w]) /\ slot[fd][e] = NoJob
          /\ th'[w].cur = th[w].cur /\ th'[w].who = NoJob /\ ~Adding(th'[w])
          /\ th'[w].pc = "yield" <=> j = th[w].cur
          /\ slot' = [slot EXCEPT ![fd][e] = j]
          /\ life' = [life EXCEPT ![j] = "live"] /\ UNCHANGED tasks
      BY <1>8 DEF Records
    <2>1. j \in Jobs /\ th[w].cur \in Jobs /\ th[w].pc # "yield"
      BY <2>0, <1>w
    <2> HIDE DEF j
    <2>2. \A k \in Jobs : life'[k] = IF k = j THEN "live" ELSE life[k]
      BY <2>0, <1>t
    <2>3. j = th[w].cur \/ (life[j] = "fresh" /\ \A v \in Workers \ {w} : th[v].who # j)
      BY <2>0, <1>h DEF Asked, j
    <2>4. \A u \in Workers \ {w} : Runs(th'[u]) = Runs(th[u]) /\ th'[u] = th[u]
      BY <2>0 DEF Only
    <2>5. Runs(th[w]) = th[w].cur /\ Runs(th'[w]) = IF j = th[w].cur THEN NoJob ELSE th[w].cur
      BY <2>0, <2>1 DEF Runs
    <2>6. Run(th[w].cur)
      BY <2>5 DEF Run
    <2>7. j = th[w].cur \/ (~Run(j) /\ ~Has(tasks, j) /\ ~Waits(j))
      BY <2>1, <2>3, <1>h DEF Apart
    <2>8. ~Has(tasks, j) /\ ~Waits(j)
      BY <2>1, <2>6, <2>7, <1>h DEF Apart
    <2>9. \A k \in Jobs : Run(k)' <=> Run(k) /\ k # j
      <3>1. \A u \in Workers \ {w} : Runs(th[u]) # th[w].cur
        BY <2>1, <1>h, <1>t DEF Runs
      <3>2. ASSUME NEW k \in Jobs, Run(k)' PROVE Run(k) /\ k # j
        <4>1. PICK u \in Workers : Runs(th'[u]) = k
          BY <3>2 DEF Run
        <4>2. Runs(th[u]) = k
          BY <4>1, <2>4, <2>5, <1>t
        <4>3. Run(k)
          BY <4>2 DEF Run
        <4>4. k # j
          BY <4>1, <4>2, <4>3, <2>4, <2>5, <2>7, <3>1, <1>t
        <4> QED BY <4>3, <4>4
      <3>3. ASSUME NEW k \in Jobs, Run(k), k # j PROVE Run(k)'
        <4>1. PICK u \in Workers : Runs(th[u]) = k
          BY <3>3 DEF Run
        <4>2. Runs(th'[u]) = k
          BY <4>1, <3>3, <2>4, <2>5
        <4> QED BY <4>2 DEF Run
      <3> QED BY <3>2, <3>3
    <2>10. /\ slot'[fd][e] = j
           /\ \A gd \in Fds, f \in Event : gd # fd \/ f # e => slot'[gd][f] = slot[gd][f]
      BY <2>0, <1>s
    <2>11. \A k \in Jobs : Waits(k)' <=> Waits(k) \/ k = j
      <3>1. ASSUME NEW k \in Jobs, Waits(k)' PROVE Waits(k) \/ k = j
        BY <3>1, <2>10 DEF Waits
      <3>2. ASSUME NEW k \in Jobs, Waits(k) PROVE Waits(k)'
        <4>1. PICK gd \in Fds, f \in Event : slot[gd][f] = k
          BY <3>2 DEF Waits
        <4>2. slot'[gd][f] = k
          BY <4>1, <2>0, <2>10, <1>t
        <4> QED BY <4>2 DEF Waits
      <3>3. ASSUME NEW k \in Jobs, k = j PROVE Waits(k)'
        BY <3>3, <2>10 DEF Waits
      <3> QED BY <3>1, <3>2, <3>3
    <2>12. \A gd, hd \in Fds, f, g \in Event :
             slot'[gd][f] = slot'[hd][g] /\ slot'[gd][f] # NoJob => gd = hd /\ f = g
      BY <2>8, <2>10, <1>h DEF Waits
    <2>13. Once'
      <3>1. \A u \in Workers : th'[u].cur = th[u].cur
        BY <2>0 DEF Only
      <3> QED BY <3>1, <2>0, <2>12, <1>h DEF Once
    <2>14. Apart'
      BY <2>0, <2>2, <2>8, <2>9, <2>11, <1>h DEF Apart
    <2>15. ASSUME NEW u \in Workers
           PROVE  IF Adding(th'[u])
                  THEN \/ th'[u].who = th'[u].cur
                       \/ life'[th'[u].who] = "fresh" /\ \A v \in Workers \ {u} : th'[v].who # th'[u].who
                  ELSE th'[u].who = NoJob
      <3>1. CASE u = w
        BY <3>1, <2>0
      <3>2. CASE u # w
        <4>1. th'[u] = th[u]
          BY <3>2, <2>4
        <4>2. ASSUME Adding(th[u]), life[th[u].who] = "fresh",
                     \A v \in Workers \ {u} : th[v].who # th[u].who
              PROVE  life'[th[u].who] = "fresh" /\ \A v \in Workers \ {u} : th'[v].who # th[u].who
          <5>1. th[u].who \in Jobs /\ th[u].who # j
            BY <4>2, <3>2, <1>w DEF j
          <5>2. life'[th[u].who] = "fresh"
            BY <5>1, <4>2, <2>2
          <5>3. \A v \in Workers \ {u} : th'[v].who # th[u].who
            BY <5>1, <4>2, <2>0, <2>4, <1>t
          <5> QED BY <5>2, <5>3
        <4> QED BY <4>1, <4>2, <1>h DEF Asked
      <3> QED BY <3>1, <3>2
    <2>16. Asked'
      BY <2>15 DEF Asked
    <2> QED BY <2>13, <2>14, <2>16 DEF Home
  <1>9. ASSUME NEW w \in Workers, NEW fd \in Fds, NEW e \in Event, Triggers(w, fd, e) PROVE Home'
    <2> DEFINE j == slot[fd][e]
    <2>0. /\ Keeps(w) /\ j # NoJob
          /\ tasks' = Append(tasks, j) /\ slot' = [slot EXCEPT ![fd][e] = NoJob] /\ UNCHANGED life
      BY <1>9 DEF Triggers
    <2>1. /\ \A gd, hd \in Fds, f, g \in Event :
               slot'[gd][f] = slot'[hd][g] /\ slot'[gd][f] # NoJob => gd = hd /\ f = g
          /\ j \in Jobs /\ Waits(j) /\ \A k \in Jobs : Waits(k)' <=> Waits(k) /\ k # j
      BY <2>0, <1>e
    <2> HIDE DEF j
    <2>2. ~Has(tasks, j) /\ ~Run(j) /\ life[j] = "live"
      BY <2>1, <1>h DEF Apart
    <2>3. NoRepeats(tasks') /\ \A k : Has(tasks', k) <=> Has(tasks, k) \/ k = j
      BY <2>0, <2>1, <2>2, <1>t, <1>h, AfterAppend
    <2>4. Once'
      BY <2>0, <2>1, <2>3, <1>k DEF Once
    <2>5. Apart'
      BY <2>0, <2>1, <2>2, <2>3, <1>k, <1>h DEF Apart
    <2>6. Asked'
      BY <2>0, <1>a
    <2> QED BY <2>4, <2>5, <2>6 DEF Home
  <1>10. ASSUME NEW fd \in Fds, NEW e \in Event, Deletes(fd, e) PROVE Home'
    <2> DEFINE j == slot[fd][e]
    <2>0. /\ j # NoJob /\ slot' = [slot EXCEPT ![fd][e] = NoJob]
          /\ life' = [life EXCEPT ![j] = "dropped"] /\ UNCHANGED <<tasks, th>>
      BY <1>10 DEF Deletes
    <2>1. /\ \A gd, hd \in Fds, f, g \in Event :
               slot'[gd][f] = slot'[hd][g] /\ slot'[gd][f] # NoJob => gd = hd /\ f = g
          /\ j \in Jobs /\ Waits(j) /\ \A k \in Jobs : Waits(k)' <=> Waits(k) /\ k # j
      BY <2>0, <1>e
    <2> HIDE DEF j
    <2>2. ~Has(tasks, j) /\ ~Run(j) /\ life[j] = "live"
      BY <2>1, <1>h DEF Apart
    <2>3. \A k \in Jobs : life'[k] = IF k = j THEN "dropped" ELSE life[k]
      BY <2>0, <1>t
    <2>4. Once'
      BY <2>0, <2>1, <1>h DEF Once
    <2>5. Apart'
      BY <2>0, <2>1, <2>2, <2>3, <1>h DEF Apart, Run
    <2>6. Asked'
      BY <2>0, <2>2, <2>3, <1>h, <1>w DEF Asked
    <2> QED BY <2>4, <2>5, <2>6 DEF Home
  <1>11. ASSUME NEW w \in Workers, NEW S \in SUBSET Jobs, NEW s \in SetToSeqs(S), Wakes(w, S, s) PROVE Home'
    <2>0. /\ Keeps(w) /\ \A j \in S : life[j] = "asleep"
          /\ tasks' = tasks \o s /\ life' = [j \in Jobs |-> IF j \in S THEN "live" ELSE life[j]]
          /\ UNCHANGED slot
      BY <1>11 DEF Wakes
    <2>1. \A j \in S : ~Has(tasks, j) /\ ~Run(j) /\ ~Waits(j)
      BY <2>0, <1>h DEF Apart
    <2>2. NoRepeats(tasks') /\ \A k : Has(tasks', k) <=> Has(tasks, k) \/ k \in S
      <3>1. tasks \in Seq(Jobs) /\ NoRepeats(tasks) /\ \A j \in S : ~Has(tasks, j)
        BY <2>1, <1>t, <1>h
      <3>2. tasks' = tasks \o s
        BY <2>0
      <3> QED BY <3>1, <3>2, AfterConcat
    <2>3. \A k \in Jobs : life'[k] = IF k \in S THEN "live" ELSE life[k]
      BY <2>0
    <2>4. Once'
      BY <2>0, <2>2, <1>k, <1>h DEF Once
    <2>5. Apart'
      BY <2>0, <2>1, <2>2, <2>3, <1>k, <1>h DEF Apart, Waits
    <2>6. Asked'
      BY <2>0, <2>3, <1>a
    <2> QED BY <2>4, <2>5, <2>6 DEF Home
  <1> QED BY <1>1, <1>2, <1>3, <1>4, <1>5, <1>6, <1>7, <1>8, <1>9, <1>10, <1>11 DEF Move

\* At first the initial jobs are listed, once, and nobody else lives.
LEMMA HomeInit == Init => Home
  <1> SUFFICES ASSUME Init PROVE Home
    OBVIOUS
  <1>1. /\ tasks = Initial /\ slot = [fd \in Fds |-> [e \in Event |-> NoJob]]
        /\ life = [j \in Jobs |-> IF j \in Range(Initial) THEN "live" ELSE "fresh"]
        /\ \A w \in Workers : th[w].pc = "scan" /\ th[w].cur = NoJob /\ th[w].who = NoJob
    BY DEF Init
  <1>2. Once
    BY <1>1, IOAssumption DEF Once, NoRepeats
  <1>3. \A j \in Jobs : ~Run(j) /\ ~Waits(j) /\ (Has(tasks, j) <=> j \in Range(Initial))
    BY <1>1, IOAssumption DEF Run, Runs, Waits, Has, Range
  <1>4. Apart
    BY <1>1, <1>3 DEF Apart
  <1>5. Asked
    BY <1>1 DEF Asked, Adding
  <1> QED BY <1>2, <1>4, <1>5 DEF Home

\* A job that is in one place only is used once.
LEMMA HomeUses ==
  ASSUME Typed, Home, NEW j \in Jobs
  PROVE  Uses(j) = IF life[j] = "live" THEN 1 ELSE 0
  <1> DEFINE A == {i \in DOMAIN tasks : tasks[i] = j}
             B == {w \in Workers : th[w].cur = j /\ ~At(w, "yield")}
             C == {p \in Registered : slot[p[1]][p[2]] = j}
  <1>1. NoJob # j
    BY IOAssumption
  <1>2. (Has(tasks, j) <=> A # {}) /\ \A x, y \in A : x = y
    BY DEF Home, Once, NoRepeats, Has
  <1>3. (Run(j) <=> B # {}) /\ \A x, y \in B : x = y
    BY <1>1 DEF Home, Once, Run, Runs, At
  <1>4. (Waits(j) <=> C # {}) /\ \A x, y \in C : x = y
    <2>1. \A p : p \in C <=> p \in Fds \X Event /\ slot[p[1]][p[2]] = j
      BY <1>1 DEF Registered, events
    <2>2. Waits(j) <=> C # {}
      <3>1. ASSUME Waits(j) PROVE C # {}
        <4>1. PICK fd \in Fds, e \in Event : slot[fd][e] = j
          BY <3>1 DEF Waits
        <4>2. <<fd, e>> \in C
          BY <4>1, <2>1
        <4> QED BY <4>2
      <3>2. ASSUME NEW p \in C PROVE Waits(j)
        BY <2>1 DEF Waits
      <3> QED BY <3>1, <3>2
    <2>3. ASSUME NEW p \in C, NEW q \in C PROVE p = q
      <3>1. /\ p \in Fds \X Event /\ q \in Fds \X Event
            /\ slot[p[1]][p[2]] = j /\ slot[q[1]][q[2]] = j
        BY <2>1
      <3>2. p[1] = q[1] /\ p[2] = q[2]
        BY <3>1, <1>1 DEF Home, Once
      <3> QED BY <3>1, <3>2
    <2> QED BY <2>2, <2>3
  <1> HIDE DEF A, B, C
  <1>5. ASSUME NEW S, \A x, y \in S : x = y PROVE Cardinality(S) = IF S = {} THEN 0 ELSE 1
    <2>1. CASE S = {}
      BY <2>1, FS_EmptySet
    <2>2. CASE S # {}
      <3>1. PICK x \in S : TRUE
        BY <2>2
      <3>2. S = {x}
        BY <3>1, <1>5
      <3> QED BY <3>2, FS_Singleton
    <2> QED BY <2>1, <2>2
  <1>6. /\ Cardinality(A) = IF Has(tasks, j) THEN 1 ELSE 0
        /\ Cardinality(B) = IF Run(j) THEN 1 ELSE 0
        /\ Cardinality(C) = IF Waits(j) THEN 1 ELSE 0
    BY <1>2, <1>3, <1>4, <1>5
  <1>7. Uses(j) = Cardinality(A) + Cardinality(B) + Cardinality(C)
    BY DEF Uses, A, B, C
  <1>8. /\ ~(Has(tasks, j) /\ Run(j)) /\ ~(Has(tasks, j) /\ Waits(j)) /\ ~(Run(j) /\ Waits(j))
        /\ life[j] = "live" <=> Has(tasks, j) \/ Run(j) \/ Waits(j)
    BY DEF Home, Apart
  <1> QED BY <1>6, <1>7, <1>8

\* Nothing that follows a fault takes it back.
LEMMA FaultStays == [Next]_vars /\ fault' = "none" => fault = "none"
  <1> SUFFICES ASSUME [Next]_vars, fault' = "none" PROVE fault = "none"
    OBVIOUS
  <1> USE DEF Alive
  <1>1. ASSUME NEW w, RunStep(w) \/ IdleStep(w) PROVE fault = "none"
    BY <1>1 DEF RunStep, IdleStep, Take, TakeNothing, Tickle, Write, IdleRead, IdleCheck,
                EpollWait, Expire, Handle, HandlePipe, IdleLeave
  <1>2. ASSUME NEW w, BodyStep(w) PROVE fault = "none"
    BY <1>2 DEF BodyStep, Calls, Spawn, Drain, AddEvent, DelEvent, CancelEvent, CancelAll, Cancel,
                Reuse, Grow, Added, Fire, FireNull, Count, Yield, Sleep, End
  <1>3. ASSUME NEW fd, NEW c, Ready(fd, c) PROVE fault = "none"
    BY <1>3 DEF Ready
  <1> QED BY <1>1, <1>2, <1>3 DEF Next, WorkerStep, Faulted, Stop, vars

Homes == fault = "none" => Home

\* A waiter is never lost and never woken twice: as long as behaviour is defined, every
\* job that lives is in the list, with one worker or in one context, once, whatever
\* epoll reports, times out or is cancelled, and no other job is anywhere.
THEOREM AlwaysOnePlace == Spec => []OnePlace
  <1>1. Init => Homes
    BY HomeInit DEF Homes
  <1>2. Typed /\ Typed' /\ Homes /\ [Next]_vars => Homes'
    BY Moves, FaultStays, HomeMove DEF Homes
  <1>3. Typed /\ Homes => OnePlace
    BY HomeUses DEF Homes, OnePlace
  <1> QED BY <1>1, <1>2, <1>3, TypedAlways, PTL DEF Spec

=============================================================================
