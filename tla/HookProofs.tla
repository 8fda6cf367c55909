------------------------------- MODULE HookProofs -------------------------------
(***************************************************************************)
(* Theorems about Hook, for any number of fibers, threads, descriptors and *)
(* calls.                                                                  *)
(***************************************************************************)
EXTENDS Hook, TLAPS

-----------------------------------------------------------------------------
(***************************************************************************)
(* Type correctness: only fibers wait, for only they find a context.       *)
(***************************************************************************)

Fibers ==
  \A a \in Actors :
    /\ th[a].managed => a \in Hooked
    /\ th[a].pc \in {"add", "wait", "woken", "check"} => a \in Hooked

TypeInv == TypeOK /\ Fibers

LEMMA RestTyped == Rest \in Thread /\ Rest.pc = "idle" /\ ~Rest.managed /\ Rest.call = 0
  <1>1. (CHOOSE fd \in Fds : TRUE) \in Fds
    BY HookAssumption
  <1> QED BY <1>1, HookAssumption DEF Rest, Thread, Op

\* The thread of an actor that has just made a call.
LEMMA AsksTyped ==
  ASSUME calls \in 0..MaxCalls, calls < MaxCalls, NEW fd \in Fds,
         NEW place \in {"try", "opened", "del"}
  PROVE  /\ Asks(fd, place) \in Thread
         /\ Asks(fd, place).pc = place /\ ~Asks(fd, place).managed
  <1>1. calls + 1 \in 0..MaxCalls
    BY HookAssumption
  <1> QED BY <1>1, RestTyped DEF Asks, Thread

LEMMA TypeInvInit == Init => TypeInv
  <1> SUFFICES ASSUME Init PROVE TypeInv
    OBVIOUS
  <1>1. NewFile \in File /\ NewCtx \in FdCtx
    BY DEF NewFile, File, NewCtx, FdCtx
  <1>2. \A t \in BOOLEAN : [NewCtx EXCEPT !.recvTimeout = t, !.sendTimeout = t] \in FdCtx
    BY DEF NewCtx, FdCtx
  <1>3. [NewFile EXCEPT !.nonblock = TRUE] \in File
    BY DEF NewFile, File
  <1>4. /\ file \in [Fds -> File \cup {None}]
        /\ table \in [Fds -> FdCtx \cup {None}]
    BY <1>1, <1>2, <1>3 DEF Init
  <1>5. th \in [Actors -> Thread] /\ Fibers
    BY RestTyped DEF Init, Fibers
  <1>6. calls \in 0..MaxCalls
    BY HookAssumption DEF Init
  <1> QED BY <1>4, <1>5, <1>6, HookAssumption DEF Init, TypeInv, TypeOK

LEMMA TypeInvNext == TypeInv /\ [Next]_vars => TypeInv'
  <1> SUFFICES ASSUME TypeInv, [Next]_vars PROVE TypeInv'
    OBVIOUS
  <1>t. /\ th \in [Actors -> Thread] /\ file \in [Fds -> File \cup {None}]
        /\ table \in [Fds -> FdCtx \cup {None}]
        /\ waiter \in [Fds -> [Event -> Hooked \cup {None}]]
        /\ strikes \subseteq [fd : Fds, event : Event, call : 0..MaxCalls]
        /\ calls \in 0..MaxCalls /\ lost \subseteq Fds /\ works \in Built
    BY DEF TypeInv, TypeOK
  <1>f. th \in [Actors -> Thread] /\ Fibers
    BY DEF TypeInv, TypeOK
  <1>s. /\ seen.asked \subseteq Fds /\ seen.cleared \subseteq Fds /\ seen.again \subseteq Fds
        /\ seen.gone \subseteq Fds /\ seen.stray \in BOOLEAN
        /\ seen = [asked |-> seen.asked, cleared |-> seen.cleared, again |-> seen.again,
                   gone |-> seen.gone, stray |-> seen.stray]
    BY DEF TypeInv, TypeOK
  <1>e. \A op : EventOf(op) \in Event
    BY DEF EventOf, Event
  <1>n. NewFile \in File /\ NewCtx \in FdCtx
    BY DEF NewFile, File, NewCtx, FdCtx
  <1>m. MaxCalls \in Nat /\ None \notin Actors /\ Hooked \subseteq Actors /\ Hooked \cap Plain = {}
    BY HookAssumption DEF Actors
  \* What one actor's step leaves typed, beside its own thread.
  <1>l. ASSUME NEW a \in Actors, NEW r \in Thread, th' = [th EXCEPT ![a] = r],
               r.managed => a \in Hooked,
               r.pc \in {"add", "wait", "woken", "check"} => a \in Hooked
        PROVE  th' \in [Actors -> Thread] /\ Fibers'
    BY <1>l, <1>t DEF TypeInv, Fibers
  <1>k. ASSUME NEW a \in Actors, \A b \in Actors : b # a => th'[b] = th[b],
               th'[a].managed => a \in Hooked,
               th'[a].pc \in {"add", "wait", "woken", "check"} => a \in Hooked
        PROVE  Fibers'
    BY <1>k, <1>f DEF Fibers
  <1>r. ASSUME NEW a \in Actors, NEW r \in {"done", "early", "again", "timeout"}, Return(a, r)
        PROVE  th' \in [Actors -> Thread] /\ Fibers'
    <2> DEFINE next == IF r = "done" THEN Rest ELSE
                       [Rest EXCEPT !.fd = th[a].fd, !.ripe = th[a].ripe, !.res = r]
    <2>1. next \in Thread /\ ~next.managed /\ next.pc = "idle"
      BY RestTyped, <1>t DEF Thread
    <2>2. th' = [th EXCEPT ![a] = next]
      BY <1>r DEF Return
    <2> HIDE DEF next
    <2> QED BY <2>1, <2>2, <1>l
  <1>1. ASSUME NEW a \in Actors, NEW op \in Op, NEW fd \in Fds, Call(a, op, fd)
        PROVE  TypeInv'
    <2>1. PICK to \in BOOLEAN :
            th' = [th EXCEPT ![a] = [Asks(fd, "try") EXCEPT !.managed = ~Straight(a, fd),
                                                            !.op = op, !.to = to]]
      BY <1>1, <1>t DEF Call, Timeouts, Straight, FdCtx
    <2>2. Asks(fd, "try") \in Thread
      BY <1>1, <1>t, AsksTyped DEF Call, Calls
    <2>3. th' \in [Actors -> Thread] /\ Fibers'
      <3>1. Straight(a, fd) \in BOOLEAN /\ (~Straight(a, fd) => a \in Hooked)
        BY <1>m DEF Straight, Actors
      <3>2. Asks(fd, "try").pc = "try"
        BY <1>1, <1>t, AsksTyped DEF Call, Calls
      <3>3. [Asks(fd, "try") EXCEPT !.managed = ~Straight(a, fd), !.op = op, !.to = to] \in Thread
        BY <2>2, <3>1 DEF Thread
      <3> QED BY <2>1, <2>2, <3>1, <3>2, <3>3, <1>l, ZenonT(30) DEF Thread
    <2> QED BY <1>1, <2>3, <1>m DEF Call, Calls, TypeInv, TypeOK
  <1>2. ASSUME NEW a \in Actors, Done(a)
        PROVE  TypeInv'
    <2>1. CASE th[a].op = "accept" /\ \E n \in Fds : file[n] = None
      <3>1. PICK n \in {m \in Fds : file[m] = None} :
              /\ file' = [file EXCEPT ![th[a].fd].ready = @ \ {"READ"}, ![n] = NewFile]
              /\ th' = [th EXCEPT ![a] = [@ EXCEPT !.pc = "opened", !.fd = n, !.to = FALSE,
                                                   !.popped = 0, !.cancelled = FALSE]]
              /\ seen' = [seen EXCEPT !.again = @ \cup {m \in {n} :
                            table[m] # None \/ InCall(m) # {}}]
        BY <1>2, <2>1 DEF Done
      <3>2. file' \in [Fds -> File \cup {None}]
        BY <1>2, <3>1, <1>t, <1>n, ZenonT(30) DEF Done, Ready, File
      <3>3. th' \in [Actors -> Thread] /\ Fibers'
        <4>1. th' \in [Actors -> Thread] /\ th'[a].managed = th[a].managed /\ th'[a].pc = "opened"
          <5> DEFINE r == [th[a] EXCEPT !.pc = "opened", !.fd = n, !.to = FALSE,
                                        !.popped = 0, !.cancelled = FALSE]
          <5>1. r \in Thread /\ r.managed = th[a].managed /\ r.pc = "opened"
            BY <1>f, ZenonT(30) DEF Thread
          <5>2. th' = [th EXCEPT ![a] = r]
            BY <3>1
          <5> HIDE DEF r
          <5> QED BY <5>1, <5>2, <1>f
        <4>2. \A b \in Actors : b # a => th'[b] = th[b]
          BY <3>1, <1>f
        <4> QED BY <4>1, <4>2, <1>k, <1>f DEF Fibers
      <3>4. seen'.again \subseteq Fds
        BY <3>1, <1>s
      <3> QED BY <1>2, <3>1, <3>2, <3>3, <3>4, <1>s DEF Done, TypeInv, TypeOK
    <2>2. CASE ~(th[a].op = "accept" /\ \E n \in Fds : file[n] = None)
      <3>1. file' = [file EXCEPT ![th[a].fd].ready = @ \ {EventOf(th[a].op)}]
        BY <1>2, <2>2 DEF Done
      <3>2. file' \in [Fds -> File \cup {None}]
        <4> DEFINE r == [file[th[a].fd] EXCEPT !.ready = @ \ {EventOf(th[a].op)}]
        <4>1. th[a].fd \in Fds /\ file[th[a].fd] \in File
          <5>1. Ready(th[a].fd, EventOf(th[a].op))
            BY <1>2 DEF Done
          <5>2. file[th[a].fd] # None
            BY <5>1 DEF Ready
          <5>3. th[a].fd \in Fds
            BY <1>2, <1>t, <1>f DEF Thread
          <5> QED BY <5>2, <5>3, <1>t
        <4>2. r \in File
          BY <4>1 DEF File
        <4>3. file' = [file EXCEPT ![th[a].fd] = r]
          BY <3>1
        <4> HIDE DEF r
        <4> QED BY <4>1, <4>2, <4>3, <1>t
      <3>3. th' \in [Actors -> Thread] /\ Fibers'
        BY <1>2, <2>2, <1>r DEF Done
      <3> QED BY <1>2, <2>2, <3>2, <3>3 DEF Done, TypeInv, TypeOK
    <2> QED BY <2>1, <2>2
  <1>3. ASSUME NEW a \in Actors, Fails(a) \/ Unblock(a) \/ CheckError(a)
        PROVE  TypeInv'
    <2>1. th' \in [Actors -> Thread] /\ Fibers'
      BY <1>3, <1>r DEF Fails, Unblock, CheckError
    <2> QED BY <1>3, <2>1 DEF Fails, Unblock, CheckError, TypeInv, TypeOK
  <1>o. ASSUME NEW a \in Actors, Started(a), file[th[a].fd] # None
        PROVE  file' \in [Fds -> File \cup {None}]
    <2>1. th[a].fd \in Fds
      BY <1>t DEF Thread
    <2>2. file[th[a].fd] \in File
      BY <1>o, <1>t, <2>1
    <2> QED BY <1>o, <1>t, <2>1, <2>2 DEF Started, File
  <1>4. ASSUME NEW a \in Actors, Block(a) \/ Again(a) \/ Arm(a)
        PROVE  TypeInv'
    <2>1. file' \in [Fds -> File \cup {None}]
      BY <1>4, <1>o DEF Block, Again, Arm, WouldBlock
    <2>2. CASE Block(a)
      <3>1. th' \in [Actors -> Thread] /\ Fibers'
        <4>1. th' = [th EXCEPT ![a].pc = "blocked"]
          BY <2>2 DEF Block
        <4> QED BY <4>1, <1>f DEF Thread, Fibers
      <3> QED BY <2>1, <2>2, <3>1 DEF Block, TypeInv, TypeOK
    <2>3. CASE Again(a)
      <3>1. th' \in [Actors -> Thread] /\ Fibers'
        BY <2>3, <1>r DEF Again
      <3> QED BY <2>1, <2>3, <3>1 DEF Again, TypeInv, TypeOK
    <2>4. CASE Arm(a)
      <3>1. th' \in [Actors -> Thread] /\ Fibers'
        <4>1. th[a].managed /\ th' = [th EXCEPT ![a].pc = "add", ![a].timer = th[a].to]
          BY <2>4 DEF Arm
        <4>2. th' \in [Actors -> Thread]
          <5>1. th[a] \in Thread
            BY <1>f
          <5>2. [th[a] EXCEPT !.pc = "add", !.timer = th[a].to] \in Thread
            BY <5>1 DEF Thread
          <5>3. th' = [th EXCEPT ![a] = [th[a] EXCEPT !.pc = "add", !.timer = th[a].to]]
            BY <4>1, <5>1 DEF Thread
          <5> QED BY <5>2, <5>3, <1>f
        <4>3. \A b \in Actors : b # a => th'[b] = th[b]
          BY <4>1, <1>f
        <4> QED BY <4>1, <4>2, <4>3, <1>k, <1>f DEF Fibers
      <3> QED BY <2>1, <2>4, <3>1 DEF Arm, TypeInv, TypeOK
    <2> QED BY <1>4, <2>2, <2>3, <2>4
  <1>5. ASSUME NEW a \in Actors, Add(a)
        PROVE  TypeInv'
    <2>1. th' \in [Actors -> Thread] /\ Fibers'
      <3>1. a \in Hooked
        BY <1>5 DEF Add, At, TypeInv, Fibers
      <3>2. CASE Return(a, "done")
        BY <3>2, <1>r
      <3>3. CASE th' = [th EXCEPT ![a].pc = "wait"]
        BY <3>1, <3>3, <1>f DEF Thread, Fibers
      <3>4. CASE th' = [th EXCEPT ![a].pc = "check", ![a].timer = FALSE]
        <4>1. th' \in [Actors -> Thread]
          <5>1. th[a] \in Thread
            BY <1>f
          <5>2. [th[a] EXCEPT !.pc = "check", !.timer = FALSE] \in Thread
            BY <5>1 DEF Thread
          <5>3. th' = [th EXCEPT ![a] = [th[a] EXCEPT !.pc = "check", !.timer = FALSE]]
            BY <3>4, <5>1 DEF Thread
          <5> QED BY <5>2, <5>3, <1>f
        <4>2. \A b \in Actors : b # a => th'[b] = th[b]
          BY <3>4, <1>f
        <4> QED BY <3>1, <4>1, <4>2, <1>k
      <3> QED BY <1>5, <3>2, <3>3, <3>4 DEF Add
    <2>2. waiter' \in [Fds -> [Event -> Hooked \cup {None}]]
      <3>1. a \in Hooked
        BY <1>5 DEF Add, At, TypeInv, Fibers
      <3>2. EventOf(th[a].op) \in Event /\ th[a].fd \in Fds
        BY <1>e, <1>t DEF Thread
      <3> QED BY <1>5, <1>t, <3>1, <3>2 DEF Add
    <2> QED BY <1>5, <2>1, <2>2 DEF Add, TypeInv, TypeOK
  <1>w. ASSUME NEW fd \in Fds, NEW es \in SUBSET Event, Wake(fd, es)
        PROVE  /\ th' \in [Actors -> Thread] /\ Fibers'
               /\ waiter' \in [Fds -> [Event -> Hooked \cup {None}]]
    <2>1. \A e \in es : waiter[fd][e] \in Hooked \cup {None}
      BY <1>t
    <2>2. \A a \in Actors : /\ [th[a] EXCEPT !.pc = "woken"] \in Thread
                            /\ th'[a] = th[a] \/ (a \in Hooked /\ th'[a] = [th[a] EXCEPT !.pc = "woken"])
      <3>1. \A a \in Actors : [th[a] EXCEPT !.pc = "woken"] \in Thread
        BY <1>f DEF Thread
      <3>2. \A a \in Actors : /\ a \in {waiter[fd][e] : e \in es} => a \in Hooked
                              /\ th'[a] = IF a \in {waiter[fd][e] : e \in es}
                                          THEN [th[a] EXCEPT !.pc = "woken"] ELSE th[a]
        BY <1>w, <2>1, <1>m DEF Wake
      <3> QED BY <3>1, <3>2
    <2>3. th' \in [Actors -> Thread]
      BY <1>w, <2>2, <1>t DEF Wake
    <2>4. Fibers'
      <3> SUFFICES ASSUME NEW a \in Actors
                   PROVE  /\ th'[a].managed => a \in Hooked
                          /\ th'[a].pc \in {"add", "wait", "woken", "check"} => a \in Hooked
        BY DEF Fibers
      <3>1. CASE th'[a] = th[a]
        BY <3>1 DEF TypeInv, Fibers
      <3> QED BY <2>2, <3>1
    <2>5. waiter' \in [Fds -> [Event -> Hooked \cup {None}]]
      BY <1>w, <1>t DEF Wake
    <2> QED BY <2>3, <2>4, <2>5
  <1>6. ASSUME NEW fd \in Fds, NEW e \in Event, Report(fd, e)
        PROVE  TypeInv'
    BY <1>6, <1>w DEF Report, TypeInv, TypeOK
  <1>7. ASSUME NEW a \in Actors, Resume(a)
        PROVE  TypeInv'
    <2>1. th' \in [Actors -> Thread] /\ Fibers'
      <3>1. CASE th[a].cancelled
        BY <1>7, <3>1, <1>r DEF Resume
      <3>2. CASE ~th[a].cancelled
        BY <1>7, <3>2, <1>t DEF Resume, Thread, At, TypeInv, Fibers
      <3> QED BY <3>1, <3>2
    <2> QED BY <1>7, <2>1 DEF Resume, TypeInv, TypeOK
  <1>8. ASSUME NEW a \in Actors, Pop(a)
        PROVE  TypeInv'
    <2>1. th' \in [Actors -> Thread] /\ Fibers'
      BY <1>8, <1>t DEF Pop, Thread, TypeInv, Fibers
    <2> QED BY <1>8, <2>1 DEF Pop, TypeInv, TypeOK
  <1>9. ASSUME NEW a \in Actors, Strike(a)
        PROVE  TypeInv'
    <2>1. th' \in [Actors -> Thread] /\ Fibers'
      <3>1. th' = [th EXCEPT ![a].popped = @ - 1, ![a].cancelled = TRUE] /\ th[a].popped > 0
        BY <1>9 DEF Strike
      <3>2. th' \in [Actors -> Thread]
        <4>1. th[a] \in Thread
          BY <1>f
        <4>2. [th[a] EXCEPT !.popped = th[a].popped - 1, !.cancelled = TRUE] \in Thread
          <5>1. th[a].popped - 1 \in Nat
            BY <3>1, <4>1 DEF Thread
          <5> QED BY <4>1, <5>1 DEF Thread
        <4>3. th' = [th EXCEPT ![a] = [th[a] EXCEPT !.popped = th[a].popped - 1, !.cancelled = TRUE]]
          BY <3>1, <4>1 DEF Thread
        <4> QED BY <4>2, <4>3, <1>f
      <3>3. \A b \in Actors : b # a => th'[b] = th[b]
        BY <3>1, <1>f
      <3>4. th'[a].managed = th[a].managed /\ th'[a].pc = th[a].pc
        BY <3>1, <1>f DEF Thread
      <3> QED BY <3>2, <3>3, <3>4, <1>k, <1>f DEF Fibers
    <2>2. strikes' \subseteq [fd : Fds, event : Event, call : 0..MaxCalls]
      BY <1>9, <1>t, <1>e DEF Strike, Thread
    <2> QED BY <1>9, <2>1, <2>2 DEF Strike, TypeInv, TypeOK
  <1>10. ASSUME NEW s \in strikes, CancelEvent(s)
         PROVE  TypeInv'
    <2>1. s.fd \in Fds /\ s.event \in Event
      BY <1>t
    <2>2. strikes' \subseteq [fd : Fds, event : Event, call : 0..MaxCalls]
      BY <1>10, <1>t DEF CancelEvent
    <2>3. CASE waiter[s.fd][s.event] # None /\ s.fd \notin lost
      <3>1. Wake(s.fd, {s.event})
        BY <1>10, <2>3 DEF CancelEvent
      <3>2. /\ th' \in [Actors -> Thread] /\ Fibers'
            /\ waiter' \in [Fds -> [Event -> Hooked \cup {None}]]
        BY <3>1, <2>1, <1>w
      <3>3. seen'.stray \in BOOLEAN /\ seen' = [seen EXCEPT !.stray = seen'.stray]
        BY <1>10, <2>3, <1>s DEF CancelEvent
      <3> QED BY <1>10, <2>2, <3>2, <3>3, <1>s DEF CancelEvent, TypeInv, TypeOK
    <2>4. CASE ~(waiter[s.fd][s.event] # None /\ s.fd \notin lost)
      <3>1. UNCHANGED <<waiter, th, seen, works, file, table, lost, calls>>
        BY <1>10, <2>4 DEF CancelEvent
      <3> QED BY <3>1, <2>2 DEF TypeInv, TypeOK, Fibers
    <2> QED BY <2>3, <2>4
  <1>11. ASSUME NEW a \in Actors, NEW fd \in Fds, Socket(a, fd)
         PROVE  TypeInv'
    <2>1. Asks(fd, "opened") \in Thread /\ Asks(fd, "opened").pc = "opened" /\ ~Asks(fd, "opened").managed
      BY <1>11, <1>t, AsksTyped DEF Socket, Calls
    <2>2. th' \in [Actors -> Thread] /\ Fibers'
      BY <1>11, <2>1, <1>l, RestTyped DEF Socket
    <2>3. file' \in [Fds -> File \cup {None}]
      BY <1>11, <1>t, <1>n DEF Socket
    <2>4. seen'.again \subseteq Fds /\ seen' = [seen EXCEPT !.again = seen'.again]
      BY <1>11, <1>s DEF Socket
    <2>5. calls' \in 0..MaxCalls
      BY <1>11, <1>t, <1>m DEF Socket, Calls
    <2> QED BY <1>11, <2>2, <2>3, <2>4, <2>5, <1>s DEF Socket, TypeInv, TypeOK
  <1>12. ASSUME NEW a \in Actors, Register(a)
         PROVE  TypeInv'
    <2>1. th' \in [Actors -> Thread] /\ Fibers'
      BY <1>12, <1>l, RestTyped DEF Register
    <2>2. th[a].fd \in Fds
      BY <1>t DEF Thread
    <2>3. /\ table' \in [Fds -> FdCtx \cup {None}]
          /\ file' \in [Fds -> File \cup {None}]
      <3>1. CASE table[th[a].fd] = None
        <4>1. table' = [table EXCEPT ![th[a].fd] = NewCtx]
          BY <1>12, <3>1 DEF Register
        <4>2. CASE file[th[a].fd] = None
          BY <1>12, <3>1, <4>1, <4>2, <2>2, <1>t, <1>n DEF Register
        <4>3. CASE file[th[a].fd] # None
          <5>1. file' = [file EXCEPT ![th[a].fd].nonblock = TRUE] /\ file[th[a].fd] \in File
            BY <1>12, <3>1, <4>3, <2>2, <1>t DEF Register
          <5> QED BY <4>1, <5>1, <2>2, <1>t, <1>n DEF File
        <4> QED BY <4>2, <4>3
      <3>2. CASE table[th[a].fd] # None
        BY <1>12, <3>2, <1>t DEF Register
      <3> QED BY <3>1, <3>2
    <2> QED BY <1>12, <2>1, <2>3 DEF Register, TypeInv, TypeOK
  <1>h. ASSUME NEW fd \in Fds, Shut(fd)
        PROVE  file' \in [Fds -> File \cup {None}] /\ lost' \subseteq Fds
    BY <1>h, <1>t DEF Shut
  <1>13. ASSUME NEW a \in Actors, NEW fd \in Fds, CloseHooked(a, fd)
         PROVE  TypeInv'
    <2>1. th' \in [Actors -> Thread] /\ Fibers'
      BY <1>13, <1>l, RestTyped DEF CloseHooked
    <2>2. calls' \in 0..MaxCalls
      BY <1>13, <1>t, <1>m DEF CloseHooked, Closes, Calls
    <2> QED BY <1>13, <2>1, <2>2, <1>h DEF CloseHooked, TypeInv, TypeOK
  <1>14. ASSUME NEW a \in Actors, NEW fd \in Fds, NEW iom \in BOOLEAN, Close(a, fd, iom)
         PROVE  TypeInv'
    <2>1. PICK woken : /\ waiter' = [waiter EXCEPT ![fd] =
                                     [e \in Event |-> IF @[e] \in woken THEN None ELSE @[e]]]
                       /\ th' = [b \in Actors |-> CASE b = a -> Asks(fd, "del")
                                                    [] b \in woken -> [th[b] EXCEPT !.pc = "woken"]
                                                    [] OTHER -> th[b]]
                       /\ seen' = [seen EXCEPT !.stray = @ \/ woken \ {None} # {}]
                       /\ \A b \in woken : b \in {waiter[fd][e] : e \in Event}
      <3> DEFINE w == IF iom /\ fd \notin lost THEN {waiter[fd][e] : e \in Event} ELSE {}
      <3>1. \A b \in w : b \in {waiter[fd][e] : e \in Event}
        OBVIOUS
      <3>2. /\ waiter' = [waiter EXCEPT ![fd] = [e \in Event |-> IF @[e] \in w THEN None ELSE @[e]]]
            /\ th' = [b \in Actors |-> CASE b = a -> Asks(fd, "del")
                                         [] b \in w -> [th[b] EXCEPT !.pc = "woken"]
                                         [] OTHER -> th[b]]
            /\ seen' = [seen EXCEPT !.stray = @ \/ w \ {None} # {}]
        BY <1>14 DEF Close
      <3> HIDE DEF w
      <3> QED BY <3>1, <3>2
    <2>2. Asks(fd, "del") \in Thread /\ Asks(fd, "del").pc = "del" /\ ~Asks(fd, "del").managed
      BY <1>14, <1>t, AsksTyped DEF Close, Closes, Calls
    <2>3. \A b \in Actors : /\ [th[b] EXCEPT !.pc = "woken"] \in Thread
                            /\ [th[b] EXCEPT !.pc = "woken"].managed = th[b].managed
      BY <1>f DEF Thread
    <2>4. \A b \in woken \cap Actors : b \in Hooked
      BY <2>1, <1>t, <1>m
    <2>5. \A b \in Actors : \/ th'[b] = Asks(fd, "del")
                            \/ th'[b] = [th[b] EXCEPT !.pc = "woken"] /\ b \in Hooked
                            \/ th'[b] = th[b]
      BY <2>1, <2>4
    <2>6. th' \in [Actors -> Thread]
      BY <2>1, <2>2, <2>3, <2>5, <1>f
    <2>7. Fibers'
      <3> SUFFICES ASSUME NEW b \in Actors
                   PROVE  /\ th'[b].managed => b \in Hooked
                          /\ th'[b].pc \in {"add", "wait", "woken", "check"} => b \in Hooked
        BY DEF Fibers
      <3> QED BY <2>2, <2>3, <2>5, <1>f DEF Fibers
    <2>8. waiter' \in [Fds -> [Event -> Hooked \cup {None}]]
      BY <2>1, <1>t
    <2>9. calls' \in 0..MaxCalls
      BY <1>14, <1>t, <1>m DEF Close, Closes, Calls
    <2>10. seen'.stray \in BOOLEAN /\ seen' = [seen EXCEPT !.stray = seen'.stray]
      BY <2>1, <1>s
    <2> QED BY <1>14, <2>6, <2>7, <2>8, <2>9, <2>10, <1>s DEF Close, TypeInv, TypeOK
  <1>15. ASSUME NEW a \in Actors, Del(a)
         PROVE  TypeInv'
    <2>1. th' \in [Actors -> Thread] /\ Fibers'
      <3>1. th' = [th EXCEPT ![a].pc = "close"]
        BY <1>15 DEF Del
      <3> QED BY <3>1, <1>f DEF Thread, Fibers
    <2>2. th[a].fd \in Fds
      BY <1>t DEF Thread
    <2>3. table' \in [Fds -> FdCtx \cup {None}] /\ seen' = [seen EXCEPT !.gone = @ \cup {th[a].fd}]
      BY <1>15, <2>2, <1>t DEF Del
    <2> QED BY <1>15, <2>1, <2>2, <2>3, <1>s DEF Del, TypeInv, TypeOK
  <1>16. ASSUME NEW a \in Actors, CloseEnds(a)
         PROVE  TypeInv'
    <2>1. th' \in [Actors -> Thread] /\ Fibers'
      BY <1>16, <1>l, RestTyped DEF CloseEnds
    <2>2. th[a].fd \in Fds
      BY <1>t DEF Thread
    <2> QED BY <1>16, <2>1, <2>2, <1>h DEF CloseEnds, TypeInv, TypeOK
  <1>17. ASSUME NEW a \in Actors, NEW fd \in Fds, NEW nonblock \in BOOLEAN,
                SetFl(a, fd, nonblock) \/ Fionbio(a, fd, nonblock)
         PROVE  TypeInv'
    <2>1. th' \in [Actors -> Thread] /\ Fibers'
      <3>1. th' = [th EXCEPT ![a] = Rest]
        BY <1>17 DEF SetFl, Fionbio
      <3> QED BY <3>1, <1>l, RestTyped
    <2>2. file[fd] \in File
      BY <1>17, <1>t DEF SetFl, Fionbio, Usable
    <2>3. /\ table' \in [Fds -> FdCtx \cup {None}]
          /\ file' \in [Fds -> File \cup {None}]
      <3>1. \E b \in BOOLEAN : file' = [file EXCEPT ![fd].nonblock = b]
        BY <1>17 DEF SetFl, Fionbio
      <3>2. \/ table' = table
            \/ table[fd] # None /\ table' = [table EXCEPT ![fd].userNonblock = nonblock]
        BY <1>17 DEF SetFl, Fionbio
      <3>3. file' \in [Fds -> File \cup {None}]
        BY <3>1, <2>2, <1>t DEF File
      <3>4. table' \in [Fds -> FdCtx \cup {None}]
        BY <3>2, <1>t DEF FdCtx
      <3> QED BY <3>3, <3>4
    <2>4. \E asked, cleared \in SUBSET {fd} :
            seen' = [seen EXCEPT !.asked = @ \cup asked, !.cleared = @ \cup cleared]
      <3>1. CASE SetFl(a, fd, nonblock)
        <4>1. seen' = [seen EXCEPT !.asked = @ \cup {f \in {fd} : nonblock}, !.cleared = @ \cup {}]
          BY <3>1, <1>s DEF SetFl
        <4> QED BY <4>1
      <3>2. CASE Fionbio(a, fd, nonblock)
        BY <3>2 DEF Fionbio
      <3> QED BY <1>17, <3>1, <3>2
    <2>5. calls' \in 0..MaxCalls
      BY <1>17, <1>t, <1>m DEF SetFl, Fionbio, Calls
    <2>6. seen' \in [asked : SUBSET Fds, cleared : SUBSET Fds, again : SUBSET Fds,
                     gone : SUBSET Fds, stray : BOOLEAN]
      BY <2>4, <1>s
    <2>7. UNCHANGED <<works, waiter, lost, strikes>>
      BY <1>17 DEF SetFl, Fionbio
    <2> QED BY <2>1, <2>3, <2>5, <2>6, <2>7 DEF TypeInv, TypeOK
  <1>18. ASSUME NEW a \in Actors, NEW fd \in Fds, NEW opt \in {"SO_RCVTIMEO", "another"},
                SetSockOpt(a, fd, opt)
         PROVE  TypeInv'
    <2>1. th' \in [Actors -> Thread] /\ Fibers'
      BY <1>18, <1>l, RestTyped DEF SetSockOpt
    <2>2. table' \in [Fds -> FdCtx \cup {None}]
      <3>1. table[fd] \in FdCtx
        BY <1>18, <1>t DEF SetSockOpt
      <3>2. \/ table' = [table EXCEPT ![fd].recvTimeout = TRUE]
            \/ table' = [table EXCEPT ![fd].sendTimeout = TRUE]
        BY <1>18 DEF SetSockOpt
      <3>3. /\ [table[fd] EXCEPT !.recvTimeout = TRUE] \in FdCtx
            /\ [table[fd] EXCEPT !.sendTimeout = TRUE] \in FdCtx
        BY <3>1 DEF FdCtx
      <3> QED BY <3>2, <3>3, <1>t
    <2>3. calls' \in 0..MaxCalls
      BY <1>18, <1>t, <1>m DEF SetSockOpt, Calls
    <2> QED BY <1>18, <2>1, <2>2, <2>3 DEF SetSockOpt, TypeInv, TypeOK
  <1>19. ASSUME NEW a \in Actors, Sleep(a) \/ SleepEnds(a)
         PROVE  TypeInv'
    <2>1. [Rest EXCEPT !.pc = "asleep"] \in Thread /\ [Rest EXCEPT !.pc = "asleep"].pc = "asleep"
          /\ ~[Rest EXCEPT !.pc = "asleep"].managed
      BY RestTyped DEF Thread
    <2>2. th' \in [Actors -> Thread] /\ Fibers'
      <3>1. \/ th' = [th EXCEPT ![a] = Rest]
            \/ th' = [th EXCEPT ![a] = [Rest EXCEPT !.pc = "asleep"]]
        BY <1>19 DEF Sleep, SleepEnds
      <3>2. CASE th' = [th EXCEPT ![a] = Rest]
        BY <3>2, <1>l, RestTyped
      <3>3. CASE th' = [th EXCEPT ![a] = [Rest EXCEPT !.pc = "asleep"]]
        BY <3>3, <1>l, <2>1
      <3> QED BY <3>1, <3>2, <3>3
    <2>3. calls' \in 0..MaxCalls
      BY <1>19, <1>t, <1>m DEF Sleep, SleepEnds, Calls
    <2> QED BY <1>19, <2>2, <2>3 DEF Sleep, SleepEnds, TypeInv, TypeOK
  <1>20. ASSUME NEW fd \in Fds, NEW e \in Event, Arrive(fd, e)
         PROVE  TypeInv'
    <2>1. file[fd] \in File
      BY <1>20, <1>t DEF Arrive, Link
    <2>2. file' \in [Fds -> File \cup {None}]
      BY <1>20, <2>1, <1>t DEF Arrive, File
    <2> QED BY <1>20, <2>2 DEF Arrive, TypeInv, TypeOK, Fibers
  <1>21. ASSUME NEW fd \in Fds, NEW link \in {"up", "refused"}, Decide(fd, link)
         PROVE  TypeInv'
    <2>1. file[fd] \in File
      BY <1>21, <1>t DEF Decide, Link
    <2>2. file' \in [Fds -> File \cup {None}]
      <3>1. (IF link = "up" THEN {"WRITE"} ELSE Event) \in SUBSET Event
        BY DEF Event
      <3> QED BY <1>21, <2>1, <3>1, <1>t DEF Decide, File
    <2> QED BY <1>21, <2>2 DEF Decide, TypeInv, TypeOK, Fibers
  <1>22. CASE UNCHANGED vars
    BY <1>22 DEF vars, TypeInv, TypeOK, Fibers
  <1> QED
    BY <1>1, <1>2, <1>3, <1>4, <1>5, <1>6, <1>7, <1>8, <1>9, <1>10, <1>11, <1>12, <1>13, <1>14,
       <1>15, <1>16, <1>17, <1>18, <1>19, <1>20, <1>21, <1>22
       DEF Next, DoIo, Callback, Operation

\* Every variable keeps its type, whatever order calls, timers and callbacks come in; in
\* particular only fibers of threads with hooks ever wait for an event.
THEOREM TypeCorrect == Spec => []TypeOK
  <1>1. TypeInv => TypeOK
    BY DEF TypeInv
  <1> QED BY <1>1, TypeInvInit, TypeInvNext, PTL DEF Spec

-----------------------------------------------------------------------------
(***************************************************************************)
(* Who is registered for an event waits for it, and for nothing else.      *)
(***************************************************************************)

Waits(a, fd, e) == th[a].pc = "wait" /\ th[a].fd = fd /\ EventOf(th[a].op) = e

Waiting ==
  \A fd \in Fds, e \in Event : waiter[fd][e] # None => Waits(waiter[fd][e], fd, e)

LEMMA WaitingInit == Init => Waiting
  BY DEF Init, Waiting

LEMMA WaitingNext == TypeInv /\ Waiting /\ [Next]_vars => Waiting'
  <1> SUFFICES ASSUME TypeInv, Waiting, [Next]_vars PROVE Waiting'
    OBVIOUS
  <1>t. /\ th \in [Actors -> Thread] /\ None \notin Actors /\ Hooked \subseteq Actors
        /\ waiter \in [Fds -> [Event -> Hooked \cup {None}]]
        /\ strikes \subseteq [fd : Fds, event : Event, call : 0..MaxCalls]
    BY HookAssumption DEF TypeInv, TypeOK, Actors
  \* A step of an actor that does not wait.
  <1>l. ASSUME NEW a \in Actors, ~At(a, "wait"), waiter' = waiter,
               \A b \in Actors : b # a => th'[b] = th[b]
        PROVE  Waiting'
    BY <1>l, <1>t DEF Waiting, Waits, At
  <1>1. ASSUME NEW a \in Actors,
               \/ Done(a) \/ Fails(a) \/ Block(a) \/ Unblock(a) \/ Again(a) \/ Arm(a)
               \/ Resume(a) \/ CheckError(a)
        PROVE  Waiting'
    <2>1. ~At(a, "wait") /\ waiter' = waiter
      BY <1>1 DEF Done, Fails, Block, Unblock, Again, Arm, Resume, CheckError, WouldBlock, At
    <2>2. \A b \in Actors : b # a => th'[b] = th[b]
      BY <1>1, <1>t DEF Done, Fails, Block, Unblock, Again, Arm, Resume, CheckError, Return
    <2> QED BY <2>1, <2>2, <1>l
  <1>2. ASSUME NEW a \in Actors, NEW fd \in Fds, Operation(a, fd),
               \A iom \in BOOLEAN : ~Close(a, fd, iom)
        PROVE  Waiting'
    <2>1. ~At(a, "wait") /\ waiter' = waiter
      BY <1>2 DEF Operation, Call, Socket, CloseHooked, SetFl, Fionbio, SetSockOpt, Closes, Calls, At
    <2>2. \A b \in Actors : b # a => th'[b] = th[b]
      BY <1>2, <1>t DEF Operation, Call, Socket, CloseHooked, SetFl, Fionbio, SetSockOpt
    <2> QED BY <2>1, <2>2, <1>l
  <1>3. ASSUME NEW a \in Actors, Register(a) \/ Del(a) \/ CloseEnds(a) \/ Sleep(a) \/ SleepEnds(a)
        PROVE  Waiting'
    <2>1. ~At(a, "wait") /\ waiter' = waiter
      BY <1>3 DEF Register, Del, CloseEnds, Sleep, SleepEnds, Calls, At
    <2>2. \A b \in Actors : b # a => th'[b] = th[b]
      BY <1>3, <1>t DEF Register, Del, CloseEnds, Sleep, SleepEnds
    <2> QED BY <2>1, <2>2, <1>l
  <1>4. ASSUME NEW a \in Actors, Callback(a)
        PROVE  Waiting'
    <2>1. waiter' = waiter /\ \A b \in Actors : b # a => th'[b] = th[b]
      BY <1>4, <1>t DEF Callback, Pop, Strike
    <2>2. th'[a].pc = th[a].pc /\ th'[a].fd = th[a].fd /\ th'[a].op = th[a].op
      <3>1. CASE Pop(a)
        BY <3>1, <1>t DEF Pop, Thread
      <3>2. CASE Strike(a)
        BY <3>2, <1>t DEF Strike, Thread
      <3> QED BY <1>4, <3>1, <3>2 DEF Callback
    <2> QED BY <2>1, <2>2, <1>t DEF Waiting, Waits
  <1>5. ASSUME NEW a \in Actors, Add(a)
        PROVE  Waiting'
    <2>1. CASE Registers(th[a].fd)
      <3>1. /\ waiter' = [waiter EXCEPT ![th[a].fd][EventOf(th[a].op)] = a]
            /\ th' = [th EXCEPT ![a].pc = "wait"] /\ th[a].pc = "add"
        BY <1>5, <2>1 DEF Add, At
      <3>2. th'[a].pc = "wait" /\ th'[a].fd = th[a].fd /\ th'[a].op = th[a].op
        BY <3>1, <1>t DEF Thread
      <3>3. \A b \in Actors : b # a => th'[b] = th[b]
        BY <3>1, <1>t
      <3>4. th[a].fd \in Fds /\ EventOf(th[a].op) \in Event
        BY <1>t DEF Thread, EventOf, Event
      <3>5. \A fd \in Fds, e \in Event :
              waiter'[fd][e] = IF fd = th[a].fd /\ e = EventOf(th[a].op) THEN a ELSE waiter[fd][e]
        BY <3>1, <3>4, <1>t
      <3>6. \A fd \in Fds, e \in Event : waiter[fd][e] # a
        BY <3>1, <1>t DEF Waiting, Waits
      <3> QED BY <3>2, <3>3, <3>5, <3>6, <1>t DEF Waiting, Waits
    <2>2. CASE ~Registers(th[a].fd)
      <3>1. ~At(a, "wait") /\ waiter' = waiter
        BY <1>5, <2>2 DEF Add, At
      <3>2. \A b \in Actors : b # a => th'[b] = th[b]
        BY <1>5, <2>2, <1>t DEF Add, Return
      <3> QED BY <3>1, <3>2, <1>l
    <2> QED BY <2>1, <2>2
  <1>w. ASSUME NEW fd \in Fds, NEW es \in SUBSET Event, Wake(fd, es)
        PROVE  Waiting'
    <2>1. \A f \in Fds, e \in Event :
            waiter'[f][e] = IF f = fd /\ e \in es THEN None ELSE waiter[f][e]
      BY <1>w, <1>t DEF Wake
    <2>2. \A f \in Fds, e \in Event : waiter'[f][e] # None =>
            waiter[f][e] \in Actors /\ waiter[f][e] \notin {waiter[fd][d] : d \in es}
      BY <2>1, <1>t DEF Waiting, Waits
    <2>3. \A f \in Fds, e \in Event : waiter'[f][e] # None => th'[waiter[f][e]] = th[waiter[f][e]]
      BY <1>w, <2>2 DEF Wake
    <2> QED BY <2>1, <2>2, <2>3 DEF Waiting, Waits
  <1>6. ASSUME NEW fd \in Fds, NEW e \in Event, Report(fd, e)
        PROVE  Waiting'
    BY <1>6, <1>w DEF Report
  <1>7. ASSUME NEW s \in strikes, CancelEvent(s)
        PROVE  Waiting'
    <2>1. s.fd \in Fds /\ s.event \in Event
      BY <1>t
    <2>2. CASE waiter[s.fd][s.event] # None /\ s.fd \notin lost
      BY <1>7, <2>1, <2>2, <1>w DEF CancelEvent
    <2>3. CASE ~(waiter[s.fd][s.event] # None /\ s.fd \notin lost)
      BY <1>7, <2>3 DEF CancelEvent, Waiting, Waits
    <2> QED BY <2>2, <2>3
  <1>8. ASSUME NEW a \in Actors, NEW fd \in Fds, NEW iom \in BOOLEAN, Close(a, fd, iom)
        PROVE  Waiting'
    <2> DEFINE woken == IF iom /\ fd \notin lost THEN {waiter[fd][e] : e \in Event} ELSE {}
    <2>1. /\ waiter' = [waiter EXCEPT ![fd] = [e \in Event |-> IF @[e] \in woken THEN None ELSE @[e]]]
          /\ \A b \in Actors : b # a /\ b \notin woken => th'[b] = th[b]
          /\ th[a].pc = "idle"
      BY <1>8 DEF Close, Closes, Calls, At
    <2>2. \A b \in woken : \E e \in Event : b = waiter[fd][e]
      OBVIOUS
    <2>3. woken = {} \/ \A e \in Event : waiter[fd][e] \in woken
      OBVIOUS
    <2> HIDE DEF woken
    <2>4. \A f \in Fds, e \in Event :
            waiter'[f][e] = IF f = fd /\ waiter[f][e] \in woken THEN None ELSE waiter[f][e]
      BY <2>1, <1>t
    <2>5. \A f \in Fds, e \in Event : waiter'[f][e] # None =>
            waiter[f][e] \in Actors \ {a} /\ waiter[f][e] \notin woken
      BY <2>1, <2>2, <2>4, <1>t DEF Waiting, Waits
    <2> QED BY <2>1, <2>4, <2>5 DEF Waiting, Waits
  <1>9. ASSUME UNCHANGED <<waiter, th>>
        PROVE  Waiting'
    BY <1>9 DEF Waiting, Waits
  <1> QED
    BY <1>1, <1>2, <1>3, <1>4, <1>5, <1>6, <1>7, <1>8, <1>9
       DEF Next, DoIo, Arrive, Decide, vars, Operation

-----------------------------------------------------------------------------
(***************************************************************************)
(* The locals of a call: a timer and its callbacks are a call's own, and   *)
(* what a call returned is known only until the next.                      *)
(***************************************************************************)

\* The places inside do_io() and connect_with_timeout().
Calling == {"try", "add", "wait", "woken", "check", "blocked"}

Local(t) ==
  /\ t.pc \notin Calling => t.popped = 0 /\ ~t.cancelled
  /\ t.timer => t.pc \in {"add", "wait", "woken"}
  /\ t.pc # "idle" => t.res = "none"
  /\ t.cancelled \/ t.popped > 0 \/ t.res = "timeout" => t.ripe

Locals == \A a \in Actors : Local(th[a])

LEMMA LocalsInit == Init => Locals
  <1>1. Local(Rest)
    BY DEF Rest, Local, Calling
  <1> QED BY <1>1 DEF Init, Locals

LEMMA LocalsNext == TypeInv /\ Waiting /\ Locals /\ [Next]_vars => Locals'
  <1> SUFFICES ASSUME TypeInv, Waiting, Locals, [Next]_vars PROVE Locals'
    OBVIOUS
  <1>t. /\ th \in [Actors -> Thread] /\ None \notin Actors
        /\ strikes \subseteq [fd : Fds, event : Event, call : 0..MaxCalls]
    BY HookAssumption DEF TypeInv, TypeOK
  <1>v. /\ \A a \in Actors : Local(th[a])
        /\ Local(Rest)
    <2>1. Local(Rest)
      BY DEF Rest, Local, Calling
    <2> QED BY <2>1 DEF Locals
  <1>l. ASSUME NEW a \in Actors, NEW r, Local(r), th' = [th EXCEPT ![a] = r]
        PROVE  Locals'
    BY <1>l, <1>t DEF Locals
  <1>r. ASSUME NEW a \in Actors, NEW r \in {"done", "early", "again", "timeout"}, Return(a, r),
               r = "timeout" => th[a].cancelled
        PROVE  Locals'
    <2> DEFINE next == [Rest EXCEPT !.fd = th[a].fd, !.ripe = th[a].ripe, !.res = r]
    <2>1. Local(next)
      <3>1. /\ next.pc = "idle" /\ next.popped = 0 /\ ~next.cancelled /\ ~next.timer
            /\ next.res = r /\ next.ripe = th[a].ripe
        BY DEF Rest
      <3> HIDE DEF next
      <3> QED BY <1>r, <1>v, <3>1 DEF Local, Calling
    <2>2. th' = [th EXCEPT ![a] = Rest] \/ th' = [th EXCEPT ![a] = next]
      BY <1>r DEF Return
    <2> HIDE DEF next
    <2>3. CASE th' = [th EXCEPT ![a] = Rest]
      BY <2>3, <1>v, <1>l
    <2>4. CASE th' = [th EXCEPT ![a] = next]
      BY <2>4, <2>1, <1>l
    <2> QED BY <2>2, <2>3, <2>4
  <1>w. \A a \in Actors : At(a, "wait") => Local([th[a] EXCEPT !.pc = "woken"])
    <2> SUFFICES ASSUME NEW a \in Actors, At(a, "wait") PROVE Local([th[a] EXCEPT !.pc = "woken"])
      OBVIOUS
    <2>1. th[a] \in Thread /\ th[a].pc = "wait"
      BY <1>t DEF At
    <2>2. LET r == [th[a] EXCEPT !.pc = "woken"]
          IN  /\ r.pc = "woken" /\ r.popped = th[a].popped /\ r.cancelled = th[a].cancelled
              /\ r.timer = th[a].timer /\ r.res = th[a].res /\ r.ripe = th[a].ripe
      BY <2>1 DEF Thread
    <2> QED BY <2>1, <2>2, <1>v DEF Local, Calling
  <1>1. ASSUME NEW a \in Actors, NEW op \in Op, NEW fd \in Fds, Call(a, op, fd)
        PROVE  Locals'
    <2>1. PICK to : th' = [th EXCEPT ![a] = [Asks(fd, "try") EXCEPT !.managed = ~Straight(a, fd),
                                                                    !.op = op, !.to = to]]
      BY <1>1 DEF Call
    <2>2. Local([Asks(fd, "try") EXCEPT !.managed = ~Straight(a, fd), !.op = op, !.to = to])
      BY DEF Asks, Rest, Local, Calling
    <2> QED BY <2>1, <2>2, <1>l
  <1>2. ASSUME NEW a \in Actors, Done(a)
        PROVE  Locals'
    <2>1. CASE th[a].op = "accept" /\ \E n \in Fds : file[n] = None
      <3>1. PICK n \in Fds :
              th' = [th EXCEPT ![a] = [@ EXCEPT !.pc = "opened", !.fd = n, !.to = FALSE,
                                                !.popped = 0, !.cancelled = FALSE]]
        BY <1>2, <2>1 DEF Done
      <3> DEFINE r == [th[a] EXCEPT !.pc = "opened", !.fd = n, !.to = FALSE,
                                    !.popped = 0, !.cancelled = FALSE]
      <3>2. /\ r.pc = "opened" /\ r.popped = 0 /\ ~r.cancelled /\ r.timer = th[a].timer
            /\ r.res = th[a].res /\ r.ripe = th[a].ripe
        BY <1>t DEF Thread
      <3>3. th' = [th EXCEPT ![a] = r]
        BY <3>1
      <3> HIDE DEF r
      <3>4. th[a].pc \in {"try", "blocked"}
        BY <1>2 DEF Done, At
      <3>5. Local(r)
        BY <3>2, <3>4, <1>v DEF Local, Calling
      <3> QED BY <3>3, <3>5, <1>l
    <2>2. CASE ~(th[a].op = "accept" /\ \E n \in Fds : file[n] = None)
      BY <1>2, <2>2, <1>r DEF Done
    <2> QED BY <2>1, <2>2
  <1>3. ASSUME NEW a \in Actors, Fails(a) \/ Unblock(a) \/ CheckError(a) \/ Again(a)
        PROVE  Locals'
    BY <1>3, <1>r DEF Fails, Unblock, CheckError, Again
  \* The steps of a call that goes on.
  <1>g. ASSUME NEW a \in Actors, \A b \in Actors : b # a => th'[b] = th[b], th' \in [Actors -> Thread],
               Local(th'[a])
        PROVE  Locals'
    BY <1>g, <1>t DEF Locals
  <1>4. ASSUME NEW a \in Actors, Block(a) \/ Arm(a) \/ Pop(a) \/ Strike(a) \/ Del(a)
        PROVE  Locals'
    <2>1. \A b \in Actors : b # a => th'[b] = th[b]
      BY <1>4, <1>t DEF Block, Arm, Pop, Strike, Del
    <2>2. CASE Block(a) \/ Del(a)
      <3>1. /\ \/ th[a].pc = "try" /\ th'[a].pc = "blocked"
               \/ th[a].pc = "del" /\ th'[a].pc = "close"
            /\ th'[a].popped = th[a].popped /\ th'[a].cancelled = th[a].cancelled
            /\ th'[a].timer = th[a].timer /\ th'[a].res = th[a].res /\ th'[a].ripe = th[a].ripe
        <4>1. CASE Block(a)
          <5>1. th' = [th EXCEPT ![a].pc = "blocked"] /\ th[a].pc = "try"
            BY <4>1 DEF Block, WouldBlock, At
          <5> QED BY <5>1, <1>t DEF Thread
        <4>2. CASE Del(a)
          <5>1. th' = [th EXCEPT ![a].pc = "close"] /\ th[a].pc = "del"
            BY <4>2 DEF Del, At
          <5> QED BY <5>1, <1>t DEF Thread
        <4> QED BY <2>2, <4>1, <4>2
      <3>2. Local(th'[a])
        BY <3>1, <1>v DEF Local, Calling
      <3> QED BY <2>1, <3>2, <1>v DEF Locals
    <2>3. CASE Arm(a)
      <3>1. /\ th[a].pc = "try" /\ th' = [th EXCEPT ![a].pc = "add", ![a].timer = th[a].to]
        BY <2>3 DEF Arm, WouldBlock, At
      <3>2. /\ th'[a].pc = "add"
            /\ th'[a].popped = th[a].popped /\ th'[a].cancelled = th[a].cancelled
            /\ th'[a].res = th[a].res /\ th'[a].ripe = th[a].ripe
        BY <3>1, <1>t DEF Thread
      <3>3. Local(th'[a])
        BY <3>1, <3>2, <1>v DEF Local, Calling
      <3> QED BY <2>1, <3>3, <1>v DEF Locals
    <2>4. CASE Pop(a)
      <3>1. /\ th[a].timer /\ th'[a].pc = th[a].pc /\ ~th'[a].timer /\ th'[a].ripe
            /\ th'[a].cancelled = th[a].cancelled /\ th'[a].res = th[a].res
        BY <2>4, <1>t DEF Pop, Thread
      <3>2. Local(th'[a])
        BY <3>1, <1>v DEF Local, Calling
      <3> QED BY <2>1, <3>2, <1>v DEF Locals
    <2>5. CASE Strike(a)
      <3>1. /\ th[a].popped > 0 /\ th'[a].pc = th[a].pc /\ th'[a].timer = th[a].timer
            /\ th'[a].ripe = th[a].ripe /\ th'[a].res = th[a].res
        BY <2>5, <1>t DEF Strike, Thread
      <3>2. Local(th'[a])
        BY <3>1, <1>v DEF Local, Calling
      <3> QED BY <2>1, <3>2, <1>v DEF Locals
    <2> QED BY <1>4, <2>2, <2>3, <2>4, <2>5
  <1>5. ASSUME NEW a \in Actors, Add(a) \/ Resume(a)
        PROVE  Locals'
    <2>1. CASE \E r \in {"done", "timeout"} : Return(a, r) /\ (r = "timeout" => th[a].cancelled)
      BY <2>1, <1>r
    <2>2. CASE /\ th[a].pc \in {"add", "woken"}
               /\ \/ th' = [th EXCEPT ![a].pc = "wait"]
                  \/ \E p \in {"try", "check"} : th' = [th EXCEPT ![a].pc = p, ![a].timer = FALSE]
      <3>1. /\ th'[a].pc \in {"wait", "try", "check"}
            /\ th'[a].popped = th[a].popped /\ th'[a].cancelled = th[a].cancelled
            /\ th'[a].res = th[a].res /\ th'[a].ripe = th[a].ripe
            /\ th'[a].timer => th'[a].pc = "wait"
        <4>1. CASE th' = [th EXCEPT ![a].pc = "wait"]
          BY <4>1, <1>t DEF Thread
        <4>2. ASSUME NEW p \in {"try", "check"}, th' = [th EXCEPT ![a].pc = p, ![a].timer = FALSE]
              PROVE  /\ th'[a].pc = p /\ ~th'[a].timer
                     /\ th'[a].popped = th[a].popped /\ th'[a].cancelled = th[a].cancelled
                     /\ th'[a].res = th[a].res /\ th'[a].ripe = th[a].ripe
          BY <4>2, <1>t DEF Thread
        <4> QED BY <2>2, <4>1, <4>2
      <3>2. Local(th'[a])
        BY <2>2, <3>1, <1>v DEF Local, Calling
      <3>3. \A b \in Actors : b # a => th'[b] = th[b]
        BY <2>2, <1>t
      <3> QED BY <3>2, <3>3, <1>v DEF Locals
    <2>3. CASE Add(a)
      BY <2>3, <2>1, <2>2 DEF Add, At
    <2>4. CASE Resume(a)
      BY <2>4, <2>1, <2>2 DEF Resume, At
    <2> QED BY <1>5, <2>3, <2>4
  \* Who is woken had waited.
  <1>6. ASSUME NEW fd \in Fds, NEW es \in SUBSET Event, Wake(fd, es)
        PROVE  Locals'
    <2>1. \A a \in Actors : a \in {waiter[fd][e] : e \in es} => At(a, "wait")
      BY <1>t DEF Waiting, Waits, At
    <2>2. \A a \in Actors : th'[a] = IF a \in {waiter[fd][e] : e \in es}
                                     THEN [th[a] EXCEPT !.pc = "woken"] ELSE th[a]
      BY <1>6 DEF Wake
    <2> QED BY <2>1, <2>2, <1>w, <1>v DEF Locals
  <1>7. ASSUME NEW fd \in Fds, NEW e \in Event, Report(fd, e)
        PROVE  Locals'
    BY <1>7, <1>6 DEF Report
  <1>8. ASSUME NEW s \in strikes, CancelEvent(s)
        PROVE  Locals'
    <2>1. s.fd \in Fds /\ s.event \in Event
      BY <1>t
    <2>2. CASE waiter[s.fd][s.event] # None /\ s.fd \notin lost
      BY <1>8, <2>1, <2>2, <1>6 DEF CancelEvent
    <2>3. CASE ~(waiter[s.fd][s.event] # None /\ s.fd \notin lost)
      BY <1>8, <2>3 DEF CancelEvent, Locals
    <2> QED BY <2>2, <2>3
  <1>9. ASSUME NEW a \in Actors, NEW fd \in Fds, NEW iom \in BOOLEAN, Close(a, fd, iom)
        PROVE  Locals'
    <2>1. \A b \in Actors : \/ th'[b] = Asks(fd, "del") \/ th'[b] = th[b]
                            \/ /\ th'[b] = [th[b] EXCEPT !.pc = "woken"]
                               /\ \E e \in Event : b = waiter[fd][e]
      BY <1>9 DEF Close
    <2>2. \A b \in Actors : (\E e \in Event : b = waiter[fd][e]) => At(b, "wait")
      BY <1>t DEF Waiting, Waits, At
    <2>3. Local(Asks(fd, "del"))
      BY DEF Asks, Rest, Local, Calling
    <2> QED BY <2>1, <2>2, <2>3, <1>w, <1>v, ZenonT(30) DEF Locals
  <1>10. ASSUME NEW a \in Actors,
                \/ th' = [th EXCEPT ![a] = Rest]
                \/ \E fd \in Fds : th' = [th EXCEPT ![a] = Asks(fd, "opened")]
                \/ th' = [th EXCEPT ![a] = [Rest EXCEPT !.pc = "asleep"]]
         PROVE  Locals'
    <2>1. Local([Rest EXCEPT !.pc = "asleep"]) /\ \A fd \in Fds : Local(Asks(fd, "opened"))
      BY DEF Asks, Rest, Local, Calling
    <2> QED BY <1>10, <2>1, <1>v, <1>l
  <1>11. ASSUME NEW a \in Actors, NEW fd \in Fds,
                \/ Socket(a, fd) \/ CloseHooked(a, fd)
                \/ \E nonblock \in BOOLEAN : SetFl(a, fd, nonblock) \/ Fionbio(a, fd, nonblock)
                \/ \E opt \in {"SO_RCVTIMEO", "another"} : SetSockOpt(a, fd, opt)
         PROVE  Locals'
    BY <1>10, <1>11 DEF Socket, CloseHooked, SetFl, Fionbio, SetSockOpt
  <1>12. ASSUME NEW a \in Actors, Register(a) \/ CloseEnds(a) \/ Sleep(a) \/ SleepEnds(a)
         PROVE  Locals'
    BY <1>10, <1>12 DEF Register, CloseEnds, Sleep, SleepEnds
  <1>13. CASE th' = th
    BY <1>13 DEF Locals
  <1> QED
    BY <1>1, <1>2, <1>3, <1>4, <1>5, <1>7, <1>8, <1>9, <1>11, <1>12, <1>13
       DEF Next, DoIo, Callback, Operation, Arrive, Decide, vars

\* A call times out only by a timer of its own, however late callbacks run.
THEOREM TimesOutByItself == Spec => []OwnTimeout
  <1>1. Locals => OwnTimeout
    BY DEF Locals, Local, OwnTimeout
  <1> QED BY <1>1, TypeInvInit, TypeInvNext, WaitingInit, WaitingNext, LocalsInit, LocalsNext, PTL DEF Spec

-----------------------------------------------------------------------------
(***************************************************************************)
(* What a step does to an actor's thread: one description for the proofs   *)
(* that follow.                                                            *)
(***************************************************************************)

SameCall(a) ==
  /\ th'[a].fd = th[a].fd /\ th'[a].op = th[a].op /\ th'[a].call = th[a].call
  /\ th'[a].managed = th[a].managed /\ th'[a].res = th[a].res

\* Its place is the same; a timer of its may have expired or struck.
Keeps(a) == SameCall(a) /\ th'[a].pc = th[a].pc /\ (th[a].cancelled => th'[a].cancelled)

\* It has made a call that goes through do_io() or connect_with_timeout().
Begins(a) ==
  \E op \in Op, fd \in Fds :
    /\ Call(a, op, fd)
    /\ th'[a].pc = "try" /\ th'[a].fd = fd /\ th'[a].op = op /\ th'[a].call = calls + 1
    /\ (th'[a].managed <=> ~Straight(a, fd)) /\ th'[a].res = "none"

\* It is in no such call.
Leaves(a) ==
  /\ th'[a].pc \notin Calling /\ th'[a].res = "none"
  /\ th'[a].call \in {0, th[a].call} \/ (th'[a].call = calls + 1 /\ calls' = calls + 1)
  /\ th'[a].pc = "opened" =>
       /\ file[th'[a].fd] = None
       /\ \A b \in InCall(th'[a].fd) : b = a \/ th'[a].fd \in seen'.again

\* Its call has returned something worth remembering.
Tells(a) ==
  /\ th'[a].pc = "idle" /\ th'[a].fd = th[a].fd /\ th'[a].call = 0
  /\ \/ th'[a].res = "again" /\ Again(a)
     \/ th'[a].res = "timeout"
     \/ th'[a].res = "early" /\ At(a, "check") /\ Link(th[a].fd) \notin {"closed", "refused", "up"}

\* Its call goes on at another place.
Advances(a) ==
  /\ SameCall(a) /\ th'[a].cancelled = th[a].cancelled
  /\ \/ th'[a].pc = "blocked" /\ Block(a)
     \/ th'[a].pc = "add" /\ Arm(a)
     \/ th[a].pc = "add" /\ th'[a].pc = "wait"
     \/ th[a].pc = "woken" /\ th'[a].pc = "try" /\ ~th[a].cancelled
     \/ /\ th'[a].pc = "check" /\ th[a].op = "connect"
        /\ \/ th[a].pc = "add" /\ ~Registers(th[a].fd)
           \/ th[a].pc = "woken" /\ ~th[a].cancelled

\* It is woken by its event, by its own callback, or by somebody else.
Woken(a) ==
  /\ SameCall(a) /\ th'[a].cancelled = th[a].cancelled
  /\ th[a].pc = "wait" /\ th'[a].pc = "woken"
  /\ \/ Ready(th[a].fd, EventOf(th[a].op)) /\ UNCHANGED file
     \/ \E s \in strikes : s.call = th[a].call
     \/ seen'.stray

Moves(a) == Keeps(a) \/ Begins(a) \/ Leaves(a) \/ Tells(a) \/ Advances(a) \/ Woken(a)

\* The facts of the past stay, and so do the registrations that epoll has forgotten.
LEMMA Grows ==
  ASSUME TypeInv, [Next]_vars
  PROVE  /\ seen.asked \subseteq seen'.asked /\ seen.cleared \subseteq seen'.cleared
         /\ seen.again \subseteq seen'.again /\ seen.gone \subseteq seen'.gone
         /\ seen.stray => seen'.stray
         /\ lost \subseteq lost' /\ works' = works
         /\ calls \in Nat /\ (calls' = calls \/ calls' = calls + 1)
  <1>s. /\ seen = [asked |-> seen.asked, cleared |-> seen.cleared, again |-> seen.again,
                   gone |-> seen.gone, stray |-> seen.stray]
        /\ calls \in Nat /\ MaxCalls \in Nat /\ seen.stray \in BOOLEAN
    BY HookAssumption DEF TypeInv, TypeOK
  <1> DEFINE Goal ==
         /\ seen.asked \subseteq seen'.asked /\ seen.cleared \subseteq seen'.cleared
         /\ seen.again \subseteq seen'.again /\ seen.gone \subseteq seen'.gone
         /\ seen.stray => seen'.stray
         /\ lost \subseteq lost' /\ works' = works
         /\ calls \in Nat /\ (calls' = calls \/ calls' = calls + 1)
  <1>1. ASSUME NEW a \in Actors, DoIo(a)
        PROVE  Goal
    BY <1>1, <1>s DEF DoIo, Done, Fails, Block, Unblock, Again, Arm, Add, Resume, CheckError
  <1>2. ASSUME NEW a \in Actors,
               \/ Callback(a) \/ Register(a) \/ Del(a) \/ CloseEnds(a) \/ Sleep(a) \/ SleepEnds(a)
        PROVE  Goal
    BY <1>2, <1>s DEF Callback, Pop, Strike, Register, Del, CloseEnds, Sleep, SleepEnds, Shut, Calls
  <1>3. ASSUME NEW a \in Actors, NEW fd \in Fds, Operation(a, fd)
        PROVE  Goal
    BY <1>3, <1>s, ZenonT(30) DEF Operation, Call, Socket, CloseHooked, Close, SetFl, Fionbio, SetSockOpt,
                      Closes, Calls, Shut
  <1>4. ASSUME NEW s \in strikes, CancelEvent(s)
        PROVE  Goal
    BY <1>4, <1>s DEF CancelEvent
  <1>5. ASSUME NEW fd \in Fds, NEW e \in Event, Report(fd, e) \/ Arrive(fd, e)
        PROVE  Goal
    BY <1>5, <1>s DEF Report, Arrive
  <1>6. ASSUME NEW fd \in Fds, NEW link \in {"up", "refused"}, Decide(fd, link)
        PROVE  Goal
    BY <1>6, <1>s DEF Decide
  <1>7. CASE UNCHANGED vars
    BY <1>7, <1>s DEF vars
  <1> QED BY <1>1, <1>2, <1>3, <1>4, <1>5, <1>6, <1>7 DEF Next

LEMMA Movements ==
  ASSUME TypeInv, Waiting, Locals, [Next]_vars
  PROVE  \A a \in Actors : Moves(a)
  <1>t. /\ th \in [Actors -> Thread] /\ None \notin Actors /\ calls \in 0..MaxCalls
        /\ waiter \in [Fds -> [Event -> Hooked \cup {None}]] /\ Hooked \subseteq Actors
        /\ strikes \subseteq [fd : Fds, event : Event, call : 0..MaxCalls]
    BY HookAssumption DEF TypeInv, TypeOK, Actors
  <1>s. seen.stray \in BOOLEAN /\ seen.again \subseteq Fds
        /\ seen = [asked |-> seen.asked, cleared |-> seen.cleared, again |-> seen.again,
                   gone |-> seen.gone, stray |-> seen.stray]
    BY DEF TypeInv, TypeOK
  <1>v. \A a \in Actors : Local(th[a])
    BY DEF Locals
  <1> DEFINE Goal == \A a \in Actors : Moves(a)
  \* The other actors' threads stay as they are.
  <1>k. ASSUME NEW a \in Actors, \A b \in Actors : b # a => th'[b] = th[b], Moves(a)
        PROVE  Goal
    BY <1>k DEF Moves, Keeps, SameCall
  <1>h. ASSUME th' = th
        PROVE  Goal
    BY <1>h DEF Moves, Keeps, SameCall
  <1>r. ASSUME NEW a \in Actors, NEW r \in {"done", "early", "again", "timeout"}, Return(a, r),
               r = "again" => Again(a),
               r = "early" => At(a, "check") /\ Link(th[a].fd) \notin {"closed", "refused", "up"}
        PROVE  Goal
    <2>1. \A b \in Actors : b # a => th'[b] = th[b]
      BY <1>r, <1>t DEF Return
    <2>2. Moves(a)
      <3>1. CASE r = "done"
        <4>1. th'[a] = Rest
          BY <1>r, <3>1, <1>t DEF Return
        <4> QED BY <4>1 DEF Moves, Leaves, Rest, Calling
      <3>2. CASE r # "done"
        <4>1. th'[a] = [Rest EXCEPT !.fd = th[a].fd, !.ripe = th[a].ripe, !.res = r]
          BY <1>r, <3>2, <1>t DEF Return
        <4>2. th'[a].pc = "idle" /\ th'[a].fd = th[a].fd /\ th'[a].call = 0 /\ th'[a].res = r
          BY <4>1 DEF Rest
        <4> QED BY <1>r, <3>2, <4>2 DEF Moves, Tells
      <3> QED BY <3>1, <3>2
    <2> QED BY <2>1, <2>2, <1>k
  <1>1. ASSUME NEW a \in Actors, NEW op \in Op, NEW fd \in Fds, Call(a, op, fd)
        PROVE  Goal
    <2>1. PICK to : th' = [th EXCEPT ![a] = [Asks(fd, "try") EXCEPT !.managed = ~Straight(a, fd),
                                                                    !.op = op, !.to = to]]
      BY <1>1 DEF Call
    <2>2. th'[a] = [Asks(fd, "try") EXCEPT !.managed = ~Straight(a, fd), !.op = op, !.to = to]
      BY <2>1, <1>t
    <2>3. /\ th'[a].pc = "try" /\ th'[a].fd = fd /\ th'[a].op = op /\ th'[a].call = calls + 1
          /\ (th'[a].managed <=> ~Straight(a, fd)) /\ th'[a].res = "none"
      BY <2>2 DEF Asks, Rest
    <2>4. Moves(a)
      BY <1>1, <2>3 DEF Moves, Begins
    <2>5. \A b \in Actors : b # a => th'[b] = th[b]
      BY <2>1, <1>t
    <2> QED BY <2>4, <2>5, <1>k
  <1>2. ASSUME NEW a \in Actors, Done(a)
        PROVE  Goal
    <2>1. CASE th[a].op = "accept" /\ \E n \in Fds : file[n] = None
      <3>1. PICK n \in {m \in Fds : file[m] = None} :
              /\ th' = [th EXCEPT ![a] = [@ EXCEPT !.pc = "opened", !.fd = n, !.to = FALSE,
                                                   !.popped = 0, !.cancelled = FALSE]]
              /\ seen' = [seen EXCEPT !.again = @ \cup {m \in {n} :
                            table[m] # None \/ InCall(m) # {}}]
        BY <1>2, <2>1 DEF Done
      <3>2. th'[a] = [th[a] EXCEPT !.pc = "opened", !.fd = n, !.to = FALSE,
                                   !.popped = 0, !.cancelled = FALSE]
        BY <3>1, <1>t
      <3>3. th'[a].pc = "opened" /\ th'[a].fd = n /\ th'[a].call = th[a].call /\ th'[a].res = th[a].res
        BY <3>2, <1>t DEF Thread
      <3>4. th[a].res = "none"
        BY <1>2, <1>v DEF Done, At, Local
      <3>5. \A b \in InCall(n) : n \in seen'.again
        BY <3>1, <1>s
      <3>6. Moves(a)
        BY <3>1, <3>3, <3>4, <3>5 DEF Moves, Leaves, Calling
      <3>7. \A b \in Actors : b # a => th'[b] = th[b]
        BY <3>1, <1>t
      <3> QED BY <3>6, <3>7, <1>k
    <2>2. CASE ~(th[a].op = "accept" /\ \E n \in Fds : file[n] = None)
      BY <1>2, <2>2, <1>r DEF Done
    <2> QED BY <2>1, <2>2
  <1>3. ASSUME NEW a \in Actors, Fails(a) \/ Unblock(a) \/ Again(a)
        PROVE  Goal
    BY <1>3, <1>r DEF Fails, Unblock, Again
  <1>4. ASSUME NEW a \in Actors, CheckError(a)
        PROVE  Goal
    BY <1>4, <1>r DEF CheckError
  <1>5. ASSUME NEW a \in Actors, Block(a)
        PROVE  Goal
    <2>1. th' = [th EXCEPT ![a].pc = "blocked"]
      BY <1>5 DEF Block
    <2>2. SameCall(a) /\ th'[a].cancelled = th[a].cancelled /\ th'[a].pc = "blocked"
      BY <2>1, <1>t DEF SameCall, Thread
    <2>3. \A b \in Actors : b # a => th'[b] = th[b]
      BY <2>1, <1>t
    <2>4. Moves(a)
      BY <1>5, <2>2 DEF Moves, Advances
    <2> QED BY <2>3, <2>4, <1>k
  <1>6. ASSUME NEW a \in Actors, Arm(a)
        PROVE  Goal
    <2>1. th' = [th EXCEPT ![a].pc = "add", ![a].timer = th[a].to]
      BY <1>6 DEF Arm
    <2>2. SameCall(a) /\ th'[a].cancelled = th[a].cancelled /\ th'[a].pc = "add"
      BY <2>1, <1>t DEF SameCall, Thread
    <2>3. \A b \in Actors : b # a => th'[b] = th[b]
      BY <2>1, <1>t
    <2>4. Moves(a)
      BY <1>6, <2>2 DEF Moves, Advances
    <2> QED BY <2>3, <2>4, <1>k
  <1>g. ASSUME NEW a \in Actors, NEW p \in {"try", "check"}, th' = [th EXCEPT ![a].pc = p, ![a].timer = FALSE]
        PROVE  /\ SameCall(a) /\ th'[a].cancelled = th[a].cancelled /\ th'[a].pc = p
               /\ \A b \in Actors : b # a => th'[b] = th[b]
    BY <1>g, <1>t DEF SameCall, Thread
  <1>7. ASSUME NEW a \in Actors, Add(a)
        PROVE  Goal
    <2>1. CASE Registers(th[a].fd)
      <3>1. th' = [th EXCEPT ![a].pc = "wait"] /\ th[a].pc = "add"
        BY <1>7, <2>1 DEF Add, At
      <3>2. SameCall(a) /\ th'[a].cancelled = th[a].cancelled /\ th'[a].pc = "wait"
        BY <3>1, <1>t DEF SameCall, Thread
      <3>3. \A b \in Actors : b # a => th'[b] = th[b]
        BY <3>1, <1>t
      <3>4. Moves(a)
        BY <3>1, <3>2 DEF Moves, Advances
      <3> QED BY <3>3, <3>4, <1>k
    <2>2. CASE ~Registers(th[a].fd) /\ th[a].op = "connect"
      <3>1. th' = [th EXCEPT ![a].pc = "check", ![a].timer = FALSE] /\ th[a].pc = "add"
        BY <1>7, <2>2 DEF Add, At
      <3>2. Moves(a)
        BY <2>2, <3>1, <1>g DEF Moves, Advances
      <3> QED BY <3>1, <3>2, <1>g, <1>k
    <2>3. CASE ~Registers(th[a].fd) /\ th[a].op # "connect"
      BY <1>7, <2>3, <1>r DEF Add
    <2> QED BY <2>1, <2>2, <2>3
  <1>8. ASSUME NEW a \in Actors, Resume(a)
        PROVE  Goal
    <2>1. CASE th[a].cancelled
      BY <1>8, <2>1, <1>r DEF Resume
    <2>2. CASE ~th[a].cancelled
      <3>1. PICK p \in {"try", "check"} : /\ th' = [th EXCEPT ![a].timer = FALSE, ![a].pc = p]
                                          /\ p = "check" => th[a].op = "connect"
        BY <1>8, <2>2 DEF Resume
      <3>2. SameCall(a) /\ th'[a].cancelled = th[a].cancelled /\ th'[a].pc = p /\ th[a].pc = "woken"
        BY <1>8, <3>1, <1>t DEF SameCall, Thread, Resume, At
      <3>3. \A b \in Actors : b # a => th'[b] = th[b]
        BY <3>1, <1>t
      <3>4. Moves(a)
        BY <2>2, <3>1, <3>2 DEF Moves, Advances
      <3> QED BY <3>3, <3>4, <1>k
    <2> QED BY <2>1, <2>2
  <1>9. ASSUME NEW a \in Actors, Callback(a)
        PROVE  Goal
    <2>1. \A b \in Actors : b # a => th'[b] = th[b]
      BY <1>9, <1>t DEF Callback, Pop, Strike
    <2>2. SameCall(a) /\ th'[a].pc = th[a].pc /\ (th[a].cancelled => th'[a].cancelled)
      <3>1. CASE Pop(a)
        BY <3>1, <1>t DEF Pop, SameCall, Thread
      <3>2. CASE Strike(a)
        BY <3>2, <1>t DEF Strike, SameCall, Thread
      <3> QED BY <1>9, <3>1, <3>2 DEF Callback
    <2>3. Moves(a)
      BY <2>2 DEF Moves, Keeps
    <2> QED BY <2>1, <2>3, <1>k
  <1>w. ASSUME NEW a \in Actors, At(a, "wait"), th'[a] = [th[a] EXCEPT !.pc = "woken"],
               \/ Ready(th[a].fd, EventOf(th[a].op)) /\ UNCHANGED file
               \/ \E s \in strikes : s.call = th[a].call
               \/ seen'.stray
        PROVE  Moves(a)
    <2>1. th[a] \in Thread
      BY <1>t
    <2>2. SameCall(a) /\ th'[a].cancelled = th[a].cancelled /\ th[a].pc = "wait" /\ th'[a].pc = "woken"
      BY <1>w, <2>1 DEF SameCall, Thread, At
    <2>3. Woken(a)
      BY <1>w, <2>2 DEF Woken
    <2> QED BY <2>3 DEF Moves
  <1>e. ASSUME NEW fd \in Fds, NEW e \in Event, Wake(fd, {e}), waiter[fd][e] # None,
               LET a == waiter[fd][e] IN
               \/ Ready(th[a].fd, EventOf(th[a].op)) /\ UNCHANGED file
               \/ \E s \in strikes : s.call = th[a].call
               \/ seen'.stray
        PROVE  Goal
    <2>1. PICK a \in Actors : a = waiter[fd][e]
      BY <1>e, <1>t
    <2>2. At(a, "wait")
      BY <1>e, <2>1 DEF Waiting, Waits, At
    <2>3. th'[a] = [th[a] EXCEPT !.pc = "woken"] /\ \A b \in Actors : b # a => th'[b] = th[b]
      BY <1>e, <2>1 DEF Wake
    <2>4. Moves(a)
      BY <1>e, <2>1, <2>2, <2>3, <1>w
    <2> QED BY <2>3, <2>4, <1>k
  <1>10. ASSUME NEW fd \in Fds, NEW e \in Event, Report(fd, e)
         PROVE  Goal
    <2>1. /\ waiter[fd][e] # None /\ Wake(fd, {e}) /\ Ready(fd, e) /\ UNCHANGED file
      BY <1>10 DEF Report
    <2>2. th[waiter[fd][e]].fd = fd /\ EventOf(th[waiter[fd][e]].op) = e
      BY <2>1 DEF Waiting, Waits
    <2> QED BY <2>1, <2>2, <1>e
  <1>11. ASSUME NEW s \in strikes, CancelEvent(s)
         PROVE  Goal
    <2>1. s.fd \in Fds /\ s.event \in Event
      BY <1>t
    <2>2. CASE waiter[s.fd][s.event] # None /\ s.fd \notin lost
      <3>1. /\ Wake(s.fd, {s.event})
            /\ seen' = [seen EXCEPT !.stray = @ \/ th[waiter[s.fd][s.event]].call # s.call]
        BY <1>11, <2>2 DEF CancelEvent
      <3>2. th[waiter[s.fd][s.event]].call # s.call => seen'.stray
        BY <3>1, <1>s
      <3> QED BY <2>1, <2>2, <3>1, <3>2, <1>e
    <2>3. CASE ~(waiter[s.fd][s.event] # None /\ s.fd \notin lost)
      BY <1>11, <2>3, <1>h DEF CancelEvent
    <2> QED BY <2>2, <2>3
  <1>12. ASSUME NEW a \in Actors, NEW fd \in Fds, NEW iom \in BOOLEAN, Close(a, fd, iom)
         PROVE  Goal
    <2> DEFINE w == IF iom /\ fd \notin lost THEN {waiter[fd][e] : e \in Event} ELSE {}
    <2>1. /\ \A b \in w : \E e \in Event : b = waiter[fd][e]
          /\ \A b \in Actors : th'[b] = IF b = a THEN Asks(fd, "del")
                                        ELSE IF b \in w THEN [th[b] EXCEPT !.pc = "woken"] ELSE th[b]
          /\ seen' = [seen EXCEPT !.stray = @ \/ w \ {None} # {}]
          /\ calls' = calls + 1
      <3>1. /\ th' = [b \in Actors |-> CASE b = a -> Asks(fd, "del")
                                         [] b \in w -> [th[b] EXCEPT !.pc = "woken"]
                                         [] OTHER -> th[b]]
            /\ seen' = [seen EXCEPT !.stray = @ \/ w \ {None} # {}]
            /\ calls' = calls + 1
        BY <1>12 DEF Close, Closes, Calls
      <3>2. \A b \in w : \E e \in Event : b = waiter[fd][e]
        OBVIOUS
      <3> HIDE DEF w
      <3>3. a \notin w
        BY <1>12, <3>2, <1>t DEF Close, Closes, Calls, At, Waiting, Waits
      <3>4. \A b \in Actors : th'[b] = CASE b = a -> Asks(fd, "del")
                                        [] b \in w -> [th[b] EXCEPT !.pc = "woken"]
                                        [] OTHER -> th[b]
        BY <3>1
      <3>5. \A b \in Actors : th'[b] = IF b = a THEN Asks(fd, "del")
                                       ELSE IF b \in w THEN [th[b] EXCEPT !.pc = "woken"] ELSE th[b]
        BY <3>3, <3>4
      <3> QED BY <3>1, <3>2, <3>5
    <2> HIDE DEF w
    <2>2. th'[a].pc = "del" /\ th'[a].call = calls + 1 /\ th'[a].res = "none"
      <3>1. th'[a] = Asks(fd, "del")
        BY <2>1
      <3> QED BY <3>1 DEF Asks, Rest
    <2>3. Moves(a)
      BY <2>1, <2>2 DEF Moves, Leaves, Calling
    <2>4. ASSUME NEW b \in Actors, b # a, b \in w
          PROVE  Moves(b)
      <3>1. PICK e \in Event : b = waiter[fd][e]
        BY <2>1, <2>4
      <3>2. At(b, "wait")
        BY <3>1, <1>t DEF Waiting, Waits, At
      <3>3. seen'.stray
        <4>1. w \ {None} # {}
          BY <2>4, <1>t
        <4>2. seen'.stray = (seen.stray \/ w \ {None} # {})
          BY <2>1, <1>s
        <4> QED BY <4>1, <4>2
      <3> QED BY <2>1, <2>4, <3>2, <3>3, <1>w
    <2>5. ASSUME NEW b \in Actors, b # a, b \notin w
          PROVE  Moves(b)
      BY <2>1, <2>5 DEF Moves, Keeps, SameCall
    <2> QED BY <2>3, <2>4, <2>5
  <1>13. ASSUME NEW a \in Actors, th' = [th EXCEPT ![a] = Rest]
         PROVE  Goal
    <2>1. th'[a] = Rest /\ \A b \in Actors : b # a => th'[b] = th[b]
      BY <1>13, <1>t
    <2>2. Moves(a)
      BY <2>1 DEF Moves, Leaves, Rest, Calling
    <2> QED BY <2>1, <2>2, <1>k
  <1>14. ASSUME NEW a \in Actors, Sleep(a)
         PROVE  Goal
    <2>1. th'[a] = [Rest EXCEPT !.pc = "asleep"] /\ \A b \in Actors : b # a => th'[b] = th[b]
      BY <1>14, <1>t DEF Sleep
    <2>2. Moves(a)
      BY <2>1 DEF Moves, Leaves, Rest, Calling
    <2> QED BY <2>1, <2>2, <1>k
  <1>15. ASSUME NEW a \in Actors, NEW fd \in Fds, Socket(a, fd)
         PROVE  Goal
    <2>1. CASE a \in Hooked
      <3>1. /\ th'[a] = Asks(fd, "opened") /\ \A b \in Actors : b # a => th'[b] = th[b]
            /\ file[fd] = None /\ calls' = calls + 1
        BY <1>15, <2>1, <1>t DEF Socket, Calls
      <3>2. /\ th'[a].pc = "opened" /\ th'[a].fd = fd /\ th'[a].call = calls + 1
            /\ th'[a].res = "none"
        BY <3>1 DEF Asks, Rest
      <3>3. seen'.again = seen.again \cup {f \in {fd} : Known(f)}
        BY <1>15, <1>s DEF Socket
      <3>4. \A b \in InCall(fd) : fd \in seen'.again
        BY <3>3 DEF Known
      <3>5. Moves(a)
        BY <3>1, <3>2, <3>4 DEF Moves, Leaves, Calling
      <3> QED BY <3>1, <3>5, <1>k
    <2>2. CASE a \notin Hooked
      BY <1>15, <2>2, <1>13 DEF Socket
    <2> QED BY <2>1, <2>2
  <1>16. ASSUME NEW a \in Actors, Del(a)
         PROVE  Goal
    <2>1. th' = [th EXCEPT ![a].pc = "close"] /\ th[a].pc = "del"
      BY <1>16 DEF Del, At
    <2>2. /\ th'[a].pc = "close" /\ th'[a].call = th[a].call /\ th'[a].res = th[a].res
          /\ \A b \in Actors : b # a => th'[b] = th[b]
      BY <2>1, <1>t DEF Thread
    <2>3. th[a].res = "none"
      BY <2>1, <1>v DEF Local
    <2>4. Moves(a)
      BY <2>2, <2>3 DEF Moves, Leaves, Calling
    <2> QED BY <2>2, <2>4, <1>k
  <1>17. ASSUME NEW a \in Actors, NEW fd \in Fds,
                \/ CloseHooked(a, fd)
                \/ \E nonblock \in BOOLEAN : SetFl(a, fd, nonblock) \/ Fionbio(a, fd, nonblock)
                \/ \E opt \in {"SO_RCVTIMEO", "another"} : SetSockOpt(a, fd, opt)
         PROVE  Goal
    BY <1>13, <1>17 DEF CloseHooked, SetFl, Fionbio, SetSockOpt
  <1>18. ASSUME NEW a \in Actors, Register(a) \/ CloseEnds(a) \/ SleepEnds(a)
         PROVE  Goal
    BY <1>13, <1>18 DEF Register, CloseEnds, SleepEnds
  <1>19. ASSUME NEW fd \in Fds,
                \/ \E e \in Event : Arrive(fd, e)
                \/ \E link \in {"up", "refused"} : Decide(fd, link)
         PROVE  Goal
    BY <1>19, <1>h DEF Arrive, Decide
  <1>20. ASSUME UNCHANGED vars
         PROVE  Goal
    BY <1>20, <1>h DEF vars
  <1> HIDE DEF Goal
  <1>21. ASSUME NEW a \in Actors, DoIo(a)
         PROVE  Goal
    BY <1>21, <1>2, <1>3, <1>4, <1>5, <1>6, <1>7, <1>8 DEF DoIo
  <1>22. ASSUME NEW a \in Actors, NEW fd \in Fds, Operation(a, fd)
         PROVE  Goal
    BY <1>22, <1>1, <1>12, <1>15, <1>17 DEF Operation
  <1>23. ASSUME NEW a \in Actors,
                \/ DoIo(a) \/ Callback(a)
                \/ Register(a) \/ Del(a) \/ CloseEnds(a)
                \/ Sleep(a) \/ SleepEnds(a)
                \/ \E fd \in Fds : Operation(a, fd)
         PROVE  Goal
    BY <1>9, <1>14, <1>16, <1>18, <1>21, <1>22, <1>23
  <1>24. Goal
    BY <1>10, <1>11, <1>19, <1>20, <1>23 DEF Next
  <1> QED BY <1>24 DEF Goal

-----------------------------------------------------------------------------
(***************************************************************************)
(* The modes: the table knows how the kernel's file stands, and a call     *)
(* what the table said when it began.                                      *)
(***************************************************************************)

Modal ==
  \A fd \in Fds :
    /\ table[fd] # None /\ file[fd] # None =>
         file[fd].nonblock \/ fd \in seen.cleared \cup seen.again
    /\ table[fd] # None /\ table[fd].userNonblock => fd \in seen.asked
    /\ file[fd] # None /\ file[fd].nonblock => table[fd] # None \/ fd \in seen.asked \cup seen.gone

LEMMA ModalInit == Init => Modal
  <1> SUFFICES ASSUME Init PROVE Modal
    OBVIOUS
  <1>1. \A t \in BOOLEAN : ~[NewCtx EXCEPT !.recvTimeout = t, !.sendTimeout = t].userNonblock
    BY DEF NewCtx
  <1>2. [NewFile EXCEPT !.nonblock = TRUE].nonblock
    BY DEF NewFile
  <1>3. PICK t \in BOOLEAN :
          table = [fd \in Fds |-> IF fd \in Given
                                 THEN [NewCtx EXCEPT !.recvTimeout = t, !.sendTimeout = t] ELSE None]
    BY DEF Init
  <1>4. [NewCtx EXCEPT !.recvTimeout = t, !.sendTimeout = t] # None
    <2>1. [NewCtx EXCEPT !.recvTimeout = t, !.sendTimeout = t] \in FdCtx
      BY DEF NewCtx, FdCtx
    <2> QED BY <2>1, NoneAssumption
  <1>5. file = [fd \in Fds |-> IF fd \in Given THEN [NewFile EXCEPT !.nonblock = TRUE] ELSE None]
    BY DEF Init
  <1> QED BY <1>1, <1>2, <1>3, <1>4, <1>5 DEF Modal

\* A step that changes neither a mode nor the table.
LEMMA ModalStays ==
  ASSUME TypeInv, Modal, [Next]_vars, table' = table,
         \A fd \in Fds : \/ file'[fd] = None
                         \/ file[fd] # None /\ file'[fd].nonblock = file[fd].nonblock
  PROVE  Modal'
  BY Grows DEF Modal

LEMMA ModalNext == TypeInv /\ Modal /\ [Next]_vars => Modal'
  <1> SUFFICES ASSUME TypeInv, Modal, [Next]_vars PROVE Modal'
    OBVIOUS
  <1>t. /\ file \in [Fds -> File \cup {None}] /\ table \in [Fds -> FdCtx \cup {None}]
        /\ th \in [Actors -> Thread]
    BY DEF TypeInv, TypeOK
  <1>s. seen = [asked |-> seen.asked, cleared |-> seen.cleared, again |-> seen.again,
                gone |-> seen.gone, stray |-> seen.stray]
    BY DEF TypeInv, TypeOK
  <1>n. NewFile.nonblock = FALSE /\ NewCtx.userNonblock = FALSE
    BY DEF NewFile, NewCtx
  <1>o. ASSUME NEW a \in Actors, Started(a), file[th[a].fd] # None, table' = table
        PROVE  Modal'
    <2>1. \A fd \in Fds : file[fd] # None => file[fd] \in File
      BY <1>t
    <2>2. \A fd \in Fds : file'[fd] = file[fd] \/ (file[fd] # None /\ file'[fd].nonblock = file[fd].nonblock)
      BY <1>o, <2>1, <1>t DEF Started, File
    <2> QED BY <1>o, <2>2, ModalStays
  <1>1. ASSUME NEW a \in Actors, Block(a) \/ Again(a) \/ Arm(a)
        PROVE  Modal'
    BY <1>1, <1>o DEF Block, Again, Arm, WouldBlock
  <1>h. ASSUME UNCHANGED <<file, table>>
        PROVE  Modal'
    BY <1>h, Grows DEF Modal
  <1>2. ASSUME NEW a \in Actors,
               \/ Fails(a) \/ Unblock(a) \/ Add(a) \/ Resume(a) \/ CheckError(a)
               \/ Callback(a) \/ Sleep(a) \/ SleepEnds(a)
        PROVE  Modal'
    BY <1>2, <1>h DEF Fails, Unblock, Add, Resume, CheckError, Callback, Pop, Strike, Sleep, SleepEnds
  <1>3. ASSUME NEW a \in Actors, Done(a)
        PROVE  Modal'
    <2>0. th[a].fd \in Fds /\ file[th[a].fd] # None /\ file[th[a].fd] \in File
      BY <1>3, <1>t DEF Done, Ready, Thread
    <2>1. CASE th[a].op = "accept" /\ \E n \in Fds : file[n] = None
      <3>1. PICK n \in {m \in Fds : file[m] = None} :
              /\ file' = [file EXCEPT ![th[a].fd].ready = @ \ {"READ"}, ![n] = NewFile]
              /\ seen' = [seen EXCEPT !.again = @ \cup {m \in {n} :
                            table[m] # None \/ InCall(m) # {}}]
              /\ table' = table
        BY <1>3, <2>1 DEF Done
      <3>2. \A fd \in Fds : \/ fd = n /\ file'[fd] = NewFile
                            \/ fd # n /\ file'[fd] = file[fd]
                            \/ /\ fd # n /\ file[fd] # None
                               /\ file'[fd].nonblock = file[fd].nonblock
        <4>1. n # th[a].fd
          BY <2>0
        <4>2. \A fd \in Fds : fd # n /\ fd # th[a].fd => file'[fd] = file[fd]
          BY <3>1, <1>t
        <4>3. file'[n] = NewFile
          BY <3>1, <1>t
        <4>4. file'[th[a].fd] = [file[th[a].fd] EXCEPT !.ready = @ \ {"READ"}]
          BY <2>0, <3>1, <4>1, <1>t
        <4>5. file'[th[a].fd].nonblock = file[th[a].fd].nonblock
          BY <2>0, <4>4 DEF File
        <4> QED BY <2>0, <4>1, <4>2, <4>3, <4>5
      <3>3. table[n] # None => n \in seen'.again
        BY <3>1, <1>s
      <3> QED BY <3>1, <3>2, <3>3, <1>n, Grows DEF Modal
    <2>2. CASE ~(th[a].op = "accept" /\ \E n \in Fds : file[n] = None)
      <3>1. /\ file' = [file EXCEPT ![th[a].fd].ready = @ \ {EventOf(th[a].op)}]
            /\ table' = table
        BY <1>3, <2>2 DEF Done
      <3>2. \A fd \in Fds : file'[fd] = file[fd] \/ (file[fd] # None /\ file'[fd].nonblock = file[fd].nonblock)
        BY <2>0, <3>1, <1>t DEF File
      <3> QED BY <3>1, <3>2, ModalStays
    <2> QED BY <2>1, <2>2
  <1>4. ASSUME NEW a \in Actors, Register(a)
        PROVE  Modal'
    <2>1. CASE table[th[a].fd] = None
      <3>0. th[a].fd \in Fds
        BY <1>t DEF Thread
      <3>1. /\ table' = [table EXCEPT ![th[a].fd] = NewCtx]
            /\ file' = IF file[th[a].fd] = None THEN file ELSE [file EXCEPT ![th[a].fd].nonblock = TRUE]
        BY <1>4, <2>1 DEF Register
      <3>2. \A fd \in Fds : fd # th[a].fd => file'[fd] = file[fd] /\ table'[fd] = table[fd]
        BY <3>0, <3>1, <1>t
      <3>3. table'[th[a].fd] = NewCtx
        BY <3>0, <3>1, <1>t
      <3>4. file'[th[a].fd] # None => file'[th[a].fd].nonblock
        <4>1. CASE file[th[a].fd] = None
          BY <3>1, <4>1
        <4>2. CASE file[th[a].fd] # None
          <5>1. file[th[a].fd] \in File /\ file' = [file EXCEPT ![th[a].fd].nonblock = TRUE]
            BY <3>0, <3>1, <4>2, <1>t
          <5> QED BY <3>0, <5>1, <1>t DEF File
        <4> QED BY <4>1, <4>2
      <3>5. NewCtx # None
        <4>1. NewCtx \in FdCtx
          BY DEF NewCtx, FdCtx
        <4> QED BY <4>1, NoneAssumption
      <3> QED BY <3>2, <3>3, <3>4, <3>5, <1>n, Grows DEF Modal
    <2>2. CASE table[th[a].fd] # None
      BY <1>4, <2>2, <1>h DEF Register
    <2> QED BY <2>1, <2>2
  <1>u. ASSUME NEW fd \in Fds, Shut(fd), table' = table
        PROVE  Modal'
    <2>1. \A f \in Fds : file'[f] = None \/ file'[f] = file[f]
      BY <1>u, <1>t DEF Shut
    <2> QED BY <1>u, <2>1, ModalStays
  <1>5. ASSUME NEW a \in Actors, Del(a) \/ CloseEnds(a)
        PROVE  Modal'
    <2>0. th[a].fd \in Fds
      BY <1>t DEF Thread
    <2>1. CASE Del(a)
      <3>1. /\ table' = [table EXCEPT ![th[a].fd] = None] /\ file' = file
            /\ th[a].fd \in seen'.gone
        BY <2>1, <1>s DEF Del
      <3> QED BY <2>0, <3>1, <1>t, Grows DEF Modal
    <2>2. CASE CloseEnds(a)
      BY <2>0, <2>2, <1>u DEF CloseEnds
    <2> QED BY <1>5, <2>1, <2>2
  <1>6. ASSUME NEW a \in Actors, NEW fd \in Fds, Socket(a, fd)
        PROVE  Modal'
    <2>1. /\ file' = [file EXCEPT ![fd] = NewFile] /\ table' = table
          /\ table[fd] # None => fd \in seen'.again
      BY <1>6, <1>s DEF Socket, Known
    <2> QED BY <2>1, <1>t, <1>n, Grows DEF Modal
  <1>7. ASSUME NEW a \in Actors, NEW fd \in Fds,
               \/ CloseHooked(a, fd)
               \/ \E op \in Op : Call(a, op, fd)
               \/ \E iom \in BOOLEAN : Close(a, fd, iom)
        PROVE  Modal'
    BY <1>7, <1>u, <1>h DEF CloseHooked, Call, Close
  <1>8. ASSUME NEW a \in Actors, NEW fd \in Fds, NEW nonblock \in BOOLEAN,
               SetFl(a, fd, nonblock) \/ Fionbio(a, fd, nonblock)
        PROVE  Modal'
    <2>0. file[fd] \in File
      BY <1>8, <1>t DEF SetFl, Fionbio, Usable
    <2>1. /\ table' = IF table[fd] # None THEN [table EXCEPT ![fd].userNonblock = nonblock] ELSE table
          /\ nonblock => fd \in seen'.asked
          /\ \/ table[fd] # None /\ file' = [file EXCEPT ![fd].nonblock = TRUE]
             \/ /\ file' = [file EXCEPT ![fd].nonblock = nonblock]
                /\ table[fd] = None \/ nonblock \/ fd \in seen'.cleared
      <3>1. CASE SetFl(a, fd, nonblock)
        <4>1. nonblock => fd \in seen'.asked
          BY <3>1, <1>s DEF SetFl
        <4> QED BY <3>1, <4>1 DEF SetFl
      <3>2. CASE Fionbio(a, fd, nonblock)
        <4>1. nonblock => fd \in seen'.asked
          BY <3>2, <1>s DEF Fionbio
        <4>2. ~nonblock => fd \in seen'.cleared
          BY <3>2, <1>s DEF Fionbio
        <4> QED BY <3>2, <4>1, <4>2 DEF Fionbio
      <3> QED BY <1>8, <3>1, <3>2
    <2>2. \A f \in Fds : f # fd => file'[f] = file[f] /\ table'[f] = table[f]
      BY <2>1, <1>t
    <2>3. /\ table[fd] # None => table'[fd].userNonblock = nonblock
          /\ table[fd] = None => table'[fd] = None
          /\ table[fd] # None => table'[fd] # None
      <3>1. CASE table[fd] = None
        BY <2>1, <3>1
      <3>2. CASE table[fd] # None
        <4>1. table[fd] \in FdCtx /\ table'[fd] = [table[fd] EXCEPT !.userNonblock = nonblock]
          BY <2>1, <3>2, <1>t
        <4>2. table'[fd].userNonblock = nonblock /\ table'[fd] \in FdCtx
          BY <4>1 DEF FdCtx
        <4> QED BY <3>2, <4>2, NoneAssumption
      <3> QED BY <3>1, <3>2
    <2>4. \/ table[fd] # None /\ file'[fd].nonblock
          \/ /\ file'[fd].nonblock = nonblock
             /\ table[fd] = None \/ nonblock \/ fd \in seen'.cleared
      <3>1. [file[fd] EXCEPT !.nonblock = TRUE].nonblock = TRUE
        BY <2>0 DEF File
      <3>2. [file[fd] EXCEPT !.nonblock = nonblock].nonblock = nonblock
        BY <2>0 DEF File
      <3> QED BY <2>1, <3>1, <3>2, <1>t
    <2> QED BY <2>1, <2>2, <2>3, <2>4, Grows DEF Modal
  <1>9. ASSUME NEW a \in Actors, NEW fd \in Fds, NEW opt \in {"SO_RCVTIMEO", "another"},
               SetSockOpt(a, fd, opt)
        PROVE  Modal'
    <2>0. table[fd] \in FdCtx
      BY <1>9, <1>t DEF SetSockOpt
    <2>1. /\ file' = file
          /\ \/ table' = [table EXCEPT ![fd].recvTimeout = TRUE]
             \/ table' = [table EXCEPT ![fd].sendTimeout = TRUE]
      BY <1>9 DEF SetSockOpt
    <2>2. /\ [table[fd] EXCEPT !.recvTimeout = TRUE].userNonblock = table[fd].userNonblock
          /\ [table[fd] EXCEPT !.sendTimeout = TRUE].userNonblock = table[fd].userNonblock
          /\ [table[fd] EXCEPT !.recvTimeout = TRUE] \in FdCtx
          /\ [table[fd] EXCEPT !.sendTimeout = TRUE] \in FdCtx
      BY <2>0 DEF FdCtx
    <2>3. \A f \in Fds : table'[f] = table[f] \/ f = fd
      BY <2>1, <1>t
    <2>4. table'[fd].userNonblock = table[fd].userNonblock /\ table'[fd] # None /\ table[fd] # None
      BY <2>0, <2>1, <2>2, <1>t, NoneAssumption
    <2> QED BY <2>1, <2>3, <2>4, Grows DEF Modal
  <1>10. ASSUME NEW fd \in Fds, NEW e \in Event, Report(fd, e)
         PROVE  Modal'
    BY <1>10, <1>h DEF Report
  <1>11. ASSUME NEW s \in strikes, CancelEvent(s)
         PROVE  Modal'
    BY <1>11, <1>h DEF CancelEvent
  <1>12. ASSUME NEW fd \in Fds,
                \/ \E e \in Event : Arrive(fd, e)
                \/ \E link \in {"up", "refused"} : Decide(fd, link)
         PROVE  Modal'
    <2>1. file[fd] # None /\ table' = table
      BY <1>12 DEF Arrive, Decide, Link
    <2>2. file[fd] \in File
      BY <2>1, <1>t
    <2>3. \A f \in Fds : f # fd => file'[f] = file[f]
      BY <1>12, <1>t DEF Arrive, Decide
    <2>4. file'[fd].nonblock = file[fd].nonblock
      <3>1. ASSUME NEW e \in Event, Arrive(fd, e)
            PROVE  file'[fd].nonblock = file[fd].nonblock
        BY <3>1, <2>2, <1>t DEF Arrive, File
      <3>2. ASSUME NEW link \in {"up", "refused"}, Decide(fd, link)
            PROVE  file'[fd].nonblock = file[fd].nonblock
        BY <3>2, <2>2, <1>t DEF Decide, File
      <3> QED BY <1>12, <3>1, <3>2
    <2>5. \A f \in Fds : file'[f] = file[f] \/ (file[f] # None /\ file'[f].nonblock = file[f].nonblock)
      BY <2>1, <2>3, <2>4
    <2> QED BY <2>1, <2>5, ModalStays
  <1>13. CASE UNCHANGED vars
    BY <1>13, <1>h DEF vars
  <1>14. ASSUME NEW a \in Actors, DoIo(a)
         PROVE  Modal'
    BY <1>14, <1>1, <1>2, <1>3 DEF DoIo
  <1>15. ASSUME NEW a \in Actors, NEW fd \in Fds, Operation(a, fd)
         PROVE  Modal'
    BY <1>15, <1>6, <1>7, <1>8, <1>9 DEF Operation
  <1>16. ASSUME NEW a \in Actors,
                \/ DoIo(a) \/ Callback(a)
                \/ Register(a) \/ Del(a) \/ CloseEnds(a)
                \/ Sleep(a) \/ SleepEnds(a)
                \/ \E fd \in Fds : Operation(a, fd)
         PROVE  Modal'
    BY <1>16, <1>2, <1>4, <1>5, <1>14, <1>15
  <1> QED
    BY <1>10, <1>11, <1>12, <1>13, <1>16 DEF Next

\* The table learns of a number from the fiber that opened it, and forgets it when it is
\* closed.
LEMMA TableChanges ==
  ASSUME TypeInv, [Next]_vars, NEW fd \in Fds
  PROVE  /\ table[fd] # None => table'[fd] # None \/ fd \in seen'.gone
         /\ table[fd] = None => table'[fd] = None \/ \E b \in Actors : At(b, "opened") /\ th[b].fd = fd
  <1>t. /\ table \in [Fds -> FdCtx \cup {None}] /\ th \in [Actors -> Thread]
        /\ seen = [asked |-> seen.asked, cleared |-> seen.cleared, again |-> seen.again,
                   gone |-> seen.gone, stray |-> seen.stray]
    BY DEF TypeInv, TypeOK
  <1> DEFINE Goal ==
         /\ table[fd] # None => table'[fd] # None \/ fd \in seen'.gone
         /\ table[fd] = None => table'[fd] = None \/ \E b \in Actors : At(b, "opened") /\ th[b].fd = fd
  <1>h. ASSUME table' = table
        PROVE  Goal
    BY <1>h
  <1>1. ASSUME NEW a \in Actors,
               DoIo(a) \/ Callback(a) \/ CloseEnds(a) \/ Sleep(a) \/ SleepEnds(a)
        PROVE  table' = table
    BY <1>1 DEF DoIo, Done, Fails, Block, Unblock, Again, Arm, Add, Resume, CheckError,
                Callback, Pop, Strike, CloseEnds, Sleep, SleepEnds
  <1>2. ASSUME NEW a \in Actors, NEW f \in Fds,
               \/ \E op \in Op : Call(a, op, f)
               \/ Socket(a, f) \/ CloseHooked(a, f) \/ \E iom \in BOOLEAN : Close(a, f, iom)
        PROVE  table' = table
    BY <1>2 DEF Call, Socket, CloseHooked, Close
  <1>3. ASSUME NEW a \in Actors, NEW f \in Fds, NEW mode \in BOOLEAN,
               SetFl(a, f, mode) \/ Fionbio(a, f, mode)
        PROVE  Goal
    <2>1. table' = table \/ (table[f] # None /\ table' = [table EXCEPT ![f].userNonblock = mode])
      BY <1>3 DEF SetFl, Fionbio
    <2>2. CASE table[f] # None /\ table' = [table EXCEPT ![f].userNonblock = mode]
      <3>1. [table[f] EXCEPT !.userNonblock = mode] \in FdCtx
        BY <2>2, <1>t DEF FdCtx
      <3> QED BY <2>2, <3>1, <1>t, NoneAssumption
    <2> QED BY <2>1, <2>2, <1>h
  <1>4. ASSUME NEW a \in Actors, NEW f \in Fds, NEW opt \in {"SO_RCVTIMEO", "another"},
               SetSockOpt(a, f, opt)
        PROVE  Goal
    <2>1. table[f] \in FdCtx
      BY <1>4, <1>t DEF SetSockOpt
    <2>2. /\ [table[f] EXCEPT !.recvTimeout = TRUE] \in FdCtx
          /\ [table[f] EXCEPT !.sendTimeout = TRUE] \in FdCtx
      BY <2>1 DEF FdCtx
    <2>3. \/ table' = [table EXCEPT ![f].recvTimeout = TRUE]
          \/ table' = [table EXCEPT ![f].sendTimeout = TRUE]
      BY <1>4 DEF SetSockOpt
    <2> QED BY <2>1, <2>2, <2>3, <1>t, NoneAssumption
  <1>5. ASSUME NEW a \in Actors, Register(a)
        PROVE  Goal
    <2>1. At(a, "opened") /\ (table' = table \/ (table[th[a].fd] = None
                                               /\ table' = [table EXCEPT ![th[a].fd] = NewCtx]))
      BY <1>5 DEF Register
    <2> QED BY <2>1, <1>t
  <1>6. ASSUME NEW a \in Actors, Del(a)
        PROVE  Goal
    BY <1>6, <1>t DEF Del
  <1>7. ASSUME NEW s \in strikes, CancelEvent(s)
        PROVE  table' = table
    BY <1>7 DEF CancelEvent
  <1>8. ASSUME NEW f \in Fds,
               \/ \E e \in Event : Report(f, e) \/ Arrive(f, e)
               \/ \E link \in {"up", "refused"} : Decide(f, link)
        PROVE  table' = table
    BY <1>8 DEF Report, Arrive, Decide
  <1>9. ASSUME UNCHANGED vars
        PROVE  table' = table
    BY <1>9 DEF vars
  <1>10. ASSUME NEW a \in Actors, NEW f \in Fds, Operation(a, f)
         PROVE  Goal
    BY <1>10, <1>2, <1>3, <1>4, <1>h DEF Operation
  <1> HIDE DEF Goal
  <1>11. Goal
    BY <1>1, <1>5, <1>6, <1>7, <1>8, <1>9, <1>10, <1>h DEF Next
  <1> QED BY <1>11 DEF Goal

\* What a call found in the table when it began is still there, or close() has been there;
\* a number that is being opened while a call uses it is known to be one.
Callers ==
  \A a \in Actors :
    th[a].pc \in Calling =>
      LET fd == th[a].fd IN
      /\ th[a].managed => table[fd] # None \/ fd \in seen.gone
      /\ a \in Hooked /\ ~th[a].managed =>
           table[fd] = None \/ fd \in seen.asked \cup seen.again \cup seen.gone
      /\ \A b \in Actors : At(b, "opened") /\ th[b].fd = fd => fd \in seen.again

ModesInv == Modal /\ Callers /\ Modes

LEMMA ModesInit == Init => Callers /\ Modes
  <1>1. Rest.pc = "idle" /\ Rest.res = "none"
    BY DEF Rest
  <1> QED BY <1>1, HookAssumption DEF Init, Callers, Modes, Calling, At, Actors

\* What a call that is going on knows of the table, after a step of anybody.
LEMMA CallersStay ==
  ASSUME TypeInv, Waiting, Locals, ModesInv, [Next]_vars, NEW a \in Actors,
         SameCall(a), th[a].pc \in Calling, th'[a].pc \in Calling
  PROVE  LET fd == th'[a].fd IN
         /\ th'[a].managed => table'[fd] # None \/ fd \in seen'.gone
         /\ a \in Hooked /\ ~th'[a].managed =>
              table'[fd] = None \/ fd \in seen'.asked \cup seen'.again \cup seen'.gone
         /\ \A b \in Actors : At(b, "opened")' /\ th'[b].fd = fd => fd \in seen'.again
  <1>1. th[a].fd \in Fds /\ th'[a].fd = th[a].fd /\ th'[a].managed = th[a].managed
    BY DEF SameCall, TypeInv, TypeOK, Thread
  <1>2. /\ th[a].managed => table[th[a].fd] # None \/ th[a].fd \in seen.gone
        /\ a \in Hooked /\ ~th[a].managed =>
             \/ table[th[a].fd] = None
             \/ th[a].fd \in seen.asked \cup seen.again \cup seen.gone
        /\ \A b \in Actors : At(b, "opened") /\ th[b].fd = th[a].fd => th[a].fd \in seen.again
    BY DEF ModesInv, Callers
  <1>3. ASSUME NEW b \in Actors, At(b, "opened")', th'[b].fd = th[a].fd
        PROVE  th[a].fd \in seen'.again
    <2>1. b # a
      BY <1>3 DEF At, Calling
    <2>2. CASE At(b, "opened") /\ th[b].fd = th[a].fd
      BY <1>2, <2>2, Grows
    <2>3. CASE Leaves(b)
      <3>1. a \in InCall(th'[b].fd)
        BY <1>3 DEF InCall, At, Calling
      <3> QED BY <1>3, <2>1, <2>3, <3>1 DEF Leaves, At
    <2>4. CASE Keeps(b)
      BY <1>3, <2>2, <2>4 DEF Keeps, SameCall, At
    <2>5. CASE Begins(b) \/ Tells(b) \/ Advances(b) \/ Woken(b)
      BY <1>3, <2>5 DEF Begins, Tells, Advances, Woken, At
    <2> QED BY <2>3, <2>4, <2>5, Movements DEF Moves
  <1> QED BY <1>1, <1>2, <1>3, TableChanges, Grows

LEMMA CallersNext == TypeInv /\ Waiting /\ Locals /\ ModesInv /\ [Next]_vars => Callers'
  <1> SUFFICES ASSUME TypeInv, Waiting, Locals, ModesInv, [Next]_vars,
                      NEW a \in Actors, th'[a].pc \in Calling
               PROVE  LET fd == th'[a].fd IN
                      /\ th'[a].managed => table'[fd] # None \/ fd \in seen'.gone
                      /\ a \in Hooked /\ ~th'[a].managed =>
                           table'[fd] = None \/ fd \in seen'.asked \cup seen'.again \cup seen'.gone
                      /\ \A b \in Actors : At(b, "opened")' /\ th'[b].fd = fd => fd \in seen'.again
    BY DEF Callers
  <1>1. CASE Keeps(a)
    BY <1>1, CallersStay DEF Keeps
  <1>2. CASE Advances(a)
    <2>1. th[a].pc \in Calling
      BY <1>2 DEF Advances, Block, Arm, WouldBlock, At, Calling
    <2> QED BY <1>2, <2>1, CallersStay DEF Advances
  <1>3. CASE Woken(a)
    BY <1>3, CallersStay DEF Woken, Calling
  <1>4. CASE Leaves(a) \/ Tells(a)
    BY <1>4 DEF Leaves, Tells, Calling
  <1>5. CASE Begins(a)
    <2>1. PICK op \in Op, fd \in Fds :
            /\ Call(a, op, fd)
            /\ th'[a].fd = fd /\ (th'[a].managed <=> ~Straight(a, fd))
      BY <1>5 DEF Begins
    <2>2. Usable(fd) /\ table' = table /\ \A b \in Actors : b # a => th'[b] = th[b]
      BY <2>1 DEF Call, TypeInv, TypeOK
    <2>3. th'[a].managed => table'[fd] # None
      BY <2>1, <2>2 DEF Straight
    <2>4. a \in Hooked /\ ~th'[a].managed => table'[fd] = None \/ fd \in seen'.asked
      BY <2>1, <2>2, Grows, HookAssumption DEF Straight, ModesInv, Modal
    <2>5. \A b \in Actors : ~(At(b, "opened")' /\ th'[b].fd = fd)
      BY <1>5, <2>2 DEF Usable, At, Begins
    <2> QED BY <2>1, <2>3, <2>4, <2>5
  <1> QED BY <1>1, <1>2, <1>3, <1>4, <1>5, Movements DEF Moves

LEMMA ModesNext == TypeInv /\ Waiting /\ Locals /\ ModesInv /\ [Next]_vars => Modes'
  <1> SUFFICES ASSUME TypeInv, Waiting, Locals, ModesInv, [Next]_vars, NEW a \in Hooked
               PROVE  /\ At(a, "blocked")' /\ th'[a].managed =>
                           th'[a].fd \in seen'.cleared \cup seen'.again \cup seen'.gone
                      /\ th'[a].res = "again" =>
                           th'[a].fd \in seen'.asked \cup seen'.again \cup seen'.gone
    BY DEF Modes
  <1>a. a \in Actors /\ th[a].fd \in Fds
    BY DEF Actors, TypeInv, TypeOK, Thread
  <1>m. /\ At(a, "blocked") /\ th[a].managed =>
             th[a].fd \in seen.cleared \cup seen.again \cup seen.gone
        /\ th[a].res = "again" => th[a].fd \in seen.asked \cup seen.again \cup seen.gone
    BY DEF ModesInv, Modes
  <1>1. CASE Keeps(a)
    BY <1>1, <1>m, Grows DEF Keeps, SameCall, At
  <1>2. CASE Advances(a)
    <2>1. CASE th'[a].pc = "blocked" /\ Block(a)
      <3>1. file[th[a].fd] # None /\ ~file[th[a].fd].nonblock /\ th[a].pc \in Calling
        BY <2>1 DEF Block, WouldBlock, At, Calling
      <3>2. th[a].managed => th[a].fd \in seen.cleared \cup seen.again \cup seen.gone
        BY <1>a, <3>1 DEF ModesInv, Modal, Callers
      <3> QED BY <1>2, <3>2, <1>m, Grows DEF Advances, SameCall
    <2>2. CASE th'[a].pc # "blocked"
      BY <1>2, <2>2, <1>m, Grows DEF Advances, SameCall, At
    <2> QED BY <1>2, <2>1, <2>2 DEF Advances
  <1>3. CASE Woken(a)
    BY <1>3, <1>m, Grows DEF Woken, SameCall, At
  <1>4. CASE Leaves(a)
    BY <1>4 DEF Leaves, Calling, At
  <1>5. CASE Begins(a)
    BY <1>5 DEF Begins, At
  <1>6. CASE Tells(a)
    <2>1. CASE th'[a].res = "again" /\ Again(a)
      <3>1. file[th[a].fd] # None /\ file[th[a].fd].nonblock /\ ~th[a].managed /\ th[a].pc \in Calling
        BY <2>1 DEF Again, WouldBlock, At, Calling
      <3>2. th[a].fd \in seen.asked \cup seen.again \cup seen.gone
        BY <1>a, <3>1 DEF ModesInv, Modal, Callers
      <3> QED BY <1>6, <3>2, Grows DEF Tells, At
    <2>2. CASE th'[a].res # "again"
      BY <1>6, <2>2 DEF Tells, At
    <2> QED BY <1>6, <2>1, <2>2 DEF Tells
  <1> QED BY <1>1, <1>2, <1>3, <1>4, <1>5, <1>6, <1>a, Movements DEF Moves

\* A fiber never blocks its thread in the kernel in a hooked call on a socket that has a
\* context, and is never told EAGAIN on one nobody made non-blocking, but for FIONBIO, a
\* number opened again under a context or a call, and close().
THEOREM ModesKept == Spec => []Modes
  <1> DEFINE IInv == TypeInv /\ Waiting /\ Locals /\ ModesInv
  <1>1. Init => IInv
    BY TypeInvInit, WaitingInit, LocalsInit, ModalInit, ModesInit DEF ModesInv
  <1>2. IInv /\ [Next]_vars => IInv'
    BY TypeInvNext, WaitingNext, LocalsNext, ModalNext, CallersNext, ModesNext DEF ModesInv
  <1>3. IInv => Modes
    BY DEF ModesInv
  <1> QED BY <1>1, <1>2, <1>3, PTL DEF Spec

-----------------------------------------------------------------------------
(***************************************************************************)
(* connect() returns 0 too early only for the reasons that ConnectTruth    *)
(* names: a callback is its call's own, a number has one writer, and the   *)
(* kernel makes a connecting socket ready only when it is decided.         *)
(***************************************************************************)

OneUser ==
  \A a, b \in Actors :
    a # b /\ th[a].pc \in Calling /\ th[b].pc \in Calling /\ th[a].fd = th[b].fd =>
      EventOf(th[a].op) # EventOf(th[b].op)

\* Calls are numbered, and a callback that has struck has struck its own call.
Numbered ==
  /\ \A a \in Actors : th[a].call <= calls
  /\ \A s \in strikes : s.call <= calls
  /\ \A a, b \in Actors : a # b /\ th[a].pc \in Calling /\ th[b].pc \in Calling => th[a].call # th[b].call
  /\ \A a \in Actors, s \in strikes :
       th[a].pc \in Calling /\ s.call = th[a].call => th[a].cancelled

Silent == \A fd \in Fds : Link(fd) = "connecting" => file[fd].ready = {}

Excused(fd) == ~works \/ seen.stray \/ fd \in seen.again \cup lost
Decided(fd) == Link(fd) \in {"closed", "refused", "up"}

Connecting(a) ==
  th[a].op = "connect" =>
    LET fd == th[a].fd IN
    /\ th[a].pc \in {"add", "wait", "woken", "check"} => Link(fd) # "new" \/ Excused(fd)
    /\ th[a].pc = "woken" => th[a].cancelled \/ Decided(fd) \/ Excused(fd)

Looks(a) ==
  th[a].pc = "check" => th[a].op = "connect" /\ (Decided(th[a].fd) \/ Excused(th[a].fd))

Truth ==
  /\ OneUser /\ Numbered /\ Silent
  /\ \A a \in Actors : Connecting(a) /\ Looks(a)

\* How the kernel's files change: what happens to a number's socket.
LinkChange(fd) ==
  \/ Link(fd)' = Link(fd) /\ (Link(fd) = "connecting" => file'[fd].ready \subseteq file[fd].ready)
  \/ Link(fd)' = "closed"
  \/ /\ Link(fd) = "closed" /\ Link(fd)' = "new"
     /\ InCall(fd) # {} => fd \in seen'.again
  \/ /\ Link(fd)' = "connecting" /\ file'[fd].ready = {}
     /\ \E b \in Actors : At(b, "try") /\ th[b].fd = fd /\ th[b].op = "connect"
  \/ Link(fd) = "connecting" /\ Link(fd)' \in {"up", "refused"}

LEMMA LinkChanges ==
  ASSUME TypeInv, [Next]_vars
  PROVE  \A fd \in Fds : LinkChange(fd)
  <1>t. /\ th \in [Actors -> Thread] /\ file \in [Fds -> File \cup {None}]
        /\ seen.again \subseteq Fds
        /\ seen = [asked |-> seen.asked, cleared |-> seen.cleared, again |-> seen.again,
                   gone |-> seen.gone, stray |-> seen.stray]
    BY DEF TypeInv, TypeOK
  <1>o. \A a \in Actors : th[a].fd \in Fds
    BY <1>t DEF Thread
  <1>f. \A fd \in Fds : file[fd] # None => file[fd] \in File
    BY <1>t
  <1>n. NewFile.link = "new" /\ NewFile # None
    <2>1. NewFile \in File
      BY DEF NewFile, File
    <2> QED BY <2>1, NoneAssumption DEF NewFile
  <1> DEFINE Goal == \A fd \in Fds : LinkChange(fd)
  \* Only one number's socket changes.
  <1>l. ASSUME NEW n \in Fds, NEW r, file' = [file EXCEPT ![n] = r], LinkChange(n)
        PROVE  Goal
    <2>1. \A fd \in Fds : fd # n => file'[fd] = file[fd]
      BY <1>l, <1>t
    <2>2. \A fd \in Fds : fd # n => Link(fd)' = Link(fd)
      BY <2>1 DEF Link
    <2> QED BY <1>l, <2>1, <2>2 DEF LinkChange
  <1>h. ASSUME file' = file
        PROVE  Goal
    BY <1>h DEF LinkChange, Link
  \* A socket that is open stays so, and only its mode or what is ready changes.
  <1>k. ASSUME NEW n \in Fds, file[n] # None, NEW r \in File, file' = [file EXCEPT ![n] = r],
               r.link = file[n].link,
               Link(n) = "connecting" => r.ready \subseteq file[n].ready
        PROVE  Goal
    <2>1. file'[n] = r /\ r # None
      BY <1>k, <1>t, NoneAssumption
    <2>2. LinkChange(n)
      BY <1>k, <2>1 DEF LinkChange, Link
    <2> QED BY <1>k, <2>2, <1>l
  <1>1. ASSUME NEW a \in Actors, Done(a)
        PROVE  Goal
    <2>0. PICK m \in Fds : m = th[a].fd
      BY <1>o
    <2>f. file[m] # None /\ file[m] \in File
      BY <1>1, <2>0, <1>f DEF Done, Ready
    <2>1. CASE th[a].op = "accept" /\ \E n \in Fds : file[n] = None
      <3>1. PICK n \in {k \in Fds : file[k] = None} :
              /\ file' = [file EXCEPT ![m].ready = @ \ {"READ"}, ![n] = NewFile]
              /\ seen' = [seen EXCEPT !.again = @ \cup {k \in {n} :
                            table[k] # None \/ InCall(k) # {}}]
        BY <1>1, <2>0, <2>1 DEF Done
      <3>2. n # m /\ n \in Fds /\ file[n] = None
        BY <2>f
      <3>3. LinkChange(n)
        <4>1. file'[n] = NewFile
          BY <3>1, <3>2, <1>t
        <4>2. InCall(n) # {} => n \in seen'.again
          BY <3>1, <1>t
        <4> QED BY <3>2, <4>1, <4>2, <1>n DEF LinkChange, Link
      <3>4. LinkChange(m)
        <4>1. file'[m] = [file[m] EXCEPT !.ready = @ \ {"READ"}]
          BY <3>1, <3>2, <1>t
        <4>2. /\ file'[m] \in File /\ file'[m].link = file[m].link
              /\ file'[m].ready \subseteq file[m].ready
          BY <4>1, <2>f DEF File
        <4>3. file'[m] # None
          BY <4>2, NoneAssumption
        <4>4. Link(m)' = Link(m)
          BY <4>2, <4>3, <2>f DEF Link
        <4> QED BY <4>2, <4>4 DEF LinkChange
      <3>5. \A fd \in Fds : fd # n /\ fd # m => file'[fd] = file[fd]
        BY <3>1, <1>t
      <3>6. \A fd \in Fds : fd # n /\ fd # m => LinkChange(fd)
        <4>1. \A fd \in Fds : fd # n /\ fd # m => Link(fd)' = Link(fd)
          BY <3>5 DEF Link
        <4> QED BY <3>5, <4>1 DEF LinkChange
      <3> QED BY <3>3, <3>4, <3>6
    <2>2. CASE ~(th[a].op = "accept" /\ \E n \in Fds : file[n] = None)
      <3> DEFINE r == [file[m] EXCEPT !.ready = @ \ {EventOf(th[a].op)}]
      <3>1. file' = [file EXCEPT ![m] = r]
        BY <1>1, <2>0, <2>2 DEF Done
      <3>2. r \in File /\ r.link = file[m].link /\ r.ready \subseteq file[m].ready
        BY <2>f DEF File
      <3> HIDE DEF r
      <3> QED BY <2>f, <3>1, <3>2, <1>k
    <2> QED BY <2>1, <2>2
  <1>2. ASSUME NEW a \in Actors, Block(a) \/ Again(a) \/ Arm(a)
        PROVE  Goal
    <2>0. PICK m \in Fds : m = th[a].fd
      BY <1>o
    <2>1. At(a, "try") /\ file[m] # None /\ Started(a)
      BY <1>2, <2>0 DEF Block, Again, Arm, WouldBlock
    <2>2. CASE th[a].op = "connect"
      <3> DEFINE r == [file[m] EXCEPT !.link = "connecting", !.ready = {}]
      <3>1. file' = [file EXCEPT ![m] = r]
        BY <2>0, <2>1, <2>2, <1>f DEF Started, File
      <3>2. r \in File /\ r.link = "connecting" /\ r.ready = {}
        BY <2>1, <1>f DEF File
      <3> HIDE DEF r
      <3>3. LinkChange(m)
        <4>1. file'[m] = r /\ r # None
          BY <3>1, <3>2, <1>t, NoneAssumption
        <4>2. Link(m)' = "connecting" /\ file'[m].ready = {}
          BY <3>2, <4>1 DEF Link
        <4> QED BY <2>0, <2>1, <2>2, <4>2 DEF LinkChange
      <3> QED BY <3>1, <3>3, <1>l
    <2>3. CASE th[a].op # "connect"
      BY <2>1, <2>3, <1>h DEF Started
    <2> QED BY <2>2, <2>3
  <1>3. ASSUME NEW a \in Actors,
               \/ Fails(a) \/ Unblock(a) \/ Add(a) \/ Resume(a) \/ CheckError(a)
               \/ Callback(a) \/ Del(a) \/ Sleep(a) \/ SleepEnds(a)
        PROVE  Goal
    BY <1>3, <1>h DEF Fails, Unblock, Add, Resume, CheckError, Callback, Pop, Strike, Del, Sleep, SleepEnds
  <1>4. ASSUME NEW a \in Actors, Register(a)
        PROVE  Goal
    <2>1. CASE file' = file
      BY <2>1, <1>h
    <2>2. CASE file[th[a].fd] # None /\ file' = [file EXCEPT ![th[a].fd].nonblock = TRUE]
      <3>1. [file[th[a].fd] EXCEPT !.nonblock = TRUE] \in File
        BY <2>2, <1>o, <1>f, ZenonT(30) DEF File
      <3>2. /\ [file[th[a].fd] EXCEPT !.nonblock = TRUE].link = file[th[a].fd].link
            /\ [file[th[a].fd] EXCEPT !.nonblock = TRUE].ready = file[th[a].fd].ready
        BY <2>2, <1>o, <1>f DEF File
      <3> QED BY <2>2, <3>1, <3>2, <1>k, <1>o
    <2> QED BY <1>4, <2>1, <2>2 DEF Register
  <1>s. ASSUME NEW n \in Fds, Shut(n)
        PROVE  Goal
    <2>1. file' = [file EXCEPT ![n] = None]
      BY <1>s DEF Shut
    <2>2. LinkChange(n)
      BY <2>1, <1>t DEF LinkChange, Link
    <2> QED BY <2>1, <2>2, <1>l
  <1>5. ASSUME NEW a \in Actors, CloseEnds(a)
        PROVE  Goal
    BY <1>5, <1>s, <1>o DEF CloseEnds
  <1>6. ASSUME NEW a \in Actors, NEW fd \in Fds,
               \/ \E op \in Op : Call(a, op, fd)
               \/ \E iom \in BOOLEAN : Close(a, fd, iom)
               \/ \E opt \in {"SO_RCVTIMEO", "another"} : SetSockOpt(a, fd, opt)
        PROVE  Goal
    BY <1>6, <1>h DEF Call, Close, SetSockOpt
  <1>7. ASSUME NEW a \in Actors, NEW fd \in Fds, CloseHooked(a, fd)
        PROVE  Goal
    BY <1>7, <1>s DEF CloseHooked
  <1>8. ASSUME NEW a \in Actors, NEW fd \in Fds, NEW mode \in BOOLEAN,
               SetFl(a, fd, mode) \/ Fionbio(a, fd, mode)
        PROVE  Goal
    <2>1. file[fd] # None /\ \E b \in BOOLEAN : file' = [file EXCEPT ![fd].nonblock = b]
      BY <1>8 DEF SetFl, Fionbio, Usable
    <2>2. PICK b \in BOOLEAN : file' = [file EXCEPT ![fd].nonblock = b]
      BY <2>1
    <2>3. /\ [file[fd] EXCEPT !.nonblock = b] \in File
          /\ [file[fd] EXCEPT !.nonblock = b].link = file[fd].link
          /\ [file[fd] EXCEPT !.nonblock = b].ready = file[fd].ready
      BY <2>1, <1>f DEF File
    <2> QED BY <2>1, <2>2, <2>3, <1>k
  <1>9. ASSUME NEW a \in Actors, NEW fd \in Fds, Socket(a, fd)
        PROVE  Goal
    <2>1. /\ file[fd] = None /\ file' = [file EXCEPT ![fd] = NewFile]
          /\ InCall(fd) # {} => fd \in seen'.again
      BY <1>9, <1>t DEF Socket, Known
    <2>2. LinkChange(fd)
      BY <2>1, <1>n, <1>t DEF LinkChange, Link
    <2> QED BY <2>1, <2>2, <1>l
  <1>10. ASSUME NEW s \in strikes, CancelEvent(s)
         PROVE  Goal
    BY <1>10, <1>h DEF CancelEvent
  <1>11. ASSUME NEW fd \in Fds, NEW e \in Event, Report(fd, e) \/ Arrive(fd, e)
         PROVE  Goal
    <2>1. CASE Report(fd, e)
      BY <2>1, <1>h DEF Report
    <2>2. CASE Arrive(fd, e)
      <3>1. file[fd] # None /\ Link(fd) # "connecting" /\ file[fd] \in File
        BY <2>2, <1>f DEF Arrive, Link
      <3>2. /\ [file[fd] EXCEPT !.ready = @ \cup {e}] \in File
            /\ [file[fd] EXCEPT !.ready = @ \cup {e}].link = file[fd].link
        BY <3>1 DEF File
      <3>3. file' = [file EXCEPT ![fd] = [file[fd] EXCEPT !.ready = @ \cup {e}]]
        BY <2>2 DEF Arrive
      <3> QED BY <3>1, <3>2, <3>3, <1>k
    <2> QED BY <1>11, <2>1, <2>2
  <1>12. ASSUME NEW fd \in Fds, NEW link \in {"up", "refused"}, Decide(fd, link)
         PROVE  Goal
    <2>1. Link(fd) = "connecting" /\ file[fd] \in File
      BY <1>12, <1>f DEF Decide, Link
    <2> DEFINE ready == IF link = "up" THEN {"WRITE"} ELSE Event
               r == [file[fd] EXCEPT !.link = link, !.ready = ready]
    <2>2. file' = [file EXCEPT ![fd] = r]
      BY <1>12, <2>1 DEF Decide, File
    <2>3. ready \in SUBSET Event
      BY DEF Event
    <2> HIDE DEF ready
    <2>4. r \in File /\ r.link = link
      BY <2>1, <2>3 DEF File
    <2> HIDE DEF r
    <2>5. LinkChange(fd)
      BY <2>1, <2>2, <2>4, <1>t, NoneAssumption DEF LinkChange, Link
    <2> QED BY <2>2, <2>5, <1>l
  <1>13. ASSUME UNCHANGED vars
         PROVE  Goal
    BY <1>13, <1>h DEF vars
  <1> HIDE DEF Goal
  <1>14. ASSUME NEW a \in Actors, DoIo(a)
         PROVE  Goal
    BY <1>14, <1>1, <1>2, <1>3 DEF DoIo
  <1>15. ASSUME NEW a \in Actors, NEW fd \in Fds, Operation(a, fd)
         PROVE  Goal
    BY <1>15, <1>6, <1>7, <1>8, <1>9 DEF Operation
  <1>16. Goal
    BY <1>3, <1>4, <1>5, <1>10, <1>11, <1>12, <1>13, <1>14, <1>15 DEF Next
  <1> QED BY <1>16 DEF Goal

\* A new strike is by a callback of the call it names, which is cancelled with it.
LEMMA StrikeChanges ==
  ASSUME TypeInv, Locals, [Next]_vars, NEW s \in strikes', s \notin strikes
  PROVE  \E a \in Actors :
           /\ th[a].pc \in Calling /\ th'[a].pc = th[a].pc /\ s.call = th[a].call /\ th'[a].cancelled
           /\ calls' = calls /\ \A b \in Actors : SameCall(b)
  <1>t. th \in [Actors -> Thread]
    BY DEF TypeInv, TypeOK
  <1>1. ASSUME NEW a \in Actors, Strike(a)
        PROVE  /\ th[a].pc \in Calling /\ th'[a].pc = th[a].pc /\ s.call = th[a].call /\ th'[a].cancelled
               /\ calls' = calls /\ \A b \in Actors : SameCall(b)
    <2>1. th[a].pc \in Calling
      BY <1>1, <1>t DEF Strike, Locals, Local, Thread
    <2>2. s.call = th[a].call
      BY <1>1 DEF Strike
    <2>3. th'[a].cancelled /\ th'[a].pc = th[a].pc /\ SameCall(a)
      BY <1>1, <1>t DEF Strike, SameCall, Thread
    <2>4. \A b \in Actors : b # a => th'[b] = th[b]
      BY <1>1, <1>t DEF Strike
    <2> QED BY <1>1, <2>1, <2>2, <2>3, <2>4 DEF Strike, SameCall
  <1>2. \E a \in Actors : Strike(a)
    <2>1. ASSUME NEW a \in Actors,
                 \/ DoIo(a) \/ Pop(a) \/ Register(a) \/ Del(a) \/ CloseEnds(a) \/ Sleep(a) \/ SleepEnds(a)
          PROVE  strikes' = strikes
      BY <2>1 DEF DoIo, Done, Fails, Block, Unblock, Again, Arm, Add, Resume, CheckError, Pop,
                  Register, Del, CloseEnds, Sleep, SleepEnds
    <2>2. ASSUME NEW a \in Actors, NEW fd \in Fds, Operation(a, fd)
          PROVE  strikes' = strikes
      BY <2>2 DEF Operation, Call, Socket, CloseHooked, Close, SetFl, Fionbio, SetSockOpt
    <2>3. ASSUME NEW r \in strikes, CancelEvent(r)
          PROVE  strikes' \subseteq strikes
      BY <2>3 DEF CancelEvent
    <2>4. ASSUME NEW fd \in Fds,
                 \/ \E e \in Event : Report(fd, e) \/ Arrive(fd, e)
                 \/ \E link \in {"up", "refused"} : Decide(fd, link)
          PROVE  strikes' = strikes
      BY <2>4 DEF Report, Arrive, Decide
    <2>5. ~UNCHANGED vars
      BY DEF vars
    <2> QED BY <2>1, <2>2, <2>3, <2>4, <2>5 DEF Next, Callback
  <1> QED BY <1>1, <1>2

\* Who is in a call was in it before, or has just made it, alone.
LEMMA CallMoves ==
  ASSUME TypeInv, Waiting, Locals, [Next]_vars, NEW a \in Actors, th'[a].pc \in Calling
  PROVE  \/ SameCall(a) /\ th[a].pc \in Calling /\ (th[a].cancelled => th'[a].cancelled)
         \/ /\ \E op \in Op, fd \in Fds : Call(a, op, fd) /\ th'[a].fd = fd /\ th'[a].op = op
            /\ th'[a].call = calls + 1 /\ calls' = calls + 1 /\ UNCHANGED strikes
            /\ th'[a].pc = "try" /\ \A b \in Actors : b # a => th'[b] = th[b]
  <1>t. th \in [Actors -> Thread]
    BY DEF TypeInv, TypeOK
  <1>1. CASE Keeps(a)
    BY <1>1 DEF Keeps
  <1>2. CASE Advances(a)
    <2>1. th[a].pc \in Calling
      BY <1>2 DEF Advances, Block, Arm, WouldBlock, At, Calling
    <2> QED BY <1>2, <2>1 DEF Advances
  <1>3. CASE Woken(a)
    BY <1>3 DEF Woken, Calling
  <1>4. CASE Leaves(a) \/ Tells(a)
    BY <1>4 DEF Leaves, Tells, Calling
  <1>5. CASE Begins(a)
    <2>1. PICK op \in Op, fd \in Fds :
            Call(a, op, fd) /\ th'[a].fd = fd /\ th'[a].op = op /\ th'[a].pc = "try"
            /\ th'[a].call = calls + 1
      BY <1>5 DEF Begins
    <2>2. calls' = calls + 1 /\ UNCHANGED strikes /\ \A b \in Actors : b # a => th'[b] = th[b]
      BY <2>1, <1>t DEF Call, Calls
    <2> QED BY <2>1, <2>2
  <1> QED BY <1>1, <1>2, <1>3, <1>4, <1>5, Movements DEF Moves

LEMMA TruthInit == Init => Truth /\ ConnectTruth
  <1> SUFFICES ASSUME Init PROVE Truth /\ ConnectTruth
    OBVIOUS
  <1>1. \A a \in Actors : th[a].pc = "idle" /\ th[a].call = 0 /\ th[a].res = "none"
    BY RestTyped DEF Init, Rest
  <1>2. \A fd \in Fds : Link(fd) \in {"closed", "new"}
    BY DEF Init, Link, NewFile
  <1>3. OneUser /\ Silent
    BY <1>1, <1>2 DEF OneUser, Silent, Calling
  <1>4. Numbered
    BY <1>1 DEF Numbered, Calling, Init
  <1>5. \A a \in Actors : Connecting(a) /\ Looks(a)
    BY <1>1 DEF Connecting, Looks
  <1>6. ConnectTruth
    BY <1>1 DEF ConnectTruth, Actors
  <1> QED BY <1>3, <1>4, <1>5, <1>6 DEF Truth

LEMMA OneUserNext == TypeInv /\ Waiting /\ Locals /\ OneUser /\ [Next]_vars => OneUser'
  <1> SUFFICES ASSUME TypeInv, Waiting, Locals, OneUser, [Next]_vars,
                      NEW a \in Actors, NEW b \in Actors, a # b,
                      th'[a].pc \in Calling, th'[b].pc \in Calling, th'[a].fd = th'[b].fd
               PROVE  EventOf(th'[a].op) # EventOf(th'[b].op)
    BY DEF OneUser, EventOf
  \* A call is made only where no other is going on.
  <1>1. ASSUME NEW c \in Actors, NEW d \in Actors, c # d, NEW op \in Op, NEW fd \in Fds,
               Call(c, op, fd), th'[c].fd = fd, th'[c].op = op, th'[d] = th[d],
               th'[d].pc \in Calling, th'[c].fd = th'[d].fd
        PROVE  EventOf(th'[c].op) # EventOf(th'[d].op)
    <2>1. d \in InCall(fd) /\ ~At(d, "del") /\ ~At(d, "close")
      BY <1>1 DEF InCall, At, Calling
    <2> QED BY <1>1, <2>1 DEF Call
  <1>2. CASE SameCall(a) /\ th[a].pc \in Calling
    <2>1. CASE SameCall(b) /\ th[b].pc \in Calling
      BY <1>2, <2>1 DEF SameCall, OneUser
    <2>2. CASE ~(SameCall(b) /\ th[b].pc \in Calling)
      BY <1>1, <2>2, CallMoves
    <2> QED BY <2>1, <2>2
  <1>3. CASE ~(SameCall(a) /\ th[a].pc \in Calling)
    BY <1>1, <1>3, CallMoves
  <1> QED BY <1>2, <1>3

LEMMA NumberedNext == TypeInv /\ Waiting /\ Locals /\ Numbered /\ [Next]_vars => Numbered'
  <1> SUFFICES ASSUME TypeInv, Waiting, Locals, Numbered, [Next]_vars PROVE Numbered'
    OBVIOUS
  <1>t. /\ th \in [Actors -> Thread] /\ calls \in Nat
        /\ strikes \subseteq [fd : Fds, event : Event, call : 0..MaxCalls]
    BY HookAssumption DEF TypeInv, TypeOK
  <1>c. calls' = calls \/ calls' = calls + 1
    BY Grows
  <1>k. /\ \A a \in Actors : th[a].call \in Nat
        /\ \A s \in strikes : s.call \in Nat
    BY <1>t, HookAssumption DEF Thread
  <1>n. /\ \A a \in Actors : th[a].call <= calls
        /\ \A s \in strikes : s.call <= calls
        /\ \A a, b \in Actors :
             a # b /\ th[a].pc \in Calling /\ th[b].pc \in Calling => th[a].call # th[b].call
        /\ \A a \in Actors, s \in strikes :
             th[a].pc \in Calling /\ s.call = th[a].call => th[a].cancelled
    BY DEF Numbered
  <1>1. ASSUME NEW a \in Actors
        PROVE  th'[a].call <= calls'
    <2>1. CASE SameCall(a)
      BY <2>1, <1>c, <1>k, <1>n, <1>t DEF SameCall
    <2>2. CASE Begins(a)
      BY <2>2, <1>t DEF Begins, Call, Calls
    <2>3. CASE Leaves(a)
      BY <2>3, <1>c, <1>k, <1>n, <1>t DEF Leaves
    <2>4. CASE Tells(a)
      BY <2>4, <1>c, <1>t DEF Tells
    <2> QED BY <2>1, <2>2, <2>3, <2>4, Movements DEF Moves, Keeps, Advances, Woken
  <1>2. ASSUME NEW s \in strikes'
        PROVE  s.call <= calls'
    <2>1. CASE s \in strikes
      BY <2>1, <1>c, <1>k, <1>n, <1>t
    <2>2. CASE s \notin strikes
      BY <2>2, StrikeChanges, <1>n
    <2> QED BY <2>1, <2>2
  <1>3. ASSUME NEW a \in Actors, NEW b \in Actors, a # b,
               th'[a].pc \in Calling, th'[b].pc \in Calling
        PROVE  th'[a].call # th'[b].call
    <2>f. ASSUME NEW c \in Actors, NEW d \in Actors, c # d, th'[c].call = calls + 1, th'[d] = th[d]
          PROVE  th'[c].call # th'[d].call
      BY <2>f, <1>k, <1>n, <1>t
    <2>1. CASE SameCall(a) /\ th[a].pc \in Calling
      <3>1. CASE SameCall(b) /\ th[b].pc \in Calling
        BY <1>3, <2>1, <3>1, <1>n DEF SameCall
      <3>2. CASE ~(SameCall(b) /\ th[b].pc \in Calling)
        BY <1>3, <2>f, <3>2, CallMoves
      <3> QED BY <3>1, <3>2
    <2>2. CASE ~(SameCall(a) /\ th[a].pc \in Calling)
      BY <1>3, <2>f, <2>2, CallMoves
    <2> QED BY <2>1, <2>2
  <1>4. ASSUME NEW a \in Actors, NEW s \in strikes', th'[a].pc \in Calling, s.call = th'[a].call
        PROVE  th'[a].cancelled
    <2>1. CASE SameCall(a) /\ th[a].pc \in Calling /\ (th[a].cancelled => th'[a].cancelled)
      <3>1. CASE s \in strikes
        BY <1>4, <2>1, <3>1, <1>n DEF SameCall
      <3>2. CASE s \notin strikes
        <4>1. PICK c \in Actors : th[c].pc \in Calling /\ s.call = th[c].call /\ th'[c].cancelled
          BY <3>2, StrikeChanges
        <4>2. c = a
          BY <1>4, <2>1, <4>1, <1>n DEF SameCall
        <4> QED BY <4>1, <4>2
      <3> QED BY <3>1, <3>2
    <2>2. CASE th'[a].call = calls + 1 /\ UNCHANGED strikes
      BY <1>4, <2>2, <1>k, <1>n, <1>t
    <2> QED BY <1>4, <2>1, <2>2, CallMoves
  <1> QED BY <1>1, <1>2, <1>3, <1>4 DEF Numbered

LEMMA SilentNext == TypeInv /\ Silent /\ [Next]_vars => Silent'
  <1> SUFFICES ASSUME TypeInv, Silent, [Next]_vars, NEW fd \in Fds, Link(fd)' = "connecting"
               PROVE  file'[fd].ready = {}
    BY DEF Silent
  <1>1. LinkChange(fd)
    BY LinkChanges
  <1> QED BY <1>1 DEF LinkChange, Silent

LEMMA ExcusedStays ==
  ASSUME TypeInv, [Next]_vars, NEW fd \in Fds, Excused(fd)
  PROVE  Excused(fd)'
  BY Grows DEF Excused

\* Under a connect() that waits, the connection is not begun again.
LEMMA LinkKept ==
  ASSUME TypeInv, OneUser, [Next]_vars, NEW a \in Actors, NEW fd \in Fds, fd = th[a].fd,
         th[a].pc \in {"add", "wait", "woken", "check"}, th[a].op = "connect"
  PROVE  /\ Link(fd) # "new" \/ Excused(fd) => Link(fd)' # "new" \/ Excused(fd)'
         /\ Decided(fd) \/ Excused(fd) => Decided(fd)' \/ Excused(fd)'
  <1>1. LinkChange(fd)
    BY LinkChanges
  <1>2. a \in InCall(fd)
    BY DEF InCall, At
  <1>3. ~ \E b \in Actors : At(b, "try") /\ th[b].fd = fd /\ th[b].op = "connect"
    BY DEF OneUser, At, Calling
  <1>4. fd \in seen'.again => Excused(fd)'
    BY DEF Excused
  <1> QED BY <1>1, <1>2, <1>3, <1>4, ExcusedStays DEF LinkChange, Decided

LEMMA ConnectingNext ==
  ASSUME TypeInv, Waiting, Locals, Truth, [Next]_vars, NEW a \in Actors
  PROVE  Connecting(a)' /\ Looks(a)'
  <1>t. th \in [Actors -> Thread] /\ file \in [Fds -> File \cup {None}]
    BY DEF TypeInv, TypeOK
  <1>0. PICK fd \in Fds : fd = th[a].fd
    BY <1>t DEF Thread
  <1>i. /\ OneUser /\ Numbered /\ Silent /\ Connecting(a) /\ Looks(a)
    BY DEF Truth
  <1> DEFINE Goal ==
         /\ th'[a].pc \in {"add", "wait", "woken", "check"} /\ th'[a].op = "connect" =>
              Link(fd)' # "new" \/ Excused(fd)'
         /\ th'[a].pc = "woken" /\ th'[a].op = "connect" =>
              th'[a].cancelled \/ Decided(fd)' \/ Excused(fd)'
         /\ th'[a].pc = "check" => th'[a].op = "connect" /\ (Decided(fd)' \/ Excused(fd)')
  <1>c. ASSUME th'[a].fd = fd, Goal
        PROVE  Connecting(a)' /\ Looks(a)'
    BY <1>c DEF Connecting, Looks
  <1>1. CASE Keeps(a)
    <2>1. th'[a].fd = fd /\ th'[a].pc = th[a].pc /\ th'[a].op = th[a].op
          /\ (th[a].cancelled => th'[a].cancelled)
      BY <1>0, <1>1 DEF Keeps, SameCall
    <2>2. Goal
      <3>1. CASE th[a].op = "connect"
        BY <1>0, <1>i, <2>1, <3>1, LinkKept DEF Connecting, Looks
      <3>2. CASE th[a].op # "connect"
        BY <1>0, <1>i, <2>1, <3>2 DEF Connecting, Looks
      <3> QED BY <3>1, <3>2
    <2> QED BY <1>c, <2>1, <2>2
  <1>2. CASE Advances(a)
    <2>1. th'[a].fd = fd /\ th'[a].op = th[a].op
      BY <1>0, <1>2 DEF Advances, SameCall
    <2>2. CASE th'[a].pc \in {"blocked", "try"}
      BY <1>c, <2>1, <2>2
    <2>3. CASE th'[a].pc = "add" /\ Arm(a)
      <3>1. th[a].op = "connect" => Link(fd)' = "connecting"
        <4>1. file[fd] \in File /\ Started(a)
          BY <1>0, <1>t, <2>3 DEF Arm, WouldBlock
        <4>2. th[a].op = "connect" =>
                file'[fd] = [[file[fd] EXCEPT !.link = "connecting"] EXCEPT !.ready = {}]
          BY <1>0, <1>t, <4>1 DEF Started
        <4>3. th[a].op = "connect" => file'[fd] \in File /\ file'[fd].link = "connecting"
          BY <4>1, <4>2 DEF File
        <4> QED BY <4>3, NoneAssumption DEF Link
      <3> QED BY <1>c, <2>1, <2>3, <3>1
    <2>4. CASE th[a].pc = "add" /\ th'[a].pc = "wait"
      <3>1. th[a].op = "connect" => Link(fd)' # "new" \/ Excused(fd)'
        BY <1>0, <1>i, <2>4, LinkKept DEF Connecting
      <3> QED BY <1>c, <2>1, <2>4, <3>1
    <2>5. CASE th[a].pc = "add" /\ th'[a].pc = "check" /\ th[a].op = "connect" /\ ~Registers(th[a].fd)
      <3>1. Decided(fd) \/ Excused(fd)
        BY <1>0, <2>5 DEF Registers, Decided, Excused, Link
      <3>2. Goal
        BY <1>0, <1>i, <2>1, <2>5, <3>1, LinkKept DEF Connecting
      <3> QED BY <1>c, <2>1, <3>2
    <2>6. CASE th[a].pc = "woken" /\ th'[a].pc = "check" /\ th[a].op = "connect" /\ ~th[a].cancelled
      <3>1. Goal
        BY <1>0, <1>i, <2>1, <2>6, LinkKept DEF Connecting
      <3> QED BY <1>c, <2>1, <3>1
    <2> QED BY <1>2, <2>2, <2>3, <2>4, <2>5, <2>6 DEF Advances
  <1>3. CASE Woken(a)
    <2>1. /\ th'[a].fd = fd /\ th'[a].op = th[a].op /\ th[a].pc = "wait" /\ th'[a].pc = "woken"
          /\ th'[a].cancelled = th[a].cancelled
      BY <1>0, <1>3 DEF Woken, SameCall
    <2>2. CASE th[a].op # "connect"
      BY <1>c, <2>1, <2>2
    <2>3. CASE th[a].op = "connect"
      <3>1. Link(fd)' # "new" \/ Excused(fd)'
        BY <1>0, <1>i, <2>1, <2>3, LinkKept DEF Connecting
      <3>2. CASE Ready(fd, "WRITE")
        <4>1. Link(fd) # "connecting" /\ Link(fd) \in {"new", "connecting", "up", "refused"}
          BY <1>i, <1>t, <3>2 DEF Ready, Silent, Link, File
        <4>2. Decided(fd) \/ Excused(fd)
          BY <1>0, <1>i, <2>1, <2>3, <4>1 DEF Connecting, Decided
        <4>3. Decided(fd)' \/ Excused(fd)'
          BY <1>0, <1>i, <2>1, <2>3, <4>2, LinkKept
        <4> QED BY <1>c, <2>1, <3>1, <4>3
      <3>3. CASE \E s \in strikes : s.call = th[a].call
        <4>1. th'[a].cancelled
          BY <1>i, <2>1, <3>3 DEF Numbered, Calling
        <4> QED BY <1>c, <2>1, <3>1, <4>1
      <3>4. CASE seen'.stray
        BY <1>c, <2>1, <3>1, <3>4 DEF Excused
      <3> QED BY <1>0, <1>3, <2>3, <3>2, <3>3, <3>4 DEF Woken, EventOf
    <2> QED BY <2>2, <2>3
  <1>4. CASE Begins(a) \/ Leaves(a) \/ Tells(a)
    BY <1>4 DEF Begins, Leaves, Tells, Calling, Connecting, Looks
  <1> QED BY <1>1, <1>2, <1>3, <1>4, Movements DEF Moves

LEMMA TruthNext == TypeInv /\ Waiting /\ Locals /\ Truth /\ [Next]_vars => Truth'
  BY OneUserNext, NumberedNext, SilentNext, ConnectingNext DEF Truth

LEMMA ConnectTruthNext ==
  TypeInv /\ Waiting /\ Locals /\ Truth /\ ConnectTruth /\ [Next]_vars => ConnectTruth'
  <1> SUFFICES ASSUME TypeInv, Waiting, Locals, Truth, ConnectTruth, [Next]_vars,
                      NEW a \in Hooked, th'[a].res = "early"
               PROVE  ~works' \/ seen'.stray \/ th'[a].fd \in seen'.again \cup lost'
    BY DEF ConnectTruth
  <1>0. a \in Actors /\ th[a].fd \in Fds
    BY DEF Actors, TypeInv, TypeOK, Thread
  <1>1. CASE SameCall(a)
    BY <1>1, Grows DEF SameCall, ConnectTruth
  <1>2. CASE Tells(a)
    <2>1. At(a, "check") /\ ~Decided(th[a].fd) /\ th'[a].fd = th[a].fd
      BY <1>2 DEF Tells, Decided
    <2>2. Excused(th[a].fd)
      BY <1>0, <2>1 DEF Truth, Looks, At
    <2> QED BY <2>1, <2>2, Grows DEF Excused
  <1>3. CASE Begins(a) \/ Leaves(a)
    BY <1>3 DEF Begins, Leaves
  <1> QED BY <1>0, <1>1, <1>2, <1>3, Movements DEF Moves, Keeps, Advances, Woken

\* connect() returns 0 on a connection still in progress only because addEvent() failed,
\* or another call's late callback, or close(), woke it, or its number was closed.
THEOREM ConnectTells == Spec => []ConnectTruth
  <1> DEFINE IInv == TypeInv /\ Waiting /\ Locals /\ Truth /\ ConnectTruth
  <1>1. Init => IInv
    BY TypeInvInit, WaitingInit, LocalsInit, TruthInit
  <1>2. IInv /\ [Next]_vars => IInv'
    BY TypeInvNext, WaitingNext, LocalsNext, TruthNext, ConnectTruthNext
  <1> QED BY <1>1, <1>2, PTL DEF Spec
=============================================================================
