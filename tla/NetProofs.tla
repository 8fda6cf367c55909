-------------------------------- MODULE NetProofs --------------------------------
(***************************************************************************)
(* Proofs about Socket.tla and TcpServer.tla: what a Socket's number is of *)
(* and what it is named, whatever the objects, the fibers and the numbers  *)
(* are, and the types of both.                                             *)
(***************************************************************************)
EXTENDS MCNet, TLAPS

USE SocketAssumption

-----------------------------------------------------------------------------
(***************************************************************************)
(* The types.                                                              *)
(***************************************************************************)

Place == {"idle", "connect", "io", "accept", "close", "closed"}
Call == [pc : Place, on : Objects, fd : Numbers \cup {Closed}]
Past == [foreign : SUBSET Objects, reached : SUBSET Objects,
         shared : SUBSET Objects, kept : SUBSET Objects]

\* The names that are written down are names.
LEMMA SomeNames ==
  /\ NoName \in Name /\ Port \in Name /\ AnyPort \in Name /\ Alien \in Name
  /\ ops \in 0..MaxOps => Fresh \in Name
BY DEF NoName, Port, AnyPort, Alien, Name, Fresh

\* What happens to the facts of the past.
LEMMA PastTyped ==
  ASSUME SocketTypeOK
  PROVE  /\ past \in Past
         /\ \A o \in Objects : Overlaps(o) \in Past
         /\ \A p \in Past, o \in Objects : Forget(p, o) \in Past
         /\ \A p \in Past, o \in Objects, n \in Numbers \cup {Closed} : Reach(p, o, n) \in Past
<1>1. past \in Past
  BY DEF SocketTypeOK, Past
<1>2. ASSUME NEW o \in Objects PROVE Overlaps(o) \in Past
  <2>1. {x \in {o} : Closers(x) # {}} \subseteq Objects
    OBVIOUS
  <2>. QED
    BY <1>1, <2>1 DEF Overlaps, Past
<1>3. ASSUME NEW p \in Past, NEW o \in Objects PROVE Forget(p, o) \in Past
  BY DEF Forget, Past
<1>4. ASSUME NEW p \in Past, NEW o \in Objects, NEW n \in Numbers \cup {Closed}
      PROVE  Reach(p, o, n) \in Past
  <2>1. CASE n # Closed /\ open[n] # NoObject
    <3>1. open[n].owner \in Objects
      BY <2>1 DEF SocketTypeOK, File
    <3>. QED
      BY <3>1 DEF Reach, Past
  <2>2. CASE ~(n # Closed /\ open[n] # NoObject)
    BY <2>2 DEF Reach
  <2>. QED
    BY <2>1, <2>2
<1>. QED
  BY <1>1, <1>2, <1>3, <1>4

\* A new number, if there is one, and the file behind it.
LEMMA OpenedTyped ==
  ASSUME SocketTypeOK, NEW o \in Objects, sock[o] # NoObject, NEW n \in Opened(o)
  PROVE  /\ sock[o] \in Object
         /\ n \in Numbers \cup {Closed}
         /\ n # Closed /\ n # sock[o].fd => open[n] = NoObject
         /\ sock[o].fd # Closed => n = sock[o].fd
         /\ NewFile(o) \in File
         /\ WithNew(o, n) \in [Numbers -> {NoObject} \cup File]
<1>1. sock[o] \in Object
  BY DEF SocketTypeOK
<1>2. n \in Numbers \cup {Closed} /\ (n # Closed /\ n # sock[o].fd => open[n] = NoObject)
      /\ (sock[o].fd # Closed => n = sock[o].fd)
  BY <1>1 DEF Opened, Object
<1>3. NewFile(o) \in File
  BY SomeNames DEF NewFile, File
<1>4. WithNew(o, n) \in [Numbers -> {NoObject} \cup File]
  BY <1>3 DEF WithNew, SocketTypeOK
<1>. QED
  BY <1>1, <1>2, <1>3, <1>4

\* Who is in a call has an object that is there, and a number where the call needs one.
Using(f) == call[f].pc # "idle"
Present ==
  \A f \in Fibers : Using(f) =>
    /\ sock[call[f].on] # NoObject
    /\ call[f].pc \in {"connect", "accept"} => call[f].fd # Closed

LEMMA SocketTypeInit == SocketInit => SocketTypeOK /\ Present
<1>. SUFFICES ASSUME SocketInit PROVE SocketTypeOK /\ Present
  OBVIOUS
<1>1. (CHOOSE o \in Objects : TRUE) \in Objects
  OBVIOUS
<1>. QED
  BY <1>1 DEF SocketInit, SocketTypeOK, Present, Using

LEMMA SocketTypeNext == SocketTypeOK /\ Present /\ [SocketNext]_socketVars => SocketTypeOK'
<1>. SUFFICES ASSUME SocketTypeOK, Present, [SocketNext]_socketVars PROVE SocketTypeOK'
  OBVIOUS
<1>. DEFINE Goal == SocketTypeOK'
<1>0. /\ sock \in [Objects -> {NoObject} \cup Object]
      /\ open \in [Numbers -> {NoObject} \cup File]
      /\ call \in [Fibers -> Call]
      /\ ops \in 0..MaxOps
      /\ past \in Past
  BY DEF SocketTypeOK, Call, Place, Past
<1>g. ASSUME sock' \in [Objects -> {NoObject} \cup Object],
             open' \in [Numbers -> {NoObject} \cup File],
             call' \in [Fibers -> Call], ops' \in 0..MaxOps, past' \in Past
      PROVE  Goal
  BY <1>g DEF SocketTypeOK, Call, Place, Past
<1>. HIDE DEF Goal
<1>c. ASSUME NEW f \in Fibers, NEW p \in Place PROVE [call EXCEPT ![f].pc = p] \in [Fibers -> Call]
  BY <1>0 DEF Call
<1>e. ASSUME NEW f \in Fibers, Exit(f) PROVE call' \in [Fibers -> Call]
  BY <1>c, <1>e DEF Exit, Place
<1>n. ASSUME NEW f \in Fibers, NEW o \in Objects, sock[o] # NoObject, NEW p \in Place, Enter(f, o, p)
      PROVE  call' \in [Fibers -> Call]
  BY <1>0, <1>n DEF Enter, Call, Object
<1>p. ASSUME NEW f \in Fibers, call[f].pc # "idle"
      PROVE  /\ call[f].on \in Objects /\ sock[call[f].on] \in Object
             /\ sock[call[f].on].fd \in Numbers \cup {Closed}
             /\ call[f].fd \in Numbers \cup {Closed}
             /\ call[f].pc \in {"connect", "accept"} => call[f].fd \in Numbers
  BY <1>0, <1>p DEF Present, Using, Call, Object
<1>o. ASSUME NEW f \in Fibers, NEW o \in Objects, Op(f, o)
      PROVE  ops' \in 0..MaxOps /\ sock[o] # NoObject /\ sock[o] \in Object
             /\ sock[o].fd \in Numbers \cup {Closed}
  BY <1>0, <1>o DEF Op, Object
<1>1. ASSUME NEW f \in Fibers, NEW o \in Objects, NEW udp \in BOOLEAN, Create(f, o, udp) PROVE Goal
  <2>1. PICK n \in Numbers \cup {Closed} :
          /\ sock' = [sock EXCEPT ![o] = [fd |-> n, connected |-> udp,
                                          local |-> NoName, remote |-> NoName]]
          /\ open' = IF n = Closed THEN open ELSE [open EXCEPT ![n] = NewFile(o)]
    BY <1>1 DEF Create
  <2>2. sock' \in [Objects -> {NoObject} \cup Object]
    BY <1>0, <2>1, SomeNames DEF Object
  <2>3. open' \in [Numbers -> {NoObject} \cup File]
    BY <1>0, <2>1, SomeNames DEF NewFile, File
  <2>4. call' \in [Fibers -> Call] /\ ops' \in 0..MaxOps /\ past' \in Past
    BY <1>0, <1>1, PastTyped DEF Create
  <2>. QED
    BY <1>g, <2>2, <2>3, <2>4
<1>2. ASSUME NEW f \in Fibers, NEW o \in Objects, NEW name \in {Port, AnyPort}, Bind(f, o, name)
      PROVE  Goal
  <2>1. ops' \in 0..MaxOps /\ sock[o] # NoObject /\ sock[o] \in Object
        /\ sock[o].fd \in Numbers \cup {Closed}
    BY <1>2, <1>o DEF Bind
  <2>2. PICK n \in Opened(o), bound \in BOOLEAN :
          /\ sock' = [sock EXCEPT ![o].local = name, ![o].fd = n]
          /\ bound => n # Closed /\ WithNew(o, n)[n] # NoObject
          /\ open' = IF bound
                     THEN [WithNew(o, n) EXCEPT ![n].name = IF name = AnyPort THEN Fresh ELSE name]
                     ELSE WithNew(o, n)
          /\ past' = [Reach(Overlaps(o), o, sock[o].fd) EXCEPT
                       !.kept = IF bound THEN @ \ {o} ELSE @ \cup {o}]
    BY <1>2 DEF Bind
  <2>3. n \in Numbers \cup {Closed} /\ WithNew(o, n) \in [Numbers -> {NoObject} \cup File]
    BY <2>1, OpenedTyped
  <2>4. sock' \in [Objects -> {NoObject} \cup Object]
    BY <1>0, <2>1, <2>2, <2>3, SomeNames DEF Object
  <2>5. (IF name = AnyPort THEN Fresh ELSE name) \in Name
    BY <1>0, SomeNames
  <2>6. open' \in [Numbers -> {NoObject} \cup File]
    BY <2>2, <2>3, <2>5 DEF File
  <2>7. Reach(Overlaps(o), o, sock[o].fd) \in Past
    BY <2>1, PastTyped
  <2>8. past' \in Past
    BY <2>2, <2>7 DEF Past
  <2>. QED
    BY <1>0, <1>2, <1>g, <2>1, <2>4, <2>6, <2>8 DEF Bind
<1>3. ASSUME NEW f \in Fibers, NEW o \in Objects, Listen(f, o) PROVE Goal
  <2>1. ops' \in 0..MaxOps /\ sock[o].fd \in Numbers /\ open[sock[o].fd] \in File
    BY <1>0, <1>3, <1>o DEF Listen
  <2>2. open' \in [Numbers -> {NoObject} \cup File]
    BY <1>0, <1>3, <2>1, SomeNames DEF Listen, File
  <2>3. past' \in Past
    BY <1>3, <2>1, PastTyped DEF Listen
  <2>. QED
    BY <1>0, <1>3, <1>g, <2>1, <2>2, <2>3 DEF Listen
<1>4. ASSUME NEW f \in Fibers, NEW o \in Objects, Op(f, o), NEW peer \in Name, NEW local \in Name,
             ConnectTo(f, o, peer, local), past' \in Past
      PROVE  Goal
  <2>1. ops' \in 0..MaxOps /\ sock[o] # NoObject /\ sock[o] \in Object
    BY <1>4, <1>o
  <2>2. PICK n \in Opened(o) :
          /\ sock' = [sock EXCEPT ![o].remote = peer, ![o].local = local, ![o].fd = n]
          /\ open' = WithNew(o, n)
          /\ call' = IF n = Closed \/ peer = Alien THEN call
                     ELSE [call EXCEPT ![f] = [pc |-> "connect", on |-> o, fd |-> n]]
    BY <1>4 DEF ConnectTo
  <2>3. n \in Numbers \cup {Closed} /\ open' \in [Numbers -> {NoObject} \cup File]
    BY <2>1, <2>2, OpenedTyped
  <2>4. sock' \in [Objects -> {NoObject} \cup Object]
    BY <1>0, <1>4, <2>1, <2>2, <2>3 DEF Object
  <2>5. call' \in [Fibers -> Call]
    BY <1>0, <2>2, <2>3 DEF Call, Place
  <2>. QED
    BY <1>4, <1>g, <2>1, <2>3, <2>4, <2>5
<1>5. ASSUME NEW f \in Fibers, NEW o \in Objects, NEW peer \in {Port, Alien}, Connect(f, o, peer)
      PROVE  Goal
  <2>1. sock[o].local \in Name /\ Op(f, o) /\ ConnectTo(f, o, peer, sock[o].local)
    BY <1>5, <1>o DEF Connect, Object
  <2>2. past' = [Overlaps(o) EXCEPT !.kept = @ \cup {x \in {o} : sock[x].local # NoName
                                                                 /\ sock[x].fd = Closed}]
    BY <1>5 DEF Connect
  <2>3. past' \in Past
    BY <2>2, PastTyped DEF Past
  <2>. QED
    BY <1>4, <2>1, <2>3, SomeNames
<1>6. ASSUME NEW f \in Fibers, NEW o \in Objects, Reconnect(f, o) PROVE Goal
  <2>1. sock[o].remote \in Name /\ Op(f, o) /\ ConnectTo(f, o, sock[o].remote, NoName)
    BY <1>6, <1>o DEF Reconnect, Object
  <2>2. past' = [Overlaps(o) EXCEPT !.kept = @ \ {o}]
    BY <1>6 DEF Reconnect
  <2>3. past' \in Past
    BY <2>2, PastTyped DEF Past
  <2>. QED
    BY <1>4, <2>1, <2>3, SomeNames
<1>7. ASSUME NEW f \in Fibers, NEW o \in Objects, Accept(f, o) \/ Transfer(f, o) PROVE Goal
  <2>1. ops' \in 0..MaxOps /\ sock[o] # NoObject
    BY <1>7, <1>o DEF Accept, Transfer
  <2>2. call' \in [Fibers -> Call]
    BY <1>7, <1>n, <2>1 DEF Accept, Transfer, Place
  <2>3. past' \in Past
    BY <1>7, PastTyped DEF Accept, Transfer
  <2>. QED
    BY <1>0, <1>7, <1>g, <2>1, <2>2, <2>3 DEF Accept, Transfer
<1>8. ASSUME NEW f \in Fibers, NEW o \in Objects, Close(f, o) PROVE Goal
  <2>1. ops' \in 0..MaxOps /\ sock[o] # NoObject /\ sock[o] \in Object
    BY <1>8, <1>o DEF Close
  <2>2. call' \in [Fibers -> Call]
    BY <1>0, <1>8, <1>n, <2>1 DEF Close, Place
  <2>3. sock' \in [Objects -> {NoObject} \cup Object]
    BY <1>0, <1>8, <2>1 DEF Close, Object
  <2>4. past' \in Past
    BY <1>0, <1>8 DEF Close, Past
  <2>. QED
    BY <1>0, <1>8, <1>g, <2>1, <2>2, <2>3, <2>4 DEF Close
<1>9. ASSUME NEW f \in Fibers, NEW o \in Objects, Destroy(f, o) PROVE Goal
  <2>1. ops' \in 0..MaxOps /\ sock[o].fd \in Numbers \cup {Closed}
    BY <1>9, <1>o DEF Destroy
  <2>2. past' \in Past
    BY <1>9, <2>1, PastTyped DEF Destroy
  <2>3. sock' \in [Objects -> {NoObject} \cup Object] /\ open' \in [Numbers -> {NoObject} \cup File]
    BY <1>0, <1>9 DEF Destroy
  <2>. QED
    BY <1>0, <1>9, <1>g, <2>1, <2>2, <2>3 DEF Destroy
<1>10. ASSUME NEW f \in Fibers, Connected(f) PROVE Goal
  <2>. DEFINE o == call[f].on
              n == call[f].fd
              made == [open EXCEPT ![n].peer = Port, ![n].name = IF @ = NoName THEN Fresh ELSE @]
  <2>1. /\ o \in Objects /\ sock[o] \in Object /\ sock[o].fd \in Numbers \cup {Closed}
        /\ n \in Numbers
    BY <1>10, <1>p DEF Connected, In
  <2>2. made \in [Numbers -> {NoObject} \cup File]
    <3>1. open[n] # NoObject
      BY <1>10 DEF Connected
    <3>2. open[n] \in File
      BY <1>0, <2>1, <3>1
    <3>3. [open[n] EXCEPT !.peer = Port, !.name = IF @ = NoName THEN Fresh ELSE @] \in File
      BY <1>0, <3>2, SomeNames DEF File
    <3>. QED
      BY <1>0, <2>1, <3>2, <3>3
  <2>3. open' = made /\ ops' = ops /\ Exit(f)
        /\ sock' = [sock EXCEPT ![o].connected = TRUE,
                                ![o].local = Ask(@, sock[o].fd, made, "name")]
        /\ past' = Reach(Reach(past, o, n), o, sock[o].fd)
    BY <1>10 DEF Connected
  <2>. HIDE DEF made
  <2>4. Ask(sock[o].local, sock[o].fd, made, "name") \in Name
    BY <2>1, <2>2 DEF Ask, Object, File
  <2>5. sock' \in [Objects -> {NoObject} \cup Object]
    BY <1>0, <2>1, <2>3, <2>4 DEF Object
  <2>. QED
    BY <1>0, <1>g, <1>e, <2>1, <2>2, <2>3, <2>5, PastTyped
<1>11. ASSUME NEW f \in Fibers, ConnectFails(f) PROVE Goal
  <2>. DEFINE o == call[f].on
  <2>1. o \in Objects /\ sock[o] \in Object
    BY <1>11, <1>p DEF ConnectFails, In
  <2>2. sock' = [sock EXCEPT ![o].connected = FALSE]
    BY <1>11 DEF ConnectFails
  <2>3. sock' \in [Objects -> {NoObject} \cup Object]
    BY <1>0, <2>1, <2>2 DEF Object
  <2>4. call' \in [Fibers -> Call]
    BY <1>11, <1>c DEF ConnectFails, Place
  <2>5. past' = [past EXCEPT !.shared = @ \cup {x \in {o} : Users(x) # {f}}]
    BY <1>11 DEF ConnectFails
  <2>6. past' \in Past
    BY <1>0, <2>1, <2>5 DEF Past
  <2>. QED
    BY <1>0, <1>11, <1>g, <2>3, <2>4, <2>6 DEF ConnectFails
<1>12. ASSUME NEW f \in Fibers, NEW c \in Objects, NEW m \in Numbers, Accepted(f, c, m) PROVE Goal
  <2>. DEFINE o == call[f].on
              n == call[f].fd
  <2>1. o \in Objects /\ n \in Numbers /\ open[n] \in File
    BY <1>0, <1>12, <1>p DEF Accepted, In
  <2>2. open[n].name \in Name
    BY <2>1 DEF File
  <2>3. open' = [open EXCEPT ![m] = [owner |-> c, name |-> open[n].name,
                                     peer |-> Port, listens |-> FALSE]]
        /\ sock' = [sock EXCEPT ![c] = [fd |-> m, connected |-> TRUE,
                                        local |-> open[n].name, remote |-> Port]]
        /\ past' = Reach(Forget(past, c), o, n) /\ ops' = ops /\ Exit(f)
    BY <1>12 DEF Accepted
  <2>4. open' \in [Numbers -> {NoObject} \cup File]
    BY <1>0, <2>2, <2>3, SomeNames DEF File
  <2>5. sock' \in [Objects -> {NoObject} \cup Object]
    BY <1>0, <2>2, <2>3, SomeNames DEF Object
  <2>6. past' \in Past
    BY <1>0, <2>1, <2>3, PastTyped
  <2>. QED
    BY <1>0, <1>g, <1>e, <2>3, <2>4, <2>5, <2>6
<1>13. ASSUME NEW f \in Fibers, Ends(f) PROVE Goal
  <2>1. call[f].on \in Objects /\ call[f].fd \in Numbers \cup {Closed}
    BY <1>13, <1>p DEF Ends, In
  <2>2. past' \in Past
    BY <1>0, <1>13, <2>1, PastTyped DEF Ends
  <2>. QED
    BY <1>0, <1>13, <1>g, <1>e, <2>2 DEF Ends
<1>14. ASSUME NEW f \in Fibers, CloseCall(f) PROVE Goal
  <2>. DEFINE o == call[f].on
              n == sock[o].fd
  <2>1. o \in Objects /\ n \in Numbers \cup {Closed}
    BY <1>14, <1>p DEF CloseCall, In
  <2>2. open' = IF n = Closed THEN open ELSE [open EXCEPT ![n] = NoObject]
    BY <1>14 DEF CloseCall
  <2>3. open' \in [Numbers -> {NoObject} \cup File]
    BY <1>0, <2>2
  <2>4. past' \in Past
    BY <1>0, <1>14, <2>1, PastTyped DEF CloseCall
  <2>5. call' \in [Fibers -> Call]
    BY <1>14, <1>c DEF CloseCall, Place
  <2>. QED
    BY <1>0, <1>14, <1>g, <2>3, <2>4, <2>5 DEF CloseCall
<1>15. ASSUME NEW f \in Fibers, CloseEnds(f) PROVE Goal
  <2>1. call[f].on \in Objects /\ sock[call[f].on] \in Object
    BY <1>15, <1>p DEF CloseEnds, In
  <2>2. sock' \in [Objects -> {NoObject} \cup Object]
    BY <1>0, <1>15, <2>1 DEF CloseEnds, Object
  <2>. QED
    BY <1>0, <1>15, <1>g, <1>e, <2>2 DEF CloseEnds
<1>16. ASSUME UNCHANGED socketVars PROVE Goal
  BY <1>0, <1>16, <1>g DEF socketVars
<1>17. SocketNext => Goal
  BY <1>1, <1>2, <1>3, <1>5, <1>6, <1>7, <1>8, <1>9, <1>10, <1>11, <1>12, <1>13, <1>14, <1>15
     DEF SocketNext
<1>18. Goal
  BY <1>16, <1>17
<1>. QED
  BY <1>18 DEF Goal

-----------------------------------------------------------------------------
(***************************************************************************)
(* Who is in a call on an object that nobody closed during a call.         *)
(***************************************************************************)

\* A connect() has the peer's name.
Asking == \A f \in Fibers : In(f, "connect") => sock[call[f].on].remote # NoName

\* A call on an object that was never closed during a call has the number that the
\* object still has, and who closes it is alone.
Closing(f) == call[f].pc \in {"close", "closed"}
Alone ==
  \A f \in Fibers : Using(f) /\ call[f].on \notin past.shared =>
    /\ call[f].fd \in {Closed, sock[call[f].on].fd}
    /\ Closing(f) => \A g \in Fibers : Using(g) /\ call[g].on = call[f].on => g = f

CallInv == Present /\ Asking /\ Alone

\* Who is in a call on an object, in these terms.
LEMMA UsersAre ==
  \A o \in Objects :
    /\ \A g \in Fibers : g \in Users(o) <=> Using(g) /\ call[g].on = o
    /\ \A g \in Fibers : g \in Closers(o) <=> Closing(g) /\ call[g].on = o
    /\ Users(o) \subseteq Fibers /\ Closers(o) \subseteq Fibers
BY DEF Users, Closers, Using, Closing

\* What the operations add to the facts of the past.
LEMMA OverlapsIs ==
  ASSUME past \in Past, NEW o \in Objects
  PROVE  /\ Overlaps(o) \in Past
         /\ Overlaps(o).foreign = past.foreign /\ Overlaps(o).reached = past.reached
         /\ Overlaps(o).kept = past.kept
         /\ \A x \in Objects : x \notin Overlaps(o).shared =>
              x \notin past.shared
              /\ (x = o => \A g \in Fibers : Closing(g) => call[g].on # o)
<1>. DEFINE added == {x \in {o} : Closers(x) # {}}
<1>1. added \subseteq Objects
  OBVIOUS
<1>2. Overlaps(o) = [past EXCEPT !.shared = @ \cup added]
  BY DEF Overlaps
<1>3. o \notin added => \A g \in Fibers : Closing(g) => call[g].on # o
  BY UsersAre
<1>. HIDE DEF added
<1>. QED
  BY <1>1, <1>2, <1>3 DEF Past

LEMMA ReachIs ==
  ASSUME SocketTypeOK, NEW p \in Past, NEW o \in Objects, NEW n \in Numbers \cup {Closed}
  PROVE  /\ Reach(p, o, n) \in Past
         /\ Reach(p, o, n).shared = p.shared /\ Reach(p, o, n).kept = p.kept
         /\ p.reached \subseteq Reach(p, o, n).reached
         /\ n # Closed /\ open[n] # NoObject /\ open[n].owner # o =>
              open[n].owner \in Reach(p, o, n).reached
         /\ Reach(p, o, n).foreign \subseteq p.foreign \cup {o}
         /\ n = Closed \/ (open[n] # NoObject /\ open[n].owner = o) => Reach(p, o, n) = p
<1>1. Reach(p, o, n) \in Past
  BY PastTyped
<1>2. CASE n # Closed /\ open[n] # NoObject /\ open[n].owner # o
  <2>1. open[n].owner \in Objects
    BY <1>2 DEF SocketTypeOK, File
  <2>2. Reach(p, o, n) = [p EXCEPT !.foreign = @ \cup {o}, !.reached = @ \cup {open[n].owner}]
    BY <1>2 DEF Reach
  <2>. QED
    BY <1>1, <1>2, <2>1, <2>2 DEF Past
<1>3. CASE ~(n # Closed /\ open[n] # NoObject /\ open[n].owner # o)
  BY <1>1, <1>3 DEF Reach
<1>. QED
  BY <1>2, <1>3

LEMMA ForgetIs ==
  \A p \in Past, o \in Objects :
    /\ Forget(p, o) \in Past
    /\ Forget(p, o).foreign = p.foreign \ {o} /\ Forget(p, o).reached = p.reached \ {o}
    /\ Forget(p, o).shared = p.shared \ {o} /\ Forget(p, o).kept = p.kept \ {o}
BY DEF Forget, Past

LEMMA CallInvNext == SocketTypeOK /\ CallInv /\ [SocketNext]_socketVars => CallInv'
<1>. SUFFICES ASSUME SocketTypeOK, CallInv, [SocketNext]_socketVars PROVE CallInv'
  OBVIOUS
<1>. DEFINE Goal == CallInv'
<1>0. /\ sock \in [Objects -> {NoObject} \cup Object]
      /\ open \in [Numbers -> {NoObject} \cup File]
      /\ call \in [Fibers -> Call]
      /\ past \in Past
  BY DEF SocketTypeOK, Call, Place, Past
<1>1. SocketTypeOK'
  BY SocketTypeNext DEF CallInv
<1>2. /\ sock' \in [Objects -> {NoObject} \cup Object]
      /\ call' \in [Fibers -> Call]
      /\ past' \in Past
  BY <1>1 DEF SocketTypeOK, Call, Place, Past
<1>3. \A f \in Fibers : Using(f) => call[f].on \in Objects /\ sock[call[f].on] \in Object
                                    /\ sock[call[f].on] # NoObject
  BY <1>0 DEF CallInv, Present, Call
\* A call on an object that is there, by a fiber that was in none: others keep their places.
<1>4. ASSUME NEW f \in Fibers, ~Using(f), NEW o \in Objects, sock[o] # NoObject,
             NEW r \in Object, sock' = [sock EXCEPT ![o] = r],
             sock[o].fd # Closed => r.fd = sock[o].fd,
             sock[o].remote # NoName => r.remote # NoName,
             \/ call' = call
             \/ \E p \in {"connect", "io", "accept"} :
                  /\ call' = [call EXCEPT ![f] = [pc |-> p, on |-> o, fd |-> r.fd]]
                  /\ p \in {"connect", "accept"} => r.fd # Closed
                  /\ p = "connect" => r.remote # NoName,
             \A x \in Objects : x \notin past'.shared =>
               x \notin past.shared /\ (x = o => \A g \in Fibers : Closing(g) => call[g].on # o)
      PROVE  Goal
  <2>1. \A x \in Objects : x # o => sock'[x] = sock[x]
    BY <1>0, <1>4
  <2>2. sock'[o] = r /\ r # NoObject
    BY <1>0, <1>4, NoObjectAssumption
  <2>3. \A g \in Fibers : g # f => call'[g] = call[g]
    BY <1>0, <1>4
  <2>4. \/ call'[f] = call[f]
        \/ \E p \in {"connect", "io", "accept"} :
             /\ call'[f] = [pc |-> p, on |-> o, fd |-> r.fd]
             /\ p \in {"connect", "accept"} => r.fd # Closed
             /\ p = "connect" => r.remote # NoName
    BY <1>0, <1>4
  <2>5. Present'
    <3>. SUFFICES ASSUME NEW h \in Fibers, Using(h)'
                  PROVE  /\ sock'[call'[h].on] # NoObject
                         /\ call'[h].pc \in {"connect", "accept"} => call'[h].fd # Closed
      BY DEF Present
    <3>1. CASE h = f
      BY <1>4, <2>2, <2>4, <3>1 DEF Using
    <3>2. CASE h # f
      BY <1>3, <2>1, <2>2, <2>3, <3>2 DEF Using, CallInv, Present
    <3>. QED
      BY <3>1, <3>2
  <2>6. Asking'
    <3>. SUFFICES ASSUME NEW h \in Fibers, call'[h].pc = "connect"
                  PROVE  sock'[call'[h].on].remote # NoName
      BY DEF Asking, In
    <3>1. CASE h = f
      BY <1>4, <2>2, <2>4, <3>1 DEF Using
    <3>2. CASE h # f
      <4>1. call'[h] = call[h] /\ call[h].pc = "connect" /\ Using(h)
        BY <2>3, <3>2 DEF Using
      <4>2. sock[call[h].on].remote # NoName
        BY <4>1 DEF CallInv, Asking, In
      <4>. QED
        BY <1>3, <1>4, <2>1, <2>2, <4>1, <4>2
    <3>. QED
      BY <3>1, <3>2
  <2>7. Alone'
    <3>. SUFFICES ASSUME NEW h \in Fibers, Using(h)', call'[h].on \notin past'.shared
                  PROVE  /\ call'[h].fd \in {Closed, sock'[call'[h].on].fd}
                         /\ Closing(h)' => \A g \in Fibers : Using(g)' /\ call'[g].on = call'[h].on => g = h
      BY DEF Alone
    <3>1. CASE h = f
      <4>1. \E p \in {"connect", "io", "accept"} : call'[f] = [pc |-> p, on |-> o, fd |-> r.fd]
        BY <1>4, <2>4, <3>1 DEF Using
      <4>. QED
        BY <2>2, <3>1, <4>1 DEF Closing
    <3>2. CASE h # f
      <4>1. call'[h] = call[h] /\ Using(h) /\ call[h].on \in Objects
        BY <1>3, <2>3, <3>2 DEF Using
      <4>2. call[h].on \notin past.shared /\ (call[h].on = o => ~Closing(h))
        BY <1>4, <4>1
      <4>3. call[h].fd \in {Closed, sock[call[h].on].fd}
        BY <4>1, <4>2 DEF CallInv, Alone
      <4>4. call[h].fd \in {Closed, sock'[call[h].on].fd}
        BY <1>4, <2>1, <2>2, <4>1, <4>3
      <4>5. ASSUME Closing(h)', NEW g \in Fibers, Using(g)', call'[g].on = call'[h].on PROVE g = h
        <5>1. Closing(h) /\ call[h].on # o
          BY <4>1, <4>2, <4>5 DEF Closing
        <5>2. g # f
          BY <1>4, <2>4, <4>1, <4>5, <5>1 DEF Using
        <5>3. Using(g) /\ call[g].on = call[h].on
          BY <2>3, <4>1, <4>5, <5>2 DEF Using
        <5>. QED
          BY <4>1, <4>2, <5>1, <5>3 DEF CallInv, Alone
      <4>. QED
        BY <4>1, <4>4, <4>5
    <3>. QED
      BY <3>1, <3>2
  <2>. QED
    BY <2>5, <2>6, <2>7 DEF CallInv
<1>. HIDE DEF Goal
<1>o. ASSUME NEW f \in Fibers, NEW o \in Objects, Op(f, o)
      PROVE  ~Using(f) /\ sock[o] # NoObject /\ sock[o] \in Object
             /\ sock[o].fd \in Numbers \cup {Closed} /\ sock = [sock EXCEPT ![o] = sock[o]]
  BY <1>0, <1>o DEF Op, Using, In, Object
\* Who ends a call, and the objects keep what is asked of them.
<1>e. ASSUME NEW f \in Fibers, Using(f), Exit(f),
             \A x \in Objects : sock[x] # NoObject =>
               sock'[x] # NoObject /\ (sock[x].remote # NoName => sock'[x].remote # NoName),
             \A h \in Fibers : h # f /\ Using(h) /\ call[h].on \notin past'.shared =>
               call[h].on \notin past.shared /\ sock'[call[h].on].fd = sock[call[h].on].fd
      PROVE  Goal
  <2>1. \A h \in Fibers : Using(h)' => h # f /\ Using(h) /\ call'[h] = call[h]
    BY <1>0, <1>e DEF Exit, Using, Call
  <2>2. \A h \in Fibers : Using(h)' => call[h].on \in Objects
    BY <2>1, <1>3
  <2>3. Present'
    BY <1>e, <2>1, <2>2 DEF CallInv, Present
  <2>4. Asking'
    <3>. SUFFICES ASSUME NEW h \in Fibers, call'[h].pc = "connect"
                  PROVE  sock'[call'[h].on].remote # NoName
      BY DEF Asking, In
    <3>1. Using(h) /\ call'[h] = call[h] /\ call[h].on \in Objects
      BY <2>1, <2>2 DEF Using
    <3>2. sock[call[h].on].remote # NoName
      BY <3>1 DEF CallInv, Asking, In
    <3>. QED
      BY <1>3, <1>e, <3>1, <3>2
  <2>5. Alone'
    <3>. SUFFICES ASSUME NEW h \in Fibers, Using(h)', call'[h].on \notin past'.shared
                  PROVE  /\ call'[h].fd \in {Closed, sock'[call'[h].on].fd}
                         /\ Closing(h)' => \A g \in Fibers : Using(g)' /\ call'[g].on = call'[h].on => g = h
      BY DEF Alone
    <3>1. h # f /\ Using(h) /\ call'[h] = call[h] /\ (Closing(h)' => Closing(h))
      BY <2>1 DEF Closing
    <3>2. call[h].on \notin past.shared /\ sock'[call[h].on].fd = sock[call[h].on].fd
      BY <1>e, <3>1
    <3>3. call[h].fd \in {Closed, sock[call[h].on].fd}
      BY <3>1, <3>2 DEF CallInv, Alone
    <3>4. Closing(h) => \A g \in Fibers : Using(g) /\ call[g].on = call[h].on => g = h
      BY <3>1, <3>2 DEF CallInv, Alone
    <3>. QED
      BY <2>1, <3>1, <3>2, <3>3, <3>4
  <2>. QED
    BY <2>3, <2>4, <2>5 DEF CallInv, Goal
\* An object that was not there comes, or goes and nobody is in a call on it.
<1>n. ASSUME NEW o \in Objects, call' = call,
             \A h \in Fibers : Using(h) => call[h].on # o,
             \A x \in Objects : x # o => sock'[x] = sock[x],
             \A x \in Objects : x # o /\ x \notin past'.shared => x \notin past.shared
      PROVE  Goal
  <2>1. \A h \in Fibers : Using(h)' => Using(h) /\ call[h].on \in Objects /\ call[h].on # o
    BY <1>n, <1>3 DEF Using
  <2>2. Present'
    BY <1>n, <2>1 DEF CallInv, Present, Using
  <2>3. Asking'
    BY <1>n, <2>1 DEF CallInv, Asking, In, Using
  <2>4. Alone'
    <3>. SUFFICES ASSUME NEW h \in Fibers, Using(h), call[h].on \notin past'.shared
                  PROVE  /\ call[h].fd \in {Closed, sock'[call[h].on].fd}
                         /\ Closing(h) => \A g \in Fibers : Using(g) /\ call[g].on = call[h].on => g = h
      BY <1>n DEF Alone, Using, Closing
    <3>1. call[h].on \in Objects /\ call[h].on # o /\ call[h].on \notin past.shared
      BY <1>n, <1>3
    <3>. QED
      BY <1>n, <3>1 DEF CallInv, Alone
  <2>. QED
    BY <2>2, <2>3, <2>4 DEF CallInv, Goal
<1>5. ASSUME NEW f \in Fibers, NEW o \in Objects, NEW udp \in BOOLEAN, Create(f, o, udp) PROVE Goal
  <2>1. call' = call /\ sock[o] = NoObject /\ past' = Forget(past, o)
    BY <1>5 DEF Create
  <2>2. \A x \in Objects : x # o => sock'[x] = sock[x]
    BY <1>0, <1>5 DEF Create
  <2>3. \A x \in Objects : x # o /\ x \notin past'.shared => x \notin past.shared
    BY <1>0, <2>1, ForgetIs
  <2>. QED
    BY <1>3, <1>n, <2>1, <2>2, <2>3
<1>6. ASSUME NEW f \in Fibers, NEW o \in Objects, Destroy(f, o) PROVE Goal
  <2>1. Op(f, o) /\ call' = call /\ Users(o) = {} /\ past' = Reach(past, o, sock[o].fd)
    BY <1>6 DEF Destroy
  <2>2. \A x \in Objects : x # o => sock'[x] = sock[x]
    BY <1>0, <1>6 DEF Destroy
  <2>3. past'.shared = past.shared
    BY <1>0, <1>o, <2>1, ReachIs
  <2>4. \A h \in Fibers : Using(h) => call[h].on # o
    BY <2>1, UsersAre
  <2>. QED
    BY <1>n, <2>1, <2>2, <2>3, <2>4
<1>7. ASSUME NEW f \in Fibers, NEW o \in Objects, NEW name \in {Port, AnyPort}, Bind(f, o, name)
      PROVE  Goal
  <2>1. Op(f, o) /\ call' = call
    BY <1>7 DEF Bind
  <2>2. PICK n \in Opened(o), bound \in BOOLEAN :
          /\ sock' = [sock EXCEPT ![o].local = name, ![o].fd = n]
          /\ past' = [Reach(Overlaps(o), o, sock[o].fd) EXCEPT
                       !.kept = IF bound THEN @ \ {o} ELSE @ \cup {o}]
    BY <1>7 DEF Bind
  <2>3. n \in Numbers \cup {Closed} /\ (sock[o].fd # Closed => n = sock[o].fd)
    BY <1>o, <2>1, OpenedTyped
  <2>. DEFINE r == [sock[o] EXCEPT !.local = name, !.fd = n]
  <2>4. r \in Object /\ r.fd = n /\ r.remote = sock[o].remote
    BY <1>o, <2>1, <2>3, SomeNames DEF Object
  <2>5. sock' = [sock EXCEPT ![o] = r]
    BY <1>0, <2>2
  <2>6. past'.shared = Overlaps(o).shared
    <3>1. Reach(Overlaps(o), o, sock[o].fd) \in Past
          /\ Reach(Overlaps(o), o, sock[o].fd).shared = Overlaps(o).shared
      BY <1>0, <1>o, <2>1, OverlapsIs, ReachIs
    <3>. QED
      BY <2>2, <3>1 DEF Past
  <2>7. \A x \in Objects : x \notin past'.shared =>
          x \notin past.shared /\ (x = o => \A g \in Fibers : Closing(g) => call[g].on # o)
    BY <1>0, <2>6, OverlapsIs
  <2>. HIDE DEF r
  <2>. QED
    BY <1>4, <1>o, <2>1, <2>3, <2>4, <2>5, <2>7
<1>8. ASSUME NEW f \in Fibers, NEW o \in Objects, Listen(f, o) PROVE Goal
  <2>1. Op(f, o) /\ call' = call /\ sock' = sock /\ past' = Reach(Overlaps(o), o, sock[o].fd)
    BY <1>8 DEF Listen
  <2>2. past'.shared = Overlaps(o).shared
    BY <1>0, <1>o, <2>1, OverlapsIs, ReachIs
  <2>3. \A x \in Objects : x \notin past'.shared =>
          x \notin past.shared /\ (x = o => \A g \in Fibers : Closing(g) => call[g].on # o)
    BY <1>0, <2>2, OverlapsIs
  <2>. QED
    BY <1>4, <1>o, <2>1, <2>3
<1>9. ASSUME NEW f \in Fibers, NEW o \in Objects, Op(f, o),
             NEW peer \in Name, peer # NoName, NEW local \in Name,
             ConnectTo(f, o, peer, local), past'.shared = Overlaps(o).shared
      PROVE  Goal
  <2>1. PICK n \in Opened(o) :
          /\ sock' = [sock EXCEPT ![o].remote = peer, ![o].local = local, ![o].fd = n]
          /\ call' = IF n = Closed \/ peer = Alien THEN call
                     ELSE [call EXCEPT ![f] = [pc |-> "connect", on |-> o, fd |-> n]]
    BY <1>9 DEF ConnectTo
  <2>2. n \in Numbers \cup {Closed} /\ (sock[o].fd # Closed => n = sock[o].fd)
    BY <1>o, <1>9, OpenedTyped
  <2>. DEFINE r == [sock[o] EXCEPT !.remote = peer, !.local = local, !.fd = n]
  <2>3. r \in Object /\ r.fd = n /\ r.remote = peer
    BY <1>o, <1>9, <2>2 DEF Object
  <2>4. sock' = [sock EXCEPT ![o] = r]
    BY <1>0, <2>1
  <2>5. \A x \in Objects : x \notin past'.shared =>
          x \notin past.shared /\ (x = o => \A g \in Fibers : Closing(g) => call[g].on # o)
    BY <1>0, <1>9, OverlapsIs
  <2>. HIDE DEF r
  <2>6. \/ call' = call
        \/ \E p \in {"connect", "io", "accept"} :
             /\ call' = [call EXCEPT ![f] = [pc |-> p, on |-> o, fd |-> r.fd]]
             /\ p \in {"connect", "accept"} => r.fd # Closed
             /\ p = "connect" => r.remote # NoName
    BY <1>9, <2>1, <2>3
  <2>. QED
    BY <1>4, <1>o, <1>9, <2>2, <2>3, <2>4, <2>5, <2>6
<1>10. ASSUME NEW f \in Fibers, NEW o \in Objects, NEW peer \in {Port, Alien}, Connect(f, o, peer)
       PROVE  Goal
  <2>1. sock[o].local \in Name /\ Op(f, o) /\ ConnectTo(f, o, peer, sock[o].local)
    BY <1>10, <1>o DEF Connect, Object
  <2>2. past' = [Overlaps(o) EXCEPT !.kept = @ \cup {x \in {o} : sock[x].local # NoName
                                                                 /\ sock[x].fd = Closed}]
    BY <1>10 DEF Connect
  <2>3. past'.shared = Overlaps(o).shared
    BY <1>0, <2>2, OverlapsIs DEF Past
  <2>4. peer # NoName
    BY DEF Port, Alien, NoName
  <2>. QED
    BY <1>9, <2>1, <2>3, <2>4, SomeNames
<1>11. ASSUME NEW f \in Fibers, NEW o \in Objects, Reconnect(f, o) PROVE Goal
  <2>1. sock[o].remote \in Name /\ Op(f, o) /\ ConnectTo(f, o, sock[o].remote, NoName)
        /\ sock[o].remote # NoName
    BY <1>11, <1>o DEF Reconnect, Object
  <2>2. past' = [Overlaps(o) EXCEPT !.kept = @ \ {o}]
    BY <1>11 DEF Reconnect
  <2>3. past'.shared = Overlaps(o).shared
    BY <1>0, <2>2, OverlapsIs DEF Past
  <2>. QED
    BY <1>9, <2>1, <2>3, SomeNames
<1>12. ASSUME NEW f \in Fibers, NEW o \in Objects, Accept(f, o) \/ Transfer(f, o) PROVE Goal
  <2>1. Op(f, o) /\ sock' = sock /\ past' = Overlaps(o)
    BY <1>12 DEF Accept, Transfer
  <2>2. \/ call' = call
        \/ \E p \in {"connect", "io", "accept"} :
             /\ call' = [call EXCEPT ![f] = [pc |-> p, on |-> o, fd |-> sock[o].fd]]
             /\ p \in {"connect", "accept"} => sock[o].fd # Closed
             /\ p = "connect" => sock[o].remote # NoName
    <3>1. CASE Accept(f, o)
      BY <3>1 DEF Accept, Enter
    <3>2. CASE Transfer(f, o)
      BY <3>2 DEF Transfer, Enter
    <3>. QED
      BY <1>12, <3>1, <3>2
  <2>3. \A x \in Objects : x \notin past'.shared =>
          x \notin past.shared /\ (x = o => \A g \in Fibers : Closing(g) => call[g].on # o)
    BY <1>0, <2>1, OverlapsIs
  <2>. QED
    <3>1. /\ ~Using(f) /\ sock[o] # NoObject /\ sock[o] \in Object
          /\ sock' = [sock EXCEPT ![o] = sock[o]]
      BY <1>o, <2>1
    <3>. QED
      BY <1>4, <2>2, <2>3, <3>1
<1>13. ASSUME NEW f \in Fibers, Connected(f) PROVE Goal
  <2>. DEFINE o == call[f].on
              n == call[f].fd
              made == [open EXCEPT ![n].peer = Port, ![n].name = IF @ = NoName THEN Fresh ELSE @]
  <2>1. Using(f) /\ n # Closed /\ n \in Numbers
    BY <1>0, <1>13 DEF Connected, In, Using, Call, CallInv, Present
  <2>2. o \in Objects /\ sock[o] \in Object /\ sock[o].fd \in Numbers \cup {Closed}
    BY <1>3, <2>1 DEF Object
  <2>3. past'.shared = past.shared
    <3>1. ASSUME NEW y \in Past, NEW d \in Numbers \cup {Closed}
          PROVE  Reach(y, o, d) \in Past /\ Reach(y, o, d).shared = y.shared
      BY <2>2, ReachIs
    <3>2. Reach(past, o, n) \in Past /\ Reach(past, o, n).shared = past.shared
      BY <1>0, <2>1, <3>1
    <3>3. past' = Reach(Reach(past, o, n), o, sock[o].fd)
      BY <1>13 DEF Connected
    <3>. QED
      BY <2>2, <3>1, <3>2, <3>3
  <2>4. sock' = [sock EXCEPT ![o].connected = TRUE,
                             ![o].local = Ask(@, sock[o].fd, made, "name")]
    BY <1>13 DEF Connected
  <2>. HIDE DEF made
  <2>5. \A x \in Objects : sock[x] # NoObject =>
          sock'[x] # NoObject /\ sock'[x].remote = sock[x].remote /\ sock'[x].fd = sock[x].fd
    <3>1. \A x \in Objects : x # o => sock'[x] = sock[x]
      BY <1>0, <2>4
    <3>2. sock'[o] = [sock[o] EXCEPT !.connected = TRUE, !.local = Ask(@, sock[o].fd, made, "name")]
      BY <1>0, <2>2, <2>4
    <3>3. sock'[o].remote = sock[o].remote /\ sock'[o].fd = sock[o].fd
      BY <2>2, <3>2 DEF Object
    <3>4. sock'[o] # NoObject
      <4>1. Ask(sock[o].local, sock[o].fd, made, "name") \in Name
        <5>1. \A x \in Numbers : made[x] \in {NoObject} \cup File
          <6>1. open' = made
            BY <1>13 DEF Connected, made
          <6>. QED
            BY <1>1, <6>1 DEF SocketTypeOK
        <5>. QED
          BY <2>2, <5>1 DEF Ask, Object, File
      <4>2. sock'[o] \in Object
        BY <2>2, <3>2, <4>1 DEF Object
      <4>. QED
        BY <4>2, NoObjectAssumption
    <3>. QED
      BY <3>1, <3>3, <3>4
  <2>6. Exit(f)
    BY <1>13 DEF Connected
  <2>. QED
    BY <1>e, <1>3, <2>1, <2>3, <2>5, <2>6
\* A fiber closes, and is alone, or the object counts as closed during a call.
<1>k. ASSUME NEW f \in Fibers, NEW o \in Objects, sock[o] # NoObject,
             NEW d, NEW p \in {"close", "closed"},
             call' = [call EXCEPT ![f] = [pc |-> p, on |-> o, fd |-> d]],
             \A x \in Objects : sock[x] # NoObject =>
               sock'[x] # NoObject /\ sock'[x].remote = sock[x].remote /\ sock'[x].fd = sock[x].fd,
             \A x \in Objects : x \notin past'.shared => x \notin past.shared,
             o \notin past'.shared =>
               /\ d \in {Closed, sock[o].fd}
               /\ \A g \in Fibers : g # f /\ Using(g) => call[g].on # o
      PROVE  Goal
  <2>1. \A h \in Fibers : h # f => call'[h] = call[h]
    BY <1>0, <1>k
  <2>2. call'[f] = [pc |-> p, on |-> o, fd |-> d]
    BY <1>0, <1>k
  <2>3. Present'
    <3>. SUFFICES ASSUME NEW h \in Fibers, Using(h)'
                  PROVE  /\ sock'[call'[h].on] # NoObject
                         /\ call'[h].pc \in {"connect", "accept"} => call'[h].fd # Closed
      BY DEF Present
    <3>1. CASE h = f
      BY <1>k, <2>2, <3>1
    <3>2. CASE h # f
      BY <1>3, <1>k, <2>1, <3>2 DEF Using, CallInv, Present
    <3>. QED
      BY <3>1, <3>2
  <2>4. Asking'
    <3>. SUFFICES ASSUME NEW h \in Fibers, call'[h].pc = "connect"
                  PROVE  sock'[call'[h].on].remote # NoName
      BY DEF Asking, In
    <3>1. h # f
      BY <2>2
    <3>2. call'[h] = call[h] /\ Using(h) /\ sock[call[h].on].remote # NoName
      BY <2>1, <3>1 DEF Using, CallInv, Asking, In
    <3>. QED
      BY <1>3, <1>k, <3>2
  <2>5. Alone'
    <3>. SUFFICES ASSUME NEW h \in Fibers, Using(h)', call'[h].on \notin past'.shared
                  PROVE  /\ call'[h].fd \in {Closed, sock'[call'[h].on].fd}
                         /\ Closing(h)' => \A g \in Fibers : Using(g)' /\ call'[g].on = call'[h].on => g = h
      BY DEF Alone
    <3>1. CASE h = f
      <4>1. o \notin past'.shared
        BY <2>2, <3>1
      <4>2. \A g \in Fibers : Using(g)' /\ call'[g].on = o => g = f
        BY <1>k, <2>1, <4>1 DEF Using
      <4>. QED
        BY <1>k, <2>2, <3>1, <4>1, <4>2
    <3>2. CASE h # f
      <4>1. call'[h] = call[h] /\ Using(h) /\ call[h].on \in Objects /\ (Closing(h)' => Closing(h))
        BY <1>3, <2>1, <3>2 DEF Using, Closing
      <4>2. call[h].on \notin past.shared /\ call[h].on # o
        BY <1>k, <3>2, <4>1
      <4>3. call[h].fd \in {Closed, sock[call[h].on].fd}
        BY <4>1, <4>2 DEF CallInv, Alone
      <4>4. Closing(h) => \A g \in Fibers : Using(g) /\ call[g].on = call[h].on => g = h
        BY <4>1, <4>2 DEF CallInv, Alone
      <4>5. \A g \in Fibers : Using(g)' /\ call'[g].on = call[h].on => Using(g) /\ call[g].on = call[h].on
        BY <2>1, <2>2, <4>2 DEF Using
      <4>. QED
        BY <1>3, <1>k, <4>1, <4>3, <4>4, <4>5
    <3>. QED
      BY <3>1, <3>2
  <2>. QED
    BY <2>3, <2>4, <2>5 DEF CallInv, Goal
\* Only the flag of an object changes.
<1>m. ASSUME NEW o \in Objects, sock[o] # NoObject, NEW b \in BOOLEAN,
             sock' = [sock EXCEPT ![o].connected = b]
      PROVE  \A x \in Objects : sock[x] # NoObject =>
               sock'[x] # NoObject /\ sock'[x].remote = sock[x].remote /\ sock'[x].fd = sock[x].fd
  <2>1. sock[o] \in Object
    BY <1>0, <1>m
  <2>2. sock'[o] \in Object /\ sock'[o].remote = sock[o].remote /\ sock'[o].fd = sock[o].fd
    BY <1>0, <1>m, <2>1 DEF Object
  <2>. QED
    BY <1>0, <1>m, <2>2, NoObjectAssumption
<1>14. ASSUME NEW f \in Fibers, ConnectFails(f) PROVE Goal
  <2>. DEFINE o == call[f].on
  <2>1. Using(f) /\ o \in Objects /\ sock[o] # NoObject
    BY <1>3, <1>14 DEF ConnectFails, In, Using
  <2>2. call' = [call EXCEPT ![f] = [pc |-> "close", on |-> o, fd |-> call[f].fd]]
    <3>1. [call[f] EXCEPT !.pc = "close"] = [pc |-> "close", on |-> o, fd |-> call[f].fd]
      BY <1>0 DEF Call
    <3>. QED
      BY <1>0, <1>14, <3>1 DEF ConnectFails
  <2>3. sock' = [sock EXCEPT ![o].connected = FALSE]
    BY <1>14 DEF ConnectFails
  <2>4. past'.shared = past.shared \cup {x \in {o} : Users(x) # {f}}
    BY <1>0, <1>14 DEF ConnectFails, Past
  <2>5. \A x \in Objects : sock[x] # NoObject =>
          sock'[x] # NoObject /\ sock'[x].remote = sock[x].remote /\ sock'[x].fd = sock[x].fd
    BY <1>m, <2>1, <2>3
  <2>6. ASSUME o \notin past'.shared
        PROVE  /\ call[f].fd \in {Closed, sock[o].fd}
               /\ \A g \in Fibers : g # f /\ Using(g) => call[g].on # o
    <3>1. o \notin past.shared /\ Users(o) = {f}
      BY <2>4, <2>6
    <3>2. \A g \in Fibers : g # f /\ Using(g) => call[g].on # o
      BY <2>1, <3>1, UsersAre
    <3>. QED
      BY <2>1, <3>1, <3>2 DEF CallInv, Alone
  <2>. QED
    BY <1>k, <2>1, <2>2, <2>4, <2>5, <2>6
<1>15. ASSUME NEW f \in Fibers, NEW c \in Objects, NEW m \in Numbers, Accepted(f, c, m) PROVE Goal
  <2>. DEFINE o == call[f].on
  <2>1. Using(f) /\ o \in Objects /\ call[f].fd \in Numbers \cup {Closed}
    BY <1>0, <1>3, <1>15 DEF Accepted, In, Using, Call
  <2>2. Exit(f) /\ sock[c] = NoObject /\ past' = Reach(Forget(past, c), o, call[f].fd)
    BY <1>15 DEF Accepted
  <2>3. \A x \in Objects : x # c => sock'[x] = sock[x]
    BY <1>0, <1>15 DEF Accepted
  <2>4. past'.shared = past.shared \ {c}
    <3>1. Forget(past, c) \in Past /\ Forget(past, c).shared = past.shared \ {c}
      BY <1>0, ForgetIs
    <3>. QED
      <4>1. \A p \in Past : Reach(p, o, call[f].fd).shared = p.shared
        BY <2>1, ReachIs
      <4>. QED
        BY <2>2, <3>1, <4>1
  <2>. QED
    BY <1>3, <1>e, <2>1, <2>2, <2>3, <2>4
<1>16. ASSUME NEW f \in Fibers, Ends(f) PROVE Goal
  <2>1. Using(f) /\ call[f].on \in Objects /\ call[f].fd \in Numbers \cup {Closed}
    BY <1>0, <1>3, <1>16 DEF Ends, In, Using, Call
  <2>2. Exit(f) /\ sock' = sock /\ past' = Reach(past, call[f].on, call[f].fd)
    BY <1>16 DEF Ends
  <2>3. past'.shared = past.shared
    BY <1>0, <2>1, <2>2, ReachIs
  <2>. QED
    BY <1>e, <2>1, <2>2, <2>3
<1>17. ASSUME NEW f \in Fibers, CloseCall(f) PROVE Goal
  <2>. DEFINE o == call[f].on
  <2>1. Using(f) /\ Closing(f) /\ o \in Objects /\ sock[o] # NoObject /\ sock[o].fd \in Numbers \cup {Closed}
    BY <1>3, <1>17 DEF CloseCall, In, Using, Closing, Object
  <2>2. call' = [call EXCEPT ![f] = [pc |-> "closed", on |-> o, fd |-> call[f].fd]]
    <3>1. [call[f] EXCEPT !.pc = "closed"] = [pc |-> "closed", on |-> o, fd |-> call[f].fd]
      BY <1>0 DEF Call
    <3>. QED
      BY <1>0, <1>17, <3>1 DEF CloseCall
  <2>3. sock' = sock /\ past' = Reach(past, o, sock[o].fd)
    BY <1>17 DEF CloseCall
  <2>4. past'.shared = past.shared
    BY <1>0, <2>1, <2>3, ReachIs
  <2>5. o \notin past'.shared =>
          /\ call[f].fd \in {Closed, sock[o].fd}
          /\ \A g \in Fibers : g # f /\ Using(g) => call[g].on # o
    BY <2>1, <2>4 DEF CallInv, Alone
  <2>. QED
    BY <1>k, <2>1, <2>2, <2>3, <2>4, <2>5
<1>18. ASSUME NEW f \in Fibers, CloseEnds(f) PROVE Goal
  <2>. DEFINE o == call[f].on
  <2>1. Using(f) /\ Closing(f) /\ o \in Objects /\ sock[o] \in Object
    BY <1>3, <1>18 DEF CloseEnds, In, Using, Closing
  <2>2. Exit(f) /\ past' = past /\ sock' = [sock EXCEPT ![o].fd = Closed]
    BY <1>18 DEF CloseEnds
  <2>3. \A x \in Objects : x # o => sock'[x] = sock[x]
    BY <1>0, <2>2
  <2>4. sock'[o] \in Object /\ sock'[o].remote = sock[o].remote
    BY <1>0, <2>1, <2>2 DEF Object
  <2>5. \A x \in Objects : sock[x] # NoObject =>
          sock'[x] # NoObject /\ (sock[x].remote # NoName => sock'[x].remote # NoName)
    BY <2>3, <2>4, NoObjectAssumption
  <2>6. \A h \in Fibers : h # f /\ Using(h) /\ call[h].on \notin past.shared => call[h].on # o
    BY <2>1 DEF CallInv, Alone
  <2>. QED
    BY <1>3, <1>e, <2>1, <2>2, <2>3, <2>5, <2>6
<1>19. ASSUME NEW f \in Fibers, NEW o \in Objects, Close(f, o) PROVE Goal
  <2>1. Op(f, o) /\ sock' = [sock EXCEPT ![o].connected = FALSE]
    BY <1>19 DEF Close
  <2>2. past'.shared = past.shared \cup {x \in {o} : Users(x) # {}}
    BY <1>0, <1>19 DEF Close, Past
  <2>3. \A x \in Objects : sock[x] # NoObject =>
          sock'[x] # NoObject /\ sock'[x].remote = sock[x].remote /\ sock'[x].fd = sock[x].fd
    BY <1>m, <1>o, <2>1
  <2>4. o \notin past'.shared => \A g \in Fibers : g # f /\ Using(g) => call[g].on # o
    BY <2>2, UsersAre
  <2>5. CASE sock[o].fd # Closed
    <3>1. call' = [call EXCEPT ![f] = [pc |-> "close", on |-> o, fd |-> sock[o].fd]]
      BY <1>19, <2>5 DEF Close, Enter
    <3>. QED
      BY <1>k, <1>o, <2>1, <2>2, <2>3, <2>4, <3>1
  <2>6. CASE sock[o].fd = Closed
    <3>1. call' = call
      BY <1>19, <2>6 DEF Close
    <3>. DEFINE r == [sock[o] EXCEPT !.connected = FALSE]
    <3>2. r \in Object /\ r.fd = sock[o].fd /\ r.remote = sock[o].remote
      BY <1>o, <2>1 DEF Object
    <3>3. sock' = [sock EXCEPT ![o] = r]
      BY <1>0, <2>1
    <3>4. ~Using(f) /\ sock[o] # NoObject
      BY <1>o, <2>1
    <3>5. \A x \in Objects : x \notin past'.shared =>
            x \notin past.shared /\ (x = o => \A g \in Fibers : Closing(g) => call[g].on # o)
      BY <2>2, <2>4, <3>4 DEF Closing, Using
    <3>. HIDE DEF r
    <3>. QED
      BY <1>4, <3>1, <3>2, <3>3, <3>4, <3>5
  <2>. QED
    BY <2>5, <2>6
<1>20. ASSUME UNCHANGED socketVars PROVE Goal
  BY <1>20 DEF socketVars, Goal, CallInv, Present, Asking, Alone, Using, Closing, In
<1>21. SocketNext => Goal
  BY <1>5, <1>6, <1>7, <1>8, <1>10, <1>11, <1>12, <1>13, <1>14, <1>15, <1>16, <1>17, <1>18, <1>19
     DEF SocketNext
<1>22. Goal
  BY <1>20, <1>21
<1>. QED
  BY <1>22 DEF Goal

-----------------------------------------------------------------------------
(***************************************************************************)
(* The socket behind the number of an object.                              *)
(***************************************************************************)

\* An object that nobody closed during a call, whose socket no other object reached, and
\* that is not being closed now, has a socket of its own, with the names it remembers.
Undisturbed(o) == o \notin past.shared \cup past.reached
Steady(o) ==
  /\ Undisturbed(o)
  /\ sock[o] # NoObject /\ sock[o].fd # Closed
  /\ \A f \in Fibers : In(f, "closed") => call[f].on # o
Owns(o) ==
  LET file == open[sock[o].fd] IN
  /\ file # NoObject /\ file.owner = o
  /\ sock[o].local \in {NoName, AnyPort, file.name} \/ o \in past.kept
  /\ file.peer # NoName => sock[o].remote # NoName
Holding == \A o \in Objects : Steady(o) => Owns(o)

\* The other objects keep their sockets, when only one number is touched by an object.
LEMMA OthersOwn ==
  ASSUME SocketTypeOK, CallInv, Holding,
         NEW o \in Objects, NEW n \in Numbers \cup {Closed},
         \A m \in Numbers : m # n => open'[m] = open[m],
         n # Closed /\ open[n] # NoObject => open[n].owner = o \/ open[n].owner \in past'.reached,
         \A x \in Objects : x # o =>
           /\ sock'[x] = sock[x]
           /\ x \in past.shared \cup past.reached => x \in past'.shared \cup past'.reached
           /\ x \in past.kept => x \in past'.kept,
         \A g \in Fibers : In(g, "closed") /\ call[g].on # o => call'[g] = call[g],
         NEW x \in Objects, x # o, Steady(x)'
  PROVE  Owns(x)'
<1>1. sock'[x] = sock[x]
  OBVIOUS
<1>2. Steady(x)
  <2>1. Undisturbed(x)
    BY DEF Steady, Undisturbed
  <2>2. \A g \in Fibers : In(g, "closed") => call[g].on # x
    BY DEF Steady, In
  <2>. QED
    BY <1>1, <2>1, <2>2 DEF Steady
<1>3. Owns(x)
  BY <1>2 DEF Holding
<1>4. sock[x].fd \in Numbers
  BY <1>2 DEF Steady, SocketTypeOK, Object
<1>5. sock[x].fd # n
  BY <1>3, <1>4 DEF Owns, Steady, Undisturbed, Closed
<1>6. open'[sock[x].fd] = open[sock[x].fd]
  BY <1>4, <1>5
<1>. QED
  BY <1>1, <1>3, <1>6 DEF Owns

\* A call that does not follow a close() on the same object has the object's own socket.
LEMMA OwnCall ==
  ASSUME SocketTypeOK, CallInv, Holding,
         NEW f \in Fibers, Using(f), ~In(f, "closed"), Undisturbed(call[f].on)
  PROVE  LET o == call[f].on IN
         /\ sock[o].fd = Closed \/ (open[sock[o].fd] # NoObject /\ open[sock[o].fd].owner = o)
         /\ call[f].fd \in {Closed, sock[o].fd}
<1>. DEFINE o == call[f].on
<1>1. o \in Objects /\ sock[o] # NoObject /\ o \notin past.shared
  BY DEF CallInv, Present, SocketTypeOK, Undisturbed
<1>2. call[f].fd \in {Closed, sock[o].fd}
  BY <1>1 DEF CallInv, Alone
<1>3. \A g \in Fibers : In(g, "closed") => call[g].on # o
  BY <1>1 DEF CallInv, Alone, In, Using, Closing
<1>4. sock[o].fd # Closed => Steady(o)
  BY <1>1, <1>3 DEF Steady
<1>5. sock[o].fd # Closed => Owns(o)
  BY <1>1, <1>4 DEF Holding
<1>. QED
  BY <1>2, <1>5 DEF Owns

\* An operation that nobody's close() overlaps has it too.
LEMMA OwnOp ==
  ASSUME SocketTypeOK, CallInv, Holding, NEW o \in Objects, sock[o] # NoObject, Undisturbed(o),
         \A g \in Fibers : Closing(g) => call[g].on # o, sock[o].fd # Closed
  PROVE  Steady(o) /\ Owns(o)
<1>1. Steady(o)
  BY DEF Steady, In, Closing
<1>. QED
  BY <1>1 DEF Holding

\* Who reaches another object's socket was disturbed before.
LEMMA ReachOwn ==
  ASSUME SocketTypeOK, NEW p \in Past, NEW o \in Objects, NEW n \in Numbers \cup {Closed},
         p.foreign \subseteq p.shared \cup p.reached,
         o \notin p.shared \cup p.reached =>
           n = Closed \/ (open[n] # NoObject /\ open[n].owner = o)
  PROVE  Reach(p, o, n).foreign \subseteq Reach(p, o, n).shared \cup Reach(p, o, n).reached
<1>1. CASE o \in p.shared \cup p.reached
  BY <1>1, ReachIs
<1>2. CASE o \notin p.shared \cup p.reached
  BY <1>2, ReachIs
<1>. QED
  BY <1>1, <1>2

LEMMA HoldingNext ==
  SocketTypeOK /\ CallInv /\ Holding /\ OwnNumber /\ [SocketNext]_socketVars
    => Holding' /\ OwnNumber'
<1>. SUFFICES ASSUME SocketTypeOK, CallInv, Holding, OwnNumber, [SocketNext]_socketVars
              PROVE  Holding' /\ OwnNumber'
  OBVIOUS
<1>. DEFINE Goal == Holding' /\ OwnNumber'
<1>0. /\ sock \in [Objects -> {NoObject} \cup Object]
      /\ open \in [Numbers -> {NoObject} \cup File]
      /\ call \in [Fibers -> Call]
      /\ past \in Past
      /\ past.foreign \subseteq past.shared \cup past.reached
  BY DEF SocketTypeOK, Call, Place, Past, OwnNumber
<1>g. ASSUME \A o \in Objects : Steady(o)' => Owns(o)',
             past'.foreign \subseteq past'.shared \cup past'.reached
      PROVE  Goal
  BY <1>g DEF Holding, OwnNumber
<1>. HIDE DEF Goal
<1>t. SocketTypeOK' /\ past' \in Past
  BY SocketTypeNext DEF CallInv, SocketTypeOK, Past
<1>o. ASSUME NEW f \in Fibers, NEW o \in Objects, Op(f, o)
      PROVE  ~Using(f) /\ ~In(f, "closed") /\ sock[o] # NoObject /\ sock[o] \in Object
             /\ sock[o].fd \in Numbers \cup {Closed}
  BY <1>0, <1>o DEF Op, Using, In, Object
<1>u. ASSUME NEW f \in Fibers, Using(f)
      PROVE  /\ call[f].on \in Objects /\ sock[call[f].on] # NoObject /\ sock[call[f].on] \in Object
             /\ sock[call[f].on].fd \in Numbers \cup {Closed}
             /\ call[f].fd \in Numbers \cup {Closed}
             /\ call[f].pc \in {"connect", "accept"} => call[f].fd \in Numbers
  BY <1>0, <1>u DEF CallInv, Present, Call, Object
\* Reach() after Overlaps(), of the number that an object has.
<1>r. ASSUME NEW o \in Objects, sock[o] # NoObject
      PROVE  LET p == Reach(Overlaps(o), o, sock[o].fd) IN
             /\ p \in Past /\ p.foreign \subseteq p.shared \cup p.reached
             /\ p.shared = Overlaps(o).shared /\ p.kept = past.kept
             /\ past.shared \subseteq p.shared /\ past.reached \subseteq p.reached
             /\ sock[o].fd # Closed /\ open[sock[o].fd] # NoObject =>
                  open[sock[o].fd].owner = o \/ open[sock[o].fd].owner \in p.reached
             /\ o \notin p.shared \cup p.reached =>
                  Undisturbed(o) /\ \A g \in Fibers : Closing(g) => call[g].on # o
  <2>. DEFINE q == Overlaps(o)
              p == Reach(q, o, sock[o].fd)
  <2>1. /\ q \in Past /\ q.foreign = past.foreign /\ q.reached = past.reached /\ q.kept = past.kept
        /\ \A x \in Objects : x \notin q.shared =>
             x \notin past.shared
             /\ (x = o => \A g \in Fibers : Closing(g) => call[g].on # o)
    BY <1>0, OverlapsIs
  <2>2. past.shared \subseteq q.shared
    BY <1>0, <2>1 DEF Past
  <2>3. sock[o].fd \in Numbers \cup {Closed}
    BY <1>0, <1>r DEF Object
  <2>4. o \notin q.shared \cup q.reached =>
          Undisturbed(o) /\ \A g \in Fibers : Closing(g) => call[g].on # o
    BY <2>1 DEF Undisturbed
  <2>5. o \notin q.shared \cup q.reached =>
          sock[o].fd = Closed \/ (open[sock[o].fd] # NoObject /\ open[sock[o].fd].owner = o)
    BY <1>r, <2>4, OwnOp DEF Owns
  <2>. HIDE DEF q
  <2>6. q.foreign \subseteq q.shared \cup q.reached
    BY <1>0, <2>1, <2>2
  <2>7. p.foreign \subseteq p.shared \cup p.reached
    BY <2>1, <2>3, <2>5, <2>6, ReachOwn
  <2>8. p \in Past /\ p.shared = q.shared /\ p.kept = q.kept /\ q.reached \subseteq p.reached
        /\ (sock[o].fd # Closed /\ open[sock[o].fd] # NoObject =>
             open[sock[o].fd].owner = o \/ open[sock[o].fd].owner \in p.reached)
    <3>1. ASSUME NEW y \in Past, NEW n \in Numbers \cup {Closed}
          PROVE  /\ Reach(y, o, n) \in Past
                 /\ Reach(y, o, n).shared = y.shared /\ Reach(y, o, n).kept = y.kept
                 /\ y.reached \subseteq Reach(y, o, n).reached
                 /\ n # Closed /\ open[n] # NoObject =>
                      open[n].owner = o \/ open[n].owner \in Reach(y, o, n).reached
      <4>1. Reach(y, o, n) \in Past
        BY ReachIs
      <4>2. Reach(y, o, n).shared = y.shared /\ Reach(y, o, n).kept = y.kept
        BY ReachIs
      <4>3. y.reached \subseteq Reach(y, o, n).reached
        BY ReachIs
      <4>4. n # Closed /\ open[n] # NoObject =>
              open[n].owner = o \/ open[n].owner \in Reach(y, o, n).reached
        BY ReachIs
      <4>. QED
        BY <4>1, <4>2, <4>3, <4>4
    <3>. QED
      BY <2>1, <2>3, <3>1
  <2>. QED
    BY <2>1, <2>2, <2>4, <2>7, <2>8 DEF q
\* The facts of an operation that adds only Overlaps(), as far as this invariant goes.
<1>v. ASSUME NEW o \in Objects
      PROVE  LET p == Overlaps(o) IN
             /\ p \in Past /\ p.foreign \subseteq p.shared \cup p.reached
             /\ past.shared \subseteq p.shared /\ p.reached = past.reached /\ p.kept = past.kept
             /\ o \notin p.shared \cup p.reached =>
                  Undisturbed(o) /\ \A g \in Fibers : Closing(g) => call[g].on # o
  <2>1. /\ Overlaps(o) \in Past /\ Overlaps(o).foreign = past.foreign
        /\ Overlaps(o).reached = past.reached /\ Overlaps(o).kept = past.kept
        /\ \A x \in Objects : x \notin Overlaps(o).shared =>
             x \notin past.shared
             /\ (x = o => \A g \in Fibers : Closing(g) => call[g].on # o)
    BY <1>0, OverlapsIs
  <2>2. past.shared \subseteq Overlaps(o).shared
    BY <1>0, <2>1 DEF Past
  <2>. QED
    BY <1>0, <2>1, <2>2 DEF Undisturbed
<1>1. ASSUME NEW f \in Fibers, NEW o \in Objects, NEW udp \in BOOLEAN, Create(f, o, udp) PROVE Goal
  <2>1. PICK n \in Numbers \cup {Closed} :
          /\ n # Closed => open[n] = NoObject
          /\ sock' = [sock EXCEPT ![o] = [fd |-> n, connected |-> udp,
                                          local |-> NoName, remote |-> NoName]]
          /\ open' = IF n = Closed THEN open ELSE [open EXCEPT ![n] = NewFile(o)]
    BY <1>1 DEF Create
  <2>2. call' = call /\ past' = Forget(past, o)
    BY <1>1 DEF Create
  <2>3. /\ past'.foreign = past.foreign \ {o} /\ past'.reached = past.reached \ {o}
        /\ past'.shared = past.shared \ {o} /\ past'.kept = past.kept \ {o}
    BY <1>0, <2>2, ForgetIs
  <2>4. \A m \in Numbers : m # n => open'[m] = open[m]
    BY <1>0, <2>1
  <2>5. \A x \in Objects : x # o =>
          /\ sock'[x] = sock[x]
          /\ x \in past.shared \cup past.reached => x \in past'.shared \cup past'.reached
          /\ x \in past.kept => x \in past'.kept
    BY <1>0, <2>1, <2>3
  <2>6. ASSUME NEW x \in Objects, x # o, Steady(x)' PROVE Owns(x)'
    BY <2>1, <2>2, <2>4, <2>5, <2>6, OthersOwn
  <2>7. ASSUME Steady(o)' PROVE Owns(o)'
    <3>1. sock'[o] = [fd |-> n, connected |-> udp, local |-> NoName, remote |-> NoName]
      BY <1>0, <2>1
    <3>2. n # Closed
      BY <2>7, <3>1 DEF Steady
    <3>3. open'[n] = NewFile(o)
      BY <1>0, <2>1, <3>2
    <3>4. NewFile(o) \in File /\ NewFile(o).owner = o /\ NewFile(o).peer = NoName
      BY SomeNames DEF NewFile, File
    <3>. QED
      BY <3>1, <3>3, <3>4, NoObjectAssumption DEF Owns
  <2>. QED
    BY <1>0, <1>g, <2>3, <2>6, <2>7
<1>2. ASSUME NEW f \in Fibers, NEW o \in Objects, Destroy(f, o) PROVE Goal
  <2>. DEFINE n == sock[o].fd
  <2>1. n \in Numbers \cup {Closed} /\ sock[o] # NoObject
    BY <1>2, <1>o DEF Destroy
  <2>2. /\ sock' = [sock EXCEPT ![o] = NoObject] /\ call' = call
        /\ open' = IF n = Closed THEN open ELSE [open EXCEPT ![n] = NoObject]
        /\ past' = Reach(past, o, n)
    BY <1>2 DEF Destroy
  <2>3. /\ past'.shared = past.shared /\ past'.kept = past.kept
        /\ past.reached \subseteq past'.reached
        /\ n # Closed /\ open[n] # NoObject => open[n].owner = o \/ open[n].owner \in past'.reached
    BY <1>0, <2>1, <2>2, ReachIs
  <2>4. \A g \in Fibers : Closing(g) => call[g].on # o
    BY <1>2, UsersAre DEF Destroy, Closing, Using
  <2>5. o \notin past.shared \cup past.reached =>
          n = Closed \/ (open[n] # NoObject /\ open[n].owner = o)
    BY <2>1, <2>4, OwnOp DEF Owns, Undisturbed
  <2>6. past'.foreign \subseteq past'.shared \cup past'.reached
    BY <1>0, <2>1, <2>2, <2>5, ReachOwn
  <2>7. \A m \in Numbers : m # n => open'[m] = open[m]
    BY <1>0, <2>2
  <2>8. \A x \in Objects : x # o => sock'[x] = sock[x]
    BY <1>0, <2>2
  <2>. HIDE DEF n
  <2>9. ASSUME NEW x \in Objects, x # o, Steady(x)' PROVE Owns(x)'
    BY <2>1, <2>2, <2>3, <2>7, <2>8, <2>9, OthersOwn
  <2>10. ~Steady(o)'
    BY <1>0, <2>2 DEF Steady
  <2>. QED
    BY <1>g, <2>6, <2>9, <2>10
<1>3. ASSUME NEW f \in Fibers, NEW o \in Objects, NEW name \in {Port, AnyPort}, Bind(f, o, name)
      PROVE  Goal
  <2>1. Op(f, o) /\ call' = call /\ sock[o] # NoObject /\ sock[o] \in Object
    BY <1>3, <1>o DEF Bind
  <2>2. PICK n \in Opened(o), bound \in BOOLEAN :
          /\ sock' = [sock EXCEPT ![o].local = name, ![o].fd = n]
          /\ bound => n # Closed /\ WithNew(o, n)[n].name = NoName
          /\ open' = IF bound
                     THEN [WithNew(o, n) EXCEPT ![n].name = IF name = AnyPort THEN Fresh ELSE name]
                     ELSE WithNew(o, n)
          /\ past' = [Reach(Overlaps(o), o, sock[o].fd) EXCEPT
                       !.kept = IF bound THEN @ \ {o} ELSE @ \cup {o}]
    BY <1>3 DEF Bind
  <2>3. /\ n \in Numbers \cup {Closed}
        /\ n # Closed /\ n # sock[o].fd => open[n] = NoObject
        /\ sock[o].fd # Closed => n = sock[o].fd
        /\ WithNew(o, n) \in [Numbers -> {NoObject} \cup File]
    BY <2>1, OpenedTyped
  <2>. DEFINE p == Reach(Overlaps(o), o, sock[o].fd)
  <2>4. /\ p \in Past /\ p.foreign \subseteq p.shared \cup p.reached
        /\ p.kept = past.kept
        /\ past.shared \subseteq p.shared /\ past.reached \subseteq p.reached
        /\ sock[o].fd # Closed /\ open[sock[o].fd] # NoObject =>
             open[sock[o].fd].owner = o \/ open[sock[o].fd].owner \in p.reached
        /\ o \notin p.shared \cup p.reached =>
             Undisturbed(o) /\ \A g \in Fibers : Closing(g) => call[g].on # o
    BY <1>r, <2>1
  <2>5. past' = [p EXCEPT !.kept = IF bound THEN @ \ {o} ELSE @ \cup {o}]
    BY <2>2
  <2>. HIDE DEF p
  <2>6. /\ past'.foreign = p.foreign /\ past'.shared = p.shared /\ past'.reached = p.reached
        /\ past'.kept = IF bound THEN past.kept \ {o} ELSE past.kept \cup {o}
    BY <2>4, <2>5 DEF Past
  <2>7. \A m \in Numbers : m # n => open'[m] = open[m]
    BY <1>0, <2>2, <2>3 DEF WithNew
  <2>8. \A x \in Objects : x # o =>
          /\ sock'[x] = sock[x]
          /\ x \in past.shared \cup past.reached => x \in past'.shared \cup past'.reached
          /\ x \in past.kept => x \in past'.kept
    BY <1>0, <2>2, <2>4, <2>6
  <2>9. n # Closed /\ open[n] # NoObject => open[n].owner = o \/ open[n].owner \in past'.reached
    BY <2>3, <2>4, <2>6
  <2>10. ASSUME NEW x \in Objects, x # o, Steady(x)' PROVE Owns(x)'
    BY <2>1, <2>3, <2>7, <2>8, <2>9, <2>10, OthersOwn
  <2>11. ASSUME Steady(o)' PROVE Owns(o)'
    <3>1. /\ sock'[o] = [sock[o] EXCEPT !.local = name, !.fd = n]
          /\ sock'[o].local = name /\ sock'[o].fd = n /\ sock'[o].remote = sock[o].remote
      BY <1>0, <2>1, <2>2 DEF Object
    <3>2. n \in Numbers /\ Undisturbed(o) /\ \A g \in Fibers : Closing(g) => call[g].on # o
      BY <2>3, <2>4, <2>6, <2>11, <3>1 DEF Steady, Undisturbed
    <3>3. LET file == WithNew(o, n)[n] IN
          /\ file \in File /\ file # NoObject /\ file.owner = o
          /\ file.peer # NoName => sock[o].remote # NoName
      <4>1. CASE n = sock[o].fd
        <5>1. Owns(o)
          BY <2>1, <3>2, <4>1, OwnOp DEF Closed
        <5>2. WithNew(o, n)[n] = open[n]
          BY <4>1 DEF WithNew
        <5>. QED
          BY <1>0, <3>2, <4>1, <5>1, <5>2 DEF Owns
      <4>2. CASE n # sock[o].fd
        <5>1. WithNew(o, n)[n] = NewFile(o)
          BY <1>0, <3>2, <4>2 DEF WithNew
        <5>2. NewFile(o) \in File /\ NewFile(o).owner = o /\ NewFile(o).peer = NoName
          BY SomeNames DEF NewFile, File
        <5>. QED
          BY <5>1, <5>2, NoObjectAssumption
      <4>. QED
        BY <4>1, <4>2
    <3>4. CASE bound
      <4>. DEFINE chosen == IF name = AnyPort THEN Fresh ELSE name
      <4>1. open'[n] = [WithNew(o, n)[n] EXCEPT !.name = chosen]
        BY <2>2, <2>3, <3>2, <3>4
      <4>2. chosen \in Name
        BY <1>0, SomeNames DEF SocketTypeOK
      <4>. HIDE DEF chosen
      <4>3. open'[n] \in File /\ open'[n].owner = o /\ open'[n].name = chosen
            /\ open'[n].peer = WithNew(o, n)[n].peer
        BY <3>3, <4>1, <4>2 DEF File
      <4>4. name \in {NoName, AnyPort, chosen}
        BY DEF chosen
      <4>. QED
        BY <3>1, <3>3, <4>3, <4>4, NoObjectAssumption DEF Owns
    <3>5. CASE ~bound
      <4>1. open'[n] = WithNew(o, n)[n] /\ o \in past'.kept
        BY <2>2, <2>6, <3>5
      <4>. QED
        BY <3>1, <3>3, <4>1 DEF Owns
    <3>. QED
      BY <3>4, <3>5
  <2>. QED
    BY <1>g, <2>4, <2>6, <2>10, <2>11
<1>4. ASSUME NEW f \in Fibers, NEW o \in Objects, Listen(f, o) PROVE Goal
  <2>. DEFINE n == sock[o].fd
  <2>1. /\ Op(f, o) /\ call' = call /\ sock' = sock /\ n \in Numbers /\ open[n] \in File
        /\ sock[o] # NoObject
    BY <1>0, <1>4, <1>o DEF Listen
  <2>2. /\ open' = [open EXCEPT ![n].listens = TRUE, ![n].name = IF @ = NoName THEN Fresh ELSE @]
        /\ past' = Reach(Overlaps(o), o, n)
    BY <1>4 DEF Listen
  <2>3. /\ past'.foreign \subseteq past'.shared \cup past'.reached
        /\ past'.kept = past.kept
        /\ past.shared \subseteq past'.shared /\ past.reached \subseteq past'.reached
        /\ n # Closed /\ open[n] # NoObject => open[n].owner = o \/ open[n].owner \in past'.reached
        /\ o \notin past'.shared \cup past'.reached =>
             Undisturbed(o) /\ \A g \in Fibers : Closing(g) => call[g].on # o
    BY <1>r, <2>1, <2>2
  <2>4. \A m \in Numbers : m # n => open'[m] = open[m]
    BY <1>0, <2>2
  <2>5. open'[n] = [open[n] EXCEPT !.listens = TRUE, !.name = IF @ = NoName THEN Fresh ELSE @]
    BY <1>0, <2>1, <2>2
  <2>6. Fresh \in Name /\ open[n].name \in Name
    BY <2>1, SomeNames DEF SocketTypeOK, File
  <2>7. /\ open'[n] \in File /\ open'[n].owner = open[n].owner /\ open'[n].peer = open[n].peer
        /\ open[n].name # NoName => open'[n].name = open[n].name
    BY <2>1, <2>5, <2>6 DEF File
  <2>. HIDE DEF n
  <2>8. ASSUME NEW x \in Objects, x # o, Steady(x)' PROVE Owns(x)'
    BY <2>1, <2>3, <2>4, <2>8, OthersOwn
  <2>9. ASSUME Steady(o)' PROVE Owns(o)'
    <3>1. Undisturbed(o) /\ \A g \in Fibers : Closing(g) => call[g].on # o
      BY <2>3, <2>9 DEF Steady, Undisturbed
    <3>2. n # Closed
      BY <2>1 DEF Closed
    <3>3. Owns(o)
      BY <2>1, <3>1, <3>2, OwnOp DEF n
    <3>4. sock'[o].fd = n /\ sock'[o] = sock[o]
      BY <2>1 DEF n
    <3>. QED
      BY <2>3, <2>7, <3>3, <3>4, NoObjectAssumption DEF Owns, n
  <2>. QED
    BY <1>g, <2>3, <2>8, <2>9
<1>5. ASSUME NEW f \in Fibers, NEW o \in Objects, Op(f, o),
             NEW peer \in Name, peer # NoName, NEW local \in Name,
             ConnectTo(f, o, peer, local),
             past'.foreign = past.foreign, past'.reached = past.reached,
             past'.shared = Overlaps(o).shared,
             \A x \in Objects : x # o => (x \in past.kept => x \in past'.kept),
             local # NoName => local = sock[o].local,
             local # NoName /\ o \in past.kept => o \in past'.kept,
             local # NoName /\ sock[o].fd = Closed => o \in past'.kept
      PROVE  Goal
  <2>1. sock[o] # NoObject /\ sock[o] \in Object /\ ~In(f, "closed")
    BY <1>5, <1>o
  <2>2. PICK n \in Opened(o) :
          /\ sock' = [sock EXCEPT ![o].remote = peer, ![o].local = local, ![o].fd = n]
          /\ open' = WithNew(o, n)
          /\ call' = IF n = Closed \/ peer = Alien THEN call
                     ELSE [call EXCEPT ![f] = [pc |-> "connect", on |-> o, fd |-> n]]
    BY <1>5 DEF ConnectTo
  <2>3. /\ n \in Numbers \cup {Closed}
        /\ n # Closed /\ n # sock[o].fd => open[n] = NoObject
        /\ sock[o].fd # Closed => n = sock[o].fd
    BY <2>1, OpenedTyped
  <2>4. /\ past'.foreign \subseteq past'.shared \cup past'.reached
        /\ past.shared \subseteq past'.shared
        /\ o \notin past'.shared \cup past'.reached =>
             Undisturbed(o) /\ \A g \in Fibers : Closing(g) => call[g].on # o
    <3>1. /\ Overlaps(o).foreign \subseteq Overlaps(o).shared \cup Overlaps(o).reached
          /\ Overlaps(o).foreign = past.foreign /\ Overlaps(o).reached = past.reached
          /\ past.shared \subseteq Overlaps(o).shared
      BY <1>0, <1>v, OverlapsIs
    <3>2. o \notin Overlaps(o).shared \cup Overlaps(o).reached =>
            Undisturbed(o) /\ \A g \in Fibers : Closing(g) => call[g].on # o
      BY <1>v
    <3>. QED
      BY <1>5, <3>1, <3>2
  <2>5. \A m \in Numbers : open'[m] = IF m = n /\ n # sock[o].fd THEN NewFile(o) ELSE open[m]
    BY <1>0, <2>2, <2>3 DEF WithNew
  <2>6. \A g \in Fibers : In(g, "closed") => call'[g] = call[g]
    BY <1>0, <2>1, <2>2 DEF In
  <2>7. \A x \in Objects : x # o =>
          /\ sock'[x] = sock[x]
          /\ x \in past.shared \cup past.reached => x \in past'.shared \cup past'.reached
          /\ x \in past.kept => x \in past'.kept
    BY <1>0, <1>5, <2>2, <2>4
  <2>8. ASSUME NEW x \in Objects, x # o, Steady(x)' PROVE Owns(x)'
    <3>1. CASE n = sock[o].fd
      <4>1. \A m \in Numbers : m # Closed => open'[m] = open[m]
        BY <2>5, <3>1
      <4>2. Closed \in Numbers \cup {Closed}
        OBVIOUS
      <4>. QED
        BY <2>6, <2>7, <2>8, <4>1, <4>2, OthersOwn
    <3>2. CASE n # sock[o].fd
      <4>1. \A m \in Numbers : m # n => open'[m] = open[m]
        BY <2>5
      <4>2. n # Closed => open[n] = NoObject
        BY <2>3, <3>2
      <4>. QED
        BY <2>3, <2>6, <2>7, <2>8, <4>1, <4>2, OthersOwn
    <3>. QED
      BY <3>1, <3>2
  <2>9. ASSUME Steady(o)' PROVE Owns(o)'
    <3>1. sock'[o].local = local /\ sock'[o].fd = n /\ sock'[o].remote = peer
      BY <1>0, <2>1, <2>2 DEF Object
    <3>2. n \in Numbers /\ n # Closed /\ Undisturbed(o) /\ \A g \in Fibers : Closing(g) => call[g].on # o
      BY <2>3, <2>4, <2>9, <3>1 DEF Steady, Undisturbed
    <3>3. CASE n = sock[o].fd
      <4>1. Owns(o)
        BY <2>1, <3>2, <3>3, OwnOp
      <4>2. open'[n] = open[n]
        BY <2>5, <3>2, <3>3
      <4>. QED
        BY <1>5, <3>1, <3>3, <4>1, <4>2 DEF Owns
    <3>4. CASE n # sock[o].fd
      <4>1. open'[n] = NewFile(o)
        BY <2>5, <3>2, <3>4
      <4>2. NewFile(o) \in File /\ NewFile(o).owner = o
        BY SomeNames DEF NewFile, File
      <4>3. sock[o].fd = Closed
        BY <2>3, <3>4
      <4>. QED
        BY <1>5, <3>1, <4>1, <4>2, <4>3, NoObjectAssumption DEF Owns
    <3>. QED
      BY <3>3, <3>4
  <2>. QED
    BY <1>g, <2>4, <2>8, <2>9
<1>6. ASSUME NEW f \in Fibers, NEW o \in Objects, NEW peer \in {Port, Alien}, Connect(f, o, peer)
      PROVE  Goal
  <2>1. sock[o].local \in Name /\ Op(f, o) /\ ConnectTo(f, o, peer, sock[o].local)
    BY <1>6, <1>o DEF Connect, Object
  <2>. DEFINE added == {x \in {o} : sock[x].local # NoName /\ sock[x].fd = Closed}
  <2>2. past' = [Overlaps(o) EXCEPT !.kept = @ \cup added]
    BY <1>6 DEF Connect
  <2>3. sock[o].local # NoName /\ sock[o].fd = Closed => o \in added
    OBVIOUS
  <2>. HIDE DEF added
  <2>4. /\ past'.shared = Overlaps(o).shared /\ past'.foreign = past.foreign
        /\ past'.reached = past.reached /\ past'.kept = past.kept \cup added
    BY <1>0, <2>2, OverlapsIs DEF Past
  <2>5. peer # NoName
    BY DEF Port, Alien, NoName
  <2>. QED
    BY <1>5, <2>1, <2>3, <2>4, <2>5, SomeNames
<1>7. ASSUME NEW f \in Fibers, NEW o \in Objects, Reconnect(f, o) PROVE Goal
  <2>1. sock[o].remote \in Name /\ Op(f, o) /\ ConnectTo(f, o, sock[o].remote, NoName)
        /\ sock[o].remote # NoName
    BY <1>7, <1>o DEF Reconnect, Object
  <2>2. past' = [Overlaps(o) EXCEPT !.kept = @ \ {o}]
    BY <1>7 DEF Reconnect
  <2>3. /\ past'.shared = Overlaps(o).shared /\ past'.foreign = past.foreign
        /\ past'.reached = past.reached /\ past'.kept = past.kept \ {o}
    BY <1>0, <2>2, OverlapsIs DEF Past
  <2>. QED
    BY <1>5, <2>1, <2>3, SomeNames
\* The kernel's sockets and what the objects remember stay, and nobody ends a close().
<1>8. ASSUME open' = open,
             \A x \in Objects : sock'[x] = sock[x] \/
               /\ sock[x] # NoObject
               /\ sock'[x].fd = sock[x].fd /\ sock'[x].local = sock[x].local
               /\ sock'[x].remote = sock[x].remote,
             \A g \in Fibers : In(g, "closed") => call'[g] = call[g],
             past.shared \subseteq past'.shared, past.reached \subseteq past'.reached,
             past'.kept = past.kept,
             past'.foreign \subseteq past'.shared \cup past'.reached
      PROVE  Goal
  <2>1. ASSUME NEW x \in Objects, Steady(x)' PROVE Owns(x)'
    <3>1. Undisturbed(x)
      BY <1>8, <2>1 DEF Steady, Undisturbed
    <3>2. \A g \in Fibers : In(g, "closed") => call[g].on # x
      BY <1>8, <2>1 DEF Steady, In
    <3>3. sock[x] # NoObject /\ sock[x].fd # Closed
      BY <1>8, <2>1 DEF Steady
    <3>4. Owns(x)
      BY <3>1, <3>2, <3>3 DEF Holding, Steady
    <3>5. sock'[x].fd = sock[x].fd /\ sock'[x].local = sock[x].local /\ sock'[x].remote = sock[x].remote
      BY <1>8
    <3>. QED
      BY <1>8, <3>4, <3>5 DEF Owns
  <2>. QED
    BY <1>8, <1>g, <2>1
<1>9. ASSUME NEW f \in Fibers, NEW o \in Objects, Accept(f, o) \/ Transfer(f, o) PROVE Goal
  <2>1. /\ Op(f, o) /\ sock' = sock /\ open' = open /\ past' = Overlaps(o)
        /\ \E p \in Place : Enter(f, o, p)
    BY <1>9 DEF Accept, Transfer, Place
  <2>2. \A g \in Fibers : In(g, "closed") => call'[g] = call[g]
    BY <1>0, <1>o, <2>1 DEF Enter, In
  <2>3. /\ past.shared \subseteq past'.shared /\ past'.reached = past.reached
        /\ past'.kept = past.kept /\ past'.foreign \subseteq past'.shared \cup past'.reached
    BY <1>v, <2>1
  <2>. QED
    BY <1>8, <2>1, <2>2, <2>3
<1>10. ASSUME NEW f \in Fibers, NEW o \in Objects, Close(f, o) PROVE Goal
  <2>1. /\ Op(f, o) /\ sock' = [sock EXCEPT ![o].connected = FALSE] /\ open' = open
        /\ call' = call \/ Enter(f, o, "close")
    BY <1>10 DEF Close
  <2>2. sock[o] # NoObject /\ sock[o] \in Object /\ ~In(f, "closed")
    BY <1>o, <2>1
  <2>3. \A g \in Fibers : In(g, "closed") => call'[g] = call[g]
    BY <1>0, <2>1, <2>2 DEF Enter, In
  <2>4. \A x \in Objects : x # o => sock'[x] = sock[x]
    BY <1>0, <2>1
  <2>5. sock'[o].fd = sock[o].fd /\ sock'[o].local = sock[o].local /\ sock'[o].remote = sock[o].remote
    BY <1>0, <2>1, <2>2 DEF Object
  <2>6. /\ past'.shared = past.shared \cup {x \in {o} : Users(x) # {}}
        /\ past'.reached = past.reached /\ past'.kept = past.kept /\ past'.foreign = past.foreign
    BY <1>0, <1>10 DEF Close, Past
  <2>7. past.shared \subseteq past'.shared /\ past'.foreign \subseteq past'.shared \cup past'.reached
    BY <1>0, <2>6
  <2>. QED
    BY <1>8, <2>1, <2>2, <2>3, <2>4, <2>5, <2>6, <2>7
<1>11. ASSUME NEW f \in Fibers, ConnectFails(f) PROVE Goal
  <2>. DEFINE o == call[f].on
  <2>1. o \in Objects /\ sock[o] # NoObject /\ sock[o] \in Object
    BY <1>11, <1>u DEF ConnectFails, In, Using
  <2>2. sock' = [sock EXCEPT ![o].connected = FALSE] /\ open' = open
    BY <1>11 DEF ConnectFails
  <2>3. \A g \in Fibers : In(g, "closed") => call'[g] = call[g]
    BY <1>0, <1>11 DEF ConnectFails, In
  <2>4. \A x \in Objects : x # o => sock'[x] = sock[x]
    BY <1>0, <2>2
  <2>5. sock'[o].fd = sock[o].fd /\ sock'[o].local = sock[o].local /\ sock'[o].remote = sock[o].remote
    BY <1>0, <2>1, <2>2 DEF Object
  <2>6. /\ past'.shared = past.shared \cup {x \in {o} : Users(x) # {f}}
        /\ past'.reached = past.reached /\ past'.kept = past.kept /\ past'.foreign = past.foreign
    BY <1>0, <1>11 DEF ConnectFails, Past
  <2>7. past.shared \subseteq past'.shared /\ past'.foreign \subseteq past'.shared \cup past'.reached
    BY <1>0, <2>6
  <2>. QED
    BY <1>8, <2>1, <2>2, <2>3, <2>4, <2>5, <2>6, <2>7
<1>12. ASSUME NEW f \in Fibers, Ends(f) PROVE Goal
  <2>1. Using(f) /\ ~In(f, "closed") /\ call[f].on \in Objects /\ call[f].fd \in Numbers \cup {Closed}
    BY <1>12, <1>u DEF Ends, In, Using
  <2>2. sock' = sock /\ open' = open /\ Exit(f) /\ past' = Reach(past, call[f].on, call[f].fd)
    BY <1>12 DEF Ends
  <2>3. \A g \in Fibers : In(g, "closed") => call'[g] = call[g]
    BY <1>0, <2>1, <2>2 DEF Exit, In
  <2>4. /\ past'.shared = past.shared /\ past'.kept = past.kept
        /\ past.reached \subseteq past'.reached
    BY <1>0, <2>1, <2>2, ReachIs
  <2>5. call[f].on \notin past.shared \cup past.reached =>
          call[f].fd = Closed \/ (open[call[f].fd] # NoObject /\ open[call[f].fd].owner = call[f].on)
    BY <2>1, OwnCall DEF Undisturbed
  <2>6. past'.foreign \subseteq past'.shared \cup past'.reached
    BY <1>0, <2>1, <2>2, <2>5, ReachOwn
  <2>. QED
    BY <1>8, <2>2, <2>3, <2>4, <2>6
<1>13. ASSUME NEW f \in Fibers, CloseCall(f) PROVE Goal
  <2>. DEFINE o == call[f].on
              n == sock[o].fd
  <2>1. Using(f) /\ ~In(f, "closed") /\ o \in Objects /\ n \in Numbers \cup {Closed}
    BY <1>13, <1>u DEF CloseCall, In, Using
  <2>2. /\ open' = IF n = Closed THEN open ELSE [open EXCEPT ![n] = NoObject]
        /\ call' = [call EXCEPT ![f].pc = "closed"]
        /\ past' = Reach(past, o, n) /\ sock' = sock
    BY <1>13 DEF CloseCall
  <2>3. /\ past'.shared = past.shared /\ past'.kept = past.kept
        /\ past.reached \subseteq past'.reached
        /\ n # Closed /\ open[n] # NoObject => open[n].owner = o \/ open[n].owner \in past'.reached
    BY <1>0, <2>1, <2>2, ReachIs
  <2>4. o \notin past.shared \cup past.reached =>
          n = Closed \/ (open[n] # NoObject /\ open[n].owner = o)
    BY <2>1, OwnCall DEF Undisturbed
  <2>5. past'.foreign \subseteq past'.shared \cup past'.reached
    BY <1>0, <2>1, <2>2, <2>4, ReachOwn
  <2>6. \A m \in Numbers : m # n => open'[m] = open[m]
    BY <1>0, <2>2
  <2>7. \A g \in Fibers : In(g, "closed") => call'[g] = call[g]
    BY <1>0, <2>1, <2>2 DEF In
  <2>8. ASSUME NEW x \in Objects, x # o, Steady(x)' PROVE Owns(x)'
    BY <2>1, <2>2, <2>3, <2>6, <2>7, <2>8, OthersOwn
  <2>9. ASSUME NEW x \in Objects, x = o PROVE ~Steady(x)'
    <3>1. call'[f].pc = "closed" /\ call'[f].on = o
      BY <1>0, <2>2 DEF Call
    <3>. QED
      BY <2>9, <3>1 DEF Steady, In
  <2>10. \A x \in Objects : Steady(x)' => Owns(x)'
    BY <2>8, <2>9
  <2>. QED
    BY <1>g, <2>5, <2>10
<1>14. ASSUME NEW f \in Fibers, CloseEnds(f) PROVE Goal
  <2>. DEFINE o == call[f].on
  <2>1. Using(f) /\ o \in Objects /\ sock[o] \in Object
    BY <1>14, <1>u DEF CloseEnds, In, Using
  <2>2. sock' = [sock EXCEPT ![o].fd = Closed] /\ Exit(f) /\ open' = open /\ past' = past
    BY <1>14 DEF CloseEnds
  <2>3. \A g \in Fibers : In(g, "closed") /\ call[g].on # o => call'[g] = call[g]
    BY <1>0, <2>2 DEF Exit
  <2>4. \A x \in Objects : x # o => sock'[x] = sock[x]
    BY <1>0, <2>2
  <2>5. Closed \in Numbers \cup {Closed}
    OBVIOUS
  <2>6. ASSUME NEW x \in Objects, x # o, Steady(x)' PROVE Owns(x)'
    BY <2>1, <2>2, <2>3, <2>4, <2>5, <2>6, OthersOwn
  <2>7. ASSUME NEW x \in Objects, x = o PROVE ~Steady(x)'
    <3>1. sock'[x].fd = Closed
      BY <1>0, <2>1, <2>2, <2>7 DEF Object
    <3>. QED
      BY <3>1 DEF Steady
  <2>8. \A x \in Objects : Steady(x)' => Owns(x)'
    BY <2>6, <2>7
  <2>. QED
    BY <1>0, <1>g, <2>2, <2>8
<1>15. ASSUME NEW f \in Fibers, NEW c \in Objects, NEW m \in Numbers, Accepted(f, c, m) PROVE Goal
  <2>. DEFINE o == call[f].on
              n == call[f].fd
              new == [owner |-> c, name |-> open[n].name, peer |-> Port, listens |-> FALSE]
  <2>1. /\ Using(f) /\ ~In(f, "closed") /\ o \in Objects /\ n \in Numbers
        /\ sock[o] # NoObject /\ open[n] \in File
    BY <1>0, <1>15, <1>u DEF Accepted, In, Using
  <2>2. /\ sock[c] = NoObject /\ open[m] = NoObject
        /\ open' = [open EXCEPT ![m] = new]
        /\ sock' = [sock EXCEPT ![c] = [fd |-> m, connected |-> TRUE,
                                        local |-> open[n].name, remote |-> Port]]
        /\ Exit(f) /\ past' = Reach(Forget(past, c), o, n)
    BY <1>15 DEF Accepted
  <2>3. new \in File
    BY <2>1, SomeNames DEF File
  <2>4. new # NoObject /\ new.owner = c /\ new.name = open[n].name
    BY <2>3, NoObjectAssumption
  <2>. HIDE DEF new
  <2>5. /\ Forget(past, c) \in Past
        /\ Forget(past, c).foreign = past.foreign \ {c} /\ Forget(past, c).reached = past.reached \ {c}
        /\ Forget(past, c).shared = past.shared \ {c} /\ Forget(past, c).kept = past.kept \ {c}
    BY <1>0, ForgetIs
  <2>6. /\ past'.shared = past.shared \ {c} /\ past'.kept = past.kept \ {c}
        /\ past.reached \ {c} \subseteq past'.reached
    <3>1. ASSUME NEW y \in Past
          PROVE  /\ Reach(y, o, n).shared = y.shared /\ Reach(y, o, n).kept = y.kept
                 /\ y.reached \subseteq Reach(y, o, n).reached
      <4>1. Reach(y, o, n).shared = y.shared /\ Reach(y, o, n).kept = y.kept
        BY <2>1, ReachIs
      <4>2. y.reached \subseteq Reach(y, o, n).reached
        BY <2>1, ReachIs
      <4>. QED
        BY <4>1, <4>2
    <3>. QED
      BY <2>2, <2>5, <3>1
  <2>7. o \notin past.shared \cup past.reached =>
          n = Closed \/ (open[n] # NoObject /\ open[n].owner = o)
    BY <2>1, OwnCall DEF Undisturbed
  <2>8. past'.foreign \subseteq past'.shared \cup past'.reached
    <3>1. c # o
      BY <2>1, <2>2
    <3>2. ASSUME NEW y \in Past, y.foreign \subseteq y.shared \cup y.reached,
                 o \notin y.shared \cup y.reached => o \notin past.shared \cup past.reached
          PROVE  Reach(y, o, n).foreign \subseteq Reach(y, o, n).shared \cup Reach(y, o, n).reached
      BY <2>1, <2>7, <3>2, ReachOwn
    <3>3. Forget(past, c).foreign \subseteq Forget(past, c).shared \cup Forget(past, c).reached
      BY <1>0, <2>5
    <3>4. o \notin Forget(past, c).shared \cup Forget(past, c).reached =>
            o \notin past.shared \cup past.reached
      BY <2>5, <3>1
    <3>. QED
      BY <2>2, <2>5, <3>2, <3>3, <3>4
  <2>9. \A x \in Numbers : x # m => open'[x] = open[x]
    BY <1>0, <2>2
  <2>10. \A x \in Objects : x # c =>
           /\ sock'[x] = sock[x]
           /\ x \in past.shared \cup past.reached => x \in past'.shared \cup past'.reached
           /\ x \in past.kept => x \in past'.kept
    BY <1>0, <2>2, <2>6
  <2>11. \A g \in Fibers : In(g, "closed") => call'[g] = call[g]
    BY <1>0, <2>1, <2>2 DEF Exit, In
  <2>12. ASSUME NEW x \in Objects, x # c, Steady(x)' PROVE Owns(x)'
    BY <2>2, <2>9, <2>10, <2>11, <2>12, OthersOwn
  <2>13. Owns(c)'
    <3>1. /\ sock'[c] = [fd |-> m, connected |-> TRUE, local |-> open[n].name, remote |-> Port]
          /\ open'[m] = new
      BY <1>0, <2>2
    <3>2. Port # NoName
      BY DEF Port, NoName
    <3>. QED
      BY <2>4, <3>1, <3>2 DEF Owns
  <2>. QED
    BY <1>g, <2>8, <2>12, <2>13
<1>16. ASSUME NEW f \in Fibers, Connected(f) PROVE Goal
  <2>. DEFINE o == call[f].on
              n == call[f].fd
              made == [open EXCEPT ![n].peer = Port, ![n].name = IF @ = NoName THEN Fresh ELSE @]
  <2>1. /\ Using(f) /\ ~In(f, "closed") /\ o \in Objects /\ n \in Numbers
        /\ sock[o] # NoObject /\ sock[o] \in Object /\ sock[o].fd \in Numbers \cup {Closed}
        /\ open[n] # NoObject /\ open[n] \in File
    BY <1>0, <1>16, <1>u DEF Connected, In, Using
  <2>2. /\ open' = made
        /\ sock' = [sock EXCEPT ![o].connected = TRUE,
                                ![o].local = Ask(@, sock[o].fd, made, "name")]
        /\ Exit(f) /\ past' = Reach(Reach(past, o, n), o, sock[o].fd)
    BY <1>16 DEF Connected
  <2>3. ASSUME NEW y \in Past, NEW d \in Numbers \cup {Closed}
        PROVE  /\ Reach(y, o, d) \in Past
               /\ Reach(y, o, d).shared = y.shared /\ Reach(y, o, d).kept = y.kept
               /\ y.reached \subseteq Reach(y, o, d).reached
               /\ d # Closed /\ open[d] # NoObject =>
                    open[d].owner = o \/ open[d].owner \in Reach(y, o, d).reached
    <3>1. Reach(y, o, d) \in Past
      BY <2>1, ReachIs
    <3>2. Reach(y, o, d).shared = y.shared /\ Reach(y, o, d).kept = y.kept
      BY <2>1, ReachIs
    <3>3. y.reached \subseteq Reach(y, o, d).reached
      BY <2>1, ReachIs
    <3>4. d # Closed /\ open[d] # NoObject => open[d].owner = o \/ open[d].owner \in Reach(y, o, d).reached
      BY <2>1, ReachIs
    <3>. QED
      BY <3>1, <3>2, <3>3, <3>4
  <2>. DEFINE p == Reach(past, o, n)
  <2>4. p \in Past /\ p.shared = past.shared /\ p.kept = past.kept /\ past.reached \subseteq p.reached
        /\ (open[n].owner = o \/ open[n].owner \in p.reached)
    <3>1. n # Closed
      BY <2>1 DEF Closed
    <3>. QED
      BY <1>0, <2>1, <2>3, <3>1
  <2>5. o \notin past.shared \cup past.reached =>
          /\ sock[o].fd = Closed \/ (open[sock[o].fd] # NoObject /\ open[sock[o].fd].owner = o)
          /\ n \in {Closed, sock[o].fd}
    BY <2>1, OwnCall DEF Undisturbed
  <2>6. p.foreign \subseteq p.shared \cup p.reached
    <3>1. o \notin past.shared \cup past.reached =>
            n = Closed \/ (open[n] # NoObject /\ open[n].owner = o)
      BY <2>5
    <3>. QED
      BY <1>0, <2>1, <3>1, ReachOwn
  <2>7. past' = Reach(p, o, sock[o].fd)
    BY <2>2
  <2>. HIDE DEF p
  <2>8. past'.foreign \subseteq past'.shared \cup past'.reached
    BY <2>1, <2>4, <2>5, <2>6, <2>7, ReachOwn
  <2>9. /\ past'.shared = past.shared /\ past'.kept = past.kept
        /\ past.reached \subseteq past'.reached
        /\ open[n].owner = o \/ open[n].owner \in past'.reached
    BY <2>1, <2>3, <2>4, <2>7
  <2>10. \A m \in Numbers : m # n => open'[m] = open[m]
    BY <1>0, <2>2
  <2>11. open'[n] = [open[n] EXCEPT !.peer = Port, !.name = IF @ = NoName THEN Fresh ELSE @]
    BY <1>0, <2>1, <2>2
  <2>12. Fresh \in Name
    BY SomeNames DEF SocketTypeOK
  <2>13. /\ open'[n] \in File /\ open'[n].owner = open[n].owner
         /\ open[n].name # NoName => open'[n].name = open[n].name
    BY <2>1, <2>11, <2>12, SomeNames DEF File
  <2>. HIDE DEF made
  <2>14. \A x \in Objects : x # o => sock'[x] = sock[x]
    BY <1>0, <2>2
  <2>15. \A g \in Fibers : In(g, "closed") => call'[g] = call[g]
    BY <1>0, <2>1, <2>2 DEF Exit, In
  <2>16. ASSUME NEW x \in Objects, x # o, Steady(x)' PROVE Owns(x)'
    <3>1. \A z \in Objects : z # o =>
            /\ sock'[z] = sock[z]
            /\ z \in past.shared \cup past.reached => z \in past'.shared \cup past'.reached
            /\ z \in past.kept => z \in past'.kept
      BY <2>9, <2>14
    <3>2. n \in Numbers \cup {Closed} /\ o \in Objects
      BY <2>1
    <3>. HIDE DEF o, n
    <3>. QED
      BY <2>9, <2>10, <2>15, <2>16, <3>1, <3>2, OthersOwn
  <2>17. ASSUME NEW x \in Objects, x = o, Steady(x)' PROVE Owns(x)'
    <3>1. o \notin past.shared \cup past.reached
      BY <2>9, <2>17 DEF Steady, Undisturbed
    <3>2. n = sock[o].fd
      BY <2>1, <2>5, <3>1 DEF Closed
    <3>3. sock'[o].fd = n /\ sock'[o].remote = sock[o].remote
          /\ sock'[o].local = Ask(sock[o].local, n, made, "name")
      BY <1>0, <2>1, <2>2, <3>2 DEF Object
    <3>4. sock[o].remote # NoName
      BY <1>16 DEF Connected, CallInv, Asking
    <3>5. \A g \in Fibers : In(g, "closed") => call[g].on # o
      BY <2>15, <2>17 DEF Steady, In
    <3>6. n # Closed
      BY <2>1 DEF Closed
    <3>7. Steady(x)
      BY <2>1, <2>17, <3>1, <3>2, <3>5, <3>6 DEF Steady, Undisturbed
    <3>8. Owns(x)
      BY <3>7 DEF Holding
    <3>9. sock'[o].local \in {NoName, AnyPort, open'[n].name} \/ o \in past'.kept
      <4>1. CASE sock[o].local = NoName
        <5>1. made[n] # NoObject
          BY <2>2, <2>13, NoObjectAssumption
        <5>2. sock'[o].local = open'[n].name
          BY <2>2, <3>3, <3>6, <4>1, <5>1 DEF Ask
        <5>. QED
          BY <5>2
      <4>2. CASE sock[o].local # NoName
        <5>1. sock'[o].local = sock[o].local
          BY <3>3, <4>2 DEF Ask
        <5>2. sock[o].local \in {AnyPort, open[n].name} \/ o \in past.kept
          BY <2>17, <3>2, <3>8, <4>2 DEF Owns
        <5>. QED
          BY <2>9, <2>13, <4>2, <5>1, <5>2
      <4>. QED
        BY <4>1, <4>2
    <3>10. open[n].owner = o
      BY <2>17, <3>2, <3>8 DEF Owns
    <3>. QED
      BY <2>13, <2>17, <3>3, <3>4, <3>9, <3>10, NoObjectAssumption DEF Owns
  <2>18. \A x \in Objects : Steady(x)' => Owns(x)'
    BY <2>16, <2>17
  <2>. QED
    BY <1>g, <2>8, <2>18
<1>17. ASSUME UNCHANGED socketVars PROVE Goal
  BY <1>17 DEF socketVars, Goal, Holding, OwnNumber, Steady, Owns, Undisturbed, In
<1>18. SocketNext => Goal
  BY <1>1, <1>2, <1>3, <1>4, <1>6, <1>7, <1>9, <1>10, <1>11, <1>12, <1>13, <1>14, <1>15, <1>16
     DEF SocketNext
<1>19. Goal
  BY <1>17, <1>18
<1>. QED
  BY <1>19 DEF Goal

\* Which names there are: a peer that was asked for, and the peer of a connection.
NamesKnown ==
  /\ \A o \in Objects : sock[o] # NoObject => sock[o].remote \in {NoName, Port, Alien}
  /\ \A n \in Numbers : open[n] # NoObject => open[n].peer \in {NoName, Port}

LEMMA NamesKnownNext ==
  SocketTypeOK /\ CallInv /\ NamesKnown /\ [SocketNext]_socketVars => NamesKnown'
<1>. SUFFICES ASSUME SocketTypeOK, CallInv, NamesKnown, [SocketNext]_socketVars PROVE NamesKnown'
  OBVIOUS
<1>. DEFINE Goal == NamesKnown'
<1>0. /\ sock \in [Objects -> {NoObject} \cup Object]
      /\ open \in [Numbers -> {NoObject} \cup File]
      /\ call \in [Fibers -> Call]
  BY DEF SocketTypeOK, Call, Place
\* One object and one number change.
<1>1. ASSUME NEW o \in Objects, NEW n \in Numbers \cup {Closed},
             \A x \in Objects : x # o => sock'[x] = sock[x],
             sock'[o] = NoObject \/ sock'[o].remote \in {NoName, Port, Alien},
             \A m \in Numbers : m # n => open'[m] = open[m],
             n # Closed => open'[n] = NoObject \/ open'[n].peer \in {NoName, Port}
      PROVE  Goal
  <2>1. ASSUME NEW x \in Objects, sock'[x] # NoObject PROVE sock'[x].remote \in {NoName, Port, Alien}
    BY <1>1, <2>1 DEF NamesKnown
  <2>2. ASSUME NEW m \in Numbers, open'[m] # NoObject PROVE open'[m].peer \in {NoName, Port}
    <3>1. CASE m = n
      BY <1>1, <2>2, <3>1 DEF Closed
    <3>2. CASE m # n
      BY <1>1, <2>2, <3>2 DEF NamesKnown
    <3>. QED
      BY <3>1, <3>2
  <2>. QED
    BY <2>1, <2>2 DEF NamesKnown
<1>. HIDE DEF Goal
<1>o. ASSUME NEW f \in Fibers, NEW o \in Objects, Op(f, o)
      PROVE  /\ sock[o] # NoObject /\ sock[o] \in Object
             /\ sock[o].fd \in Numbers \cup {Closed}
             /\ sock[o].remote \in {NoName, Port, Alien}
  BY <1>0, <1>o DEF Op, Object, NamesKnown
<1>u. ASSUME NEW f \in Fibers, Using(f)
      PROVE  /\ call[f].on \in Objects /\ sock[call[f].on] # NoObject /\ sock[call[f].on] \in Object
             /\ sock[call[f].on].fd \in Numbers \cup {Closed}
             /\ sock[call[f].on].remote \in {NoName, Port, Alien}
             /\ call[f].fd \in Numbers \cup {Closed}
             /\ call[f].pc \in {"connect", "accept"} => call[f].fd \in Numbers
  BY <1>0, <1>u DEF CallInv, Present, Call, Object, NamesKnown
<1>c. Closed \in Numbers \cup {Closed}
  OBVIOUS
<1>w. ASSUME NEW o \in Objects, sock[o] # NoObject, NEW n \in Opened(o)
      PROVE  /\ n \in Numbers \cup {Closed}
             /\ \A m \in Numbers : m # n => WithNew(o, n)[m] = open[m]
             /\ n # Closed => WithNew(o, n)[n] = NoObject \/ WithNew(o, n)[n].peer \in {NoName, Port}
  <2>1. n \in Numbers \cup {Closed}
    BY <1>w, OpenedTyped
  <2>2. NewFile(o).peer = NoName
    BY DEF NewFile
  <2>. QED
    BY <1>0, <2>1, <2>2 DEF WithNew, NamesKnown
<1>2. ASSUME NEW f \in Fibers, NEW o \in Objects, NEW udp \in BOOLEAN, Create(f, o, udp) PROVE Goal
  <2>1. PICK n \in Numbers \cup {Closed} :
          /\ sock' = [sock EXCEPT ![o] = [fd |-> n, connected |-> udp,
                                          local |-> NoName, remote |-> NoName]]
          /\ open' = IF n = Closed THEN open ELSE [open EXCEPT ![n] = NewFile(o)]
    BY <1>2 DEF Create
  <2>2. n # Closed => open'[n].peer = NoName
    BY <1>0, <2>1 DEF NewFile
  <2>3. sock'[o].remote = NoName /\ \A x \in Objects : x # o => sock'[x] = sock[x]
    BY <1>0, <2>1
  <2>4. \A m \in Numbers : m # n => open'[m] = open[m]
    BY <1>0, <2>1
  <2>. QED
    BY <1>1, <2>2, <2>3, <2>4
<1>3. ASSUME NEW f \in Fibers, NEW o \in Objects, NEW name \in {Port, AnyPort}, Bind(f, o, name)
      PROVE  Goal
  <2>1. PICK n \in Opened(o), bound \in BOOLEAN :
          /\ sock' = [sock EXCEPT ![o].local = name, ![o].fd = n]
          /\ bound => n # Closed /\ WithNew(o, n)[n] # NoObject
          /\ open' = IF bound
                     THEN [WithNew(o, n) EXCEPT ![n].name = IF name = AnyPort THEN Fresh ELSE name]
                     ELSE WithNew(o, n)
    BY <1>3 DEF Bind
  <2>2. sock[o] # NoObject /\ sock[o] \in Object /\ sock[o].remote \in {NoName, Port, Alien}
    BY <1>3, <1>o DEF Bind
  <2>3. /\ n \in Numbers \cup {Closed}
        /\ \A m \in Numbers : m # n => WithNew(o, n)[m] = open[m]
        /\ n # Closed => WithNew(o, n)[n] = NoObject \/ WithNew(o, n)[n].peer \in {NoName, Port}
        /\ WithNew(o, n) \in [Numbers -> {NoObject} \cup File]
    BY <1>w, <2>2, OpenedTyped
  <2>4. sock'[o].remote = sock[o].remote /\ \A x \in Objects : x # o => sock'[x] = sock[x]
    BY <1>0, <2>1, <2>2 DEF Object
  <2>5. \A m \in Numbers : m # n => open'[m] = open[m]
    BY <2>1, <2>3
  <2>6. ASSUME n # Closed PROVE open'[n] = NoObject \/ open'[n].peer \in {NoName, Port}
    <3>1. CASE bound
      <4>1. WithNew(o, n)[n] \in File
        BY <2>1, <2>3, <3>1
      <4>2. open'[n].peer = WithNew(o, n)[n].peer
        BY <2>1, <2>3, <2>6, <3>1, <4>1 DEF File
      <4>. QED
        BY <2>1, <2>3, <2>6, <3>1, <4>2
    <3>2. CASE ~bound
      BY <2>1, <2>3, <2>6, <3>2
    <3>. QED
      BY <3>1, <3>2
  <2>. QED
    BY <1>1, <2>2, <2>3, <2>4, <2>5, <2>6
<1>4. ASSUME NEW f \in Fibers, NEW o \in Objects, Listen(f, o) PROVE Goal
  <2>. DEFINE n == sock[o].fd
  <2>1. n \in Numbers /\ open[n] # NoObject /\ open[n] \in File /\ open[n].peer = NoName
        /\ sock[o].remote \in {NoName, Port, Alien}
    BY <1>0, <1>4, <1>o DEF Listen
  <2>2. /\ open' = [open EXCEPT ![n].listens = TRUE, ![n].name = IF @ = NoName THEN Fresh ELSE @]
        /\ sock' = sock
    BY <1>4 DEF Listen
  <2>3. open'[n].peer = NoName
    BY <1>0, <2>1, <2>2 DEF File
  <2>4. \A m \in Numbers : m # n => open'[m] = open[m]
    BY <1>0, <2>2
  <2>. HIDE DEF n
  <2>. QED
    BY <1>1, <2>1, <2>2, <2>3, <2>4
<1>5. ASSUME NEW f \in Fibers, NEW o \in Objects, Op(f, o), NEW peer \in {NoName, Port, Alien},
             NEW local, ConnectTo(f, o, peer, local)
      PROVE  Goal
  <2>1. PICK n \in Opened(o) :
          /\ sock' = [sock EXCEPT ![o].remote = peer, ![o].local = local, ![o].fd = n]
          /\ open' = WithNew(o, n)
    BY <1>5 DEF ConnectTo
  <2>2. sock[o] # NoObject /\ sock[o] \in Object
    BY <1>5, <1>o
  <2>3. sock'[o].remote = peer /\ \A x \in Objects : x # o => sock'[x] = sock[x]
    BY <1>0, <2>1, <2>2 DEF Object
  <2>4. /\ n \in Numbers \cup {Closed}
        /\ \A m \in Numbers : m # n => open'[m] = open[m]
        /\ n # Closed => open'[n] = NoObject \/ open'[n].peer \in {NoName, Port}
    BY <1>w, <2>1, <2>2
  <2>. QED
    BY <1>1, <1>5, <2>3, <2>4
<1>6. ASSUME NEW f \in Fibers, NEW o \in Objects, NEW peer \in {Port, Alien}, Connect(f, o, peer)
      PROVE  Goal
  BY <1>5, <1>6 DEF Connect
<1>7. ASSUME NEW f \in Fibers, NEW o \in Objects, Reconnect(f, o) PROVE Goal
  BY <1>5, <1>7, <1>o DEF Reconnect
<1>8. ASSUME NEW f \in Fibers, NEW o \in Objects, Accept(f, o) \/ Transfer(f, o) PROVE Goal
  BY <1>8 DEF Accept, Transfer, Goal, NamesKnown
<1>9. ASSUME NEW f \in Fibers, NEW o \in Objects, Close(f, o) PROVE Goal
  <2>1. sock[o] \in Object /\ sock[o].remote \in {NoName, Port, Alien}
    BY <1>9, <1>o DEF Close
  <2>2. sock' = [sock EXCEPT ![o].connected = FALSE] /\ open' = open
    BY <1>9 DEF Close
  <2>3. sock'[o].remote = sock[o].remote /\ \A x \in Objects : x # o => sock'[x] = sock[x]
    BY <1>0, <2>1, <2>2 DEF Object
  <2>. QED
    BY <1>1, <1>c, <2>1, <2>2, <2>3
<1>10. ASSUME NEW f \in Fibers, NEW o \in Objects, Destroy(f, o) PROVE Goal
  <2>. DEFINE n == sock[o].fd
  <2>1. n \in Numbers \cup {Closed}
    BY <1>10, <1>o DEF Destroy
  <2>2. /\ sock' = [sock EXCEPT ![o] = NoObject]
        /\ open' = IF n = Closed THEN open ELSE [open EXCEPT ![n] = NoObject]
    BY <1>10 DEF Destroy
  <2>3. sock'[o] = NoObject /\ \A x \in Objects : x # o => sock'[x] = sock[x]
    BY <1>0, <2>2
  <2>4. (\A m \in Numbers : m # n => open'[m] = open[m]) /\ (n # Closed => open'[n] = NoObject)
    BY <1>0, <2>1, <2>2
  <2>. HIDE DEF n
  <2>. QED
    BY <1>1, <2>1, <2>3, <2>4
<1>11. ASSUME NEW f \in Fibers, Connected(f) PROVE Goal
  <2>. DEFINE o == call[f].on
              n == call[f].fd
              made == [open EXCEPT ![n].peer = Port, ![n].name = IF @ = NoName THEN Fresh ELSE @]
  <2>1. /\ o \in Objects /\ n \in Numbers /\ sock[o] \in Object
        /\ sock[o].remote \in {NoName, Port, Alien} /\ open[n] \in File
    BY <1>0, <1>11, <1>u DEF Connected, In, Using
  <2>2. /\ open' = made
        /\ sock' = [sock EXCEPT ![o].connected = TRUE,
                                ![o].local = Ask(@, sock[o].fd, made, "name")]
    BY <1>11 DEF Connected
  <2>3. (\A m \in Numbers : m # n => open'[m] = open[m]) /\ open'[n].peer = Port
    BY <1>0, <2>1, <2>2 DEF File
  <2>. HIDE DEF made
  <2>4. sock'[o].remote = sock[o].remote /\ \A x \in Objects : x # o => sock'[x] = sock[x]
    BY <1>0, <2>1, <2>2 DEF Object
  <2>. HIDE DEF o, n
  <2>. QED
    BY <1>1, <2>1, <2>3, <2>4
<1>12. ASSUME NEW f \in Fibers, ConnectFails(f) PROVE Goal
  <2>. DEFINE o == call[f].on
  <2>1. o \in Objects /\ sock[o] \in Object /\ sock[o].remote \in {NoName, Port, Alien}
    BY <1>12, <1>u DEF ConnectFails, In, Using
  <2>2. sock' = [sock EXCEPT ![o].connected = FALSE] /\ open' = open
    BY <1>12 DEF ConnectFails
  <2>3. sock'[o].remote = sock[o].remote /\ \A x \in Objects : x # o => sock'[x] = sock[x]
    BY <1>0, <2>1, <2>2 DEF Object
  <2>. HIDE DEF o
  <2>. QED
    BY <1>1, <1>c, <2>1, <2>2, <2>3
<1>13. ASSUME NEW f \in Fibers, NEW c \in Objects, NEW m \in Numbers, Accepted(f, c, m) PROVE Goal
  <2>1. PICK name : /\ open' = [open EXCEPT ![m] = [owner |-> c, name |-> name,
                                                    peer |-> Port, listens |-> FALSE]]
                    /\ sock' = [sock EXCEPT ![c] = [fd |-> m, connected |-> TRUE,
                                                    local |-> name, remote |-> Port]]
    BY <1>13 DEF Accepted
  <2>2. /\ sock'[c].remote = Port /\ \A x \in Objects : x # c => sock'[x] = sock[x]
        /\ open'[m].peer = Port /\ \A x \in Numbers : x # m => open'[x] = open[x]
    BY <1>0, <2>1
  <2>. QED
    BY <1>1, <2>2
<1>14. ASSUME NEW f \in Fibers, Ends(f) PROVE Goal
  BY <1>14 DEF Ends, Goal, NamesKnown
<1>15. ASSUME NEW f \in Fibers, CloseCall(f) PROVE Goal
  <2>. DEFINE o == call[f].on
              n == sock[o].fd
  <2>1. o \in Objects /\ n \in Numbers \cup {Closed} /\ sock[o].remote \in {NoName, Port, Alien}
    BY <1>15, <1>u DEF CloseCall, In, Using
  <2>2. sock' = sock /\ open' = IF n = Closed THEN open ELSE [open EXCEPT ![n] = NoObject]
    BY <1>15 DEF CloseCall
  <2>3. (\A m \in Numbers : m # n => open'[m] = open[m]) /\ (n # Closed => open'[n] = NoObject)
    BY <1>0, <2>1, <2>2
  <2>. HIDE DEF o, n
  <2>. QED
    BY <1>1, <2>1, <2>2, <2>3
<1>16. ASSUME NEW f \in Fibers, CloseEnds(f) PROVE Goal
  <2>. DEFINE o == call[f].on
  <2>1. o \in Objects /\ sock[o] \in Object /\ sock[o].remote \in {NoName, Port, Alien}
    BY <1>16, <1>u DEF CloseEnds, In, Using
  <2>2. sock' = [sock EXCEPT ![o].fd = Closed] /\ open' = open
    BY <1>16 DEF CloseEnds
  <2>3. sock'[o].remote = sock[o].remote /\ \A x \in Objects : x # o => sock'[x] = sock[x]
    BY <1>0, <2>1, <2>2 DEF Object
  <2>. HIDE DEF o
  <2>. QED
    BY <1>1, <1>c, <2>1, <2>2, <2>3
<1>17. ASSUME UNCHANGED socketVars PROVE Goal
  BY <1>17 DEF socketVars, Goal, NamesKnown
<1>18. SocketNext => Goal
  BY <1>2, <1>3, <1>4, <1>6, <1>7, <1>8, <1>9, <1>10, <1>11, <1>12, <1>13, <1>14, <1>15, <1>16
     DEF SocketNext
<1>19. Goal
  BY <1>17, <1>18
<1>. QED
  BY <1>19 DEF Goal

-----------------------------------------------------------------------------
(***************************************************************************)
(* The theorems.                                                           *)
(***************************************************************************)

SocketInv == SocketTypeOK /\ CallInv /\ Holding /\ OwnNumber /\ NamesKnown

LEMMA SocketInvInit == SocketInit => SocketInv
<1>. SUFFICES ASSUME SocketInit PROVE SocketInv
  OBVIOUS
<1>1. SocketTypeOK /\ Present
  BY SocketTypeInit
<1>2. Asking /\ Alone
  BY DEF SocketInit, Asking, Alone, In, Using
<1>3. Holding /\ NamesKnown
  BY DEF SocketInit, Holding, Steady, NamesKnown
<1>4. OwnNumber
  BY DEF SocketInit, OwnNumber
<1>. QED
  BY <1>1, <1>2, <1>3, <1>4 DEF SocketInv, CallInv

LEMMA SocketInvNext == SocketInv /\ [SocketNext]_socketVars => SocketInv'
BY SocketTypeNext, CallInvNext, HoldingNext, NamesKnownNext DEF SocketInv, CallInv

\* A Socket reaches another object's socket only when it was closed during a call on it,
\* or was itself reached before: the number that socket.cc keeps in m_sock is its own.
THEOREM ReachesItsOwn == SocketSpec => []OwnNumber
<1>1. SocketInv => OwnNumber
  BY DEF SocketInv
<1>. QED
  BY <1>1, SocketInvInit, SocketInvNext, PTL DEF SocketSpec

\* An object that nobody disturbed has an open socket behind its number, and remembers
\* that socket's names, but for the cases that Named tells.
THEOREM RemembersNames == SocketSpec => []Named
<1>1. SocketInv => Named
  <2>. SUFFICES ASSUME SocketInv, NEW o \in Objects \ (past.shared \cup past.reached),
                       sock[o] # NoObject, Users(o) = {}, sock[o].fd # Closed
                PROVE  /\ open[sock[o].fd] # NoObject
                       /\ sock[o].local \in {NoName, AnyPort, open[sock[o].fd].name} \/ o \in past.kept
                       /\ open[sock[o].fd].peer # NoName =>
                            sock[o].remote \in {open[sock[o].fd].peer, Alien}
    BY DEF Named
  <2>1. \A f \in Fibers : In(f, "closed") => call[f].on # o
    BY UsersAre DEF In, Using
  <2>2. Steady(o)
    BY <2>1 DEF Steady, Undisturbed
  <2>3. Owns(o)
    BY <2>2 DEF SocketInv, Holding
  <2>4. sock[o].fd \in Numbers
    BY DEF SocketInv, SocketTypeOK, Object
  <2>. QED
    BY <2>3, <2>4 DEF Owns, SocketInv, NamesKnown
<1>. QED
  BY <1>1, SocketInvInit, SocketInvNext, PTL DEF SocketSpec

-----------------------------------------------------------------------------
(***************************************************************************)
(* The server's types.                                                     *)
(***************************************************************************)

LoopRec == [pc : {"none", "test", "accept", "add", "wait"}, on : Listeners]
TaskRec == [at : Nat \cup {Idle, Queued}, cancelled : BOOLEAN]

\* Who walks over m_socks has not passed its end, while behaviour is defined.
InSocks ==
  ~broken =>
    /\ starting <= Len(socks)
    /\ \A t \in Tasks : task[t].at <= Len(socks) /\ (task[t].cancelled => task[t].at > 0)

ServerInv == TcpServerTypeOK /\ InSocks

LEMMA ServerInvInit == TcpServerInit => ServerInv
<1>. SUFFICES ASSUME TcpServerInit PROVE ServerInv
  OBVIOUS
<1>1. (CHOOSE l \in Listeners : TRUE) \in Listeners
  BY TcpServerAssumption
<1>2. TcpServerTypeOK
  <2>1. loop \in [Loops -> LoopRec]
    BY <1>1 DEF TcpServerInit, LoopRec
  <2>2. task \in [Tasks -> TaskRec]
    BY DEF TcpServerInit, TaskRec, Resting, Idle
  <2>3. socks \in Seq(Listeners)
    BY DEF TcpServerInit
  <2>4. clients \in 0..MaxClients
    BY TcpServerAssumption DEF TcpServerInit
  <2>. QED
    BY <2>1, <2>2, <2>3, <2>4 DEF TcpServerInit, TcpServerTypeOK, LoopRec, TaskRec
<1>3. InSocks
  BY DEF TcpServerInit, InSocks, Resting, Idle
<1>. QED
  BY <1>2, <1>3 DEF ServerInv

LEMMA ServerInvNext == ServerInv /\ [TcpServerNext]_serverVars => ServerInv'
<1>. SUFFICES ASSUME ServerInv, [TcpServerNext]_serverVars PROVE ServerInv'
  OBVIOUS
<1>. DEFINE Goal == ServerInv'
<1>0. /\ keeps \in Keeps /\ socks \in Seq(Listeners) /\ isStop \in BOOLEAN
      /\ state \in [Listeners -> {"none", "open", "cancelled", "closed"}]
      /\ loop \in [Loops -> LoopRec] /\ starting \in Nat
      /\ task \in [Tasks -> TaskRec] /\ clients \in 0..MaxClients /\ broken \in BOOLEAN
      /\ Len(socks) \in Nat /\ MaxClients \in Nat
  BY TcpServerAssumption DEF ServerInv, TcpServerTypeOK, LoopRec, TaskRec
<1>1. ASSUME ~broken
      PROVE  /\ starting <= Len(socks)
             /\ \A t \in Tasks : task[t].at <= Len(socks) /\ (task[t].cancelled => task[t].at > 0)
  BY <1>1 DEF ServerInv, InSocks
<1>2. \A t \in Tasks : task[t].at \in Int /\ (task[t].at > 0 => task[t].at \in Nat)
  BY <1>0 DEF TaskRec, Idle, Queued
<1>3. ASSUME keeps' = keeps, socks' \in Seq(Listeners), isStop' \in BOOLEAN,
             state' \in [Listeners -> {"none", "open", "cancelled", "closed"}],
             loop' \in [Loops -> LoopRec], starting' \in Nat, task' \in [Tasks -> TaskRec],
             clients' \in 0..MaxClients, broken' \in BOOLEAN, InSocks'
      PROVE  Goal
  BY <1>0, <1>3 DEF ServerInv, TcpServerTypeOK, LoopRec, TaskRec
<1>. HIDE DEF Goal
<1>m. ASSUME NEW k \in Loops, NEW p \in {"none", "test", "accept", "add", "wait"}, Move(k, p)
      PROVE  loop' \in [Loops -> LoopRec]
  BY <1>0, <1>m DEF Move, LoopRec
<1>4. ASSUME NEW new \in SeqOf(Listeners, 2), NEW failed \in BOOLEAN, BindAll(new, failed) PROVE Goal
  <2>1. new \in Seq(Listeners)
    <3>1. PICK m \in 0..2 : new \in [1..m -> Listeners]
      BY DEF SeqOf
    <3>. QED
      BY <3>1
  <2>2. socks' \in Seq(Listeners)
    BY <1>0, <1>4, <2>1 DEF BindAll, Bound
  <2>. DEFINE gone == IF failed THEN Range(socks) \cup Range(new) ELSE Range(new) \ Range(Bound(new))
  <2>3. state' = [l \in Listeners |-> CASE l \in gone /\ ~Held(l) -> "closed"
                                        [] l \in Range(new) -> "open"
                                        [] OTHER -> state[l]]
    BY <1>4 DEF BindAll
  <2>. HIDE DEF gone
  <2>4. \A l \in Listeners : (CASE l \in gone /\ ~Held(l) -> "closed"
                                [] l \in Range(new) -> "open"
                                [] OTHER -> state[l]) \in {"none", "open", "cancelled", "closed"}
    BY <1>0
  <2>5. state' \in [Listeners -> {"none", "open", "cancelled", "closed"}]
    BY <2>3, <2>4
  <2>6. InSocks'
    <3>. SUFFICES ASSUME ~broken'
                  PROVE  /\ starting' <= Len(socks')
                         /\ \A t \in Tasks : task'[t].at <= Len(socks')
                                             /\ (task'[t].cancelled => task'[t].at > 0)
      BY DEF InSocks
    <3>1. starting' = 0 /\ task' = task /\ ~broken
          /\ (socks' = socks \/ \A t \in Tasks : ~(task[t].at > 0))
      BY <1>4 DEF BindAll
    <3>2. Len(socks') \in Nat
      BY <2>2
    <3>3. CASE socks' = socks
      BY <1>0, <1>1, <3>1, <3>3
    <3>4. CASE \A t \in Tasks : ~(task[t].at > 0)
      BY <1>1, <1>2, <3>1, <3>2, <3>4
    <3>. QED
      BY <3>1, <3>3, <3>4
  <2>. QED
    BY <1>0, <1>3, <1>4, <2>2, <2>5, <2>6 DEF BindAll
<1>5. ASSUME Start PROVE Goal
  <2>1. starting' \in Nat /\ starting' <= Len(socks)
    BY <1>0, <1>5 DEF Start
  <2>2. InSocks'
    BY <1>1, <1>5, <2>1 DEF Start, InSocks
  <2>. QED
    BY <1>0, <1>3, <1>5, <2>1, <2>2 DEF Start
<1>6. ASSUME StartOne PROVE Goal
  <2>1. ~broken /\ starting # 0 /\ starting \in 1..Len(socks)
    BY <1>0, <1>1, <1>6 DEF StartOne
  <2>2. socks[starting] \in Listeners
    BY <1>0, <2>1
  <2>3. loop' \in [Loops -> LoopRec]
    BY <1>0, <1>6, <2>2 DEF StartOne, LoopRec
  <2>4. starting' \in Nat /\ starting' <= Len(socks)
    BY <1>0, <1>6, <2>1 DEF StartOne
  <2>5. InSocks'
    BY <1>1, <1>6, <2>1, <2>4 DEF StartOne, InSocks
  <2>. QED
    BY <1>0, <1>3, <1>6, <2>3, <2>4, <2>5 DEF StartOne
\* A task of stop() goes to a place in m_socks.
<1>7. ASSUME NEW t \in Tasks, NEW r \in TaskRec, task' = [task EXCEPT ![t] = r],
             UNCHANGED <<socks, starting>>, ~broken, r.at <= Len(socks), r.cancelled => r.at > 0
      PROVE  task' \in [Tasks -> TaskRec] /\ InSocks'
  BY <1>0, <1>1, <1>7 DEF InSocks
<1>8. ASSUME NEW t \in Tasks, Stop(t) PROVE Goal
  <2>. DEFINE r == [task[t] EXCEPT !.at = Queued]
  <2>1. task[t] \in TaskRec /\ task[t].at = Idle /\ ~broken
    BY <1>0, <1>8 DEF Stop
  <2>2. r \in TaskRec /\ r.at = Queued /\ ~r.cancelled
    BY <1>1, <2>1 DEF TaskRec, Idle, Queued
  <2>3. task' = [task EXCEPT ![t] = r]
    BY <1>0, <1>8 DEF Stop
  <2>. HIDE DEF r
  <2>4. r.at <= Len(socks)
    BY <1>0, <2>2 DEF Queued
  <2>5. task' \in [Tasks -> TaskRec] /\ InSocks'
    BY <1>7, <1>8, <2>1, <2>2, <2>3, <2>4 DEF Stop
  <2>. QED
    BY <1>0, <1>3, <1>8, <2>5 DEF Stop
<1>9. ASSUME NEW t \in Tasks, TaskBegins(t) PROVE Goal
  <2>. DEFINE r == [task[t] EXCEPT !.at = IF socks = <<>> THEN Idle ELSE 1]
  <2>1. task[t] \in TaskRec /\ task[t].at = Queued /\ ~broken
    BY <1>0, <1>9 DEF TaskBegins
  <2>2. r \in TaskRec /\ ~r.cancelled /\ r.at <= Len(socks)
    BY <1>0, <1>1, <2>1 DEF TaskRec, Idle, Queued
  <2>3. task' = [task EXCEPT ![t] = r]
    BY <1>0, <1>9 DEF TaskBegins
  <2>. HIDE DEF r
  <2>4. task' \in [Tasks -> TaskRec] /\ InSocks'
    BY <1>7, <1>9, <2>1, <2>2, <2>3 DEF TaskBegins
  <2>. QED
    BY <1>0, <1>3, <1>9, <2>4 DEF TaskBegins
<1>10. ASSUME NEW t \in Tasks, CancelSock(t) PROVE Goal
  <2>. DEFINE r == [task[t] EXCEPT !.cancelled = TRUE]
  <2>1. task[t] \in TaskRec /\ task[t].at > 0 /\ ~broken /\ task[t].at <= Len(socks)
    BY <1>0, <1>1, <1>10 DEF CancelSock
  <2>2. r \in TaskRec /\ r.at = task[t].at
    BY <2>1 DEF TaskRec
  <2>3. task' = [task EXCEPT ![t] = r]
    BY <1>0, <1>10 DEF CancelSock
  <2>. HIDE DEF r
  <2>4. task' \in [Tasks -> TaskRec] /\ InSocks'
    BY <1>7, <1>10, <2>1, <2>2, <2>3 DEF CancelSock
  <2>5. socks[task[t].at] \in Listeners
    BY <1>0, <1>2, <2>1
  <2>6. state' \in [Listeners -> {"none", "open", "cancelled", "closed"}]
    BY <1>0, <1>10, <2>5 DEF CancelSock
  <2>7. loop' \in [Loops -> LoopRec]
    <3>1. \A k \in Loops : [loop[k] EXCEPT !.pc = "accept"] \in LoopRec /\ loop[k] \in LoopRec
      BY <1>0 DEF LoopRec
    <3>2. loop' = [k \in Loops |-> IF loop[k].on = socks[task[t].at] /\ LoopAt(k, "wait") /\ Listens(k)
                                   THEN [loop[k] EXCEPT !.pc = "accept"] ELSE loop[k]]
      BY <1>10 DEF CancelSock
    <3>. QED
      BY <3>1, <3>2
  <2>. QED
    BY <1>0, <1>3, <1>10, <2>4, <2>6, <2>7 DEF CancelSock
<1>11. ASSUME NEW t \in Tasks, CloseSock(t) PROVE Goal
  <2>. DEFINE last == task[t].at = Len(socks)
              r == IF last THEN Resting ELSE [at |-> task[t].at + 1, cancelled |-> FALSE]
  <2>1. task[t] \in TaskRec /\ ~broken /\ task[t].at > 0 /\ task[t].at <= Len(socks)
        /\ task[t].at \in Nat
    BY <1>0, <1>1, <1>2, <1>11 DEF CloseSock
  <2>2. r \in TaskRec /\ ~r.cancelled /\ (~last => r.at <= Len(socks)) /\ (last => r.at = Idle)
    BY <1>0, <2>1 DEF TaskRec, Resting, Idle
  <2>3. /\ task' = [task EXCEPT ![t] = r]
        /\ socks' = IF last THEN <<>> ELSE socks
        /\ starting' = starting
        /\ broken' = (last /\ (starting # 0 \/ \E u \in Tasks \ {t} : task[u].at > 0))
    BY <1>0, <1>11 DEF CloseSock
  <2>4. task' \in [Tasks -> TaskRec]
    BY <1>0, <2>2, <2>3
  <2>5. socks[task[t].at] \in Listeners
    BY <1>0, <2>1
  <2>6. state' \in [Listeners -> {"none", "open", "cancelled", "closed"}]
    BY <1>0, <1>11, <2>5 DEF CloseSock
  <2>7. socks' \in Seq(Listeners)
    BY <1>0, <2>3
  <2>. HIDE DEF r
  <2>8. InSocks'
    <3>1. CASE last
      <4>. SUFFICES ASSUME ~broken'
                    PROVE  /\ starting' <= Len(socks')
                           /\ \A u \in Tasks : task'[u].at <= Len(socks')
                                               /\ (task'[u].cancelled => task'[u].at > 0)
        BY DEF InSocks
      <4>1. starting' = 0 /\ (\A u \in Tasks \ {t} : ~(task[u].at > 0)) /\ Len(socks') = 0
        BY <2>3, <3>1
      <4>2. ASSUME NEW u \in Tasks PROVE task'[u].at <= 0 /\ (task'[u].cancelled => task'[u].at > 0)
        <5>1. CASE u = t
          BY <1>0, <2>2, <2>3, <3>1, <5>1 DEF Idle
        <5>2. CASE u # t
          BY <1>0, <1>1, <1>2, <2>1, <2>3, <4>1, <5>2
        <5>. QED
          BY <5>1, <5>2
      <4>. QED
        BY <4>1, <4>2
    <3>2. CASE ~last
      <4>1. socks' = socks
        BY <2>3, <3>2
      <4>. HIDE DEF last
      <4>2. r.at <= Len(socks) /\ (r.cancelled => r.at > 0)
        BY <2>2, <3>2
      <4>. QED
        BY <1>7, <2>1, <2>2, <2>3, <4>1, <4>2
    <3>. QED
      BY <3>1, <3>2
  <2>. QED
    BY <1>0, <1>3, <1>11, <2>3, <2>4, <2>6, <2>7, <2>8 DEF CloseSock
\* The loops and the clients move, and m_socks and those who walk over it do not.
<1>12. ASSUME UNCHANGED <<keeps, socks, state, isStop, starting, task>>, ~broken,
              loop' \in [Loops -> LoopRec], clients' \in 0..MaxClients, broken' \in BOOLEAN
       PROVE  Goal
  <2>1. InSocks'
    BY <1>1, <1>12 DEF InSocks
  <2>. QED
    BY <1>0, <1>3, <1>12, <2>1
<1>13. ASSUME NEW k \in Loops, LoopStep(k) \/ Arrives(k) PROVE Goal
  <2>1. CASE Test(k)
    BY <1>0, <1>m, <1>12, <2>1 DEF Test
  <2>2. CASE AcceptClient(k)
    BY <1>0, <1>m, <1>12, <2>2 DEF AcceptClient
  <2>3. CASE AcceptAgain(k)
    BY <1>0, <1>m, <1>12, <2>3 DEF AcceptAgain
  <2>4. CASE AcceptFails(k)
    BY <1>0, <1>m, <1>12, <2>4 DEF AcceptFails
  <2>5. CASE Register(k)
    <3>1. broken' \in BOOLEAN
      BY <2>5 DEF Register
    <3>. QED
      BY <1>0, <1>m, <1>12, <2>5, <3>1 DEF Register
  <2>6. CASE Arrives(k)
    BY <1>0, <1>m, <1>12, <2>6 DEF Arrives
  <2>. QED
    BY <1>13, <2>1, <2>2, <2>3, <2>4, <2>5, <2>6 DEF LoopStep
<1>14. ASSUME HandleClient PROVE Goal
  BY <1>0, <1>12, <1>14 DEF HandleClient
<1>15. ASSUME UNCHANGED serverVars PROVE Goal
  <2>1. InSocks'
    BY <1>15 DEF ServerInv, InSocks, serverVars
  <2>. QED
    BY <1>0, <1>3, <1>15, <2>1 DEF serverVars
<1>16. TcpServerNext => Goal
  BY <1>4, <1>5, <1>6, <1>8, <1>9, <1>10, <1>11, <1>13, <1>14 DEF TcpServerNext, Task
<1>17. Goal
  BY <1>15, <1>16
<1>. QED
  BY <1>17 DEF Goal

\* Both models keep their types, whichever moves: in the server the walks of start() and
\* of stop()'s tasks over m_socks stay inside it, and no client is counted twice.
THEOREM NetTypesKept == NetSpec => []NetTypeOK
<1>. DEFINE NetInv == SocketInv /\ ServerInv
<1>1. NetInit => NetInv
  BY SocketInvInit, ServerInvInit DEF NetInit
<1>2. NetInv /\ [NetNext]_<<socketVars, serverVars, subject>> => NetInv'
  <2>. SUFFICES ASSUME NetInv, [NetNext]_<<socketVars, serverVars, subject>> PROVE NetInv'
    OBVIOUS
  <2>1. [SocketNext]_socketVars /\ [TcpServerNext]_serverVars
    BY DEF NetNext
  <2>. QED
    BY <2>1, SocketInvNext, ServerInvNext
<1>3. NetInv => NetTypeOK
  BY DEF NetTypeOK, SocketInv, ServerInv
<1>. HIDE DEF NetInv
<1>. QED
  BY <1>1, <1>2, <1>3, PTL DEF NetSpec

====
