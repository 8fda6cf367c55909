--------------------------------- MODULE Socket ---------------------------------
(***************************************************************************)
(* libcocao's Socket (socket.h, socket.cc): an object that owns a          *)
(* descriptor number, opens it when it is first needed, and remembers its  *)
(* two addresses.  Objects are shared between fibers: a call reads m_sock  *)
(* once and may wait in the kernel (hook.cc) while somebody else closes.   *)
(*                                                                         *)
(* The kernel's sockets are external.  Options and the data are left out.  *)
(* An address of another family is refused: by bind() as by the kernel, by *)
(* connect() without the close() that follows the kernel's refusal.        *)
(***************************************************************************)
EXTENDS Integers, FiniteSets

CONSTANTS
  Objects,      \* Socket objects
  Fibers,       \* who calls
  Numbers,      \* descriptor numbers
  NoObject,     \* not created, or destroyed; no file
  MaxOps        \* bound: calls that are made

ASSUME SocketAssumption ==
  /\ Numbers \subseteq Nat /\ MaxOps \in Nat
  /\ Objects # {} /\ NoObject \notin Objects

VARIABLES
  sock,     \* the objects
  open,     \* the kernel's sockets
  call,     \* a fiber's place in a call
  ops,      \* calls made (bound)
  past      \* facts of the past, see SocketTypeOK

socketVars == <<sock, open, call, ops, past>>

(***************************************************************************)
(* Names: the port that is asked for (Port), any port as asked for        *)
(* (AnyPort), those the kernel chooses (2 and up); a peer's (Port), or one *)
(* of another family (Alien); or none.                                     *)
(***************************************************************************)
NoName == -1
Port == 0
AnyPort == 1
Alien == 1
Name == NoName..(MaxOps + 2)
Closed == -1    \* m_sock

Object == [fd : Numbers \cup {Closed}, connected : BOOLEAN, local : Name, remote : Name]
File == [owner : Objects, name : Name, peer : Name, listens : BOOLEAN]

ASSUME NoObjectAssumption == NoObject \notin Object \cup File

SocketTypeOK ==
  /\ sock \in [Objects -> {NoObject} \cup Object]
  /\ open \in [Numbers -> {NoObject} \cup File]
  /\ call \in [Fibers -> [pc : {"idle", "connect", "io", "accept", "close", "closed"},
                          on : Objects, fd : Numbers \cup {Closed}]]
  /\ ops \in 0..MaxOps
  /\ past \in [foreign : SUBSET Objects, \* reached a socket of another object
               reached : SUBSET Objects, \* another object reached a socket of it
               shared : SUBSET Objects,  \* closed by one fiber during a call of another
               kept : SUBSET Objects]    \* kept a local name that is not the socket's

SocketInit ==
  /\ sock = [o \in Objects |-> NoObject]
  /\ open = [n \in Numbers |-> NoObject]
  /\ call = [f \in Fibers |-> [pc |-> "idle", on |-> CHOOSE o \in Objects : TRUE, fd |-> Closed]]
  /\ ops = 0
  /\ past = [foreign |-> {}, reached |-> {}, shared |-> {}, kept |-> {}]

Users(o) == {f \in Fibers : call[f].pc # "idle" /\ call[f].on = o}
Closers(o) == {f \in Users(o) : call[f].pc \in {"close", "closed"}}
In(f, place) == call[f].pc = place
Enter(f, o, place) == call' = [call EXCEPT ![f] = [pc |-> place, on |-> o, fd |-> sock[o].fd]]
Exit(f) == call' = [call EXCEPT ![f].pc = "idle"]

\* The kernel's next name: as many as there are calls.
Fresh == ops + 2

\* A fiber calls an operation of an object that is there.
Op(f, o) ==
  /\ In(f, "idle") /\ ops < MaxOps /\ ops' = ops + 1
  /\ sock[o] # NoObject
Overlaps(o) == [past EXCEPT !.shared = @ \cup {x \in {o} : Closers(x) # {}}]

\* A kernel call on a number, for an object.
Reach(p, o, n) ==
  IF n # Closed /\ open[n] # NoObject /\ open[n].owner # o
  THEN [p EXCEPT !.foreign = @ \cup {o}, !.reached = @ \cup {open[n].owner}] ELSE p
\* Nothing is known of a new object.
Forget(p, o) ==
  [foreign |-> p.foreign \ {o}, reached |-> p.reached \ {o},
   shared |-> p.shared \ {o}, kept |-> p.kept \ {o}]

\* newSock(), which may fail; the object as it is then, and the kernel.
Opened(o) ==
  IF sock[o].fd # Closed THEN {sock[o].fd} ELSE {Closed} \cup {n \in Numbers : open[n] = NoObject}
NewFile(o) == [owner |-> o, name |-> NoName, peer |-> NoName, listens |-> FALSE]
WithNew(o, n) == IF n # sock[o].fd THEN [open EXCEPT ![n] = NewFile(o)] ELSE open

\* The constructors.  A UDP socket (but a Unix one) is opened at once, and is
\* "connected" even when that failed.
Create(f, o, udp) ==
  /\ In(f, "idle") /\ ops < MaxOps /\ ops' = ops + 1
  /\ sock[o] = NoObject
  /\ \E n \in IF udp THEN {Closed} \cup {m \in Numbers : open[m] = NoObject} ELSE {Closed} :
       /\ sock' = [sock EXCEPT ![o] = [fd |-> n, connected |-> udp,
                                       local |-> NoName, remote |-> NoName]]
       /\ open' = IF n = Closed THEN open ELSE [open EXCEPT ![n] = NewFile(o)]
  /\ past' = Forget(past, o)
  /\ UNCHANGED call

\* bind() remembers the name asked for before anything can fail, and so
\* getLocalAddress() at its end asks nobody.
Bind(f, o, name) ==
  /\ Op(f, o)
  /\ \E n \in Opened(o), works \in BOOLEAN :
       LET bound == works /\ n # Closed /\ WithNew(o, n)[n] # NoObject
                    /\ WithNew(o, n)[n].name = NoName IN
       /\ sock' = [sock EXCEPT ![o].local = name, ![o].fd = n]
       /\ open' = IF bound
                  THEN [WithNew(o, n) EXCEPT ![n].name = IF name = AnyPort THEN Fresh ELSE name]
                  ELSE WithNew(o, n)
       /\ past' = [Reach(Overlaps(o), o, sock[o].fd) EXCEPT !.kept = IF bound THEN @ \ {o} ELSE @ \cup {o}]
  /\ UNCHANGED call

Listen(f, o) ==
  /\ Op(f, o)
  /\ LET n == sock[o].fd IN
     /\ n # Closed /\ open[n] # NoObject /\ open[n].peer = NoName
     /\ open' = [open EXCEPT ![n].listens = TRUE, ![n].name = IF @ = NoName THEN Fresh ELSE @]
  /\ past' = Reach(Overlaps(o), o, sock[o].fd)
  /\ UNCHANGED <<sock, call>>

\* connect() up to the wait in the kernel; reconnect() forgets the local name first.
ConnectTo(f, o, peer, local) ==
  \E n \in Opened(o) :
    /\ sock' = [sock EXCEPT ![o].remote = peer, ![o].local = local, ![o].fd = n]
    /\ open' = WithNew(o, n)
    /\ call' = IF n = Closed \/ peer = Alien THEN call
               ELSE [call EXCEPT ![f] = [pc |-> "connect", on |-> o, fd |-> n]]

Connect(f, o, peer) ==
  /\ Op(f, o)
  /\ ConnectTo(f, o, peer, sock[o].local)
  /\ past' = [Overlaps(o) EXCEPT !.kept = @ \cup {x \in {o} : sock[x].local # NoName
                                                              /\ sock[x].fd = Closed}]

\* Broken on purpose: the local name is kept.
ReconnectKeeps(f, o) ==
  /\ Op(f, o)
  /\ sock[o].remote # NoName
  /\ ConnectTo(f, o, sock[o].remote, sock[o].local)
  /\ past' = Overlaps(o)

Reconnect(f, o) ==
  /\ Op(f, o)
  /\ sock[o].remote # NoName
  /\ ConnectTo(f, o, sock[o].remote, NoName)
  /\ past' = [Overlaps(o) EXCEPT !.kept = @ \ {o}]

\* getLocalAddress(), getRemoteAddress(): what is remembered, or what the kernel says
\* of m_sock, if it says anything, from then on.
Ask(name, n, file, field) ==
  IF name # NoName \/ n = Closed \/ file[n] = NoObject THEN name ELSE file[n][field]

\* The connection is made ...
Connected(f) ==
  LET o == call[f].on
      n == call[f].fd
      made == [open EXCEPT ![n].peer = Port, ![n].name = IF @ = NoName THEN Fresh ELSE @] IN
  /\ In(f, "connect")
  /\ open[n] # NoObject /\ open[n].peer = NoName /\ ~open[n].listens
  /\ open' = made
  /\ sock' = [sock EXCEPT ![o].connected = TRUE,
                          ![o].local = Ask(@, sock[o].fd, made, "name")]
  /\ Exit(f)
  /\ past' = Reach(Reach(past, o, n), o, sock[o].fd)
  /\ UNCHANGED ops

\* ... or not, and then the object is closed, also one that was connected before.
ConnectFails(f) ==
  LET o == call[f].on IN
  /\ In(f, "connect")
  /\ sock' = [sock EXCEPT ![o].connected = FALSE]
  /\ call' = [call EXCEPT ![f].pc = "close"]
  /\ past' = [past EXCEPT !.shared = @ \cup {x \in {o} : Users(x) # {f}}]
  /\ UNCHANGED <<open, ops>>

\* accept(): a new object around a new number, with both its names.
Accept(f, o) ==
  /\ Op(f, o)
  /\ sock[o].fd # Closed
  /\ Enter(f, o, "accept")
  /\ past' = Overlaps(o)
  /\ UNCHANGED <<sock, open>>

Accepted(f, c, m) ==
  LET o == call[f].on
      n == call[f].fd IN
  /\ In(f, "accept")
  /\ open[n] # NoObject /\ open[n].listens
  /\ sock[c] = NoObject /\ open[m] = NoObject
  /\ open' = [open EXCEPT ![m] = [owner |-> c, name |-> open[n].name, peer |-> Port, listens |-> FALSE]]
  /\ sock' = [sock EXCEPT ![c] = [fd |-> m, connected |-> TRUE,
                                  local |-> open[n].name, remote |-> Port]]
  /\ Exit(f)
  /\ past' = Reach(Forget(past, c), o, n)
  /\ UNCHANGED ops

\* send(), sendTo(), recv(), recvFrom(): nothing (-1) unless connected.
Transfer(f, o) ==
  /\ Op(f, o)
  /\ sock[o].connected
  /\ Enter(f, o, "io")
  /\ past' = Overlaps(o)
  /\ UNCHANGED <<sock, open>>

\* The transfer is over, or the accept() has failed.
Ends(f) ==
  /\ In(f, "io") \/ In(f, "accept")
  /\ Exit(f)
  /\ past' = Reach(past, call[f].on, call[f].fd)
  /\ UNCHANGED <<sock, open, ops>>

\* close(): the flag, the kernel's close() of what m_sock is by then, m_sock.
Close(f, o) ==
  /\ Op(f, o)
  /\ sock[o].connected \/ sock[o].fd # Closed
  /\ sock' = [sock EXCEPT ![o].connected = FALSE]
  /\ IF sock[o].fd # Closed THEN Enter(f, o, "close") ELSE UNCHANGED call
  /\ past' = [past EXCEPT !.shared = @ \cup {x \in {o} : Users(x) # {}}]
  /\ UNCHANGED open

CloseCall(f) ==
  LET o == call[f].on
      n == sock[o].fd IN
  /\ In(f, "close")
  /\ open' = IF n = Closed THEN open ELSE [open EXCEPT ![n] = NoObject]
  /\ call' = [call EXCEPT ![f].pc = "closed"]
  /\ past' = Reach(past, o, n)
  /\ UNCHANGED <<sock, ops>>

\* Broken on purpose: the number is kept.
CloseEndsKeeps(f) ==
  /\ In(f, "closed")
  /\ Exit(f)
  /\ UNCHANGED <<sock, open, ops, past>>

CloseEnds(f) ==
  /\ In(f, "closed")
  /\ sock' = [sock EXCEPT ![call[f].on].fd = Closed]
  /\ Exit(f)
  /\ UNCHANGED <<open, ops, past>>

\* The last reference goes: nobody else can be in a call, ~Socket() closes.
Destroy(f, o) ==
  /\ Op(f, o)
  /\ Users(o) = {}
  /\ sock' = [sock EXCEPT ![o] = NoObject]
  /\ open' = IF sock[o].fd = Closed THEN open ELSE [open EXCEPT ![sock[o].fd] = NoObject]
  /\ past' = Reach(past, o, sock[o].fd)
  /\ UNCHANGED call

SocketNext ==
  \E f \in Fibers :
    \/ \E o \in Objects :
         \/ \E udp \in BOOLEAN : Create(f, o, udp)
         \/ \E name \in {Port, AnyPort} : Bind(f, o, name)
         \/ \E peer \in {Port, Alien} : Connect(f, o, peer)
         \/ Listen(f, o) \/ Reconnect(f, o)
         \/ Accept(f, o) \/ Transfer(f, o) \/ Close(f, o) \/ Destroy(f, o)
    \/ Connected(f) \/ ConnectFails(f)
    \/ \E c \in Objects, m \in Numbers : Accepted(f, c, m)
    \/ Ends(f) \/ CloseCall(f) \/ CloseEnds(f)

SocketSpec == SocketInit /\ [][SocketNext]_socketVars

-----------------------------------------------------------------------------
\* A Socket never reaches, let alone closes, a socket that belongs to another object,
\* although numbers are used again at once: only when one fiber closes the object
\* during a call of another on it, two close() included, can that happen, or when
\* another object has reached, and may have closed, the Socket's own before.
OwnNumber == past.foreign \subseteq past.shared \cup past.reached

\* The number that an object remembers is of a socket that is open, and the names are
\* that socket's, unless any port was asked for, a bind() failed, connect() opened anew
\* with a local name remembered (reconnect() forgets it) or had a peer of another
\* family; or the object was closed during a call on it, or reached by another.
Named ==
  \A o \in Objects \ (past.shared \cup past.reached) :
    sock[o] # NoObject /\ Users(o) = {} /\ sock[o].fd # Closed =>
      LET file == open[sock[o].fd] IN
      /\ file # NoObject
      /\ sock[o].local \in {NoName, AnyPort, file.name} \/ o \in past.kept
      /\ file.peer # NoName => sock[o].remote \in {file.peer, Alien}

=============================================================================
