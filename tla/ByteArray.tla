-------------------------------- MODULE ByteArray --------------------------------
(***************************************************************************)
(* libcocao's ByteArray (bytearray.h, bytearray.cc): bytes in a chain of   *)
(* equal nodes, a position, and a pointer m_cur to the node of the         *)
(* position, which every operation walks along.  SocketStream::read()      *)
(* (streams/socket_stream.cc) and Stream::readFixSize() (stream.cc)        *)
(* receive into it.                                                        *)
(*                                                                         *)
(* Node's constructor allocates nothing: here its memory is there, and     *)
(* uninitialised, so that the rest can be said.  A node that does not      *)
(* exist is a null pointer, and following it a fault.                      *)
(***************************************************************************)
EXTENDS Integers, Sequences, SequencesExt

CONSTANTS
  Base,       \* m_baseSize
  Digits,     \* the bytes written are 0..Digits
  MaxNodes,   \* bound: nodes in the chain
  MaxLen,     \* bound: bytes written or read by one call
  MaxCalls    \* bound: calls

ASSUME ByteArrayAssumption ==
  /\ Base \in Nat \ {0} /\ MaxNodes \in Nat \ {0} /\ MaxLen \in Nat
  /\ MaxCalls \in Nat /\ Digits \in 0..MaxLen    \* a length is one byte, too

VARIABLES
  ba,       \* the members
  result,   \* what was last read, or given to write
  file,     \* what readFromFile() has still to read; empty when it is not running
  calls     \* how many calls there were

byteVars == <<ba, result, file, calls>>

Raw == MaxLen + 1    \* memory that nothing was written to
Byte == 0..Raw
Null == 0            \* nodes are numbered from 1
\* What is written: up to MaxLen bytes, neighbours different.
Chunks == {[i \in 1..n |-> (d + i) % (Digits + 1)] : n \in 0..MaxLen, d \in 0..Digits}

ByteArrayTypeOK ==
  /\ ba \in [nodes : 1..MaxNodes, capacity : Nat, position : Nat, size : Nat,
             cur : Null..MaxNodes, mem : [1..MaxNodes -> [0..(Base - 1) -> Byte]],
             little : BOOLEAN, fault : BOOLEAN]
  /\ result \in Seq(Byte) /\ file \in Seq(Byte) /\ calls \in 0..MaxCalls

ByteArrayInit ==
  /\ ba = [nodes |-> 1, capacity |-> Base, position |-> 0, size |-> 0, cur |-> 1,
           mem |-> [i \in 1..MaxNodes |-> [k \in 0..(Base - 1) |-> Raw]],
           little |-> FALSE, fault |-> FALSE]
  /\ result = <<>> /\ file = <<>> /\ calls = 0

-----------------------------------------------------------------------------
(***************************************************************************)
(* The walk along the nodes, of n bytes from an offset in a node.          *)
(***************************************************************************)

\* What is there to be walked.
Walks(b, node, offset, n) ==
  node # Null /\ (n > 0 => node + (offset + n - 1) \div Base <= b.nodes)

\* Broken on purpose: the walk stays in a node that it has come to the end of.
CurStays(b, node, offset, n) ==
  IF n = 0 THEN node ELSE node + (offset + n - 1) \div Base

\* m_cur after it; null at the end of the chain.
CurAfter(b, node, offset, n) ==
  LET next == node + (offset + n) \div Base IN IF next <= b.nodes THEN next ELSE Null

Offset(position) == position % Base

\* The bytes it passes.
Passed(b, node, offset, n) ==
  [i \in 1..n |-> b.mem[node + (offset + i - 1) \div Base][(offset + i - 1) % Base]]

Broken(b) == [b EXCEPT !.fault = TRUE]

\* addCapacity(): the whole nodes in what is missing, not one more for the rest; and
\* m_cur stays null when it was.
Grown(b, n) ==
  LET missing == n - (b.capacity - b.position)
      new == IF missing <= 0 THEN 0 ELSE missing \div Base IN
  [b EXCEPT !.nodes = @ + new, !.capacity = @ + new * Base]

Longer(b, end) == IF end > b.size THEN end ELSE b.size

\* write()
Written(b, s) ==
  LET g == Grown(b, Len(s))
      o == Offset(b.position)
      at(i, k) == (i - g.cur) * Base + k - o + 1 IN
  IF s = <<>> \/ b.fault THEN b
  ELSE IF ~Walks(g, g.cur, o, Len(s)) THEN Broken(g)
  ELSE [g EXCEPT
          !.mem = [i \in 1..MaxNodes |-> [k \in 0..(Base - 1) |->
                     IF at(i, k) \in DOMAIN s THEN s[at(i, k)] ELSE @[i][k]]],
          !.cur = CurAfter(g, g.cur, o, Len(s)),
          !.position = @ + Len(s),
          !.size = Longer(g, g.position + Len(s))]

Left(b) == b.size - b.position

\* read(): it throws when there is too little, and needs a node even for nothing.
Throws(b, n) == n > Left(b)
AfterRead(b, n) ==
  LET o == Offset(b.position) IN
  IF b.fault \/ Throws(b, n) THEN b
  ELSE IF ~Walks(b, b.cur, o, n) THEN Broken(b)
  ELSE [b EXCEPT !.cur = CurAfter(b, b.cur, o, n), !.position = @ + n]
BytesRead(b, n) == Passed(b, b.cur, Offset(b.position), n)

\* The members are left in state b, and s was read or written; a fault is the end of the
\* program, and of the object.
Becomes(b, s) ==
  /\ ~ba.fault /\ b.nodes <= MaxNodes
  /\ ba' = IF b.fault THEN Broken(ba) ELSE b
  /\ result' = IF b.fault THEN <<>> ELSE s

Called == file = <<>> /\ calls < MaxCalls /\ calls' = calls + 1
To(b, s) == Called /\ Becomes(b, s) /\ UNCHANGED file

-----------------------------------------------------------------------------
Write(s) == To(Written(ba, s), s)

Read(n) ==
  To(AfterRead(ba, n),
     IF Throws(ba, n) \/ ~Walks(ba, ba.cur, Offset(ba.position), n) THEN <<>> ELSE BytesRead(ba, n))

\* writeFint16() and its like: the bytes of a number in the order m_endian asks for.
\* The machine's own is little endian, and so is the argument here.
Ordered(s, little) == IF little THEN s ELSE Reverse(s)
WriteFixed(s) == To(Written(ba, Ordered(s, ba.little)), s)
ReadFixed(n) ==
  To(AfterRead(ba, n),
     IF Throws(ba, n) \/ ~Walks(ba, ba.cur, Offset(ba.position), n) THEN <<>>
     ELSE Ordered(BytesRead(ba, n), ba.little))

\* writeStringF16() and its like: two writes, a length (here of one byte) and the bytes.
WriteString(s) == To(Written(Written(ba, <<Len(s)>>), s), <<Len(s)>> \o s)

\* readStringF16(): when the bytes are too few the length is gone all the same.
ReadString ==
  LET b == AfterRead(ba, 1)
      n == BytesRead(ba, 1)[1] IN
  /\ ~Throws(ba, 1) /\ ~b.fault
  /\ To(AfterRead(b, n),
        IF Throws(b, n) \/ ~Walks(b, b.cur, Offset(b.position), n) THEN <<>> ELSE BytesRead(b, n))

\* setPosition(): from the root, and to null at the very end.
Positioned(b, v) ==
  [b EXCEPT !.position = v, !.size = Longer(b, v), !.cur = CurAfter(b, 1, 0, v)]
SetPosition(v) == v <= ba.capacity /\ To(Positioned(ba, v), <<>>)

\* clear() deletes all nodes but the first, whose bytes stay.
Clear ==
  To([ba EXCEPT !.position = 0, !.size = 0, !.capacity = Base, !.nodes = 1, !.cur = 1,
                !.mem = [i \in 1..MaxNodes |->
                           IF i = 1 THEN @[1] ELSE [k \in 0..(Base - 1) |-> Raw]]], <<>>)

SetIsLittleEndian(val) == To([ba EXCEPT !.little = val], <<>>)

\* toString(), and getReadBuffers() of at most n bytes: what is ahead is looked at.
Least(m, n) == IF m < n THEN m ELSE n
GetReadBuffers(n) ==
  LET len == Least(n, Left(ba)) IN
  /\ len > 0
  /\ IF Walks(ba, ba.cur, Offset(ba.position), len) THEN To(ba, BytesRead(ba, len))
     ELSE To(Broken(ba), <<>>)

\* writeToFile(): whole nodes, and a first part that is right only when it starts a node
\* or there is a node's worth to write.
WriteToFile ==
  /\ Left(ba) > 0
  /\ IF (Offset(ba.position) = 0 \/ Left(ba) >= Base)
        /\ Walks(ba, ba.cur, Offset(ba.position), Left(ba))
     THEN To(ba, BytesRead(ba, Left(ba)))
     ELSE To(Broken(ba), <<>>)

\* readFromFile(): a file is opened, and then m_baseSize bytes at a time are written.
OpenFile(s) == Called /\ ~ba.fault /\ file' = s /\ UNCHANGED <<ba, result>>
ReadFromFile ==
  LET n == Least(Base, Len(file))
      part == SubSeq(file, 1, n) IN
  /\ file # <<>>
  /\ Becomes(Written(ba, part), part)
  /\ file' = SubSeq(file, n + 1, Len(file)) /\ UNCHANGED calls

\* SocketStream::read(): room for n bytes, getWriteBUffers(); what arrives, and setPosition().
Received(b, n, s) ==
  LET g == Grown(b, n) IN
  IF Walks(g, g.cur, Offset(g.position), n)
  THEN Positioned([Written(g, s) EXCEPT !.position = g.position], g.position + Len(s))
  ELSE Broken(g)
Receive(n, s) == s # <<>> /\ Len(s) <= n /\ To(Received(ba, n, s), s)

\* Stream::readFixSize(): n bytes, here in two parts; the second asks for what is left.
\* A third is an error or the end of the stream when there is something left.
ReadFixSize(n, s, k) ==
  /\ Len(s) <= n /\ k < Len(s)
  /\ LET first == Received(ba, n, SubSeq(s, 1, k)) IN
     To(IF first.fault THEN first ELSE Received(first, n - k, SubSeq(s, k + 1, Len(s))), s)

ByteArrayNext ==
  \/ \E s \in Chunks :
       \/ Write(s) \/ WriteFixed(s) \/ WriteString(s) \/ OpenFile(s)
       \/ \E n \in 1..MaxLen : Receive(n, s) \/ \E k \in 1..MaxLen : ReadFixSize(n, s, k)
  \/ \E n \in 0..MaxLen : Read(n) \/ ReadFixed(n)
  \/ \E n \in 1..(Base * MaxNodes) : GetReadBuffers(n)
  \/ ReadString
  \/ \E v \in 0..(Base * MaxNodes) : SetPosition(v)
  \/ \E val \in BOOLEAN : SetIsLittleEndian(val)
  \/ Clear \/ WriteToFile \/ ReadFromFile

ByteArraySpec == ByteArrayInit /\ [][ByteArrayNext]_byteVars

-----------------------------------------------------------------------------
(***************************************************************************)
(* Properties                                                              *)
(***************************************************************************)

\* m_cur is the node of the position, the chain has the capacity it says it has, and
\* the position is in it: all that the walks rest on.
CurInPlace ==
  /\ ba.capacity = ba.nodes * Base
  /\ ba.position <= ba.size /\ ba.size <= ba.capacity
  /\ ~ba.fault => ba.cur = CurAfter(ba, 1, 0, ba.position)

\* The bytes before the end, in the order of the nodes.
Abstract == INSTANCE Bytes WITH
  bytes <- [i \in 1..ba.size |-> ba.mem[(i - 1) \div Base + 1][(i - 1) % Base]],
  position <- ba.position, out <- result, Byte <- Byte, MaxWrite <- MaxLen + 1

\* As long as no pointer to a missing node is followed, a ByteArray is a sequence with a
\* position, whatever the sizes of its nodes and wherever the calls begin and end.
ImplementsBytes == Abstract!Spec

=============================================================================
