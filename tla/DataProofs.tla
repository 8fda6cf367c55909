-------------------------------- MODULE DataProofs --------------------------------
(***************************************************************************)
(* Theorems about ByteArray: its nodes, its capacity and m_cur agree, and  *)
(* what it does is what a sequence of bytes with a position does.          *)
(* Theorems about the HTTP parser: its assertions hold, its callbacks come *)
(* in the order of a message, and it does not matter how a stream is cut.  *)
(***************************************************************************)
EXTENDS ByteArray, HttpParser, TLAPS, FiniteSetTheorems

-----------------------------------------------------------------------------
(***************************************************************************)
(* Quotients and remainders                                                *)
(***************************************************************************)

LEMMA DivMod ==
  ASSUME NEW n \in Nat
  PROVE  /\ n \div Base \in Nat /\ n % Base \in 0..(Base - 1)
         /\ n = (n \div Base) * Base + (n % Base)
  BY ByteArrayAssumption

LEMMA DivIs ==
  ASSUME NEW n \in Nat, NEW q \in Int, NEW r \in 0..(Base - 1), n = q * Base + r
  PROVE  n \div Base = q /\ n % Base = r
  BY ByteArrayAssumption

\* Where the k-th byte behind a position is.
LEMMA Behind ==
  ASSUME NEW p \in Nat, NEW k \in Nat
  PROVE  /\ (p + k) \div Base = (p \div Base) + (((p % Base) + k) \div Base)
         /\ (p + k) % Base = ((p % Base) + k) % Base
  <1> DEFINE o == p % Base
             q == (o + k) \div Base
             r == (o + k) % Base
  <1>1. /\ p \div Base \in Nat /\ o \in 0..(Base - 1) /\ p = (p \div Base) * Base + o
    BY DivMod
  <1>2. q \in Nat /\ r \in 0..(Base - 1) /\ o + k = q * Base + r
    BY <1>1, DivMod, ByteArrayAssumption
  <1> HIDE DEF o, q, r
  <1>3. p + k = ((p \div Base) + q) * Base + r
    BY <1>1, <1>2, ByteArrayAssumption
  <1>4. (p + k) \div Base = (p \div Base) + q /\ (p + k) % Base = r
    BY <1>1, <1>2, <1>3, DivIs
  <1> QED BY <1>4 DEF o, q, r

LEMMA DivLess ==
  ASSUME NEW n \in Nat, NEW q \in Nat
  PROVE  n \div Base < q <=> n < q * Base
  BY DivMod, ByteArrayAssumption

-----------------------------------------------------------------------------
(***************************************************************************)
(* The chain: m_cur is the node of the position, the capacity is what the  *)
(* nodes hold, and the position is in it.  The byte of a place is found    *)
(* from the root.                                                          *)
(***************************************************************************)

Memory == [1..MaxNodes -> [0..(Base - 1) -> Byte]]
ByteArrays == [nodes : Nat \ {0}, capacity : Nat, position : Nat, size : Nat, cur : Nat,
              mem : Memory, little : BOOLEAN, fault : BOOLEAN]

NodeOf(b, v) == IF (v \div Base) + 1 <= b.nodes THEN (v \div Base) + 1 ELSE Null

Sound(b) ==
  /\ b \in ByteArrays
  /\ b.capacity = b.nodes * Base
  /\ b.position <= b.size /\ b.size <= b.capacity
  /\ ~b.fault => b.cur = NodeOf(b, b.position)

ByteAt(b, j) == b.mem[((j - 1) \div Base) + 1][(j - 1) % Base]
Contents(b) == [j \in 1..b.size |-> ByteAt(b, j)]

LEMMA ByteAtTyped ==
  ASSUME NEW b \in ByteArrays, b.nodes <= MaxNodes, b.capacity = b.nodes * Base,
         NEW j \in 1..b.capacity
  PROVE  ByteAt(b, j) \in Byte
  <1>1. /\ (j - 1) \div Base \in Nat /\ (j - 1) % Base \in 0..(Base - 1)
        /\ (j - 1) \div Base < b.nodes
    BY DivMod, DivLess DEF ByteArrays
  <1> QED BY <1>1, ByteArrayAssumption DEF ByteAt, ByteArrays, Memory

\* From the root, m_cur is as setPosition() finds it.
LEMMA FromRoot ==
  ASSUME NEW b, NEW v \in Nat
  PROVE  CurAfter(b, 1, 0, v) = IF 1 + (v \div Base) <= b.nodes THEN 1 + (v \div Base) ELSE Null
  BY DEF CurAfter

\* A walk from m_cur stays in the chain exactly if the capacity does not end before; it
\* passes the bytes behind the position and leaves m_cur at the node of its end.
LEMMA Walk ==
  ASSUME NEW b, Sound(b), ~b.fault, NEW n \in Nat, Walks(b, b.cur, Offset(b.position), n)
  PROVE  /\ b.position + n <= b.capacity
         /\ CurAfter(b, b.cur, Offset(b.position), n) = NodeOf(b, b.position + n)
         /\ b.cur = (b.position \div Base) + 1
         /\ Passed(b, b.cur, Offset(b.position), n) = [i \in 1..n |-> ByteAt(b, b.position + i)]
  <1> DEFINE p == b.position
             o == p % Base
  <1>1. p \in Nat /\ b.nodes \in Nat /\ b.capacity = b.nodes * Base /\ p <= b.capacity
    BY DEF Sound, ByteArrays
  <1>2. p \div Base \in Nat /\ o \in 0..(Base - 1)
    BY <1>1, DivMod
  <1>3. b.cur = (p \div Base) + 1
    BY <1>2 DEF Sound, Walks, NodeOf, Null
  <1>4. p + n <= b.capacity
    <2>1. CASE n = 0
      BY <2>1, <1>1
    <2>2. CASE n > 0
      <3>1. b.cur + ((o + (n - 1)) \div Base) <= b.nodes
        <4>1. o + n - 1 = o + (n - 1)
          BY <1>2, ByteArrayAssumption
        <4>2. b.cur + ((Offset(p) + n - 1) \div Base) <= b.nodes
          BY <2>2 DEF Walks
        <4> QED BY <4>1, <4>2 DEF Offset
      <3>2. n - 1 \in Nat
        BY <2>2
      <3>3. (o + (n - 1)) \div Base \in Nat
        BY <1>2, <3>2, DivMod
      <3>4. (p + (n - 1)) \div Base = (p \div Base) + ((o + (n - 1)) \div Base)
        BY <1>1, <3>2, Behind
      <3> HIDE DEF o
      <3>5. (p + (n - 1)) \div Base < b.nodes
        BY <3>1, <3>3, <3>4, <1>1, <1>2, <1>3
      <3> QED BY <3>2, <3>5, <1>1, DivLess, ByteArrayAssumption
    <2> QED BY <2>1, <2>2
  <1>5. CurAfter(b, b.cur, Offset(p), n) = NodeOf(b, p + n)
    <2>1. (p + n) \div Base = (p \div Base) + ((o + n) \div Base)
      BY <1>1, Behind
    <2>2. (o + n) \div Base \in Nat
      BY <1>2, DivMod, ByteArrayAssumption
    <2>3. b.cur + ((o + n) \div Base) = ((p + n) \div Base) + 1
      BY <2>1, <2>2, <1>2, <1>3
    <2>4. CurAfter(b, b.cur, o, n) = NodeOf(b, p + n)
      BY <2>3 DEF CurAfter, NodeOf
    <2> QED BY <2>4 DEF Offset
  <1>6. ASSUME NEW i \in 1..n
        PROVE  /\ b.cur + ((o + i - 1) \div Base) = ((p + i - 1) \div Base) + 1
               /\ (o + i - 1) % Base = (p + i - 1) % Base
    <2>1. i - 1 \in Nat /\ o + i - 1 = o + (i - 1) /\ p + i - 1 = p + (i - 1)
      BY <1>1, <1>2, ByteArrayAssumption
    <2>2. (o + (i - 1)) \div Base \in Nat
      BY <1>2, <2>1, DivMod, ByteArrayAssumption
    <2>3. /\ (p + (i - 1)) \div Base = (p \div Base) + ((o + (i - 1)) \div Base)
          /\ (p + (i - 1)) % Base = (o + (i - 1)) % Base
      BY <1>1, <2>1, Behind
    <2> HIDE DEF p, o
    <2> QED BY <2>1, <2>2, <2>3, <1>2, <1>3
  <1>7. Passed(b, b.cur, Offset(p), n) = [i \in 1..n |-> ByteAt(b, p + i)]
    <2>1. ASSUME NEW i \in 1..n
          PROVE  b.mem[b.cur + ((o + i - 1) \div Base)][(o + i - 1) % Base] = ByteAt(b, p + i)
      <3> HIDE DEF p, o
      <3>1. b.cur + ((o + i - 1) \div Base) = ((p + i - 1) \div Base) + 1
        BY <1>6
      <3>2. (o + i - 1) % Base = (p + i - 1) % Base
        BY <1>6
      <3>3. p \in Int /\ o \in Int /\ i \in Int /\ b.cur \in Int /\ Base \in Int
        BY <1>1, <1>2, <1>3, ByteArrayAssumption
      <3> QED BY <3>1, <3>2, <3>3 DEF ByteAt
    <2> QED BY <2>1 DEF Passed, Offset
  <1> QED BY <1>3, <1>4, <1>5, <1>7

-----------------------------------------------------------------------------
(***************************************************************************)
(* Writing: the bytes are laid behind the position, over what is there.    *)
(***************************************************************************)

Overlaid(b, w, s) ==
  /\ w.position = b.position + Len(s)
  /\ w.size = Longer(b, w.position)
  /\ w.little = b.little /\ w.nodes >= b.nodes
  /\ \A j \in 1..w.size :
       ByteAt(w, j) = IF j - b.position \in 1..Len(s) THEN s[j - b.position] ELSE ByteAt(b, j)

LEMMA Grows ==
  ASSUME NEW b, Sound(b), ~b.fault, NEW n \in Nat
  PROVE  LET g == Grown(b, n) IN
         /\ g \in ByteArrays /\ g.nodes >= b.nodes
         /\ g = [b EXCEPT !.nodes = g.nodes, !.capacity = g.nodes * Base]
         /\ n <= b.capacity - b.position => g = b
         /\ g.cur # Null => Sound(g)
  <1> DEFINE missing == n - (b.capacity - b.position)
             new == IF missing <= 0 THEN 0 ELSE missing \div Base
             g == Grown(b, n)
  <1>1. /\ b \in ByteArrays /\ b.capacity = b.nodes * Base /\ b.position <= b.size
        /\ b.size <= b.capacity /\ b.cur = NodeOf(b, b.position)
        /\ b.capacity \in Nat /\ b.position \in Nat /\ b.nodes \in Nat \ {0} /\ b.size \in Nat
    BY DEF Sound, ByteArrays
  <1>2. new \in Nat
    BY <1>1, DivMod DEF ByteArrays
  <1>3. g = [b EXCEPT !.nodes = @ + new, !.capacity = @ + new * Base]
    BY DEF Grown
  <1>4. missing <= 0 => new = 0
    OBVIOUS
  <1>n. n <= b.capacity - b.position <=> missing <= 0
    BY <1>1
  <1> HIDE DEF new, g, missing
  <1>5. b.capacity + new * Base = (b.nodes + new) * Base /\ b.capacity + new * Base \in Nat
        /\ b.capacity <= b.capacity + new * Base
    BY <1>1, <1>2, ByteArrayAssumption
  <1>6. g = [b EXCEPT !.nodes = b.nodes + new, !.capacity = (b.nodes + new) * Base]
    BY <1>1, <1>3, <1>5 DEF ByteArrays
  <1>7. /\ g \in ByteArrays /\ g.nodes = b.nodes + new /\ g.capacity = (b.nodes + new) * Base
        /\ g.position = b.position /\ g.size = b.size /\ g.cur = b.cur /\ g.fault = b.fault
    <2>1. b.nodes + new \in Nat \ {0} /\ (b.nodes + new) * Base \in Nat
      BY <1>1, <1>2, <1>5
    <2> DEFINE e == b.nodes + new
               c == (b.nodes + new) * Base
    <2>2. e \in Nat \ {0} /\ c \in Nat /\ g = [b EXCEPT !.nodes = e, !.capacity = c]
      BY <2>1, <1>6
    <2> HIDE DEF e, c
    <2>3. /\ g \in ByteArrays /\ g.nodes = e /\ g.capacity = c
          /\ g.position = b.position /\ g.size = b.size /\ g.cur = b.cur /\ g.fault = b.fault
      BY <1>1, <2>2 DEF ByteArrays
    <2> QED BY <2>3 DEF e, c
  <1>8. missing <= 0 => g = b
    <2> SUFFICES ASSUME missing <= 0 PROVE g = b
      OBVIOUS
    <2>1. b.nodes + new = b.nodes /\ (b.nodes + new) * Base = b.capacity
      BY <1>1, <1>4
    <2>2. g = [b EXCEPT !.nodes = b.nodes, !.capacity = b.capacity]
      BY <2>1, <1>6
    <2> QED BY <2>2, <1>1 DEF ByteArrays
  <1>9. ASSUME g.cur # Null PROVE Sound(g)
    <2>1. (b.position \div Base) + 1 <= b.nodes
      BY <1>1, <1>7, <1>9 DEF NodeOf
    <2>2. g.cur = NodeOf(g, g.position)
      BY <2>1, <1>1, <1>2, <1>7, DivMod DEF NodeOf
    <2> QED BY <2>2, <1>1, <1>5, <1>7 DEF Sound
  <1> QED BY <1>1, <1>2, <1>6, <1>7, <1>8, <1>9, <1>n DEF g

\* A byte of the node i, at the offset k, is the j-th; written to it is the one that has
\* come as far behind the position.
LEMMA ByteOf ==
  ASSUME NEW p \in Nat, NEW j \in Nat \ {0}
  PROVE  /\ (j - 1) \div Base \in Nat /\ (j - 1) % Base \in 0..(Base - 1)
         /\ ((((j - 1) \div Base) + 1) - ((p \div Base) + 1)) * Base + ((j - 1) % Base) - (p % Base) + 1 = j - p
  <1> DEFINE q == (j - 1) \div Base
             r == (j - 1) % Base
             d == p \div Base
             o == p % Base
  <1>1. q \in Nat /\ r \in 0..(Base - 1) /\ j - 1 = q * Base + r
    BY DivMod
  <1>2. d \in Nat /\ o \in 0..(Base - 1) /\ p = d * Base + o
    BY DivMod
  <1> HIDE DEF q, r, d, o
  <1>3. ((q + 1) - (d + 1)) * Base + r - o + 1 = j - p
    BY <1>1, <1>2, ByteArrayAssumption
  <1> QED BY <1>1, <1>3 DEF q, r, d, o

\* The memory after write().
Laid(b, s) ==
  [i \in 1..MaxNodes |-> [k \in 0..(Base - 1) |->
     IF (i - b.cur) * Base + k - Offset(b.position) + 1 \in DOMAIN s
     THEN s[(i - b.cur) * Base + k - Offset(b.position) + 1] ELSE b.mem[i][k]]]

LEMMA LaidBytes ==
  ASSUME NEW b \in ByteArrays, NEW s \in Seq(Byte), b.cur = (b.position \div Base) + 1
  PROVE  /\ Laid(b, s) \in Memory
         /\ \A j \in 1..(MaxNodes * Base) :
              Laid(b, s)[((j - 1) \div Base) + 1][(j - 1) % Base]
              = IF j - b.position \in 1..Len(s) THEN s[j - b.position] ELSE ByteAt(b, j)
  <1> DEFINE at(i, k) == (i - b.cur) * Base + k - Offset(b.position) + 1
  <1>1. b.position \in Nat /\ b.mem \in Memory /\ DOMAIN s = 1..Len(s) /\ \A x \in DOMAIN s : s[x] \in Byte
    BY DEF ByteArrays
  <1>2. Laid(b, s) = [i \in 1..MaxNodes |-> [k \in 0..(Base - 1) |->
                        IF at(i, k) \in DOMAIN s THEN s[at(i, k)] ELSE b.mem[i][k]]]
    BY DEF Laid
  <1>3. Laid(b, s) \in Memory
    <2> HIDE DEF at
    <2>1. ASSUME NEW i \in 1..MaxNodes, NEW k \in 0..(Base - 1)
          PROVE  (IF at(i, k) \in DOMAIN s THEN s[at(i, k)] ELSE b.mem[i][k]) \in Byte
      BY <1>1 DEF Memory
    <2> QED BY <2>1, <1>2 DEF Memory
  <1>4. ASSUME NEW j \in 1..(MaxNodes * Base)
        PROVE  Laid(b, s)[((j - 1) \div Base) + 1][(j - 1) % Base]
               = IF j - b.position \in 1..Len(s) THEN s[j - b.position] ELSE ByteAt(b, j)
    <2> DEFINE i == ((j - 1) \div Base) + 1
               k == (j - 1) % Base
    <2>0. j \in Nat \ {0} /\ j - 1 \in Nat /\ MaxNodes \in Nat
      BY ByteArrayAssumption
    <2>1. (j - 1) \div Base < MaxNodes
      BY <2>0, DivLess, ByteArrayAssumption
    <2>2. i \in 1..MaxNodes /\ k \in 0..(Base - 1)
      <3>1. (j - 1) \div Base \in Nat /\ (j - 1) % Base \in 0..(Base - 1)
        BY <2>0, DivMod
      <3> QED BY <3>1, <2>0, <2>1
    <2>3. at(i, k) = j - b.position
      <3>1. (i - ((b.position \div Base) + 1)) * Base + k - (b.position % Base) + 1 = j - b.position
        BY <1>1, <2>0, ByteOf
      <3> HIDE DEF i, k
      <3> QED BY <3>1 DEF Offset
    <2>4. ByteAt(b, j) = b.mem[i][k]
      BY DEF ByteAt
    <2> HIDE DEF at, i, k
    <2>5. Laid(b, s)[i][k] = IF at(i, k) \in DOMAIN s THEN s[at(i, k)] ELSE b.mem[i][k]
      BY <1>2, <2>2
    <2>6. Laid(b, s)[i][k] = IF j - b.position \in 1..Len(s) THEN s[j - b.position] ELSE ByteAt(b, j)
      BY <1>1, <2>3, <2>4, <2>5
    <2> QED BY <2>6 DEF i, k
  <1> QED BY <1>3, <1>4

LEMMA AfterWriting ==
  ASSUME NEW b, Sound(b), ~b.fault, NEW s \in Seq(Byte),
         ~Written(b, s).fault
  PROVE  /\ Sound(Written(b, s)) /\ Written(b, s).nodes >= b.nodes
         /\ Written(b, s).nodes <= MaxNodes => Overlaid(b, Written(b, s), s)
  <1> DEFINE w == Written(b, s)
             g == Grown(b, Len(s))
             o == Offset(b.position)
  <1>b. /\ b \in ByteArrays /\ b.position <= b.size /\ b.nodes \in Nat
        /\ b.position \in Nat /\ b.size \in Nat /\ Len(s) \in Nat
    BY DEF Sound, ByteArrays
  <1>1. CASE s = <<>>
    <2>1. w = b /\ Len(s) = 0
      BY <1>1 DEF Written
    <2> QED BY <2>1, <1>b DEF Overlaid, Longer
  <1>2. CASE s # <<>>
    <2>1. /\ g \in ByteArrays /\ g.nodes >= b.nodes
          /\ g = [b EXCEPT !.nodes = g.nodes, !.capacity = g.nodes * Base]
          /\ g.cur # Null => Sound(g)
      BY <1>b, Grows
    <2>2. /\ g.position = b.position /\ g.size = b.size /\ g.little = b.little
          /\ g.cur = b.cur /\ g.mem = b.mem /\ ~g.fault
      BY <2>1, <1>b DEF ByteArrays
    <2>3. Walks(g, g.cur, o, Len(s))
      <3>1. Broken(g).fault
        BY <2>1 DEF Broken, ByteArrays
      <3> QED BY <1>2, <3>1 DEF Written
    <2>4. w = [g EXCEPT !.mem = Laid(g, s), !.cur = CurAfter(g, g.cur, o, Len(s)),
                        !.position = @ + Len(s), !.size = Longer(g, g.position + Len(s))]
      BY <1>2, <2>2, <2>3 DEF Written, Laid
    <2>5. Sound(g)
      BY <2>1, <2>3 DEF Walks
    <2> HIDE DEF g, w
    <2>6. /\ g.position + Len(s) <= g.capacity
          /\ CurAfter(g, g.cur, o, Len(s)) = NodeOf(g, g.position + Len(s))
          /\ g.cur = (g.position \div Base) + 1
      BY <2>2, <2>3, <2>5, <1>b, Walk
    <2>7. /\ Laid(g, s) \in Memory
          /\ \A j \in 1..(MaxNodes * Base) :
               Laid(g, s)[((j - 1) \div Base) + 1][(j - 1) % Base]
               = IF j - g.position \in 1..Len(s) THEN s[j - g.position] ELSE ByteAt(g, j)
      BY <2>1, <2>6, LaidBytes
    <2>8. Longer(g, g.position + Len(s)) \in Nat /\ NodeOf(g, g.position + Len(s)) \in Nat
          /\ Longer(g, g.position + Len(s)) <= g.capacity /\ g.position + Len(s) <= Longer(g, g.position + Len(s))
      <3>1. /\ g.position + Len(s) \in Nat /\ g.size \in Nat /\ g.capacity \in Nat
            /\ g.size <= g.capacity
        BY <1>b, <2>1, <2>2, <2>5 DEF Sound, ByteArrays
      <3>2. NodeOf(g, g.position + Len(s)) \in Nat
        <4>1. (g.position + Len(s)) \div Base \in Nat
          BY <3>1, DivMod
        <4> QED BY <4>1 DEF NodeOf, Null
      <3> QED BY <3>1, <3>2, <2>6 DEF Longer
    <2>9. /\ w \in ByteArrays /\ w.nodes = g.nodes /\ w.capacity = g.capacity /\ w.fault = g.fault
          /\ w.cur = NodeOf(g, g.position + Len(s)) /\ w.position = g.position + Len(s)
          /\ w.size = Longer(g, g.position + Len(s)) /\ w.mem = Laid(g, s) /\ w.little = g.little
      <3>1. w = [g EXCEPT !.mem = Laid(g, s), !.cur = NodeOf(g, g.position + Len(s)),
                          !.position = g.position + Len(s), !.size = Longer(g, g.position + Len(s))]
        BY <2>4, <2>6
      <3> DEFINE m == Laid(g, s)
                 c == NodeOf(g, g.position + Len(s))
                 p == g.position + Len(s)
                 z == Longer(g, g.position + Len(s))
      <3>2. /\ m \in Memory /\ c \in Nat /\ p \in Nat /\ z \in Nat
            /\ w = [g EXCEPT !.mem = m, !.cur = c, !.position = p, !.size = z]
        BY <3>1, <1>b, <2>2, <2>7, <2>8
      <3> HIDE DEF m, c, p, z
      <3>3. /\ w \in ByteArrays /\ w.nodes = g.nodes /\ w.capacity = g.capacity /\ w.fault = g.fault
            /\ w.cur = c /\ w.position = p /\ w.size = z /\ w.mem = m /\ w.little = g.little
        BY <3>2, <2>1 DEF ByteArrays
      <3> QED BY <3>3 DEF m, c, p, z
    <2>10. NodeOf(w, w.position) = w.cur
      BY <2>9 DEF NodeOf
    <2>11. Sound(w)
      BY <2>5, <2>8, <2>9, <2>10 DEF Sound
    <2>12. ASSUME w.nodes <= MaxNodes, NEW j \in 1..w.size
           PROVE  ByteAt(w, j) = IF j - b.position \in 1..Len(s) THEN s[j - b.position] ELSE ByteAt(b, j)
      <3>1. w.size <= MaxNodes * Base
        <4>1. w.size <= w.nodes * Base /\ w.nodes <= MaxNodes /\ w.nodes \in Nat /\ w.size \in Nat
          BY <2>11, <2>12 DEF Sound, ByteArrays
        <4> QED BY <4>1, ByteArrayAssumption
      <3>2. j \in 1..(MaxNodes * Base)
        BY <3>1, <2>9, ByteArrayAssumption DEF ByteArrays
      <3>3. ByteAt(g, j) = ByteAt(b, j)
        BY <2>2 DEF ByteAt
      <3>4. ByteAt(w, j) = Laid(g, s)[((j - 1) \div Base) + 1][(j - 1) % Base]
        BY <2>9 DEF ByteAt
      <3> QED BY <3>2, <3>3, <3>4, <2>2, <2>7
    <2>13. w.size = Longer(b, w.position)
      BY <2>2, <2>9 DEF Longer
    <2>14. w.nodes <= MaxNodes => Overlaid(b, w, s)
      BY <2>1, <2>2, <2>9, <2>12, <2>13 DEF Overlaid
    <2>15. w.nodes >= b.nodes
      BY <2>1, <2>9
    <2> QED BY <2>11, <2>14, <2>15 DEF w
  <1> QED BY <1>1, <1>2

-----------------------------------------------------------------------------
(***************************************************************************)
(* What that means for the bytes as a sequence                             *)
(***************************************************************************)

\* A ByteArray whose nodes have memory.
Kept(b) == Sound(b) /\ b.nodes <= MaxNodes

LEMMA ContentsTyped ==
  ASSUME NEW b, Kept(b)
  PROVE  /\ Contents(b) \in Seq(Byte) /\ Len(Contents(b)) = b.size
         /\ \A j \in 1..b.size : Contents(b)[j] = ByteAt(b, j) /\ ByteAt(b, j) \in Byte
  <1>1. b \in ByteArrays /\ b.size \in Nat /\ b.size <= b.capacity /\ b.capacity = b.nodes * Base /\ b.capacity \in Nat
    BY DEF Kept, Sound, ByteArrays
  <1>2. \A j \in 1..b.size : ByteAt(b, j) \in Byte
    BY <1>1, ByteAtTyped DEF Kept
  <1> QED BY <1>1, <1>2 DEF Contents

LEMMA Part ==
  ASSUME NEW c \in Seq(Byte), NEW p \in Nat, NEW n \in Nat, p + n <= Len(c)
  PROVE  /\ SubSeq(c, p + 1, p + n) \in Seq(Byte) /\ Len(SubSeq(c, p + 1, p + n)) = n
         /\ \A i \in 1..n : SubSeq(c, p + 1, p + n)[i] = c[p + i]
  OBVIOUS

LEMMA Joined ==
  ASSUME NEW s \in Seq(Byte), NEW t \in Seq(Byte)
  PROVE  /\ s \o t \in Seq(Byte) /\ Len(s \o t) = Len(s) + Len(t)
         /\ \A j \in 1..(Len(s) + Len(t)) : (s \o t)[j] = IF j <= Len(s) THEN s[j] ELSE t[j - Len(s)]
  OBVIOUS

LEMMA OverlayIsWrite ==
  ASSUME NEW b, Kept(b), NEW w, Kept(w), NEW s \in Seq(Byte), Overlaid(b, w, s)
  PROVE  Contents(w) = SubSeq(Contents(b), 1, b.position) \o s
                       \o SubSeq(Contents(b), b.position + Len(s) + 1, Len(Contents(b)))
  <1> DEFINE p == b.position
             n == Len(s)
             c == Contents(b)
             first == SubSeq(c, 1, p)
             last == SubSeq(c, p + n + 1, Len(c))
             all == first \o s \o last
  <1>1. /\ p \in Nat /\ n \in Nat /\ b.size \in Nat /\ p <= b.size
        /\ c \in Seq(Byte) /\ Len(c) = b.size
        /\ \A j \in 1..b.size : c[j] = ByteAt(b, j)
    BY ContentsTyped DEF Kept, Sound, ByteArrays
  <1>2. /\ Contents(w) \in Seq(Byte) /\ Len(Contents(w)) = w.size
        /\ \A j \in 1..w.size : Contents(w)[j] = ByteAt(w, j)
    BY ContentsTyped
  <1>3. w.size = (IF p + n > b.size THEN p + n ELSE b.size) /\ w.size \in Nat
    BY <1>1 DEF Overlaid, Longer
  <1> HIDE DEF c, p
  <1>4. first \in Seq(Byte) /\ Len(first) = p /\ \A j \in 1..p : first[j] = c[j]
    BY <1>1
  <1>5. /\ last \in Seq(Byte) /\ Len(last) = w.size - (p + n)
        /\ \A j \in 1..(w.size - (p + n)) : last[j] = c[p + n + j]
    BY <1>1, <1>3
  <1> HIDE DEF first, last, n
  <1>6. /\ all \in Seq(Byte) /\ Len(all) = w.size
        /\ \A j \in 1..w.size : all[j] = IF j <= p THEN first[j]
                                         ELSE IF j <= p + n THEN s[j - p] ELSE last[j - (p + n)]
    <2> DEFINE front == first \o s
    <2>1. Len(s) = n
      BY DEF n
    <2>2. /\ front \in Seq(Byte) /\ Len(front) = p + n
          /\ \A j \in 1..(p + n) : front[j] = IF j <= p THEN first[j] ELSE s[j - p]
      BY <1>4, <2>1, Joined
    <2>3. all = front \o last
      OBVIOUS
    <2> HIDE DEF front, all
    <2>4. /\ all \in Seq(Byte) /\ Len(all) = (p + n) + (w.size - (p + n))
          /\ \A j \in 1..((p + n) + (w.size - (p + n))) :
               all[j] = IF j <= p + n THEN front[j] ELSE last[j - (p + n)]
      BY <1>5, <2>2, <2>3, Joined, SMTT(30)
    <2>5. (p + n) + (w.size - (p + n)) = w.size
      BY <1>1, <1>3
    <2>6. ASSUME NEW j \in 1..w.size
          PROVE  all[j] = IF j <= p THEN first[j] ELSE IF j <= p + n THEN s[j - p] ELSE last[j - (p + n)]
      <3>1. j \in Nat \ {0} /\ j <= w.size
        BY <1>3
      <3>2. all[j] = IF j <= p + n THEN front[j] ELSE last[j - (p + n)]
        BY <2>4, <2>5
      <3>3. j <= p + n => front[j] = IF j <= p THEN first[j] ELSE s[j - p]
        BY <2>2, <3>1, <1>1
      <3>4. j <= p => j <= p + n
        BY <3>1, <1>1
      <3> QED BY <3>2, <3>3, <3>4
    <2> QED BY <2>4, <2>5, <2>6
  <1> HIDE DEF all
  <1>7. ASSUME NEW j \in 1..w.size
        PROVE  Contents(w)[j] = all[j]
    <2>0. j \in Nat \ {0} /\ j <= w.size
      BY <1>3
    <2>1. ByteAt(w, j) = IF j - p \in 1..n THEN s[j - p] ELSE ByteAt(b, j)
      BY DEF Overlaid, p, n
    <2>2. CASE j <= p
      BY <2>0, <2>1, <2>2, <1>1, <1>2, <1>4, <1>6
    <2>3. CASE j > p /\ j <= p + n
      BY <2>0, <2>1, <2>3, <1>1, <1>2, <1>6
    <2>4. CASE j > p + n
      <3>1. last[j - (p + n)] = c[j] /\ j \in 1..b.size
        BY <2>0, <2>4, <1>1, <1>3, <1>5
      <3> QED BY <2>0, <3>1, <2>1, <2>4, <1>1, <1>2, <1>6
    <2> QED BY <2>0, <2>2, <2>3, <2>4, <1>1
  <1>8. Contents(w) = all
    BY <1>2, <1>6, <1>7
  <1> QED BY <1>8 DEF all, first, last, c, n, p

LEMMA OverlayTwice ==
  ASSUME NEW b, Sound(b), NEW m, Sound(m), NEW w, Sound(w), NEW s \in Seq(Byte), NEW t \in Seq(Byte),
         Overlaid(b, m, s), Overlaid(m, w, t)
  PROVE  Overlaid(b, w, s \o t)
  <1> DEFINE p == b.position
             u == s \o t
  <1>a. /\ p \in Nat /\ b.size \in Nat /\ p <= b.size /\ Len(s) \in Nat /\ Len(t) \in Nat
        /\ w.nodes \in Nat /\ m.nodes \in Nat /\ b.nodes \in Nat
    BY DEF Sound, ByteArrays
  <1>b. m.position = p + Len(s) /\ w.position = m.position + Len(t)
        /\ m.size = Longer(b, m.position) /\ w.size = Longer(m, w.position)
        /\ m.nodes >= b.nodes /\ w.nodes >= m.nodes
    BY DEF Overlaid
  <1>1. /\ p \in Nat /\ b.size \in Nat /\ p <= b.size /\ Len(s) \in Nat /\ Len(t) \in Nat
        /\ m.position = p + Len(s) /\ w.position = p + Len(s) + Len(t)
        /\ m.size = (IF p + Len(s) > b.size THEN p + Len(s) ELSE b.size)
        /\ w.size = (IF p + Len(s) + Len(t) > m.size THEN p + Len(s) + Len(t) ELSE m.size)
        /\ w.nodes >= b.nodes /\ m.size \in Nat /\ w.size \in Nat
    BY <1>a, <1>b DEF Longer
  <1>2. /\ u \in Seq(Byte) /\ Len(u) = Len(s) + Len(t)
        /\ \A j \in 1..(Len(s) + Len(t)) : u[j] = IF j <= Len(s) THEN s[j] ELSE t[j - Len(s)]
    BY Joined
  <1> HIDE DEF p, u
  <1>3. ASSUME NEW j \in 1..w.size
        PROVE  ByteAt(w, j) = IF j - p \in 1..Len(u) THEN u[j - p] ELSE ByteAt(b, j)
    <2>0. j \in Nat \ {0} /\ j <= w.size
      BY <1>1
    <2>1. ByteAt(w, j) = IF j - m.position \in 1..Len(t) THEN t[j - m.position] ELSE ByteAt(m, j)
      BY DEF Overlaid
    <2>2. j \in 1..m.size => ByteAt(m, j) = IF j - p \in 1..Len(s) THEN s[j - p] ELSE ByteAt(b, j)
      BY DEF Overlaid, p
    <2>3. CASE j - m.position \in 1..Len(t)
      <3>1. j - p \in 1..Len(u) /\ ~(j - p <= Len(s)) /\ (j - p) - Len(s) = j - m.position
        BY <2>3, <1>1, <1>2
      <3> QED BY <3>1, <2>1, <2>3, <1>2
    <2>4. CASE j - m.position \notin 1..Len(t)
      <3>1. j \in 1..m.size
        BY <2>0, <2>4, <1>1
      <3>2. j - p \in 1..Len(u) <=> j - p \in 1..Len(s)
        BY <2>0, <2>4, <1>1, <1>2
      <3>3. j - p \in 1..Len(s) => u[j - p] = s[j - p]
        BY <2>0, <1>1, <1>2
      <3> QED BY <3>1, <3>2, <3>3, <2>1, <2>2, <2>4
    <2> QED BY <2>3, <2>4
  <1>4. w.size = Longer(b, w.position)
    BY <1>1 DEF Longer
  <1>5. w.position = p + Len(u) /\ w.little = b.little /\ w.nodes >= b.nodes
    BY <1>1, <1>2 DEF Overlaid
  <1> QED BY <1>3, <1>4, <1>5 DEF Overlaid, p, u

\* What is read from the position on.
LEMMA ReadIsAhead ==
  ASSUME NEW b, Kept(b), ~b.fault, NEW n \in Nat, n <= Left(b), Walks(b, b.cur, Offset(b.position), n)
  PROVE  /\ BytesRead(b, n) = SubSeq(Contents(b), b.position + 1, b.position + n)
         /\ BytesRead(b, n) \in Seq(Byte) /\ Len(BytesRead(b, n)) = n
         /\ n > 0 => BytesRead(b, n)[1] = Contents(b)[b.position + 1]
  <1>1. /\ b.position \in Nat /\ b.size \in Nat /\ b.position + n <= b.size
        /\ Contents(b) \in Seq(Byte) /\ Len(Contents(b)) = b.size
        /\ \A j \in 1..b.size : Contents(b)[j] = ByteAt(b, j)
    BY ContentsTyped DEF Kept, Sound, ByteArrays, Left
  <1>2. BytesRead(b, n) = [i \in 1..n |-> ByteAt(b, b.position + i)]
    BY Walk DEF Kept, BytesRead
  <1>3. \A i \in 1..n : ByteAt(b, b.position + i) = Contents(b)[b.position + i]
    BY <1>1
  <1>4. BytesRead(b, n) = [i \in 1..n |-> Contents(b)[b.position + i]]
    BY <1>2, <1>3
  <1> DEFINE q == SubSeq(Contents(b), b.position + 1, b.position + n)
  <1>5. q \in Seq(Byte) /\ Len(q) = n /\ \A i \in 1..n : q[i] = Contents(b)[b.position + i]
    <2> DEFINE c == Contents(b)
               s == b.position
    <2>1. c \in Seq(Byte) /\ s \in Nat /\ n \in Nat /\ s + n <= Len(c)
      BY <1>1
    <2>2. q = SubSeq(c, s + 1, s + n)
      OBVIOUS
    <2> HIDE DEF c, s, q
    <2>3. q \in Seq(Byte) /\ Len(q) = n /\ \A i \in 1..n : q[i] = c[s + i]
      BY <2>1, <2>2, Part
    <2> QED BY <2>3 DEF c, s
  <1> HIDE DEF q
  <1>6. q = [i \in 1..n |-> Contents(b)[b.position + i]]
    BY <1>5
  <1>7. BytesRead(b, n) = q
    BY <1>4, <1>6
  <1>8. n > 0 => q[1] = Contents(b)[b.position + 1]
    BY <1>5
  <1> QED BY <1>5, <1>7, <1>8 DEF q

-----------------------------------------------------------------------------
(***************************************************************************)
(* The operations on the members                                           *)
(***************************************************************************)

LEMMA BrokenKept ==
  ASSUME NEW b, Kept(b)
  PROVE  /\ Kept(Broken(b)) /\ Contents(Broken(b)) = Contents(b)
         /\ Broken(b).position = b.position /\ Broken(b).fault
  <1>1. /\ Broken(b) \in ByteArrays /\ Broken(b).fault /\ Broken(b).nodes = b.nodes
        /\ Broken(b).capacity = b.capacity /\ Broken(b).position = b.position
        /\ Broken(b).size = b.size /\ Broken(b).mem = b.mem
    BY DEF Kept, Sound, ByteArrays, Broken
  <1> QED BY <1>1 DEF Kept, Sound, Contents, ByteAt

LEMMA AfterReading ==
  ASSUME NEW b, Kept(b), ~b.fault, NEW n \in Nat, ~AfterRead(b, n).fault
  PROVE  /\ Kept(AfterRead(b, n)) /\ Contents(AfterRead(b, n)) = Contents(b)
         /\ Throws(b, n) => AfterRead(b, n) = b
         /\ ~Throws(b, n) => /\ Walks(b, b.cur, Offset(b.position), n)
                             /\ AfterRead(b, n).position = b.position + n
  <1> DEFINE a == AfterRead(b, n)
  <1>1. CASE Throws(b, n)
    BY <1>1 DEF AfterRead
  <1>2. CASE ~Throws(b, n)
    <2>1. Walks(b, b.cur, Offset(b.position), n)
      <3>1. Broken(b).fault
        BY BrokenKept
      <3> QED BY <1>2, <3>1 DEF AfterRead
    <2>2. /\ b.position + n <= b.capacity
          /\ CurAfter(b, b.cur, Offset(b.position), n) = NodeOf(b, b.position + n)
      BY <2>1, Walk DEF Kept
    <2> DEFINE c == NodeOf(b, b.position + n)
               p == b.position + n
    <2>3. a = [b EXCEPT !.cur = c, !.position = p]
      BY <1>2, <2>1, <2>2 DEF AfterRead
    <2>4. /\ b \in ByteArrays /\ b.position \in Nat /\ p \in Nat /\ p <= b.size
      BY <1>2 DEF Kept, Sound, ByteArrays, Throws, Left
    <2>5. c \in Nat
      BY <2>4, DivMod DEF NodeOf, Null
    <2> HIDE DEF a, c, p
    <2>6. /\ a \in ByteArrays /\ a.nodes = b.nodes /\ a.capacity = b.capacity /\ a.position = p
          /\ a.size = b.size /\ a.mem = b.mem /\ a.cur = c
      BY <2>3, <2>4, <2>5 DEF ByteArrays
    <2>7. NodeOf(a, p) = c
      BY <2>6 DEF NodeOf, c, p
    <2>8. Kept(a)
      BY <2>4, <2>6, <2>7 DEF Kept, Sound
    <2>9. Contents(a) = Contents(b)
      BY <2>6 DEF Contents, ByteAt
    <2> QED BY <1>2, <2>1, <2>6, <2>8, <2>9 DEF a, p
  <1> QED BY <1>1, <1>2

\* setPosition()
LEMMA AfterPositioning ==
  ASSUME NEW b, Kept(b), ~b.fault, NEW v \in Nat, v <= b.capacity
  PROVE  LET a == Positioned(b, v) IN
         /\ Kept(a) /\ ~a.fault /\ a.position = v /\ a.mem = b.mem
         /\ a.size = IF v > b.size THEN v ELSE b.size
  <1> DEFINE a == Positioned(b, v)
             c == NodeOf(b, v)
             z == Longer(b, v)
  <1>1. CurAfter(b, 1, 0, v) = c
    <2>1. v \div Base \in Nat
      BY DivMod
    <2> QED BY <2>1, FromRoot DEF NodeOf
  <1>2. a = [b EXCEPT !.position = v, !.size = z, !.cur = c]
    BY <1>1 DEF Positioned
  <1>3. /\ b \in ByteArrays /\ b.size \in Nat /\ z \in Nat /\ v <= z /\ z <= b.capacity
        /\ z = IF v > b.size THEN v ELSE b.size
    BY DEF Longer, Kept, Sound, ByteArrays
  <1>4. c \in Nat
    BY DivMod DEF NodeOf, Null
  <1> HIDE DEF a, c, z
  <1>5. /\ a \in ByteArrays /\ a.nodes = b.nodes /\ a.capacity = b.capacity /\ a.position = v
        /\ a.size = z /\ a.mem = b.mem /\ a.cur = c /\ a.fault = b.fault
    BY <1>2, <1>3, <1>4 DEF ByteArrays
  <1>6. NodeOf(a, v) = c
    BY <1>5 DEF NodeOf, c
  <1>7. Kept(a)
    BY <1>3, <1>5, <1>6 DEF Kept, Sound
  <1> QED BY <1>3, <1>5, <1>7 DEF a

LEMMA DivMono ==
  ASSUME NEW m \in Nat, NEW n \in Nat, m <= n
  PROVE  m \div Base <= n \div Base
  <1>1. m \div Base \in Nat /\ n \div Base \in Nat /\ n < ((n \div Base) + 1) * Base
    BY DivMod, ByteArrayAssumption
  <1>2. m < ((n \div Base) + 1) * Base
    BY <1>1, ByteArrayAssumption
  <1>3. m \div Base < (n \div Base) + 1
    BY <1>1, <1>2, DivLess
  <1> QED BY <1>1, <1>3

\* A shorter walk is there when a longer one is.
LEMMA WalksLess ==
  ASSUME NEW b, NEW c \in Nat, NEW o \in Nat, NEW m \in Nat, NEW n \in Nat, m <= n,
         b.nodes \in Nat, Walks(b, c, o, n)
  PROVE  Walks(b, c, o, m)
  <1>1. CASE m = 0
    BY <1>1 DEF Walks
  <1>2. CASE m > 0
    <2>1. o + m - 1 \in Nat /\ o + n - 1 \in Nat /\ o + m - 1 <= o + n - 1 /\ n > 0
      BY <1>2
    <2>2. (o + m - 1) \div Base <= (o + n - 1) \div Base /\ (o + m - 1) \div Base \in Nat
          /\ (o + n - 1) \div Base \in Nat
      BY <2>1, DivMono, DivMod
    <2>3. c # Null /\ c + ((o + n - 1) \div Base) <= b.nodes
      BY <2>1 DEF Walks
    <2> DEFINE x == (o + m - 1) \div Base
               y == (o + n - 1) \div Base
    <2>4. x \in Nat /\ y \in Nat /\ x <= y /\ c + y <= b.nodes
      BY <2>2, <2>3
    <2> HIDE DEF x, y
    <2>5. c + x <= b.nodes
      BY <2>4
    <2> QED BY <2>3, <2>5 DEF Walks, x
  <1> QED BY <1>1, <1>2

\* SocketStream::read() is a write of what has arrived into room for more.
LEMMA AfterReceiving ==
  ASSUME NEW b, Sound(b), ~b.fault, NEW n \in Nat, NEW s \in Seq(Byte), Len(s) <= n, s # <<>>,
         ~Received(b, n, s).fault
  PROVE  /\ Sound(Received(b, n, s)) /\ Received(b, n, s).nodes >= b.nodes
         /\ Received(b, n, s).nodes <= MaxNodes => Overlaid(b, Received(b, n, s), s)
  <1> DEFINE g == Grown(b, n)
             w == Written(g, s)
             r == Received(b, n, s)
             v == g.position + Len(s)
             u == [w EXCEPT !.position = g.position]
  <1>1. /\ g \in ByteArrays /\ g.nodes >= b.nodes
        /\ g = [b EXCEPT !.nodes = g.nodes, !.capacity = g.nodes * Base]
        /\ g.cur # Null => Sound(g)
    BY Grows
  <1>b. /\ b \in ByteArrays /\ b.nodes \in Nat /\ b.position \in Nat /\ b.size \in Nat /\ Len(s) \in Nat
    BY DEF ByteArrays, Sound
  <1>2. /\ b \in ByteArrays /\ g.position = b.position /\ g.size = b.size /\ g.little = b.little
        /\ g.cur = b.cur /\ g.mem = b.mem /\ ~g.fault /\ b.nodes \in Nat /\ g.nodes \in Nat
        /\ b.position \in Nat /\ b.size \in Nat /\ g.cur \in Nat /\ Len(s) \in Nat
    <2> HIDE DEF g
    <2> QED BY <1>1, <1>b DEF ByteArrays
  <1>3. Walks(g, g.cur, Offset(g.position), n)
    <2>1. Broken(g).fault
      BY <1>1 DEF Broken, ByteArrays
    <2> QED BY <2>1 DEF Received
  <1>4. Sound(g) /\ g.position + n <= g.capacity
    <2>1. Sound(g)
      BY <1>1, <1>3 DEF Walks
    <2> QED BY <2>1, <1>2, <1>3, Walk
  <1>5. Grown(g, Len(s)) = g
    <2>1. Len(s) <= g.capacity - g.position
      BY <1>1, <1>2, <1>4 DEF ByteArrays
    <2> QED BY <2>1, <1>2, <1>4, Grows
  <1>6. Walks(g, g.cur, Offset(g.position), Len(s))
    <2>1. Offset(g.position) \in Nat
      <3>1. g.position % Base \in 0..(Base - 1)
        BY <1>2, DivMod
      <3> QED BY <3>1, ByteArrayAssumption DEF Offset
    <2> HIDE DEF g
    <2> QED BY <2>1, <1>2, <1>3, WalksLess
  <1>7. r = Positioned(u, v)
    BY <1>3 DEF Received
  <1>8. /\ w = [g EXCEPT !.mem = Laid(g, s), !.cur = CurAfter(g, g.cur, Offset(g.position), Len(s)),
                         !.position = @ + Len(s), !.size = Longer(g, g.position + Len(s))]
    BY <1>2, <1>5, <1>6 DEF Written, Laid
  <1> HIDE DEF g, w, u, v, r
  <1>9. ~w.fault /\ w.nodes = g.nodes
    BY <1>1, <1>2, <1>8 DEF ByteArrays
  <1>11. Sound(w) /\ (w.nodes <= MaxNodes => Overlaid(g, w, s))
    BY <1>2, <1>4, <1>9, AfterWriting DEF w
  <1>12. r = w
    <2>1. /\ w \in ByteArrays /\ w.position = v /\ v \in Nat /\ w.position <= w.size
          /\ w.cur = NodeOf(w, v) /\ w.size \in Nat
      <3>1. w.position = v /\ v \in Nat
        BY <1>1, <1>2, <1>8 DEF v, ByteArrays
      <3> QED BY <3>1, <1>9, <1>11 DEF Sound, ByteArrays
    <2>2. CurAfter(u, 1, 0, v) = NodeOf(u, v)
      <3>1. v \div Base \in Nat
        BY <2>1, DivMod
      <3> QED BY <3>1, <2>1, FromRoot DEF NodeOf
    <2>3. u.nodes = w.nodes /\ u.size = w.size
      BY <2>1 DEF u, ByteArrays
    <2>4. NodeOf(u, v) = w.cur /\ Longer(u, v) = w.size
      BY <2>1, <2>3 DEF NodeOf, Longer
    <2>5. r = [u EXCEPT !.position = w.position, !.size = w.size, !.cur = w.cur]
      BY <1>7, <2>1, <2>2, <2>4 DEF Positioned
    <2> QED BY <2>1, <2>5 DEF u, ByteArrays
  <1>13. ASSUME w.nodes <= MaxNodes PROVE Overlaid(b, w, s)
    <2>1. \A j : ByteAt(g, j) = ByteAt(b, j)
      BY <1>2 DEF ByteAt
    <2>2. /\ w.position = g.position + Len(s) /\ w.size = Longer(g, w.position)
          /\ w.little = g.little /\ w.nodes = g.nodes
          /\ \A j \in 1..w.size :
               ByteAt(w, j) = IF j - g.position \in 1..Len(s) THEN s[j - g.position] ELSE ByteAt(g, j)
      BY <1>9, <1>11, <1>13 DEF Overlaid
    <2>3. Longer(g, w.position) = Longer(b, w.position)
      BY <1>2 DEF Longer
    <2> QED BY <2>1, <2>2, <2>3, <1>1, <1>2 DEF Overlaid
  <1> QED BY <1>1, <1>9, <1>11, <1>12, <1>13 DEF r

-----------------------------------------------------------------------------
(***************************************************************************)
(* The steps of a sequence of bytes with a position                        *)
(***************************************************************************)

LEMMA IsWrite ==
  ASSUME NEW n \in 0..(MaxLen + 1), result' \in Seq(Byte), Len(result') = n,
         NEW s \in {result', Reverse(result')},
         Contents(ba') = SubSeq(Contents(ba), 1, ba.position) \o s
                         \o SubSeq(Contents(ba), ba.position + n + 1, Len(Contents(ba))),
         ba'.position = ba.position + n
  PROVE  Abstract!Next
  <1> DEFINE c == Contents(ba)
             d == Contents(ba')
  <1>0. /\ c = [i \in 1..ba.size |-> ba.mem[((i - 1) \div Base) + 1][(i - 1) % Base]]
        /\ d = [i \in 1..ba'.size |-> ba'.mem[((i - 1) \div Base) + 1][(i - 1) % Base]]
    BY DEF Contents, ByteAt
  <1> HIDE DEF c, d
  <1>s. s \in Abstract!Ordered(result')
    BY DEF Abstract!Ordered, Abstract!Reverse, Reverse
  <1>w. d = SubSeq(c, 1, ba.position) \o s \o SubSeq(c, ba.position + n + 1, Len(c))
    BY DEF c, d
  <1>1. Abstract!Write(n)
    BY <1>0, <1>s, <1>w DEF Abstract!Write
  <1> QED BY <1>1 DEF Abstract!Next

LEMMA IsRead ==
  ASSUME NEW n \in Nat, n <= Len(Contents(ba)) - ba.position, Len(Contents(ba)) \in Nat, ba.position \in Nat,
         NEW ahead, ahead = SubSeq(Contents(ba), ba.position + 1, ba.position + n),
         result' \in {ahead, Reverse(ahead)},
         Contents(ba') = Contents(ba), ba'.position = ba.position + n
  PROVE  Abstract!Next
  <1>1. n \in 0..Len(Contents(ba))
    OBVIOUS
  <1> DEFINE c == Contents(ba)
             d == Contents(ba')
  <1>0. /\ c = [i \in 1..ba.size |-> ba.mem[((i - 1) \div Base) + 1][(i - 1) % Base]]
        /\ d = [i \in 1..ba'.size |-> ba'.mem[((i - 1) \div Base) + 1][(i - 1) % Base]]
    BY DEF Contents, ByteAt
  <1>s. result' \in Abstract!Ordered(ahead)
    BY DEF Abstract!Ordered, Abstract!Reverse, Reverse
  <1> HIDE DEF c, d
  <1>a. ahead = Abstract!Ahead(n)
    <2>1. ahead = SubSeq(c, ba.position + 1, ba.position + n)
      BY DEF c
    <2> QED BY <2>1, <1>0 DEF Abstract!Ahead
  <1>2. Abstract!Read(n)
    <2>1. n <= Len(c) - ba.position /\ d = c
      BY DEF c, d
    <2> QED BY <2>1, <1>0, <1>s, <1>a DEF Abstract!Read
  <1> QED BY <1>1, <1>2 DEF Abstract!Next, Contents, ByteAt

LEMMA IsPeek ==
  ASSUME NEW n \in Nat, n <= Len(Contents(ba)) - ba.position, Len(Contents(ba)) \in Nat, ba.position \in Nat,
         result' = SubSeq(Contents(ba), ba.position + 1, ba.position + n),
         Contents(ba') = Contents(ba), ba'.position = ba.position
  PROVE  Abstract!Next
  <1>1. n \in 0..Len(Contents(ba))
    OBVIOUS
  <1>2. Abstract!Peek(n) /\ n \in 0..Len(Contents(ba))
    BY <1>1 DEF Abstract!Peek, Abstract!Ahead, Contents, ByteAt
  <1> QED BY <1>2 DEF Abstract!Next, Contents, ByteAt

\* Nothing is read, and nothing changes: a call that throws, a fault, a setting.
LEMMA IsNothing ==
  ASSUME Kept(ba), result' = <<>>, Contents(ba') = Contents(ba), ba'.position = ba.position
  PROVE  Abstract!Next
  <1>1. /\ ba.position \in Nat /\ ba.position <= Len(Contents(ba)) /\ Len(Contents(ba)) \in Nat
        /\ Contents(ba) \in Seq(Byte)
    BY ContentsTyped DEF Kept, Sound, ByteArrays
  <1>2. SubSeq(Contents(ba), ba.position + 1, ba.position + 0) = <<>>
    BY <1>1
  <1> QED BY <1>1, <1>2, IsPeek

LEMMA IsSetPosition ==
  ASSUME Kept(ba), Kept(ba'), ba'.mem = ba.mem, result' = <<>>,
         ba'.size = IF ba'.position > ba.size THEN ba'.position ELSE ba.size
  PROVE  Abstract!Next
  <1> DEFINE c == Contents(ba)
             d == Contents(ba')
  <1>1. /\ ba.size \in Nat /\ ba'.position \in Nat /\ ba'.size \in Nat
        /\ c \in Seq(Byte) /\ Len(c) = ba.size /\ d \in Seq(Byte) /\ Len(d) = ba'.size
        /\ \A j \in 1..ba.size : c[j] = ByteAt(ba, j)
        /\ \A j \in 1..ba'.size : d[j] = ByteAt(ba', j)
    BY ContentsTyped DEF Kept, Sound, ByteArrays
  <1>2. \A j : ByteAt(ba', j) = ByteAt(ba, j)
    BY DEF ByteAt
  <1> HIDE DEF c, d
  <1>3. ba'.position <= ba.size => d = c
    BY <1>1, <1>2
  <1>4. ba'.position > ba.size => Len(d) = ba'.position /\ SubSeq(d, 1, Len(c)) = c
    <2> SUFFICES ASSUME ba'.position > ba.size
                 PROVE  Len(d) = ba'.position /\ SubSeq(d, 1, Len(c)) = c
      OBVIOUS
    <2>1. Len(d) = ba'.position /\ Len(c) <= Len(d)
      BY <1>1
    <2>2. \A j \in 1..Len(c) : d[j] = c[j]
      BY <1>1, <1>2
    <2> QED BY <1>1, <2>1, <2>2
  <1>5. ba'.position <= Len(c) => d = c
    BY <1>1, <1>3
  <1>6. ba'.position > Len(c) => Len(d) = ba'.position /\ SubSeq(d, 1, Len(c)) = c
    BY <1>1, <1>4
  <1>7. /\ ba'.position \in Nat
        /\ IF ba'.position <= Len(c) THEN d = c
           ELSE Len(d) = ba'.position /\ SubSeq(d, 1, Len(c)) = c
        /\ result' = <<>>
    BY <1>1, <1>5, <1>6
  <1>8. Abstract!SetPosition
    BY <1>7 DEF Abstract!SetPosition, c, d, Contents, ByteAt
  <1> QED BY <1>8 DEF Abstract!Next

-----------------------------------------------------------------------------
(***************************************************************************)
(* The invariant, and what every step does                                 *)
(***************************************************************************)

ByteInv ==
  /\ Kept(ba) /\ ba.cur <= MaxNodes
  /\ result \in Seq(Byte)
  /\ file \in Seq(Byte) /\ Len(file) <= MaxLen
  /\ calls \in 0..MaxCalls

\* The part that an operation on the members can disturb, and the step of the sequence.
Agrees ==
  /\ Kept(ba') /\ ba'.cur <= MaxNodes /\ result' \in Seq(Byte)
  /\ Abstract!Next

LEMMA Becoming ==
  ASSUME ByteInv, NEW b, NEW s \in Seq(Byte), Becomes(b, s), ~b.fault => Sound(b)
  PROVE  /\ Kept(ba') /\ ba'.cur <= MaxNodes /\ result' \in Seq(Byte)
         /\ b.fault => Abstract!Next
         /\ ~b.fault => ba' = b /\ result' = s /\ Kept(b)
  <1>1. CASE b.fault
    <2>1. ba' = Broken(ba) /\ result' = <<>>
      BY <1>1 DEF Becomes
    <2>2. Kept(ba') /\ Contents(ba') = Contents(ba) /\ ba'.position = ba.position
      BY <2>1, BrokenKept DEF ByteInv
    <2>3. ba'.cur = ba.cur
      BY <2>1 DEF Broken, ByteInv, Kept, Sound, ByteArrays
    <2>4. Abstract!Next
      BY <2>1, <2>2, IsNothing DEF ByteInv
    <2>5. <<>> \in Seq(Byte)
      OBVIOUS
    <2> QED BY <1>1, <2>1, <2>2, <2>3, <2>4, <2>5 DEF ByteInv
  <1>2. CASE ~b.fault
    <2>1. ba' = b /\ result' = s /\ Kept(b)
      BY <1>2 DEF Becomes, Kept
    <2>2. b.cur <= MaxNodes
      <3>1. b.cur = NodeOf(b, b.position) /\ b.nodes \in Nat /\ b.position \in Nat /\ b.nodes <= MaxNodes
        BY <1>2, <2>1 DEF Kept, Sound, ByteArrays
      <3>2. b.position \div Base \in Nat
        BY <3>1, DivMod
      <3> QED BY <3>1, <3>2, ByteArrayAssumption DEF NodeOf, Null
    <2> QED BY <1>2, <2>1, <2>2
  <1> QED BY <1>1, <1>2

LEMMA Overlaying ==
  ASSUME ByteInv, NEW b, NEW s \in Seq(Byte), NEW r \in Seq(Byte), s \in {r, Reverse(r)},
         Len(s) = Len(r), Len(r) <= MaxLen + 1, Becomes(b, r),
         ~b.fault => Sound(b) /\ (b.nodes <= MaxNodes => Overlaid(ba, b, s))
  PROVE  Agrees
  <1>1. CASE b.fault
    BY <1>1, Becoming DEF Agrees
  <1>2. CASE ~b.fault
    <2>1. /\ Kept(ba') /\ ba'.cur <= MaxNodes /\ result' \in Seq(Byte)
          /\ ba' = b /\ result' = r /\ Kept(b)
      BY <1>2, Becoming
    <2>2. Overlaid(ba, ba', s)
      BY <1>2, <2>1 DEF Kept
    <2>3. Contents(ba') = SubSeq(Contents(ba), 1, ba.position) \o s
                          \o SubSeq(Contents(ba), ba.position + Len(s) + 1, Len(Contents(ba)))
      BY <2>1, <2>2, OverlayIsWrite DEF ByteInv
    <2>4. ba'.position = ba.position + Len(s)
      BY <2>2 DEF Overlaid
    <2>5. Len(r) \in 0..(MaxLen + 1) /\ MaxLen \in Nat
      BY ByteArrayAssumption
    <2>6. Abstract!Next
      BY <2>1, <2>3, <2>4, <2>5, IsWrite
    <2> QED BY <2>1, <2>6 DEF Agrees
  <1> QED BY <1>1, <1>2

LEMMA Reversed ==
  ASSUME NEW s \in Seq(Byte)
  PROVE  Reverse(s) \in Seq(Byte) /\ Len(Reverse(s)) = Len(s)
  <1>1. \A i \in 1..Len(s) : (Len(s) - i) + 1 \in 1..Len(s)
    OBVIOUS
  <1>2. Reverse(s) = [i \in 1..Len(s) |-> s[(Len(s) - i) + 1]]
    BY DEF Reverse
  <1>3. \A i \in 1..Len(s) : s[(Len(s) - i) + 1] \in Byte
    BY <1>1
  <1>4. Len(s) \in Nat
    OBVIOUS
  <1> QED BY <1>2, <1>3, <1>4

LEMMA ChunksTyped ==
  ASSUME NEW s \in Chunks
  PROVE  s \in Seq(Byte) /\ Len(s) \in 0..MaxLen
  <1>1. PICK n \in 0..MaxLen, d \in 0..Digits : s = [i \in 1..n |-> (d + i) % (Digits + 1)]
    BY DEF Chunks
  <1>2. ASSUME NEW i \in 1..n PROVE (d + i) % (Digits + 1) \in Byte
    <2> DEFINE x == d + i
               y == Digits + 1
    <2>1. x \in Nat /\ y \in Nat \ {0} /\ y <= MaxLen + 1 /\ MaxLen \in Nat
      BY ByteArrayAssumption
    <2> HIDE DEF x, y
    <2>2. x % y \in 0..(y - 1)
      BY <2>1
    <2>3. x % y \in Byte
      BY <2>1, <2>2 DEF Byte, Raw
    <2> QED BY <2>3 DEF x, y
  <1>3. n \in Nat
    BY ByteArrayAssumption
  <1> QED BY <1>1, <1>2, <1>3

-----------------------------------------------------------------------------
LEMMA WriteStep ==
  ASSUME ByteInv, NEW s \in Seq(Byte), NEW r \in Seq(Byte), s \in {r, Reverse(r)}, Len(s) = Len(r),
         Len(r) <= MaxLen + 1, Becomes(Written(ba, s), r)
  PROVE  Agrees
  <1>1. Sound(ba) /\ ~ba.fault
    BY DEF ByteInv, Kept, Becomes
  <1>2. ~Written(ba, s).fault =>
          /\ Sound(Written(ba, s))
          /\ Written(ba, s).nodes <= MaxNodes => Overlaid(ba, Written(ba, s), s)
    BY <1>1, AfterWriting
  <1> QED BY <1>2, Overlaying

\* Two parts, the second of which is only written when the first was.
LEMMA TwoParts ==
  ASSUME ByteInv, NEW m, NEW w, NEW s \in Seq(Byte), NEW t \in Seq(Byte), Len(s) + Len(t) <= MaxLen + 1,
         Becomes(w, s \o t), m.fault => w.fault,
         ~m.fault => Sound(m) /\ (m.nodes <= MaxNodes => Overlaid(ba, m, s)),
         ~m.fault /\ ~w.fault => /\ Sound(w) /\ w.nodes >= m.nodes
                                 /\ w.nodes <= MaxNodes => Overlaid(m, w, t)
  PROVE  Agrees
  <1>1. s \o t \in Seq(Byte) /\ Len(s \o t) <= MaxLen + 1
    BY Joined
  <1>2. ASSUME ~w.fault PROVE Sound(w) /\ (w.nodes <= MaxNodes => Overlaid(ba, w, s \o t))
    <2>1. ~m.fault /\ Sound(m) /\ Sound(w) /\ w.nodes >= m.nodes
      BY <1>2
    <2>2. ASSUME w.nodes <= MaxNodes PROVE Overlaid(ba, w, s \o t)
      <3>1. m.nodes <= MaxNodes
        BY <2>1, <2>2, ByteArrayAssumption DEF Sound, ByteArrays
      <3>2. Overlaid(ba, m, s) /\ Overlaid(m, w, t) /\ Sound(ba)
        BY <1>2, <2>1, <2>2, <3>1 DEF ByteInv, Kept
      <3> QED BY <3>2, <2>1, OverlayTwice
    <2> QED BY <2>1, <2>2
  <1> QED BY <1>1, <1>2, Overlaying

LEMMA WriteStringStep ==
  ASSUME ByteInv, NEW s \in Chunks, Becomes(Written(Written(ba, <<Len(s)>>), s), <<Len(s)>> \o s)
  PROVE  Agrees
  <1> DEFINE m == Written(ba, <<Len(s)>>)
             w == Written(m, s)
  <1>1. Sound(ba) /\ ~ba.fault
    BY DEF ByteInv, Kept, Becomes
  <1>2. s \in Seq(Byte) /\ Len(s) \in 0..MaxLen
    BY ChunksTyped
  <1>3. <<Len(s)>> \in Seq(Byte) /\ Len(<<Len(s)>>) + Len(s) <= MaxLen + 1
    <2>1. Len(s) \in Byte
      BY <1>2, ByteArrayAssumption DEF Byte, Raw
    <2> QED BY <2>1, <1>2, ByteArrayAssumption
  <1>4. ~m.fault => Sound(m) /\ (m.nodes <= MaxNodes => Overlaid(ba, m, <<Len(s)>>))
    BY <1>1, <1>3, AfterWriting
  <1>5. m.fault => w.fault
    BY DEF Written
  <1> HIDE DEF m
  <1>6. ~m.fault /\ ~w.fault => /\ Sound(w) /\ w.nodes >= m.nodes
                                /\ w.nodes <= MaxNodes => Overlaid(m, w, s)
    BY <1>2, <1>4, AfterWriting
  <1> HIDE DEF w
  <1>7. Becomes(w, <<Len(s)>> \o s)
    BY DEF w, m
  <1> QED BY <1>2, <1>3, <1>4, <1>5, <1>6, <1>7, TwoParts

LEMMA ReceiveStep ==
  ASSUME ByteInv, NEW n \in 1..MaxLen, NEW s \in Seq(Byte), s # <<>>, Len(s) <= n, Becomes(Received(ba, n, s), s)
  PROVE  Agrees
  <1>1. Sound(ba) /\ ~ba.fault /\ n \in Nat /\ Len(s) <= MaxLen + 1
    BY ByteArrayAssumption DEF ByteInv, Kept, Becomes
  <1>2. ~Received(ba, n, s).fault =>
          /\ Sound(Received(ba, n, s))
          /\ Received(ba, n, s).nodes <= MaxNodes => Overlaid(ba, Received(ba, n, s), s)
    BY <1>1, AfterReceiving
  <1> QED BY <1>1, <1>2, Overlaying

LEMMA SameBytes ==
  ASSUME NEW s \in Seq(Byte), NEW t \in Seq(Byte), Len(s) = Len(t), \A j \in 1..Len(t) : s[j] = t[j]
  PROVE  s = t
  OBVIOUS

\* A sequence is its first part and the rest.
LEMMA Rejoined ==
  ASSUME NEW s \in Seq(Byte), NEW u \in Seq(Byte), NEW t \in Seq(Byte), NEW k \in Nat, 0 < k, k < Len(s),
         Len(u) = k, Len(t) = Len(s) - k,
         \A i \in 1..k : u[i] = s[i], \A i \in 1..(Len(s) - k) : t[i] = s[k + i]
  PROVE  u # <<>> /\ t # <<>> /\ u \o t = s
  <1> DEFINE all == u \o t
  <1>0. Len(s) \in Nat /\ k + (Len(s) - k) = Len(s)
    OBVIOUS
  <1>1. /\ all \in Seq(Byte) /\ Len(all) = Len(u) + Len(t)
        /\ \A j \in 1..(Len(u) + Len(t)) : all[j] = IF j <= Len(u) THEN u[j] ELSE t[j - Len(u)]
    BY Joined
  <1> HIDE DEF all
  <1>2. /\ all \in Seq(Byte) /\ Len(all) = Len(s)
        /\ \A j \in 1..Len(s) : all[j] = IF j <= k THEN u[j] ELSE t[j - k]
    BY <1>0, <1>1
  <1>3. ASSUME NEW j \in 1..Len(s) PROVE all[j] = s[j]
    <2>1. j \in Nat \ {0} /\ j <= Len(s)
      BY <1>0
    <2>2. CASE j <= k
      <3>1. j \in 1..k
        BY <2>1, <2>2
      <3> QED BY <2>2, <3>1, <1>2
    <2>3. CASE ~(j <= k)
      <3>1. j - k \in 1..(Len(s) - k) /\ k + (j - k) = j
        BY <2>1, <2>3, <1>0
      <3>2. t[j - k] = s[k + (j - k)]
        BY <3>1
      <3>3. all[j] = t[j - k]
        BY <2>3, <1>2
      <3> QED BY <3>1, <3>2, <3>3
    <2> QED BY <2>2, <2>3
  <1>4. all = s
    BY <1>2, <1>3, SameBytes
  <1>5. u # <<>>
    OBVIOUS
  <1>6. t # <<>>
    <2>1. Len(t) > 0
      BY <1>0
    <2> QED BY <2>1
  <1> QED BY <1>4, <1>5, <1>6 DEF all

LEMMA Halves ==
  ASSUME NEW s \in Seq(Byte), NEW k \in Nat, 0 < k, k < Len(s)
  PROVE  /\ SubSeq(s, 1, k) \in Seq(Byte) /\ SubSeq(s, k + 1, Len(s)) \in Seq(Byte)
         /\ Len(SubSeq(s, 1, k)) = k /\ Len(SubSeq(s, k + 1, Len(s))) = Len(s) - k
         /\ SubSeq(s, 1, k) # <<>> /\ SubSeq(s, k + 1, Len(s)) # <<>>
         /\ SubSeq(s, 1, k) \o SubSeq(s, k + 1, Len(s)) = s
  <1> DEFINE u == SubSeq(s, 1, k)
             t == SubSeq(s, k + 1, Len(s))
  <1>1. u \in Seq(Byte) /\ Len(u) = k /\ \A i \in 1..k : u[i] = s[i]
    OBVIOUS
  <1>2. t \in Seq(Byte) /\ Len(t) = Len(s) - k /\ \A i \in 1..(Len(s) - k) : t[i] = s[k + i]
    OBVIOUS
  <1> HIDE DEF u, t
  <1>3. u # <<>> /\ t # <<>> /\ u \o t = s
    BY <1>1, <1>2, Rejoined
  <1> QED BY <1>1, <1>2, <1>3 DEF u, t

LEMMA ReadFixSizeStep ==
  ASSUME ByteInv, NEW n \in 1..MaxLen, NEW s \in Seq(Byte), NEW k \in 1..MaxLen, Len(s) <= n, k < Len(s),
         LET first == Received(ba, n, SubSeq(s, 1, k)) IN
         Becomes(IF first.fault THEN first ELSE Received(first, n - k, SubSeq(s, k + 1, Len(s))), s)
  PROVE  Agrees
  <1> DEFINE u == SubSeq(s, 1, k)
             t == SubSeq(s, k + 1, Len(s))
             m == Received(ba, n, u)
             w == IF m.fault THEN m ELSE Received(m, n - k, t)
  <1>0. k \in Nat \ {0} /\ n \in Nat /\ Len(s) \in Nat
    BY ByteArrayAssumption
  <1>1. /\ u \in Seq(Byte) /\ t \in Seq(Byte) /\ Len(u) = k /\ Len(t) = Len(s) - k
        /\ u # <<>> /\ t # <<>> /\ u \o t = s
    <2>1. 0 < k
      BY <1>0
    <2> QED BY <1>0, <2>1, Halves
  <1>2. n \in Nat /\ n - k \in Nat /\ Len(u) <= n /\ Len(t) <= n - k /\ Len(u) + Len(t) <= MaxLen + 1
    BY <1>1, ByteArrayAssumption
  <1>3. Becomes(w, u \o t)
    BY <1>1
  <1> HIDE DEF u, t
  <1>4. Sound(ba) /\ ~ba.fault
    BY <1>3 DEF ByteInv, Kept, Becomes
  <1>5. ~m.fault => Sound(m) /\ (m.nodes <= MaxNodes => Overlaid(ba, m, u))
    BY <1>1, <1>2, <1>4, AfterReceiving
  <1>6. m.fault => w.fault
    OBVIOUS
  <1> HIDE DEF m
  <1>7. ~m.fault /\ ~w.fault => /\ Sound(w) /\ w.nodes >= m.nodes
                                /\ w.nodes <= MaxNodes => Overlaid(m, w, t)
    BY <1>1, <1>2, <1>5, AfterReceiving
  <1> HIDE DEF w
  <1> QED BY <1>1, <1>2, <1>3, <1>5, <1>6, <1>7, TwoParts


-----------------------------------------------------------------------------
\* read(), whose bytes are handed over as they are or turned round.
LEMMA ReadStep ==
  ASSUME ByteInv, NEW n \in Nat, NEW r,
         ~(Throws(ba, n) \/ ~Walks(ba, ba.cur, Offset(ba.position), n)) =>
           r \in {BytesRead(ba, n), Reverse(BytesRead(ba, n))},
         Throws(ba, n) \/ ~Walks(ba, ba.cur, Offset(ba.position), n) => r = <<>>,
         Becomes(AfterRead(ba, n), r)
  PROVE  Agrees
  <1> DEFINE a == AfterRead(ba, n)
  <1>1. Kept(ba) /\ ~ba.fault
    BY DEF ByteInv, Becomes
  <1>2. /\ ba.position \in Nat /\ ba.size \in Nat /\ ba.position <= ba.size
        /\ Len(Contents(ba)) = ba.size
    BY <1>1, ContentsTyped DEF Kept, Sound, ByteArrays
  <1>3. ~a.fault => Sound(a)
    BY <1>1, AfterReading DEF Kept
  <1>4. CASE Throws(ba, n) \/ ~Walks(ba, ba.cur, Offset(ba.position), n)
    <2>0. <<>> \in Seq(Byte)
      OBVIOUS
    <2>1. r = <<>> /\ r \in Seq(Byte)
      <3>1. r = <<>>
        BY <1>4
      <3> QED BY <3>1, <2>0
    <2>2. /\ Kept(ba') /\ ba'.cur <= MaxNodes /\ result' \in Seq(Byte)
          /\ a.fault => Abstract!Next
          /\ ~a.fault => ba' = a /\ result' = r
      BY <2>1, <1>3, Becoming
    <2>3. ~a.fault => a = ba
      BY <1>1, <1>4, AfterReading
    <2>4. ~a.fault => Abstract!Next
      BY <1>1, <2>1, <2>2, <2>3, IsNothing
    <2> QED BY <2>2, <2>4 DEF Agrees
  <1>5. CASE ~Throws(ba, n) /\ Walks(ba, ba.cur, Offset(ba.position), n)
    <2> DEFINE ahead == SubSeq(Contents(ba), ba.position + 1, ba.position + n)
    <2>1. n <= Left(ba) /\ n <= Len(Contents(ba)) - ba.position
      BY <1>2, <1>5 DEF Throws, Left
    <2>2. BytesRead(ba, n) = ahead /\ BytesRead(ba, n) \in Seq(Byte)
      BY <1>1, <1>5, <2>1, ReadIsAhead
    <2> HIDE DEF ahead
    <2>3. r \in {ahead, Reverse(ahead)} /\ r \in Seq(Byte)
      BY <1>5, <2>2, Reversed
    <2>4. /\ Kept(ba') /\ ba'.cur <= MaxNodes /\ result' \in Seq(Byte)
          /\ a.fault => Abstract!Next
          /\ ~a.fault => ba' = a /\ result' = r
      BY <2>3, <1>3, Becoming
    <2>5. ~a.fault => Contents(a) = Contents(ba) /\ a.position = ba.position + n
      BY <1>1, <1>5, AfterReading
    <2>6. ASSUME ~a.fault PROVE Abstract!Next
      <3>1. Contents(ba') = Contents(ba) /\ ba'.position = ba.position + n /\ result' \in {ahead, Reverse(ahead)}
        BY <2>3, <2>4, <2>5, <2>6
      <3>2. Len(Contents(ba)) \in Nat /\ ba.position \in Nat
        BY <1>2
      <3>3. ahead = SubSeq(Contents(ba), ba.position + 1, ba.position + n)
        BY DEF ahead
      <3> QED BY <2>1, <3>1, <3>2, <3>3, IsRead
    <2> QED BY <2>4, <2>6 DEF Agrees
  <1> QED BY <1>4, <1>5

\* A length of one byte, and then so many bytes.
LEMMA IsReadString ==
  ASSUME Kept(ba), ba.position < ba.size, NEW n \in Nat, n = Contents(ba)[ba.position + 1],
         Contents(ba') = Contents(ba),
         n < ba.size - ba.position =>
           /\ result' = SubSeq(Contents(ba), (ba.position + 1) + 1, (ba.position + 1) + n)
           /\ ba'.position = (ba.position + 1) + n,
         ~(n < ba.size - ba.position) => result' = <<>> /\ ba'.position = ba.position + 1
  PROVE  Abstract!Next
  <1> DEFINE c == Contents(ba)
             d == Contents(ba')
             p == ba.position
             tail == SubSeq(c, (p + 1) + 1, (p + 1) + n)
             ahead == SubSeq(c, p + 1, p + (n + 1))
  <1>1. c \in Seq(Byte) /\ Len(c) = ba.size /\ p \in Nat /\ ba.size \in Nat
    BY ContentsTyped DEF Kept, Sound, ByteArrays
  <1>0. /\ c = [i \in 1..ba.size |-> ba.mem[((i - 1) \div Base) + 1][(i - 1) % Base]]
        /\ d = [i \in 1..ba'.size |-> ba'.mem[((i - 1) \div Base) + 1][(i - 1) % Base]]
    BY DEF Contents, ByteAt
  <1>c. d = c /\ n = c[p + 1] /\ p < ba.size
    OBVIOUS
  <1>r. /\ n < ba.size - p => result' = tail /\ ba'.position = (p + 1) + n
        /\ ~(n < ba.size - p) => result' = <<>> /\ ba'.position = p + 1
    OBVIOUS
  <1>p. p = ba.position
    OBVIOUS
  <1> HIDE DEF c, d, p
  <1>2. ASSUME n < ba.size - p PROVE tail = Tail(ahead)
    <2>1. (p + 1) + n <= Len(c) /\ p + (n + 1) <= Len(c) /\ n + 1 \in Nat /\ p + 1 \in Nat
      BY <1>1, <1>2
    <2>2. /\ tail \in Seq(Byte) /\ Len(tail) = n /\ \A i \in 1..n : tail[i] = c[(p + 1) + i]
      BY <1>1, <2>1, Part, ZenonT(30)
    <2>3. /\ ahead \in Seq(Byte) /\ Len(ahead) = n + 1
          /\ \A i \in 1..(n + 1) : ahead[i] = c[p + i]
      BY <1>1, <2>1, Part, ZenonT(30)
    <2> HIDE DEF tail, ahead
    <2>4. ahead # <<>>
      BY <2>3
    <2>5. /\ Tail(ahead) \in Seq(Byte) /\ Len(Tail(ahead)) = n
          /\ \A i \in 1..n : Tail(ahead)[i] = ahead[i + 1]
      BY <2>3, <2>4
    <2>6. ASSUME NEW i \in 1..n PROVE tail[i] = Tail(ahead)[i]
      <3>1. i + 1 \in 1..(n + 1) /\ p + (i + 1) = (p + 1) + i
        BY <1>1
      <3> QED BY <3>1, <2>2, <2>3, <2>5
    <2> QED BY <2>2, <2>5, <2>6
  <1>3. Abstract!Ahead(n + 1) = ahead
    BY <1>0, <1>p DEF Abstract!Ahead
  <1> HIDE DEF tail, ahead
  <1>4. /\ p < Len(c)
        /\ IF n < Len(c) - p
           THEN result' = Tail(ahead) /\ ba'.position = p + n + 1
           ELSE ba'.position = p + 1 /\ result' = <<>>
    <2>1. Len(c) = ba.size /\ p < ba.size /\ (p + 1) + n = p + n + 1
      BY <1>1, <1>c
    <2>2. CASE n < ba.size - p
      BY <2>1, <2>2, <1>2, <1>r
    <2>3. CASE ~(n < ba.size - p)
      BY <2>1, <2>3, <1>r
    <2> QED BY <2>1, <2>2, <2>3
  <1>5. Abstract!ReadString
    BY <1>0, <1>3, <1>4, <1>c, <1>p DEF Abstract!ReadString
  <1> QED BY <1>5 DEF Abstract!Next

LEMMA ReadStringStep ==
  ASSUME ByteInv, ReadString
  PROVE  Agrees
  <1> DEFINE b == AfterRead(ba, 1)
             n == BytesRead(ba, 1)[1]
             a == AfterRead(b, n)
             short == Throws(b, n) \/ ~Walks(b, b.cur, Offset(b.position), n)
             r == IF short THEN <<>> ELSE BytesRead(b, n)
             c == Contents(ba)
  <1>1. ~Throws(ba, 1) /\ ~b.fault /\ Becomes(a, r)
    BY DEF ReadString, To
  <1>2. Kept(ba) /\ ~ba.fault
    BY <1>1 DEF ByteInv, Becomes
  <1>3. /\ ba.position \in Nat /\ ba.size \in Nat /\ Len(c) = ba.size /\ c \in Seq(Byte)
        /\ 1 <= Left(ba) /\ ba.position < ba.size
    BY <1>1, <1>2, ContentsTyped DEF Kept, Sound, ByteArrays, Throws, Left
  <1>4. /\ Kept(b) /\ Contents(b) = c /\ b.position = ba.position + 1
        /\ Walks(ba, ba.cur, Offset(ba.position), 1)
    BY <1>1, <1>2, AfterReading
  <1>5. n = c[ba.position + 1] /\ n \in Nat
    <2>1. BytesRead(ba, 1)[1] = Contents(ba)[ba.position + 1]
      BY <1>2, <1>3, <1>4, ReadIsAhead
    <2>2. c[ba.position + 1] \in Byte
      BY <1>3
    <2> QED BY <2>1, <2>2, ByteArrayAssumption DEF Byte, Raw
  <1>6. b.size = ba.size
    BY <1>4, <1>2, ContentsTyped
  <1> HIDE DEF b, n, c
  <1>7. Throws(b, n) <=> ~(n < ba.size - ba.position)
    BY <1>3, <1>4, <1>5, <1>6 DEF Throws, Left
  <1>8. ~a.fault => Sound(a)
    BY <1>1, <1>4, <1>5, AfterReading DEF Kept
  <1>9. ASSUME ~short
        PROVE  r = SubSeq(c, (ba.position + 1) + 1, (ba.position + 1) + n) /\ r \in Seq(Byte)
    <2>1. n <= Left(b)
      BY <1>9, <1>5, <1>4, <1>6, <1>3 DEF Throws, Left
    <2> QED BY <1>1, <1>4, <1>5, <1>9, <2>1, ReadIsAhead
  <1>10. r \in Seq(Byte)
    BY <1>9
  <1>11. /\ Kept(ba') /\ ba'.cur <= MaxNodes /\ result' \in Seq(Byte)
         /\ a.fault => Abstract!Next
         /\ ~a.fault => ba' = a /\ result' = r
    BY <1>1, <1>8, <1>10, Becoming
  <1>12. ASSUME ~a.fault PROVE Abstract!Next
    <2>1. /\ Contents(a) = c
          /\ Throws(b, n) => a = b
          /\ ~Throws(b, n) => Walks(b, b.cur, Offset(b.position), n) /\ a.position = b.position + n
      BY <1>1, <1>4, <1>5, <1>12, AfterReading
    <2>2. n < ba.size - ba.position =>
            /\ result' = SubSeq(c, (ba.position + 1) + 1, (ba.position + 1) + n)
            /\ ba'.position = (ba.position + 1) + n
      BY <1>4, <1>7, <1>9, <1>11, <1>12, <2>1
    <2>3. ~(n < ba.size - ba.position) => result' = <<>> /\ ba'.position = ba.position + 1
      BY <1>4, <1>7, <1>11, <1>12, <2>1
    <2>4. Contents(ba') = Contents(ba) /\ n = Contents(ba)[ba.position + 1]
      BY <1>5, <1>11, <1>12, <2>1 DEF c
    <2>5. /\ n < ba.size - ba.position =>
             /\ result' = SubSeq(Contents(ba), (ba.position + 1) + 1, (ba.position + 1) + n)
             /\ ba'.position = (ba.position + 1) + n
      BY <2>2 DEF c
    <2> QED BY <1>2, <1>3, <1>5, <2>3, <2>4, <2>5, IsReadString
  <1> QED BY <1>11, <1>12 DEF Agrees

LEMMA OrderedIsEither ==
  ASSUME NEW s \in Seq(Byte), NEW little \in BOOLEAN
  PROVE  /\ Ordered(s, little) \in {s, Reverse(s)} /\ Ordered(s, little) \in Seq(Byte)
         /\ Len(Ordered(s, little)) = Len(s)
  BY Reversed DEF Ordered

LEMMA WriteFixedStep ==
  ASSUME ByteInv, NEW s \in Chunks, WriteFixed(s)
  PROVE  Agrees
  <1>1. ba.little \in BOOLEAN
    BY DEF ByteInv, Kept, Sound, ByteArrays
  <1>2. s \in Seq(Byte) /\ Len(s) \in 0..MaxLen /\ Len(s) <= MaxLen + 1
    BY ChunksTyped, ByteArrayAssumption
  <1>3. /\ Ordered(s, ba.little) \in {s, Reverse(s)} /\ Ordered(s, ba.little) \in Seq(Byte)
        /\ Len(Ordered(s, ba.little)) = Len(s)
    BY <1>1, <1>2, OrderedIsEither
  <1>4. Becomes(Written(ba, Ordered(s, ba.little)), s)
    BY DEF WriteFixed, To
  <1> QED BY <1>2, <1>3, <1>4, WriteStep

LEMMA ReadFixedStep ==
  ASSUME ByteInv, NEW n \in Nat, ReadFixed(n)
  PROVE  Agrees
  <1> DEFINE none == Throws(ba, n) \/ ~Walks(ba, ba.cur, Offset(ba.position), n)
             r == IF none THEN <<>> ELSE Ordered(BytesRead(ba, n), ba.little)
  <1>1. Becomes(AfterRead(ba, n), r)
    BY DEF ReadFixed, To
  <1>2. ~none => r \in {BytesRead(ba, n), Reverse(BytesRead(ba, n))}
    BY DEF Ordered
  <1>3. none => r = <<>>
    OBVIOUS
  <1> HIDE DEF r
  <1> QED BY <1>1, <1>2, <1>3, ReadStep

LEMMA PlainReadStep ==
  ASSUME ByteInv, NEW n \in Nat, Read(n)
  PROVE  Agrees
  <1> DEFINE none == Throws(ba, n) \/ ~Walks(ba, ba.cur, Offset(ba.position), n)
             r == IF none THEN <<>> ELSE BytesRead(ba, n)
  <1>1. Becomes(AfterRead(ba, n), r)
    BY DEF Read, To
  <1>2. ~none => r \in {BytesRead(ba, n), Reverse(BytesRead(ba, n))}
    OBVIOUS
  <1>3. none => r = <<>>
    OBVIOUS
  <1> HIDE DEF r
  <1> QED BY <1>1, <1>2, <1>3, ReadStep

LEMMA SetPositionStep ==
  ASSUME ByteInv, NEW v \in Nat, SetPosition(v)
  PROVE  Agrees
  <1> DEFINE a == Positioned(ba, v)
  <1>0. <<>> \in Seq(Byte)
    OBVIOUS
  <1>1. v <= ba.capacity /\ Becomes(a, <<>>)
    BY DEF SetPosition, To
  <1>2. Kept(ba) /\ ~ba.fault
    BY <1>1 DEF ByteInv, Becomes
  <1>3. /\ Kept(a) /\ ~a.fault /\ a.position = v /\ a.mem = ba.mem
        /\ a.size = IF v > ba.size THEN v ELSE ba.size
    BY <1>1, <1>2, AfterPositioning
  <1> HIDE DEF a
  <1>4. Kept(ba') /\ ba'.cur <= MaxNodes /\ result' \in Seq(Byte) /\ ba' = a /\ result' = <<>>
    BY <1>0, <1>1, <1>3, Becoming DEF Kept
  <1>5. Abstract!Next
    BY <1>2, <1>3, <1>4, IsSetPosition
  <1> QED BY <1>4, <1>5 DEF Agrees

LEMMA ClearStep ==
  ASSUME ByteInv, Clear
  PROVE  Agrees
  <1> DEFINE m == [i \in 1..MaxNodes |->
                     IF i = 1 THEN ba.mem[1] ELSE [k \in 0..(Base - 1) |-> Raw]]
             a == [ba EXCEPT !.position = 0, !.size = 0, !.capacity = Base, !.nodes = 1,
                             !.cur = 1, !.mem = m]
  <1>0. <<>> \in Seq(Byte)
    OBVIOUS
  <1>1. Becomes(a, <<>>)
    BY DEF Clear, To
  <1>2. Kept(ba) /\ ~ba.fault /\ ba \in ByteArrays /\ ba.mem \in Memory
    BY <1>1 DEF ByteInv, Becomes, Kept, Sound, ByteArrays
  <1>3. m \in Memory
    <2>1. 1 \in 1..MaxNodes /\ Raw \in Byte
      BY ByteArrayAssumption DEF Raw, Byte
    <2>2. ASSUME NEW i \in 1..MaxNodes
          PROVE  (IF i = 1 THEN ba.mem[1] ELSE [k \in 0..(Base - 1) |-> Raw]) \in [0..(Base - 1) -> Byte]
      BY <1>2, <2>1 DEF Memory
    <2> QED BY <2>2 DEF Memory
  <1> HIDE DEF m
  <1>4. /\ a \in ByteArrays /\ a.position = 0 /\ a.size = 0 /\ a.capacity = Base /\ a.nodes = 1
        /\ a.cur = 1 /\ ~a.fault
    <2> DEFINE z == 0
               e == 1
    <2>1. /\ Base \in Nat /\ z \in Nat /\ e \in Nat \ {0} /\ e \in Nat
          /\ a = [ba EXCEPT !.position = z, !.size = z, !.capacity = Base, !.nodes = e, !.cur = e,
                            !.mem = m]
      BY ByteArrayAssumption
    <2> HIDE DEF a, z, e
    <2>2. /\ a \in ByteArrays /\ a.position = z /\ a.size = z /\ a.capacity = Base /\ a.nodes = e
          /\ a.cur = e /\ a.fault = ba.fault
      BY <1>2, <1>3, <2>1 DEF ByteArrays
    <2> QED BY <1>2, <2>2 DEF z, e
  <1> HIDE DEF a
  <1>5. NodeOf(a, 0) = 1
    <2>1. 0 \div Base = 0
      BY ByteArrayAssumption
    <2> QED BY <1>4, <2>1 DEF NodeOf
  <1>6. Sound(a)
    BY <1>4, <1>5, ByteArrayAssumption DEF Sound
  <1>7. Kept(ba') /\ ba'.cur <= MaxNodes /\ result' \in Seq(Byte) /\ ba' = a /\ result' = <<>>
    BY <1>0, <1>1, <1>4, <1>6, Becoming
  <1>8. [i \in 1..ba'.size |-> ba'.mem[((i - 1) \div Base) + 1][(i - 1) % Base]] = <<>>
    <2>1. ba'.size = 0
      BY <1>4, <1>7
    <2> QED BY <2>1
  <1>9. Abstract!Clear
    BY <1>4, <1>7, <1>8 DEF Abstract!Clear
  <1> QED BY <1>7, <1>9 DEF Agrees, Abstract!Next

LEMMA SetIsLittleEndianStep ==
  ASSUME ByteInv, NEW val \in BOOLEAN, SetIsLittleEndian(val)
  PROVE  Agrees
  <1> DEFINE a == [ba EXCEPT !.little = val]
  <1>0. <<>> \in Seq(Byte)
    OBVIOUS
  <1>1. Becomes(a, <<>>)
    BY DEF SetIsLittleEndian, To
  <1>2. Kept(ba) /\ ~ba.fault /\ ba \in ByteArrays
    BY <1>1 DEF ByteInv, Becomes, Kept, Sound
  <1>3. /\ a \in ByteArrays /\ a.position = ba.position /\ a.size = ba.size
        /\ a.capacity = ba.capacity /\ a.nodes = ba.nodes /\ a.cur = ba.cur /\ a.mem = ba.mem /\ ~a.fault
    BY <1>2 DEF ByteArrays
  <1> HIDE DEF a
  <1>4. Sound(a) /\ Contents(a) = Contents(ba)
    BY <1>2, <1>3 DEF Kept, Sound, NodeOf, Contents, ByteAt
  <1>5. Kept(ba') /\ ba'.cur <= MaxNodes /\ result' \in Seq(Byte) /\ ba' = a /\ result' = <<>>
    BY <1>0, <1>1, <1>3, <1>4, Becoming
  <1>6. Abstract!Next
    BY <1>2, <1>3, <1>4, <1>5, IsNothing
  <1> QED BY <1>5, <1>6 DEF Agrees

\* What is ahead is looked at, or there is a fault.
LEMMA LookStep ==
  ASSUME ByteInv, NEW n \in Nat, n <= Left(ba),
         \/ Walks(ba, ba.cur, Offset(ba.position), n) /\ Becomes(ba, BytesRead(ba, n))
         \/ Becomes(Broken(ba), <<>>)
  PROVE  Agrees
  <1>1. Kept(ba) /\ Sound(ba) /\ ~ba.fault
    BY DEF ByteInv, Becomes, Kept
  <1>2. CASE Becomes(Broken(ba), <<>>)
    <2>1. Broken(ba).fault /\ <<>> \in Seq(Byte)
      BY <1>1, BrokenKept
    <2> QED BY <1>2, <2>1, Becoming DEF Agrees
  <1>3. CASE Walks(ba, ba.cur, Offset(ba.position), n) /\ Becomes(ba, BytesRead(ba, n))
    <2>1. /\ BytesRead(ba, n) = SubSeq(Contents(ba), ba.position + 1, ba.position + n)
          /\ BytesRead(ba, n) \in Seq(Byte)
      BY <1>1, <1>3, ReadIsAhead
    <2>2. /\ Kept(ba') /\ ba'.cur <= MaxNodes /\ result' \in Seq(Byte)
          /\ ba' = ba /\ result' = BytesRead(ba, n)
      BY <1>1, <1>3, <2>1, Becoming
    <2>3. /\ Len(Contents(ba)) \in Nat /\ ba.position \in Nat /\ n <= Len(Contents(ba)) - ba.position
      BY <1>1, ContentsTyped DEF Sound, ByteArrays, Left
    <2>4. Contents(ba') = Contents(ba) /\ ba'.position = ba.position
      BY <2>2
    <2>5. Abstract!Next
      BY <2>1, <2>2, <2>3, <2>4, IsPeek
    <2> QED BY <2>2, <2>5 DEF Agrees
  <1> QED BY <1>2, <1>3

LEMMA GetReadBuffersStep ==
  ASSUME ByteInv, NEW n \in Nat, GetReadBuffers(n)
  PROVE  Agrees
  <1> DEFINE len == Least(n, Left(ba))
  <1>1. Left(ba) \in Nat
    BY DEF ByteInv, Kept, Sound, ByteArrays, Left
  <1>2. len \in Nat /\ len <= Left(ba)
    BY <1>1 DEF Least
  <1>3. \/ Walks(ba, ba.cur, Offset(ba.position), len) /\ Becomes(ba, BytesRead(ba, len))
        \/ Becomes(Broken(ba), <<>>)
    BY DEF GetReadBuffers, To
  <1> HIDE DEF len
  <1> QED BY <1>2, <1>3, LookStep

LEMMA WriteToFileStep ==
  ASSUME ByteInv, WriteToFile
  PROVE  Agrees
  <1>1. Left(ba) \in Nat /\ Left(ba) <= Left(ba)
    BY DEF ByteInv, Kept, Sound, ByteArrays, Left
  <1>2. \/ Walks(ba, ba.cur, Offset(ba.position), Left(ba)) /\ Becomes(ba, BytesRead(ba, Left(ba)))
        \/ Becomes(Broken(ba), <<>>)
    BY DEF WriteToFile, To
  <1> QED BY <1>1, <1>2, LookStep

\* readFromFile() writes what it has read, and keeps the rest.
LEMMA ReadFromFileStep ==
  ASSUME ByteInv, ReadFromFile
  PROVE  Agrees /\ file' \in Seq(Byte) /\ Len(file') <= MaxLen /\ UNCHANGED calls
  <1> DEFINE n == Least(Base, Len(file))
             part == SubSeq(file, 1, n)
             rest == SubSeq(file, n + 1, Len(file))
  <1>1. /\ file \in Seq(Byte) /\ Len(file) \in Nat /\ Len(file) <= MaxLen /\ n \in Nat
        /\ 1 <= n /\ n <= Len(file) /\ Len(file) > 0
    <2>1. file \in Seq(Byte) /\ Len(file) <= MaxLen /\ file # <<>>
      BY DEF ByteInv, ReadFromFile
    <2> QED BY <2>1, ByteArrayAssumption DEF Least
  <1>2. Becomes(Written(ba, part), part) /\ file' = rest /\ UNCHANGED calls
    BY DEF ReadFromFile
  <1> HIDE DEF n
  <1>3. part \in Seq(Byte) /\ Len(part) = n /\ Len(part) <= MaxLen + 1
    BY <1>1, ByteArrayAssumption
  <1>4. rest \in Seq(Byte) /\ Len(rest) <= MaxLen
    <2>1. rest \in Seq(Byte) /\ Len(rest) = Len(file) - n
      BY <1>1
    <2> HIDE DEF rest
    <2> QED BY <2>1, <1>1, ByteArrayAssumption
  <1> HIDE DEF part, rest
  <1>5. part \in {part, Reverse(part)} /\ Len(part) = Len(part)
    OBVIOUS
  <1>6. Agrees
    BY <1>2, <1>3, <1>5, WriteStep
  <1> QED BY <1>2, <1>4, <1>6

-----------------------------------------------------------------------------
(***************************************************************************)
(* The theorems                                                            *)
(***************************************************************************)

LEMMA ByteInvInit ==
  ByteArrayInit => ByteInv /\ Abstract!Init
  <1> SUFFICES ASSUME ByteArrayInit PROVE ByteInv /\ Abstract!Init
    OBVIOUS
  <1> DEFINE m == [i \in 1..MaxNodes |-> [k \in 0..(Base - 1) |-> Raw]]
  <1>1. ba = [nodes |-> 1, capacity |-> Base, position |-> 0, size |-> 0, cur |-> 1, mem |-> m,
              little |-> FALSE, fault |-> FALSE]
    BY DEF ByteArrayInit
  <1>2. m \in Memory
    <2>1. Raw \in Byte
      BY ByteArrayAssumption DEF Raw, Byte
    <2> QED BY <2>1 DEF Memory
  <1> HIDE DEF m
  <1>3. Base \in Nat /\ 0 \in Nat /\ 1 \in Nat \ {0} /\ 1 <= MaxNodes /\ 1 * Base = Base /\ 0 <= Base
    BY ByteArrayAssumption
  <1>4. ba \in ByteArrays
    BY <1>1, <1>2, <1>3 DEF ByteArrays
  <1>5. NodeOf(ba, 0) = 1
    <2>1. 0 \div Base = 0
      BY ByteArrayAssumption
    <2> QED BY <1>1, <2>1 DEF NodeOf
  <1>6. Kept(ba)
    BY <1>1, <1>3, <1>4, <1>5 DEF Kept, Sound
  <1>7. ByteInv
    BY <1>1, <1>3, <1>6, ByteArrayAssumption DEF ByteInv, ByteArrayInit
  <1>8. [i \in 1..ba.size |-> ba.mem[((i - 1) \div Base) + 1][(i - 1) % Base]] = <<>>
    BY <1>1
  <1>9. Abstract!Init
    BY <1>1, <1>8 DEF Abstract!Init, ByteArrayInit
  <1> QED BY <1>7, <1>9

LEMMA ToKeeps ==
  ASSUME ByteInv, Agrees, Called, UNCHANGED file
  PROVE  ByteInv' /\ Abstract!Next
  <1>1. calls' \in 0..MaxCalls /\ file' \in Seq(Byte) /\ Len(file') <= MaxLen
    BY ByteArrayAssumption DEF ByteInv, Called
  <1> QED BY <1>1 DEF Agrees, ByteInv

\* Every step keeps the invariant, and is a step of the sequence, or leaves it alone.
LEMMA ByteStep ==
  ASSUME ByteInv, ByteArrayNext
  PROVE  ByteInv' /\ (Abstract!Next \/ UNCHANGED <<ba, result>>)
  <1>0. /\ \A n \in 0..MaxLen : n \in Nat
        /\ \A n \in 1..(Base * MaxNodes) : n \in Nat
        /\ \A v \in 0..(Base * MaxNodes) : v \in Nat
    BY ByteArrayAssumption
  <1>1. ASSUME NEW s \in Chunks, Write(s) PROVE ByteInv' /\ Abstract!Next
    <2>1. s \in Seq(Byte) /\ Len(s) <= MaxLen + 1
      BY ChunksTyped, ByteArrayAssumption
    <2>2. Becomes(Written(ba, s), s) /\ Called /\ UNCHANGED file
      BY <1>1 DEF Write, To
    <2>3. Agrees
      BY <2>1, <2>2, WriteStep
    <2> QED BY <2>2, <2>3, ToKeeps
  <1>2. ASSUME NEW s \in Chunks, WriteFixed(s) PROVE ByteInv' /\ Abstract!Next
    <2>1. Called /\ UNCHANGED file
      BY <1>2 DEF WriteFixed, To
    <2> QED BY <1>2, <2>1, WriteFixedStep, ToKeeps
  <1>3. ASSUME NEW s \in Chunks, WriteString(s) PROVE ByteInv' /\ Abstract!Next
    <2>1. /\ Called /\ UNCHANGED file
          /\ Becomes(Written(Written(ba, <<Len(s)>>), s), <<Len(s)>> \o s)
      BY <1>3 DEF WriteString, To
    <2> QED BY <2>1, WriteStringStep, ToKeeps
  <1>4. ASSUME NEW s \in Chunks, OpenFile(s) PROVE ByteInv' /\ UNCHANGED <<ba, result>>
    <2>1. s \in Seq(Byte) /\ Len(s) <= MaxLen
      BY ChunksTyped, ByteArrayAssumption
    <2>2. file' = s /\ calls' \in 0..MaxCalls /\ UNCHANGED <<ba, result>>
      BY <1>4, ByteArrayAssumption DEF OpenFile, Called, ByteInv
    <2> QED BY <2>1, <2>2 DEF ByteInv
  <1>5. ASSUME NEW s \in Chunks, NEW n \in 1..MaxLen, Receive(n, s) PROVE ByteInv' /\ Abstract!Next
    <2>1. s # <<>> /\ Len(s) <= n /\ Becomes(Received(ba, n, s), s) /\ Called /\ UNCHANGED file
      BY <1>5 DEF Receive, To
    <2>2. s \in Seq(Byte)
      BY ChunksTyped
    <2> QED BY <2>1, <2>2, ReceiveStep, ToKeeps
  <1>6. ASSUME NEW s \in Chunks, NEW n \in 1..MaxLen, NEW k \in 1..MaxLen, ReadFixSize(n, s, k)
        PROVE  ByteInv' /\ Abstract!Next
    <2>1. /\ Len(s) <= n /\ k < Len(s) /\ Called /\ UNCHANGED file
          /\ LET first == Received(ba, n, SubSeq(s, 1, k)) IN
             Becomes(IF first.fault THEN first ELSE Received(first, n - k, SubSeq(s, k + 1, Len(s))), s)
      BY <1>6 DEF ReadFixSize, To
    <2>2. s \in Seq(Byte)
      BY ChunksTyped
    <2>3. Agrees
      BY <2>1, <2>2, ReadFixSizeStep
    <2> QED BY <2>1, <2>3, ToKeeps
  <1>7. ASSUME NEW n \in 0..MaxLen, Read(n) PROVE ByteInv' /\ Abstract!Next
    <2>1. Called /\ UNCHANGED file
      BY <1>7 DEF Read, To
    <2> QED BY <1>0, <1>7, <2>1, PlainReadStep, ToKeeps
  <1>8. ASSUME NEW n \in 0..MaxLen, ReadFixed(n) PROVE ByteInv' /\ Abstract!Next
    <2>1. Called /\ UNCHANGED file
      BY <1>8 DEF ReadFixed, To
    <2> QED BY <1>0, <1>8, <2>1, ReadFixedStep, ToKeeps
  <1>9. ASSUME NEW n \in 1..(Base * MaxNodes), GetReadBuffers(n) PROVE ByteInv' /\ Abstract!Next
    <2>1. Called /\ UNCHANGED file
      BY <1>9 DEF GetReadBuffers, To
    <2> QED BY <1>0, <1>9, <2>1, GetReadBuffersStep, ToKeeps
  <1>10. ASSUME ReadString PROVE ByteInv' /\ Abstract!Next
    <2>1. Called /\ UNCHANGED file
      BY <1>10 DEF ReadString, To
    <2> QED BY <1>10, <2>1, ReadStringStep, ToKeeps
  <1>11. ASSUME NEW v \in 0..(Base * MaxNodes), SetPosition(v) PROVE ByteInv' /\ Abstract!Next
    <2>1. Called /\ UNCHANGED file
      BY <1>11 DEF SetPosition, To
    <2> QED BY <1>0, <1>11, <2>1, SetPositionStep, ToKeeps
  <1>12. ASSUME NEW val \in BOOLEAN, SetIsLittleEndian(val) PROVE ByteInv' /\ Abstract!Next
    <2>1. Called /\ UNCHANGED file
      BY <1>12 DEF SetIsLittleEndian, To
    <2> QED BY <1>12, <2>1, SetIsLittleEndianStep, ToKeeps
  <1>13. ASSUME Clear PROVE ByteInv' /\ Abstract!Next
    <2>1. Called /\ UNCHANGED file
      BY <1>13 DEF Clear, To
    <2> QED BY <1>13, <2>1, ClearStep, ToKeeps
  <1>14. ASSUME WriteToFile PROVE ByteInv' /\ Abstract!Next
    <2>1. Called /\ UNCHANGED file
      BY <1>14 DEF WriteToFile, To
    <2> QED BY <1>14, <2>1, WriteToFileStep, ToKeeps
  <1>15. ASSUME ReadFromFile PROVE ByteInv' /\ Abstract!Next
    <2>1. Agrees /\ file' \in Seq(Byte) /\ Len(file') <= MaxLen /\ UNCHANGED calls
      BY <1>15, ReadFromFileStep
    <2> QED BY <2>1 DEF Agrees, ByteInv
  <1> QED BY <1>1, <1>2, <1>3, <1>4, <1>5, <1>6, <1>7, <1>8, <1>9, <1>10, <1>11, <1>12, <1>13,
             <1>14, <1>15 DEF ByteArrayNext

LEMMA ByteInvKept ==
  ByteInv /\ [ByteArrayNext]_byteVars => ByteInv'
  <1> SUFFICES ASSUME ByteInv, [ByteArrayNext]_byteVars PROVE ByteInv'
    OBVIOUS
  <1>1. CASE ByteArrayNext
    BY <1>1, ByteStep
  <1>2. CASE UNCHANGED byteVars
    BY <1>2 DEF byteVars, ByteInv
  <1> QED BY <1>1, <1>2

LEMMA ByteInvAlways == ByteArraySpec => []ByteInv
  <1>1. ByteArrayInit => ByteInv
    BY ByteInvInit
  <1>2. ByteInv /\ [ByteArrayNext]_byteVars => ByteInv'
    BY ByteInvKept
  <1> QED BY <1>1, <1>2, PTL DEF ByteArraySpec

LEMMA ByteTyped ==
  ByteInv => ByteArrayTypeOK
  <1> SUFFICES ASSUME ByteInv PROVE ByteArrayTypeOK
    OBVIOUS
  <1>1. ba \in ByteArrays /\ ba.nodes <= MaxNodes /\ ba.cur <= MaxNodes /\ MaxNodes \in Nat
    BY ByteArrayAssumption DEF ByteInv, Kept, Sound
  <1>2. ba.nodes \in 1..MaxNodes /\ ba.cur \in Null..MaxNodes
    BY <1>1 DEF ByteArrays, Null
  <1> QED BY <1>1, <1>2 DEF ByteInv, ByteArrayTypeOK, ByteArrays, Memory

\* The members have their types, the chain has the capacity that ByteArray counts
\* (addCapacity(), clear()), and m_cur is the node of m_position after every operation that
\* walks it along or sets it: what read() and write() rely on without a check.
THEOREM NodesAgree == ByteArraySpec => [](ByteArrayTypeOK /\ CurInPlace)
  <1>1. ByteInv => ByteArrayTypeOK
    BY ByteTyped
  <1>2. ByteInv => CurInPlace
    <2> SUFFICES ASSUME ByteInv PROVE CurInPlace
      OBVIOUS
    <2>1. Sound(ba) /\ ba.position \in Nat
      BY DEF ByteInv, Kept, Sound, ByteArrays
    <2>2. CurAfter(ba, 1, 0, ba.position) = NodeOf(ba, ba.position)
      <3>1. ba.position \div Base \in Nat
        BY <2>1, DivMod
      <3> QED BY <2>1, <3>1, FromRoot DEF NodeOf
    <2> QED BY <2>1, <2>2 DEF Sound, CurInPlace
  <1> QED BY <1>1, <1>2, ByteInvAlways, PTL

\* A ByteArray is a sequence of bytes with a position, for all sizes of its nodes: every
\* read(), write(), setPosition(), clear(), readFromFile() and receiving read() is a step of
\* Bytes, or leaves what Bytes sees as it is, until a pointer to a missing node is followed.
THEOREM ByteArrayIsBytes == ByteArraySpec => ImplementsBytes
  <1>1. ByteArrayInit => Abstract!Init
    BY ByteInvInit
  <1>2. ByteInv /\ [ByteArrayNext]_byteVars
        => [Abstract!Next]_<<[i \in 1..ba.size |-> ba.mem[((i - 1) \div Base) + 1][(i - 1) % Base]],
                            ba.position, result>>
    <2> SUFFICES ASSUME ByteInv, [ByteArrayNext]_byteVars
                 PROVE  Abstract!Next \/ UNCHANGED <<ba, result>>
      OBVIOUS
    <2>1. CASE ByteArrayNext
      BY <2>1, ByteStep
    <2>2. CASE UNCHANGED byteVars
      BY <2>2 DEF byteVars
    <2> QED BY <2>1, <2>2
  <1> QED BY <1>1, <1>2, ByteInvAlways, PTL DEF ByteArraySpec, ImplementsBytes, Abstract!Spec

-----------------------------------------------------------------------------
(***************************************************************************)
(* A parser is a record.  What each operation leaves of it.                *)
(***************************************************************************)

Names == {"type", "errno", "over", "flags", "length", "state", "header", "method", "index", "status",
          "modern", "upgrade", "marks", "told", "phase", "again", "called"}

Shaped(p) == p = [f \in Names |-> p[f]]

\* q is p, but for the members F.
But(q, p, F) == Shaped(q) /\ \A f \in Names \ F : q[f] = p[f]

\* What a callback may tell.
Tellings == Kinds \cup {"message_begin", "headers_complete", "chunk_header", "chunk_complete",
                        "message_complete"}
Spans == Tellings \X Int

-----------------------------------------------------------------------------
(***************************************************************************)
(* What is so of a parser between two passes                               *)
(***************************************************************************)

Requesting == {"s_req_method", "s_req_spaces_before_url", "s_req_http_start", "s_req_http_H",
               "s_req_http_end", "s_req_line_almost_done"} \cup Url
Heading == Fields \cup Values \cup {"s_headers_almost_done"}
InBody == Bodies \cup {"s_chunk_size_start", "s_chunk_size", "s_chunk_parameters", "s_chunk_size_almost_done"}
InChunk == {"s_chunk_data", "s_chunk_data_almost_done", "s_chunk_data_done"}
States == Starting \cup Responding \cup Requesting \cup Heading \cup InBody \cup InChunk

\* What may be marked.
Marked(s) ==
  Starts(s) \cup
  IF s \in {"s_body_identity", "s_body_identity_eof", "s_chunk_data", "s_chunk_data_almost_done"}
  THEN {"body"} ELSE {}

\* Where the message is.
PhaseIn(s, flags) ==
  IF s \in Starting THEN "between" ELSE IF s \in InBody THEN "body"
  ELSE IF s \in InChunk \/ (s \in Heading /\ "trailing" \in flags) THEN "chunk" ELSE "head"

AllFlags == {"chunked", "keep-alive", "close", "connection-upgrade", "trailing", "upgrade", "skip",
             "content-length"}

ParserTyped(p) ==
  /\ Shaped(p)
  /\ p.type \in {"both", "request", "response"} /\ p.errno \in {"HPE_OK", "error", "callback"}
  /\ p.flags \subseteq AllFlags /\ p.length \in 0..Max64
  /\ p.marks \in [Kinds -> {None} \cup Nat] /\ p.told \in Seq(Spans)
  /\ p.again \in BOOLEAN /\ p.called \in BOOLEAN

\* What is so in each state.
At(s, flags, length, phase) ==
  /\ s \in States /\ phase = PhaseIn(s, flags)
  /\ s \in Responding \cup Requesting => "trailing" \notin flags
  /\ s \in Chunks64 => "chunked" \in flags
  /\ s \in {"s_body_identity", "s_chunk_data"} => length \notin {0, Max64}
  /\ s \in {"s_chunk_size", "s_chunk_parameters", "s_chunk_size_almost_done"} => length # Max64
  /\ s = "s_chunk_data_almost_done" => length = 0

\* So far told, whatever is marked.
Loose(p) ==
  /\ ParserTyped(p)
  /\ At(p.state, p.flags, p.length, p.phase)
  /\ \A k \in Kinds : p.marks[k] # None => k \in Marked(p.state)

Sane(p) == Loose(p) /\ \A k \in Starts(p.state) : p.marks[k] # None

\* How many more passes a byte may need.
Passes(s) ==
  IF s \in {"s_header_value_lws", "s_header_value_discard_lws"} THEN 3
  ELSE IF s \in {"s_header_field_start", "s_res_status_code"} THEN 2
  ELSE IF s \in {"s_start_req_or_res", "s_res_status_start", "s_headers_almost_done", "s_header_value",
                 "s_body_identity"} THEN 1
  ELSE 0

\* What a pass has made of p.
AfterPass(q, p) ==
  /\ Sane(q)
  /\ q.again => Passes(q.state) < Passes(p.state)
  /\ q.called => Starts(q.state) = {} /\ \A k \in Kinds : q.marks[k] = None

Fresh(p) == Sane(p) /\ p.again = FALSE /\ p.called = FALSE

LEMMA AtStart ==
  ASSUME NEW s \in Starting, NEW f, NEW l, NEW ph
  PROVE  /\ At(s, f, l, ph) <=> ph = "between"
         /\ Marked(s) = {} /\ Starts(s) = {}
         /\ Passes(s) = IF s = "s_start_req_or_res" THEN 1 ELSE 0
  BY DEF At, States, PhaseIn, Starting, Responding, Requesting, Url, UrlEnds, Before, Chunks64, Marked, Starts, Passes

LEMMA AtHead ==
  ASSUME NEW s \in Responding \cup Requesting, NEW f, NEW l, NEW ph
  PROVE  /\ At(s, f, l, ph) <=> ph = "head" /\ "trailing" \notin f
         /\ Marked(s) = Starts(s)
         /\ Starts(s) = IF s \in Url THEN {"url"} ELSE IF s = "s_res_status" THEN {"status"} ELSE {}
         /\ Passes(s) = IF s = "s_res_status_code" THEN 2 ELSE IF s = "s_res_status_start" THEN 1 ELSE 0
  BY DEF At, States, PhaseIn, Starting, Responding, Requesting, Url, UrlEnds, Before, Chunks64, Marked, Starts, Passes,
         InBody, Bodies, InChunk, Heading, Fields, Values

LEMMA AtHeading ==
  ASSUME NEW s \in Heading, NEW f, NEW l, NEW ph
  PROVE  /\ At(s, f, l, ph) <=> ph = IF "trailing" \in f THEN "chunk" ELSE "head"
         /\ Marked(s) = Starts(s)
         /\ Starts(s) = IF s = "s_header_field" THEN {"field"} ELSE IF s = "s_header_value" THEN {"value"} ELSE {}
         /\ Passes(s) = IF s \in {"s_header_value_lws", "s_header_value_discard_lws"} THEN 3
                        ELSE IF s = "s_header_field_start" THEN 2
                        ELSE IF s \in {"s_headers_almost_done", "s_header_value"} THEN 1 ELSE 0
  BY DEF At, States, PhaseIn, Starting, Responding, Requesting, Url, UrlEnds, Before, Chunks64, Marked, Starts, Passes,
         InBody, Bodies, InChunk, Heading, Fields, Values

LEMMA AtBody ==
  ASSUME NEW s \in InBody, NEW f, NEW l, NEW ph
  PROVE  /\ At(s, f, l, ph) <=>
              /\ ph = "body"
              /\ s \notin Bodies => "chunked" \in f
              /\ s = "s_body_identity" => l \notin {0, Max64}
              /\ s \notin Bodies \cup {"s_chunk_size_start"} => l # Max64
         /\ Marked(s) = IF s \in {"s_body_identity", "s_body_identity_eof"} THEN {"body"} ELSE {}
         /\ Starts(s) = {}
         /\ Passes(s) = IF s = "s_body_identity" THEN 1 ELSE 0
  BY DEF At, States, PhaseIn, Starting, Responding, Requesting, Url, UrlEnds, Before, Chunks64, Marked, Starts, Passes,
         InBody, Bodies, InChunk, Heading, Fields, Values

LEMMA AtChunk ==
  ASSUME NEW s \in InChunk, NEW f, NEW l, NEW ph
  PROVE  /\ At(s, f, l, ph) <=>
              /\ ph = "chunk" /\ "chunked" \in f
              /\ s = "s_chunk_data" => l \notin {0, Max64}
              /\ s = "s_chunk_data_almost_done" => l = 0
         /\ Marked(s) = IF s \in {"s_chunk_data", "s_chunk_data_almost_done"} THEN {"body"} ELSE {}
         /\ Starts(s) = {} /\ Passes(s) = 0
  BY DEF At, States, PhaseIn, Starting, Responding, Requesting, Url, UrlEnds, Before, Chunks64, Marked, Starts, Passes,
         InBody, Bodies, InChunk, Heading, Fields, Values

LEMMA ButIs ==
  ASSUME NEW q, NEW p, NEW F, But(q, p, F)
  PROVE  /\ Shaped(q)
         /\ "type" \notin F => q.type = p.type
         /\ "errno" \notin F => q.errno = p.errno
         /\ "flags" \notin F => q.flags = p.flags
         /\ "length" \notin F => q.length = p.length
         /\ "state" \notin F => q.state = p.state
         /\ "marks" \notin F => q.marks = p.marks
         /\ "told" \notin F => q.told = p.told
         /\ "phase" \notin F => q.phase = p.phase
         /\ "again" \notin F => q.again = p.again
         /\ "called" \notin F => q.called = p.called
  BY DEF But, Names

LEMMA GoIs ==
  ASSUME NEW p, ParserTyped(p), NEW s
  PROVE  /\ ParserTyped(Go(p, s))
         /\ Go(p, s).flags = p.flags /\ Go(p, s).length = p.length /\ Go(p, s).phase = p.phase
         /\ Go(p, s).marks = p.marks /\ Go(p, s).again = p.again /\ Go(p, s).called = p.called
         /\ Go(p, s).state = s
  <1> DEFINE q == Go(p, s)
  <1>1. /\ But(q, p, {"state"})
        /\ q.state = s
    BY DEF ParserTyped, Shaped, But, Go, Names
  <1> HIDE DEF q
  <1>2. /\ Shaped(q) /\ q.type = p.type /\ q.errno = p.errno /\ q.flags = p.flags
        /\ q.length = p.length /\ q.marks = p.marks /\ q.told = p.told /\ q.phase = p.phase
        /\ q.again = p.again /\ q.called = p.called
    BY <1>1, ButIs
  <1> QED BY <1>1, <1>2 DEF ParserTyped, q

LEMMA ErrorIs ==
  ASSUME NEW p, ParserTyped(p)
  PROVE  /\ ParserTyped(Error(p))
         /\ Error(p).state = p.state /\ Error(p).flags = p.flags /\ Error(p).length = p.length
         /\ Error(p).phase = p.phase /\ Error(p).marks = p.marks /\ Error(p).called = p.called
         /\ Error(p).again = FALSE
  <1> DEFINE q == Error(p)
  <1>1. /\ But(q, p, {"again", "errno"})
        /\ q.errno = "error" /\ q.again = FALSE
    BY DEF ParserTyped, Shaped, But, Error, Names
  <1> HIDE DEF q
  <1>2. /\ Shaped(q) /\ q.type = p.type /\ q.flags = p.flags /\ q.length = p.length
        /\ q.state = p.state /\ q.marks = p.marks /\ q.told = p.told /\ q.phase = p.phase
        /\ q.called = p.called
    BY <1>1, ButIs
  <1> QED BY <1>1, <1>2 DEF ParserTyped, q

LEMMA ReexecuteIs ==
  ASSUME NEW p, ParserTyped(p)
  PROVE  /\ ParserTyped(Reexecute(p))
         /\ Reexecute(p).state = p.state /\ Reexecute(p).flags = p.flags
         /\ Reexecute(p).length = p.length /\ Reexecute(p).phase = p.phase
         /\ Reexecute(p).marks = p.marks /\ Reexecute(p).called = p.called
         /\ Reexecute(p).again = TRUE
  <1> DEFINE q == Reexecute(p)
  <1>1. /\ But(q, p, {"again"})
        /\ q.again = TRUE
    BY DEF ParserTyped, Shaped, But, Reexecute, Names
  <1> HIDE DEF q
  <1>2. /\ Shaped(q) /\ q.type = p.type /\ q.errno = p.errno /\ q.flags = p.flags
        /\ q.length = p.length /\ q.state = p.state /\ q.marks = p.marks /\ q.told = p.told
        /\ q.phase = p.phase /\ q.called = p.called
    BY <1>1, ButIs
  <1> QED BY <1>1, <1>2 DEF ParserTyped, q

LEMMA MarkIs ==
  ASSUME NEW p, ParserTyped(p), NEW k \in Kinds
  PROVE  /\ ParserTyped(Mark(p, k))
         /\ Mark(p, k).state = p.state /\ Mark(p, k).flags = p.flags
         /\ Mark(p, k).length = p.length /\ Mark(p, k).phase = p.phase
         /\ Mark(p, k).again = p.again /\ Mark(p, k).called = p.called
         /\ Mark(p, k).marks[k] = IF p.marks[k] = None THEN 0 ELSE p.marks[k]
         /\ \A j \in Kinds \ {k} : Mark(p, k).marks[j] = p.marks[j]
  <1> DEFINE q == Mark(p, k)
  <1>1. /\ But(q, p, {"marks"})
        /\ q.marks = [p.marks EXCEPT ![k] = IF p.marks[k] = None THEN 0 ELSE p.marks[k]]
    BY DEF ParserTyped, Shaped, But, Mark, Names
  <1> HIDE DEF q
  <1>2. /\ Shaped(q) /\ q.type = p.type /\ q.errno = p.errno /\ q.flags = p.flags
        /\ q.length = p.length /\ q.state = p.state /\ q.told = p.told /\ q.phase = p.phase
        /\ q.again = p.again /\ q.called = p.called
    BY <1>1, ButIs
  <1> QED BY <1>1, <1>2 DEF ParserTyped, q

LEMMA NotifyIs ==
  ASSUME NEW p, ParserTyped(p), NEW what \in Tellings
  PROVE  /\ ParserTyped(Notify(p, what))
         /\ Notify(p, what).state = p.state /\ Notify(p, what).flags = p.flags
         /\ Notify(p, what).length = p.length /\ Notify(p, what).marks = p.marks
         /\ Notify(p, what).again = p.again
         /\ Notify(p, what).phase = Follows(p.phase, what)
         /\ Notify(p, what).called = TRUE
  <1> DEFINE q == Notify(p, what)
  <1>1. /\ But(q, p, {"phase", "called", "told"})
        /\ q.phase = Follows(p.phase, what) /\ q.called = TRUE
        /\ q.told = Append(p.told, <<what, 0>>)
    BY DEF ParserTyped, Shaped, But, Notify, Names
  <1> HIDE DEF q
  <1>2. /\ Shaped(q) /\ q.type = p.type /\ q.errno = p.errno /\ q.flags = p.flags
        /\ q.length = p.length /\ q.state = p.state /\ q.marks = p.marks /\ q.again = p.again
    BY <1>1, ButIs
  <1>3. q.told \in Seq(Spans)
    BY <1>1 DEF ParserTyped, Spans
  <1> QED BY <1>1, <1>2, <1>3 DEF ParserTyped, q

\* What was told, and then a mark that lies m bytes back.
ToldOn(told, k, m, more) == told \o [i \in 1..(m + more) |-> <<k, i - 1 - m>>]

\* The marks without k's.
Unmarked(marks, k) == [marks EXCEPT ![k] = None]

\* What a callback with a mark leaves.
Told(p, k, more) ==
  [p EXCEPT !.told = p.told \o [i \in 1..(p.marks[k] + more) |-> <<k, i - 1 - p.marks[k]>>],
            !.phase = Follows(p.phase, k), !.called = TRUE,
            !.marks = [p.marks EXCEPT ![k] = None]]

\* Without a mark nothing is told.
LEMMA DataCases ==
  ASSUME NEW p, NEW k, NEW more
  PROVE  /\ p.marks[k] = None => Data(p, k, more) = p
         /\ p.marks[k] # None => Data(p, k, more) = Told(p, k, more)
  <1>1. Data(p, k, more) = IF p.marks[k] = None THEN p ELSE Told(p, k, more)
    BY DEF Data, Told
  <1> QED BY <1>1

\* The members a callback sets, and that it sets no other.
Telling(q, p, k, more) ==
  /\ But(q, p, {"told", "phase", "called", "marks"})
  /\ q.phase = Follows(p.phase, k) /\ q.called = TRUE
  /\ q.told = ToldOn(p.told, k, p.marks[k], more) /\ q.marks = Unmarked(p.marks, k)

LEMMA ToldMembers ==
  ASSUME NEW p, Shaped(p), NEW k, NEW more
  PROVE  Telling(Told(p, k, more), p, k, more)
  <1> DEFINE t == ToldOn(p.told, k, p.marks[k], more)
             h == Follows(p.phase, k)
             m == Unmarked(p.marks, k)
             q == Told(p, k, more)
  <1>1. q = [p EXCEPT !.told = t, !.phase = h, !.called = TRUE, !.marks = m]
    BY DEF Told, ToldOn, Unmarked
  <1> HIDE DEF t, h, m, q
  <1>2. /\ But(q, p, {"told", "phase", "called", "marks"})
        /\ q.phase = h /\ q.called = TRUE /\ q.told = t /\ q.marks = m
    BY <1>1, Zenon DEF Shaped, But, Names
  <1> QED BY <1>2 DEF t, h, m, q, Telling

LEMMA DataIs ==
  ASSUME NEW p, ParserTyped(p), NEW k \in Kinds, NEW more \in {0, 1}
  PROVE  /\ ParserTyped(Data(p, k, more))
         /\ Data(p, k, more).state = p.state /\ Data(p, k, more).flags = p.flags
         /\ Data(p, k, more).length = p.length /\ Data(p, k, more).again = p.again
         /\ Data(p, k, more).marks[k] = None
         /\ \A j \in Kinds \ {k} : Data(p, k, more).marks[j] = p.marks[j]
         /\ p.marks[k] = None => Data(p, k, more) = p
         /\ p.marks[k] # None => Data(p, k, more).phase = Follows(p.phase, k)
  <1> DEFINE q == Data(p, k, more)
             m == p.marks[k]
             t == [i \in 1..(m + more) |-> <<k, i - 1 - m>>]
  <1>1. CASE m = None
    <2>1. q = p
      BY <1>1, DataCases
    <2> HIDE DEF q
    <2> QED BY <1>1, <2>1 DEF q
  <1>2. CASE m # None
    <2>1. m \in Nat /\ m + more \in Nat
      BY <1>2 DEF ParserTyped
    <2>2. t \in Seq(Spans)
      <3> HIDE DEF m
      <3>1. k \in Tellings
        BY DEF Tellings
      <3>2. ASSUME NEW i \in 1..(m + more)
            PROVE  <<k, i - 1 - m>> \in Spans
        <4>1. i - 1 - m \in Int
          BY <2>1
        <4> QED BY <3>1, <4>1 DEF Spans
      <3> QED BY <2>1, <3>2
    <2>3. /\ But(q, p, {"told", "phase", "called", "marks"})
          /\ q.phase = Follows(p.phase, k) /\ q.called = TRUE
          /\ q.told = p.told \o t
          /\ q.marks = [p.marks EXCEPT ![k] = None]
      <3>1. q = Told(p, k, more)
        BY <1>2, DataCases
      <3> HIDE DEF q
      <3>2. p.told \o t = ToldOn(p.told, k, m, more)
        BY DEF ToldOn
      <3> HIDE DEF t
      <3>3. Shaped(p)
        BY DEF ParserTyped
      <3>4. Telling(q, p, k, more)
        BY <3>1, <3>3, ToldMembers
      <3> QED BY <3>2, <3>4 DEF Telling, Unmarked
    <2> HIDE DEF q, t
    <2>4. /\ Shaped(q) /\ q.type = p.type /\ q.errno = p.errno /\ q.flags = p.flags
          /\ q.length = p.length /\ q.state = p.state /\ q.again = p.again
      BY <2>3, ButIs
    <2>5. q.told \in Seq(Spans)
      BY <2>2, <2>3 DEF ParserTyped
    <2> QED BY <1>2, <2>3, <2>4, <2>5 DEF ParserTyped, q
  <1> QED BY <1>1, <1>2

LEMMA ClearedIs ==
  ASSUME NEW p, ParserTyped(p)
  PROVE  /\ ParserTyped(Cleared(p)) /\ Cleared(p).flags = {} /\ Cleared(p).length = Max64
         /\ Cleared(p).state = p.state /\ Cleared(p).phase = p.phase /\ Cleared(p).marks = p.marks
         /\ Cleared(p).again = p.again /\ Cleared(p).called = p.called
  <1> DEFINE q == Cleared(p)
  <1>1. But(q, p, {"flags", "length"}) /\ q.flags = {} /\ q.length = Max64
    BY DEF ParserTyped, Shaped, But, Cleared, Names
  <1> HIDE DEF q
  <1>2. /\ Shaped(q) /\ q.type = p.type /\ q.errno = p.errno /\ q.state = p.state /\ q.marks = p.marks
        /\ q.told = p.told /\ q.phase = p.phase /\ q.again = p.again /\ q.called = p.called
    BY <1>1, ButIs
  <1> QED BY <1>1, <1>2, ParserAssumption DEF ParserTyped, q

LEMMA ErrorPassed ==
  ASSUME NEW p, NEW q, Sane(q), q.called = FALSE
  PROVE  AfterPass(Error(q), p)
  BY ErrorIs DEF AfterPass, Sane, Loose

\* Members that say nothing here.
Idle == {"header", "method", "index", "status", "modern", "upgrade", "over"}

LEMMA IdleIs ==
  ASSUME NEW p, ParserTyped(p), NEW F \in SUBSET Idle, NEW q, But(q, p, F)
  PROVE  /\ ParserTyped(q)
         /\ q.state = p.state /\ q.flags = p.flags /\ q.length = p.length /\ q.phase = p.phase
         /\ q.marks = p.marks /\ q.again = p.again /\ q.called = p.called
         /\ Sane(p) => Sane(q)
  <1>1. /\ Shaped(q) /\ q.type = p.type /\ q.errno = p.errno /\ q.flags = p.flags /\ q.length = p.length
        /\ q.state = p.state /\ q.marks = p.marks /\ q.told = p.told /\ q.phase = p.phase
        /\ q.again = p.again /\ q.called = p.called
    <2>1. \A f \in {"type", "errno", "flags", "length", "state", "marks", "told", "phase", "again", "called"} :
            f \notin F
      BY DEF Idle
    <2> QED BY <2>1, ButIs
  <1>2. ParserTyped(q)
    BY <1>1 DEF ParserTyped
  <1> QED BY <1>1, <1>2 DEF Sane, Loose

\* A message begins.
LEMMA BeginPassed ==
  ASSUME NEW p, NEW n, Sane(n), n.called = FALSE, n.again = FALSE, n.flags = {}, n.state \in Starting,
         NEW s \in {"s_res_or_resp_H", "s_res_H", "s_req_method"}
  PROVE  AfterPass(Notify(Go(n, s), "message_begin"), p)
  <1> DEFINE q == Notify(Go(n, s), "message_begin")
  <1>1. /\ ParserTyped(q) /\ q.flags = {} /\ q.state = s /\ q.phase = Follows(n.phase, "message_begin")
        /\ q.marks = n.marks /\ q.again = FALSE /\ q.called = TRUE
    <2> DEFINE g == Go(n, s)
    <2>1. /\ ParserTyped(g) /\ g.flags = {} /\ g.state = s /\ g.phase = n.phase /\ g.marks = n.marks
          /\ g.again = FALSE
      BY GoIs DEF Sane, Loose
    <2> HIDE DEF g
    <2>2. "message_begin" \in Tellings /\ q = Notify(g, "message_begin")
      BY DEF g, Tellings
    <2> HIDE DEF q
    <2> QED BY <2>1, <2>2, NotifyIs, ZenonT(30)
  <1> HIDE DEF q
  <1>2. \A k \in Kinds : n.marks[k] = None
    BY AtStart DEF Sane, Loose
  <1>3. q.phase = "head"
    BY <1>1, AtStart DEF Follows, Sane, Loose
  <1>4. s \in Responding \cup Requesting /\ s \notin Url /\ s # "s_res_status"
    BY DEF Responding, Requesting, Url, Before, UrlEnds
  <1>5. Starts(s) = {} /\ Marked(s) = {} /\ At(s, q.flags, q.length, q.phase)
    BY <1>1, <1>3, <1>4, AtHead
  <1> QED BY <1>1, <1>2, <1>5 DEF AfterPass, Sane, Loose, q

LEMMA StartPassed ==
  ASSUME NEW p, Fresh(p), NEW b, p.state \in Starting
  PROVE  AfterPass(StartStep(p, b), p)
  <1> DEFINE n == Cleared(p)
             t == [n EXCEPT !.type = "request"]
             m == [n EXCEPT !.method = IF b = "H" THEN "HEAD" ELSE "CONNECT", !.index = 1]
  <1>1. Sane(n) /\ n.called = FALSE /\ n.again = FALSE /\ n.flags = {} /\ n.state = p.state
    BY ClearedIs, AtStart DEF Fresh, Sane, Loose
  <1>2. CASE b \in {"CR", "LF"}
    BY <1>2 DEF StartStep, AfterPass, Fresh
  <1>3. CASE b \notin {"CR", "LF"} /\ p.state = "s_dead"
    BY <1>3, ErrorPassed DEF StartStep, Fresh
  <1>4. CASE b \notin {"CR", "LF"} /\ p.state = "s_start_req_or_res" /\ b = "H"
    <2>1. StartStep(p, b) = Notify(Go(n, "s_res_or_resp_H"), "message_begin")
      BY <1>4 DEF StartStep
    <2> HIDE DEF n
    <2> QED BY <1>1, <1>4, <2>1, BeginPassed
  <1>5. CASE b \notin {"CR", "LF"} /\ p.state = "s_start_req_or_res" /\ b # "H"
    <2> DEFINE q == Reexecute(Go(t, "s_start_req"))
    <2>1. StartStep(p, b) = q
      BY <1>5 DEF StartStep
    <2> HIDE DEF n
    <2>2. But(t, n, {"type"}) /\ t.type = "request"
      BY <1>1 DEF Sane, Loose, ParserTyped, Shaped, But, Names
    <2> HIDE DEF t
    <2>3. /\ ParserTyped(t) /\ t.flags = n.flags /\ t.length = n.length
          /\ t.phase = n.phase /\ t.marks = n.marks /\ t.called = n.called
      BY <1>1, <2>2, ButIs DEF Sane, Loose, ParserTyped
    <2>4. /\ ParserTyped(q) /\ q.phase = n.phase /\ q.state = "s_start_req"
          /\ q.marks = n.marks /\ q.called = FALSE
      <3> DEFINE g == Go(t, "s_start_req")
      <3>1. /\ ParserTyped(g) /\ g.phase = n.phase /\ g.state = "s_start_req" /\ g.marks = n.marks
            /\ g.called = FALSE
        BY <1>1, <2>3, GoIs
      <3> HIDE DEF g
      <3>2. q = Reexecute(g)
        BY DEF g
      <3> HIDE DEF q
      <3> QED BY <3>1, <3>2, ReexecuteIs
    <2> HIDE DEF q
    <2>5. "s_start_req" \in Starting
      BY DEF Starting
    <2>6. Sane(q) /\ Passes("s_start_req") < Passes(p.state)
      BY <1>1, <1>5, <2>4, <2>5, AtStart DEF Sane, Loose
    <2> QED BY <2>1, <2>4, <2>6 DEF AfterPass
  <1>6. CASE b \notin {"CR", "LF"} /\ p.state = "s_start_res"
    <2>1. StartStep(p, b) \in {Error(n), Notify(Go(n, "s_res_H"), "message_begin")}
      BY <1>6 DEF StartStep, Expect
    <2> HIDE DEF n
    <2> QED BY <1>1, <1>6, <2>1, BeginPassed, ErrorPassed
  <1>7. CASE b \notin {"CR", "LF"} /\ p.state = "s_start_req"
    <2>1. StartStep(p, b) \in {Error(n), Notify(Go(m, "s_req_method"), "message_begin")}
      BY <1>7 DEF StartStep, Expect
    <2> HIDE DEF n
    <2>2. But(m, n, {"method", "index"})
      BY <1>1 DEF Sane, Loose, ParserTyped, Shaped, But, Names
    <2> HIDE DEF m
    <2>3. Sane(m) /\ m.called = FALSE /\ m.again = FALSE /\ m.flags = {} /\ m.state = p.state
      <3>1. {"method", "index"} \in SUBSET Idle /\ ParserTyped(n)
        BY <1>1 DEF Idle, Sane, Loose
      <3> QED BY <1>1, <2>2, <3>1, IdleIs
    <2> QED BY <1>1, <1>7, <2>1, <2>3, BeginPassed, ErrorPassed
  <1> QED BY <1>2, <1>3, <1>4, <1>5, <1>6, <1>7 DEF Starting

\* Members that may be set before the parser goes on.
LEMMA EditIs ==
  ASSUME NEW p, ParserTyped(p), NEW F \in SUBSET (Idle \cup {"flags", "length", "type"}),
         NEW q, But(q, p, F), q.flags \subseteq AllFlags, q.length \in 0..Max64,
         q.type \in {"both", "request", "response"}
  PROVE  /\ ParserTyped(q)
         /\ q.state = p.state /\ q.phase = p.phase /\ q.marks = p.marks /\ q.again = p.again
         /\ q.called = p.called
         /\ "flags" \notin F => q.flags = p.flags
         /\ "length" \notin F => q.length = p.length
  <1>1. /\ Shaped(q) /\ q.errno = p.errno /\ q.state = p.state /\ q.marks = p.marks
        /\ q.told = p.told /\ q.phase = p.phase /\ q.again = p.again /\ q.called = p.called
        /\ "flags" \notin F => q.flags = p.flags
        /\ "length" \notin F => q.length = p.length
    BY ButIs DEF Idle
  <1> QED BY <1>1 DEF ParserTyped

LEMMA Stays ==
  ASSUME NEW p, Fresh(p)
  PROVE  AfterPass(p, p) /\ AfterPass(Error(p), p)
  BY ErrorPassed DEF Fresh, AfterPass

\* A parser as a pass finds it, or with members set.
Quiet(n) == ParserTyped(n) /\ n.again = FALSE /\ n.called = FALSE

\* On to another state, or back for another pass.
LEMMA Moved ==
  ASSUME NEW p, NEW n, Quiet(n), NEW s, At(s, n.flags, n.length, n.phase),
         \A k \in Kinds : n.marks[k] # None => k \in Marked(s),
         \A k \in Starts(s) : n.marks[k] # None
  PROVE  /\ AfterPass(Go(n, s), p)
         /\ Passes(s) < Passes(p.state) => AfterPass(Reexecute(Go(n, s)), p)
  <1> DEFINE g == Go(n, s)
             r == Reexecute(g)
  <1>1. /\ ParserTyped(g) /\ g.flags = n.flags /\ g.length = n.length /\ g.state = s
        /\ g.phase = n.phase /\ g.marks = n.marks /\ g.called = FALSE /\ g.again = FALSE
    BY GoIs DEF Quiet
  <1> HIDE DEF g
  <1>2. /\ ParserTyped(r) /\ r.flags = n.flags /\ r.length = n.length /\ r.state = s
        /\ r.phase = n.phase /\ r.marks = n.marks /\ r.called = FALSE
    BY <1>1, ReexecuteIs
  <1> HIDE DEF r
  <1>3. AfterPass(g, p)
    BY <1>1 DEF AfterPass, Sane, Loose
  <1>4. Passes(s) < Passes(p.state) => AfterPass(r, p)
    BY <1>2 DEF AfterPass, Sane, Loose
  <1> QED BY <1>3, <1>4 DEF g, r

\* The same, with a mark set.
LEMMA MarkMoved ==
  ASSUME NEW p, NEW n, Quiet(n), NEW s, At(s, n.flags, n.length, n.phase), NEW k \in Kinds, k \in Marked(s),
         \A j \in Kinds : n.marks[j] # None => j \in Marked(s), Starts(s) \subseteq {k}
  PROVE  /\ AfterPass(Mark(Go(n, s), k), p)
         /\ Passes(s) < Passes(p.state) => AfterPass(Reexecute(Mark(Go(n, s), k)), p)
  <1> DEFINE g == Go(n, s)
             m == Mark(g, k)
             r == Reexecute(m)
  <1>1. /\ ParserTyped(g) /\ g.flags = n.flags /\ g.length = n.length /\ g.state = s
        /\ g.phase = n.phase /\ g.marks = n.marks /\ g.called = FALSE /\ g.again = FALSE
    BY GoIs DEF Quiet
  <1> HIDE DEF g
  <1>2. /\ ParserTyped(m) /\ m.flags = n.flags /\ m.length = n.length /\ m.state = s
        /\ m.phase = n.phase /\ m.called = FALSE /\ m.again = FALSE
        /\ \A j \in Kinds : m.marks[j] # None => j \in Marked(s)
        /\ m.marks[k] # None
    BY <1>1, MarkIs DEF None
  <1> HIDE DEF m
  <1>3. /\ ParserTyped(r) /\ r.flags = n.flags /\ r.length = n.length /\ r.state = s
        /\ r.phase = n.phase /\ r.marks = m.marks /\ r.called = FALSE
    BY <1>2, ReexecuteIs
  <1> HIDE DEF r
  <1>4. AfterPass(m, p)
    BY <1>2 DEF AfterPass, Sane, Loose
  <1>5. Passes(s) < Passes(p.state) => AfterPass(r, p)
    BY <1>2, <1>3 DEF AfterPass, Sane, Loose
  <1> QED BY <1>4, <1>5 DEF g, m, r

\* The same, with what is marked told.
LEMMA DataMoved ==
  ASSUME NEW p, NEW n, Quiet(n), NEW s, NEW k \in Kinds, NEW more \in {0, 1},
         At(s, n.flags, n.length, n.phase), Starts(s) = {},
         \A j \in Kinds : n.marks[j] # None => j = k /\ Follows(n.phase, k) = n.phase
  PROVE  /\ AfterPass(Data(Go(n, s), k, more), p)
         /\ Passes(s) < Passes(p.state) => AfterPass(Reexecute(Data(Go(n, s), k, more)), p)
  <1> DEFINE g == Go(n, s)
             m == Data(g, k, more)
             r == Reexecute(m)
  <1>1. /\ ParserTyped(g) /\ g.flags = n.flags /\ g.length = n.length /\ g.state = s
        /\ g.phase = n.phase /\ g.marks = n.marks /\ g.called = FALSE /\ g.again = FALSE
    BY GoIs DEF Quiet
  <1> HIDE DEF g
  <1>2. /\ ParserTyped(m) /\ m.flags = n.flags /\ m.length = n.length /\ m.state = s
        /\ m.again = FALSE /\ m.phase = n.phase
        /\ \A j \in Kinds : m.marks[j] = None
    <2>1. m = Data(g, k, more)
      OBVIOUS
    <2> HIDE DEF m
    <2>2. /\ g.marks[k] = None => m.phase = g.phase
          /\ g.marks[k] # None => m.phase = Follows(g.phase, k)
      BY <1>1, <2>1, DataIs
    <2>3. m.phase = n.phase
      BY <1>1, <2>2
    <2>4. /\ ParserTyped(m) /\ m.state = g.state /\ m.flags = g.flags
          /\ m.length = g.length /\ m.again = g.again
      BY <1>1, <2>1, DataIs
    <2>5. ASSUME NEW j \in Kinds
          PROVE  m.marks[j] = None
      <3>1. CASE j = k
        BY <1>1, <2>1, <3>1, DataIs
      <3>2. CASE j # k
        <4>1. m.marks[j] = g.marks[j]
          BY <1>1, <2>1, <3>2, DataIs
        <4>2. n.marks[j] = None
          BY <3>2
        <4> QED BY <1>1, <4>1, <4>2
      <3> QED BY <3>1, <3>2
    <2> QED BY <1>1, <2>3, <2>4, <2>5
  <1> HIDE DEF m
  <1>3. /\ ParserTyped(r) /\ r.flags = n.flags /\ r.length = n.length /\ r.state = s
        /\ r.phase = n.phase /\ r.marks = m.marks
    BY <1>2, ReexecuteIs
  <1> HIDE DEF r
  <1>4. AfterPass(m, p)
    BY <1>2 DEF AfterPass, Sane, Loose
  <1>5. Passes(s) < Passes(p.state) => AfterPass(r, p)
    BY <1>2, <1>3 DEF AfterPass, Sane, Loose
  <1> QED BY <1>4, <1>5 DEF g, m, r

\* The same, with a callback.
LEMMA NotifyMoved ==
  ASSUME NEW p, NEW n, Quiet(n), NEW s, NEW what \in Tellings,
         At(s, n.flags, n.length, Follows(n.phase, what)), Starts(s) = {},
         \A j \in Kinds : n.marks[j] = None
  PROVE  /\ AfterPass(Notify(Go(n, s), what), p)
         /\ Passes(s) < Passes(p.state) => AfterPass(Reexecute(Notify(Go(n, s), what)), p)
  <1> DEFINE g == Go(n, s)
             m == Notify(g, what)
             r == Reexecute(m)
  <1>1. /\ ParserTyped(g) /\ g.flags = n.flags /\ g.length = n.length /\ g.state = s
        /\ g.phase = n.phase /\ g.marks = n.marks /\ g.called = FALSE /\ g.again = FALSE
    BY GoIs DEF Quiet
  <1> HIDE DEF g
  <1>2. /\ ParserTyped(m) /\ m.flags = n.flags /\ m.length = n.length /\ m.state = s
        /\ m.again = FALSE /\ m.phase = Follows(n.phase, what) /\ m.marks = n.marks
    <2>1. m = Notify(g, what)
      OBVIOUS
    <2> HIDE DEF m
    <2>2. m.phase = Follows(g.phase, what)
      BY <1>1, <2>1, NotifyIs
    <2>3. m.phase = Follows(n.phase, what)
      BY <1>1, <2>2
    <2> QED BY <1>1, <2>1, <2>3, NotifyIs
  <1> HIDE DEF m
  <1>3. /\ ParserTyped(r) /\ r.flags = n.flags /\ r.length = n.length /\ r.state = s
        /\ r.phase = m.phase /\ r.marks = n.marks
    BY <1>2, ReexecuteIs
  <1> HIDE DEF r
  <1>4. AfterPass(m, p)
    BY <1>2 DEF AfterPass, Sane, Loose
  <1>5. Passes(s) < Passes(p.state) => AfterPass(r, p)
    BY <1>2, <1>3 DEF AfterPass, Sane, Loose
  <1> QED BY <1>4, <1>5 DEF g, m, r

\* n is p with members set that say nothing here.
Like(n, p) ==
  /\ Quiet(n) /\ n.state = p.state /\ n.flags = p.flags /\ n.length = p.length
  /\ n.phase = p.phase /\ n.marks = p.marks

LEMMA LikeIs ==
  ASSUME NEW p, Fresh(p)
  PROVE  /\ Like(p, p)
         /\ \A n : But(n, p, Idle) => Like(n, p)
         /\ \A n : But(n, p, Idle \cup {"type"}) /\ n.type \in {"request", "response"} => Like(n, p)
  <1>1. ParserTyped(p) /\ p.again = FALSE /\ p.called = FALSE
    BY DEF Fresh, Sane, Loose
  <1>2. ASSUME NEW n, But(n, p, Idle \cup {"type"}), n.type \in {"both", "request", "response"}
        PROVE  Like(n, p)
    <2> DEFINE F == Idle \cup {"type"}
    <2>1. F \in SUBSET (Idle \cup {"flags", "length", "type"}) /\ "flags" \notin F /\ "length" \notin F
      BY DEF Idle
    <2> HIDE DEF F
    <2>2. But(n, p, F)
      BY <1>2 DEF F
    <2>3. n.flags = p.flags /\ n.length = p.length
      BY <2>1, <2>2, ButIs
    <2>4. n.flags \subseteq AllFlags /\ n.length \in 0..Max64
      BY <1>1, <2>3 DEF ParserTyped
    <2>5. /\ ParserTyped(n) /\ n.state = p.state /\ n.phase = p.phase /\ n.marks = p.marks
          /\ n.again = p.again /\ n.called = p.called
      BY <1>1, <1>2, <2>1, <2>2, <2>4, EditIs
    <2> QED BY <1>1, <2>3, <2>5 DEF Like, Quiet
  <1>3. ASSUME NEW n, But(n, p, Idle)
        PROVE  But(n, p, Idle \cup {"type"}) /\ n.type \in {"both", "request", "response"}
    BY <1>1, <1>3 DEF But, Names, Idle, ParserTyped
  <1> QED BY <1>1, <1>2, <1>3 DEF Like, Quiet

\* The states a first line may go on to.
Onward == Responding \cup Requesting \cup {"s_header_field_start"}

LEMMA HeadTo ==
  ASSUME NEW p, Fresh(p), p.state \in Responding \cup Requesting, NEW n, Like(n, p), NEW s \in Onward
  PROVE  /\ Quiet(n) /\ At(s, n.flags, n.length, n.phase)
         /\ n.phase = "head" /\ "trailing" \notin n.flags
         /\ \A k \in Kinds : n.marks[k] # None => k \in Starts(p.state)
         /\ \A k \in Starts(p.state) : n.marks[k] # None
  <1>1. /\ p.phase = "head" /\ "trailing" \notin p.flags
        /\ \A k \in Kinds : p.marks[k] # None => k \in Starts(p.state)
        /\ \A k \in Starts(p.state) : p.marks[k] # None
    BY AtHead DEF Fresh, Sane, Loose
  <1>2. s \in Responding \cup Requesting => At(s, n.flags, n.length, n.phase)
    BY <1>1, AtHead DEF Like
  <1>3. s = "s_header_field_start" => At(s, n.flags, n.length, n.phase)
    BY <1>1, AtHeading DEF Like, Heading, Fields
  <1> QED BY <1>1, <1>2, <1>3 DEF Like, Onward

\* From a state of the first line to another.
LEMMA HeadMoved ==
  ASSUME NEW p, Fresh(p), p.state \in Responding \cup Requesting, NEW n, Like(n, p), NEW s \in Onward,
         Starts(p.state) = Starts(s)
  PROVE  /\ AfterPass(Go(n, s), p)
         /\ Passes(s) < Passes(p.state) => AfterPass(Reexecute(Go(n, s)), p)
  BY HeadTo, Moved DEF Marked

LEMMA ResponsePassed ==
  ASSUME NEW p, Fresh(p), NEW b, p.state \in Responding
  PROVE  AfterPass(ResponseStep(p, b), p)
  <1> DEFINE http == [p EXCEPT !.type = "response", !.modern = Modern(b)]
             head == [p EXCEPT !.type = "request", !.method = "HEAD", !.index = 2]
             code == [p EXCEPT !.status = b]
             line == Mark(Go(p, "s_res_status"), "status")
  <1>1. Like(p, p) /\ Like(http, p) /\ Like(head, p) /\ Like(code, p)
    <2>1. But(http, p, Idle \cup {"type"}) /\ http.type = "response"
      BY DEF Fresh, Sane, Loose, ParserTyped, Shaped, But, Names, Idle
    <2>2. But(head, p, Idle \cup {"type"}) /\ head.type = "request"
      BY DEF Fresh, Sane, Loose, ParserTyped, Shaped, But, Names, Idle
    <2>3. But(code, p, Idle)
      BY DEF Fresh, Sane, Loose, ParserTyped, Shaped, But, Names, Idle
    <2> HIDE DEF http, head, code
    <2> QED BY <2>1, <2>2, <2>3, LikeIs
  <1>2. /\ Responding \subseteq Onward /\ {"s_req_method", "s_header_field_start"} \subseteq Onward
        /\ {"s_res_http_end", "s_res_first_status_code", "s_res_status_code", "s_res_status_start",
            "s_res_status", "s_res_line_almost_done"} \subseteq Onward
    BY DEF Onward, Responding, Requesting
  <1>3. /\ p.state # "s_res_status" => Starts(p.state) = {}
        /\ \A s \in {"s_req_method", "s_res_http_end", "s_res_first_status_code", "s_res_status_code",
                     "s_res_status_start", "s_header_field_start"} : Starts(s) = {}
    BY DEF Responding, Starts, Url, UrlEnds, Before
  <1>4. AfterPass(p, p) /\ AfterPass(Error(p), p)
    BY Stays
  <1>5. CASE p.state \in {"s_res_or_resp_H", "s_res_H"}
    <2>1. ResponseStep(p, b) \in {Error(p), Go(head, "s_req_method"), Go(http, "s_res_http_end")}
      BY <1>5 DEF ResponseStep, Expect
    <2> HIDE DEF http, head
    <2> QED BY <1>1, <1>2, <1>3, <1>4, <1>5, <2>1, HeadMoved
  <1>6. CASE p.state \in {"s_res_http_end", "s_res_line_almost_done"}
    <2>1. ResponseStep(p, b) \in {Error(p), Go(p, "s_res_first_status_code"), Go(p, "s_header_field_start")}
      BY <1>6 DEF ResponseStep, Expect
    <2> QED BY <1>1, <1>2, <1>3, <1>4, <1>6, <2>1, HeadMoved
  <1>7. CASE p.state = "s_res_first_status_code"
    <2>1. ResponseStep(p, b) \in {p, Error(p), Go(code, "s_res_status_code")}
      BY <1>7 DEF ResponseStep, Expect
    <2> HIDE DEF code
    <2> QED BY <1>1, <1>2, <1>3, <1>4, <1>7, <2>1, HeadMoved
  <1>8. CASE p.state = "s_res_status_code"
    <2>1. ResponseStep(p, b) \in {Error(p), Go(p, "s_res_status_start"), Reexecute(Go(p, "s_res_status_start"))}
      BY <1>8 DEF ResponseStep, Expect
    <2>2. Passes("s_res_status_start") < Passes(p.state)
      BY <1>8 DEF Passes
    <2> QED BY <1>1, <1>2, <1>3, <1>4, <1>8, <2>1, <2>2, HeadMoved
  <1>9. CASE p.state = "s_res_status_start"
    <2>1. ResponseStep(p, b) \in {line, Reexecute(line)}
      BY <1>9 DEF ResponseStep
    <2>2. Passes("s_res_status") < Passes(p.state) /\ "status" \in Marked("s_res_status") /\ "status" \in Kinds
          /\ Starts("s_res_status") \subseteq {"status"}
      BY <1>9 DEF Passes, Marked, Starts, Url, UrlEnds, Before, Kinds
    <2>3. /\ Quiet(p) /\ At("s_res_status", p.flags, p.length, p.phase)
          /\ \A k \in Kinds : p.marks[k] # None => k \in Marked("s_res_status")
      BY <1>1, <1>2, <1>3, <1>9, HeadTo
    <2> QED BY <2>1, <2>2, <2>3, MarkMoved
  <1>10. CASE p.state = "s_res_status"
    <2> DEFINE s == IF b = "CR" THEN "s_res_line_almost_done" ELSE "s_header_field_start"
    <2>1. ResponseStep(p, b) \in {p, Data(Go(p, s), "status", 0)}
      BY <1>10 DEF ResponseStep
    <2>2. s \in Onward /\ Starts(s) = {}
      BY <1>2 DEF Starts, Url, UrlEnds, Before
    <2> HIDE DEF s
    <2>3. Starts(p.state) = {"status"} /\ "status" \in Kinds /\ Follows("head", "status") = "head"
      BY <1>10 DEF Starts, Url, UrlEnds, Before, Kinds, Follows
    <2>4. /\ Quiet(p) /\ At(s, p.flags, p.length, p.phase) /\ p.phase = "head"
          /\ \A k \in Kinds : p.marks[k] # None => k = "status"
      BY <1>1, <2>2, <2>3, HeadTo
    <2> QED BY <1>4, <2>1, <2>2, <2>3, <2>4, DataMoved
  <1> QED BY <1>5, <1>6, <1>7, <1>8, <1>9, <1>10 DEF Responding

\* What a character of a URL goes on to.
LEMMA ParseUrlIs ==
  ASSUME NEW s, NEW b
  PROVE  ParseUrl(s, b) \in Url \cup {"s_dead"}
  BY DEF ParseUrl, Url, Before, UrlEnds

LEMMA RequestPassed ==
  ASSUME NEW p, Fresh(p), NEW b, p.state \in Requesting
  PROVE  AfterPass(RequestStep(p, b), p)
  <1> DEFINE named == [p EXCEPT !.index = 2]
             versed == [p EXCEPT !.modern = Modern(b)]
             old == [p EXCEPT !.modern = FALSE]
             line == IF b = "CR" THEN "s_req_line_almost_done" ELSE "s_header_field_start"
             from == IF p.state = "s_req_spaces_before_url" /\ p.method = "CONNECT"
                     THEN "s_req_server_start" ELSE p.state
             next == ParseUrl(from, b)
             ends == b \in {"CR", "LF"}
  <1>1. Like(p, p) /\ Like(named, p) /\ Like(versed, p) /\ Like(old, p)
    <2>1. But(named, p, Idle)
      BY DEF Fresh, Sane, Loose, ParserTyped, Shaped, But, Names, Idle
    <2>2. But(versed, p, Idle)
      BY DEF Fresh, Sane, Loose, ParserTyped, Shaped, But, Names, Idle
    <2>3. But(old, p, Idle)
      BY DEF Fresh, Sane, Loose, ParserTyped, Shaped, But, Names, Idle
    <2> HIDE DEF named, versed, old
    <2> QED BY <2>1, <2>2, <2>3, LikeIs
  <1>2. /\ line \in Onward /\ Url \subseteq Onward /\ Requesting \subseteq Onward
        /\ {"s_req_spaces_before_url", "s_req_http_start", "s_req_http_H", "s_req_http_end",
            "s_header_field_start"} \subseteq Onward
    BY DEF Onward, Requesting
  <1>3. /\ p.state \notin Url => Starts(p.state) = {}
        /\ p.state \in Url => Starts(p.state) = {"url"}
        /\ Starts(line) = {} /\ Starts("s_req_http_start") = {}
        /\ \A s \in {"s_req_spaces_before_url", "s_req_http_H", "s_req_http_end", "s_header_field_start"} :
             Starts(s) = {}
        /\ \A s \in Url : Marked(s) = {"url"} /\ Starts(s) = {"url"}
    BY AtHead DEF Requesting, Url, UrlEnds, Before, Starts, Marked
  <1>4. AfterPass(p, p) /\ AfterPass(Error(p), p)
    BY Stays
  <1>5. "url" \in Kinds /\ Follows("head", "url") = "head"
    BY DEF Kinds, Follows
  <1> HIDE DEF line
  <1>6. CASE p.state = "s_req_method"
    <2>1. RequestStep(p, b) \in {Error(p), Go(p, "s_req_spaces_before_url"), named}
      BY <1>6 DEF RequestStep, Expect, UrlEnds, Before
    <2>2. AfterPass(named, p)
      <3> HIDE DEF named
      <3> QED BY <1>1 DEF Like, Quiet, AfterPass, Fresh, Sane, Loose
    <2>3. p.state \notin Url
      BY <1>6 DEF Url, UrlEnds, Before
    <2> QED BY <1>1, <1>2, <1>3, <1>4, <1>6, <2>1, <2>2, <2>3, HeadMoved
  <1>7. CASE p.state \in {"s_req_http_start", "s_req_http_H", "s_req_http_end", "s_req_line_almost_done"}
    <2>1. RequestStep(p, b) \in {p, Error(p), Go(p, "s_req_http_H"), Go(versed, "s_req_http_end"),
                                 Go(p, line), Go(p, "s_header_field_start")}
      BY <1>7 DEF RequestStep, Expect, line, Before, UrlEnds
    <2>2. p.state \notin Url
      BY <1>7 DEF Url, UrlEnds, Before
    <2> HIDE DEF versed
    <2> QED BY <1>1, <1>2, <1>3, <1>4, <1>7, <2>1, <2>2, HeadMoved
  <1>8. CASE p.state \in UrlEnds /\ (b = "SP" \/ ends)
    <2>1. \/ RequestStep(p, b) = Data(Go(p, "s_req_http_start"), "url", 0)
          \/ RequestStep(p, b) = Data(Go(old, line), "url", 0)
      BY <1>8 DEF RequestStep, line, Before, UrlEnds
    <2>2. p.state \in Url
      BY <1>8 DEF Url
    <2> HIDE DEF old
    <2>3. /\ Quiet(p) /\ At("s_req_http_start", p.flags, p.length, p.phase) /\ p.phase = "head"
          /\ \A k \in Kinds : p.marks[k] # None => k = "url"
      BY <1>1, <1>2, <1>3, <2>2, HeadTo
    <2>4. /\ Quiet(old) /\ At(line, old.flags, old.length, old.phase) /\ old.phase = "head"
          /\ \A k \in Kinds : old.marks[k] # None => k = "url"
      BY <1>1, <1>2, <1>3, <2>2, HeadTo
    <2> QED BY <1>3, <1>5, <2>1, <2>3, <2>4, DataMoved
  <1>9. CASE p.state \in Before /\ (b = "SP" \/ ends)
    <2>1. RequestStep(p, b) \in {p, Error(p)}
      BY <1>9 DEF RequestStep, Before, UrlEnds
    <2> QED BY <1>4, <2>1
  <1>10. CASE p.state \in Before \cup UrlEnds /\ ~ends /\ b # "SP"
    <2> DEFINE marked == IF p.state = "s_req_spaces_before_url" THEN Mark(p, "url") ELSE p
               g == Go(marked, next)
    <2>1. RequestStep(p, b) \in {Error(p), g} /\ (RequestStep(p, b) = g => next # "s_dead" \/ g = Error(p))
      BY <1>10 DEF RequestStep, Expect, Before, UrlEnds
    <2>2. next \in Url \cup {"s_dead"}
      BY ParseUrlIs
    <2> HIDE DEF next
    <2>3. CASE next # "s_dead"
      <3>1. next \in Onward /\ next \in Url
        BY <1>2, <2>2, <2>3
      <3>2. /\ Quiet(p) /\ At(next, p.flags, p.length, p.phase)
            /\ \A k \in Kinds : p.marks[k] # None => k \in Marked(next)
            /\ p.state # "s_req_spaces_before_url" => p.marks["url"] # None
        BY <1>1, <1>3, <1>10, <3>1, HeadTo DEF Url
      <3>3. /\ ParserTyped(marked) /\ marked.flags = p.flags /\ marked.length = p.length
            /\ marked.phase = p.phase /\ marked.again = FALSE /\ marked.called = FALSE
            /\ \A k \in Kinds : marked.marks[k] # None => k \in Marked(next)
            /\ \A k \in Starts(next) : marked.marks[k] # None
        BY <1>3, <1>5, <3>1, <3>2, MarkIs DEF Quiet, None
      <3> HIDE DEF marked
      <3>4. AfterPass(g, p)
        BY <3>2, <3>3, Moved DEF Quiet
      <3> QED BY <1>4, <2>1, <3>4
    <2>4. CASE next = "s_dead"
      BY <1>4, <2>1, <2>4
    <2> QED BY <2>3, <2>4
  <1> QED BY <1>6, <1>7, <1>8, <1>9, <1>10 DEF Requesting, Url, Before

\* What was passed, with members set.
LEMMA EditPassed ==
  ASSUME NEW p, NEW q, AfterPass(q, p), NEW F \in SUBSET (Idle \cup {"flags", "length", "type"}),
         NEW n, But(n, q, F), n.flags \subseteq AllFlags, n.length \in 0..Max64,
         n.type \in {"both", "request", "response"}, At(q.state, n.flags, n.length, q.phase)
  PROVE  AfterPass(n, p)
  <1>1. ParserTyped(q)
    BY DEF AfterPass, Sane, Loose
  <1>2. /\ ParserTyped(n) /\ n.state = q.state /\ n.phase = q.phase /\ n.marks = q.marks
        /\ n.again = q.again /\ n.called = q.called
    BY <1>1, EditIs
  <1>3. Sane(n)
    BY <1>2 DEF AfterPass, Sane, Loose
  <1>4. n.again => Passes(n.state) < Passes(p.state)
    BY <1>2 DEF AfterPass
  <1>5. n.called => Starts(n.state) = {} /\ \A k \in Kinds : n.marks[k] = None
    BY <1>2 DEF AfterPass
  <1> QED BY <1>3, <1>4, <1>5 DEF AfterPass

LEMMA AgainPassed ==
  ASSUME NEW p, NEW q, AfterPass(q, p), Passes(q.state) < Passes(p.state)
  PROVE  AfterPass(Reexecute(q), p)
  <1> DEFINE r == Reexecute(q)
  <1>1. /\ ParserTyped(r) /\ r.flags = q.flags /\ r.length = q.length /\ r.state = q.state
        /\ r.phase = q.phase /\ r.marks = q.marks /\ r.called = q.called
    BY ReexecuteIs DEF AfterPass, Sane, Loose
  <1> HIDE DEF r
  <1>2. Sane(r)
    BY <1>1 DEF AfterPass, Sane, Loose
  <1>3. r.called => Starts(r.state) = {} /\ \A k \in Kinds : r.marks[k] = None
    BY <1>1 DEF AfterPass
  <1> QED BY <1>1, <1>2, <1>3 DEF AfterPass, r

\* A mark set, and told at once.
LEMMA DataMarked ==
  ASSUME NEW p, NEW n, Quiet(n), NEW s, NEW k \in Kinds, NEW more \in {0, 1},
         At(s, n.flags, n.length, n.phase), Starts(s) = {}, Follows(n.phase, k) = n.phase,
         \A j \in Kinds : n.marks[j] = None
  PROVE  AfterPass(Data(Mark(Go(n, s), k), k, more), p)
  <1> DEFINE g == Go(n, s)
             h == Mark(g, k)
             m == Data(h, k, more)
  <1>1. /\ ParserTyped(g) /\ g.flags = n.flags /\ g.length = n.length /\ g.state = s
        /\ g.phase = n.phase /\ g.marks = n.marks /\ g.again = FALSE
    BY GoIs DEF Quiet
  <1> HIDE DEF g
  <1>2. /\ ParserTyped(h) /\ h.flags = n.flags /\ h.length = n.length /\ h.state = s
        /\ h.phase = n.phase /\ h.again = FALSE
        /\ \A j \in Kinds \ {k} : h.marks[j] = None
    BY <1>1, MarkIs
  <1>3. h.marks[k] # None
    BY <1>1, MarkIs DEF None
  <1> HIDE DEF h
  <1>4. /\ ParserTyped(m) /\ m.flags = n.flags /\ m.length = n.length /\ m.state = s
        /\ m.again = FALSE
        /\ \A j \in Kinds : m.marks[j] = None
    BY <1>2, DataIs
  <1>5. m.phase = Follows(h.phase, k)
    BY <1>2, <1>3, DataIs
  <1>6. m.phase = n.phase
    BY <1>2, <1>5
  <1> HIDE DEF m
  <1>7. AfterPass(m, p)
    BY <1>4, <1>6 DEF AfterPass, Sane, Loose
  <1> QED BY <1>7 DEF g, h, m

\* n is p with members set, the flags among them, but for "trailing".
HeadLike(n, p) ==
  /\ Quiet(n) /\ n.state = p.state /\ n.phase = p.phase /\ n.marks = p.marks
  /\ "trailing" \in n.flags <=> "trailing" \in p.flags

LEMMA HeadingTo ==
  ASSUME NEW p, Fresh(p), p.state \in Heading, NEW n, HeadLike(n, p), NEW s \in Heading
  PROVE  /\ Quiet(n) /\ At(s, n.flags, n.length, n.phase)
         /\ \A k \in {"field", "value"} : Follows(n.phase, k) = n.phase
         /\ \A k \in Kinds : n.marks[k] # None => k \in Starts(p.state)
         /\ \A k \in Starts(p.state) : n.marks[k] # None
  <1>1. /\ p.phase = IF "trailing" \in p.flags THEN "chunk" ELSE "head"
        /\ \A k \in Kinds : p.marks[k] # None => k \in Starts(p.state)
        /\ \A k \in Starts(p.state) : p.marks[k] # None
    BY AtHeading DEF Fresh, Sane, Loose
  <1>2. n.phase = IF "trailing" \in n.flags THEN "chunk" ELSE "head"
    BY <1>1 DEF HeadLike
  <1>3. At(s, n.flags, n.length, n.phase)
    BY <1>2, AtHeading
  <1>4. \A k \in {"field", "value"} : Follows(n.phase, k) = n.phase
    BY <1>2 DEF Follows
  <1> QED BY <1>1, <1>3, <1>4 DEF HeadLike

LEMMA HeadLikeIs ==
  ASSUME NEW p, Fresh(p)
  PROVE  HeadLike(p, p) /\ \A n : But(n, p, Idle) => HeadLike(n, p)
  BY LikeIs DEF Like, HeadLike

\* The flags of a connection header, or of a transfer coding.
LEMMA FlaggedIs ==
  ASSUME NEW p, ParserTyped(p)
  PROVE  /\ But(Flagged(p), p, {"flags"}) /\ Flagged(p).flags \subseteq AllFlags
         /\ "trailing" \in Flagged(p).flags <=> "trailing" \in p.flags
  <1>1. CASE p.header \in DOMAIN Flag
    <2> DEFINE f == Flag[p.header]
               q == [p EXCEPT !.flags = @ \cup {f}]
    <2>1. Flagged(p) = q
      BY <1>1 DEF Flagged
    <2>2. f \in AllFlags /\ f # "trailing"
      BY <1>1 DEF Flag, AllFlags
    <2> HIDE DEF f
    <2>3. But(q, p, {"flags"}) /\ q.flags = p.flags \cup {f}
      BY DEF ParserTyped, Shaped, But, Names
    <2> HIDE DEF q
    <2> QED BY <2>1, <2>2, <2>3 DEF ParserTyped
  <1>2. CASE p.header \notin DOMAIN Flag
    BY <1>2 DEF Flagged, But, ParserTyped
  <1> QED BY <1>1, <1>2

LEMMA FlaggedLike ==
  ASSUME NEW p, Fresh(p)
  PROVE  HeadLike(Flagged(p), p)
  <1> DEFINE n == Flagged(p)
  <1>1. ParserTyped(p) /\ p.again = FALSE /\ p.called = FALSE
    BY DEF Fresh, Sane, Loose
  <1>2. /\ But(n, p, {"flags"}) /\ n.flags \subseteq AllFlags
        /\ "trailing" \in n.flags <=> "trailing" \in p.flags
    BY <1>1, FlaggedIs
  <1> HIDE DEF n
  <1>3. n.length \in 0..Max64 /\ n.type \in {"both", "request", "response"}
    BY <1>1, <1>2, ButIs DEF ParserTyped
  <1>4. {"flags"} \in SUBSET (Idle \cup {"flags", "length", "type"})
    OBVIOUS
  <1>5. /\ ParserTyped(n) /\ n.state = p.state /\ n.phase = p.phase /\ n.marks = p.marks
        /\ n.again = p.again /\ n.called = p.called
    BY <1>1, <1>2, <1>3, <1>4, EditIs
  <1> QED BY <1>1, <1>2, <1>5 DEF HeadLike, Quiet, n

LEMMA FieldPassed ==
  ASSUME NEW p, Fresh(p), NEW b, p.state \in Fields
  PROVE  AfterPass(FieldStep(p, b), p)
  <1> DEFINE named == [p EXCEPT !.header = NameBegun(b)]
             longer == [p EXCEPT !.header = NameGoesOn(@, b)]
  <1>1. HeadLike(p, p) /\ HeadLike(named, p) /\ HeadLike(longer, p)
    <2>1. But(named, p, Idle)
      BY DEF Fresh, Sane, Loose, ParserTyped, Shaped, But, Names, Idle
    <2>2. But(longer, p, Idle)
      BY DEF Fresh, Sane, Loose, ParserTyped, Shaped, But, Names, Idle
    <2> HIDE DEF named, longer
    <2> QED BY <2>1, <2>2, HeadLikeIs
  <1>2. /\ p.state \in Heading
        /\ {"s_headers_almost_done", "s_header_field", "s_header_value_discard_ws"} \subseteq Heading
    BY DEF Heading, Fields, Values
  <1>3. AfterPass(p, p) /\ AfterPass(Error(p), p)
    BY Stays
  <1>4. "field" \in Kinds
    BY DEF Kinds
  <1>5. CASE p.state = "s_header_field_start"
    <2>1. FieldStep(p, b) \in {Error(p), Go(p, "s_headers_almost_done"),
                               Reexecute(Go(p, "s_headers_almost_done")),
                               Mark(Go(named, "s_header_field"), "field")}
      BY <1>5 DEF FieldStep, Expect
    <2> HIDE DEF named
    <2>2. /\ Starts(p.state) = {} /\ Starts("s_headers_almost_done") = {}
          /\ Passes("s_headers_almost_done") < Passes(p.state)
      BY <1>2, <1>5, AtHeading
    <2>3. "field" \in Marked("s_header_field") /\ Starts("s_header_field") \subseteq {"field"}
      BY <1>2, AtHeading
    <2>4. /\ Quiet(p) /\ At("s_headers_almost_done", p.flags, p.length, p.phase)
          /\ \A k \in Kinds : p.marks[k] = None
      BY <1>1, <1>2, <2>2, HeadingTo
    <2>5. /\ Quiet(named) /\ At("s_header_field", named.flags, named.length, named.phase)
          /\ \A k \in Kinds : named.marks[k] = None
      BY <1>1, <1>2, <2>2, HeadingTo
    <2>6. AfterPass(Mark(Go(named, "s_header_field"), "field"), p)
      BY <1>4, <2>3, <2>5, MarkMoved
    <2>7. /\ AfterPass(Go(p, "s_headers_almost_done"), p)
          /\ AfterPass(Reexecute(Go(p, "s_headers_almost_done")), p)
      BY <2>2, <2>4, Moved
    <2> QED BY <1>3, <2>1, <2>6, <2>7
  <1>6. CASE p.state = "s_header_field"
    <2>1. FieldStep(p, b) \in {Error(p), longer, Data(Go(p, "s_header_value_discard_ws"), "field", 0)}
      BY <1>6 DEF FieldStep, Expect
    <2>2. AfterPass(longer, p)
      <3>1. But(longer, p, {"header"})
        BY DEF Fresh, Sane, Loose, ParserTyped, Shaped, But, Names
      <3>2. {"header"} \in SUBSET Idle /\ {"header"} \in SUBSET (Idle \cup {"flags", "length", "type"})
        BY DEF Idle
      <3> HIDE DEF longer
      <3>3. ParserTyped(p)
        BY DEF Fresh, Sane, Loose
      <3>4. longer.flags = p.flags /\ longer.length = p.length /\ longer.type = p.type
        BY <3>1, ButIs
      <3> QED BY <1>3, <3>1, <3>2, <3>3, <3>4, EditPassed DEF ParserTyped, Fresh, Sane, Loose
    <2> HIDE DEF longer
    <2>3. Starts(p.state) = {"field"} /\ Starts("s_header_value_discard_ws") = {}
      BY <1>2, <1>6, AtHeading
    <2>4. /\ Quiet(p) /\ At("s_header_value_discard_ws", p.flags, p.length, p.phase)
          /\ \A k \in Kinds : p.marks[k] # None => k = "field" /\ Follows(p.phase, "field") = p.phase
      BY <1>1, <1>2, <2>3, HeadingTo
    <2> QED BY <1>3, <1>4, <2>1, <2>2, <2>3, <2>4, DataMoved
  <1> QED BY <1>5, <1>6 DEF Fields

\* Another header_state, and nothing else.
LEMMA HeaderPassed ==
  ASSUME NEW p, NEW q, AfterPass(q, p), NEW h
  PROVE  AfterPass([q EXCEPT !.header = h], p)
  <1> DEFINE n == [q EXCEPT !.header = h]
  <1>1. ParserTyped(q) /\ At(q.state, q.flags, q.length, q.phase)
    BY DEF AfterPass, Sane, Loose
  <1>2. But(n, q, {"header"})
    BY <1>1 DEF ParserTyped, Shaped, But, Names
  <1> HIDE DEF n
  <1>3. {"header"} \in SUBSET (Idle \cup {"flags", "length", "type"})
    BY DEF Idle
  <1>4. n.flags = q.flags /\ n.length = q.length /\ n.type = q.type
    BY <1>2, ButIs
  <1> QED BY <1>1, <1>2, <1>3, <1>4, EditPassed DEF ParserTyped, n

LEMMA DigitIs ==
  ASSUME NEW b \in Digital, NEW base \in Nat \ {0, 1}
  PROVE  Digit(b, base) \in 0..(base - 1)
  <1>1. CASE b = "0"
    BY <1>1 DEF Digit
  <1>2. CASE b = "1"
    BY <1>2 DEF Digit
  <1>3. CASE b = "9"
    BY <1>3 DEF Digit
  <1> QED BY <1>1, <1>2, <1>3 DEF Digital

\* Below the limit there is room for a digit more.
LEMMA RoomForDigit ==
  ASSUME NEW m \in Nat, NEW base \in Nat \ {0, 1}, base <= m, NEW n \in Nat, (m - base) \div base >= n,
         NEW d \in 0..(base - 1)
  PROVE  n * base + d \in Nat /\ n * base + d < m
  <1> DEFINE q == (m - base) \div base
  <1>1. m - base \in Nat /\ base > 0
    OBVIOUS
  <1>2. q \in Nat /\ q * base <= m - base
    BY <1>1
  <1> HIDE DEF q
  <1>3. n * base <= q * base
    <2>1. q - n \in Nat
      BY <1>2 DEF q
    <2>2. (q - n) * base \in Nat
      BY <2>1
    <2>3. (q - n) * base = q * base - n * base
      BY <1>2
    <2>4. n * base \in Nat /\ q * base \in Nat
      BY <1>2
    <2> QED BY <2>2, <2>3, <2>4
  <1>4. n * base \in Nat
    OBVIOUS
  <1> QED BY <1>2, <1>3, <1>4

\* A digit more never comes to Max64.
LEMMA NumberIs ==
  ASSUME NEW p, ParserTyped(p), NEW b \in Digital, NEW base \in {Decimal, Hex}
  PROVE  \/ Number(p, b, base) = Error(p)
         \/ /\ But(Number(p, b, base), p, {"length"})
            /\ Number(p, b, base).length \in 0..Max64 /\ Number(p, b, base).length # Max64
            /\ Number(p, b, base).type = p.type /\ Number(p, b, base).flags = p.flags
  <1> DEFINE n == [p EXCEPT !.length = @ * base + Digit(b, base)]
  <1>1. CASE (Max64 - base) \div base >= p.length
    <2>1. Number(p, b, base) = n
      BY <1>1 DEF Number, Expect
    <2>2. p.length \in Nat /\ base \in Nat \ {0, 1} /\ base <= Max64 /\ Max64 \in Nat
      BY ParserAssumption DEF ParserTyped
    <2>3. Digit(b, base) \in 0..(base - 1)
      BY <2>2, DigitIs
    <2>4. But(n, p, {"length"}) /\ n.length = p.length * base + Digit(b, base)
      BY DEF ParserTyped, Shaped, But, Names
    <2> HIDE DEF n
    <2>5. n.length \in Nat /\ n.length < Max64
      BY <1>1, <2>2, <2>3, <2>4, RoomForDigit
    <2>6. n.type = p.type /\ n.flags = p.flags
      BY <2>4, ButIs
    <2> QED BY <2>1, <2>2, <2>4, <2>5, <2>6
  <1>2. CASE ~((Max64 - base) \div base >= p.length)
    BY <1>2 DEF Number, Expect
  <1> QED BY <1>1, <1>2

LEMMA NumberPassed ==
  ASSUME NEW p, Fresh(p), NEW b \in Digital, NEW base \in {Decimal, Hex},
         \A l \in 0..Max64 \ {Max64} : At(p.state, p.flags, l, p.phase)
  PROVE  AfterPass(Number(p, b, base), p)
  <1> DEFINE n == Number(p, b, base)
  <1>1. ParserTyped(p) /\ AfterPass(p, p) /\ AfterPass(Error(p), p)
    BY Stays DEF Fresh, Sane, Loose
  <1>2. \/ n = Error(p)
        \/ /\ But(n, p, {"length"}) /\ n.length \in 0..Max64 /\ n.length # Max64
           /\ n.type = p.type /\ n.flags = p.flags
    BY <1>1, NumberIs
  <1>3. {"length"} \in SUBSET (Idle \cup {"flags", "length", "type"})
    OBVIOUS
  <1> HIDE DEF n
  <1>4. CASE n # Error(p)
    <2>1. n.flags \subseteq AllFlags /\ n.type \in {"both", "request", "response"}
      BY <1>1, <1>2, <1>4 DEF ParserTyped
    <2>2. At(p.state, n.flags, n.length, p.phase)
      BY <1>2, <1>4
    <2>3. AfterPass(n, p)
      BY <1>1, <1>2, <1>3, <1>4, <2>1, <2>2, EditPassed
    <2> QED BY <2>3 DEF n
  <1> QED BY <1>1, <1>4 DEF n

LEMMA ValueStartPassed ==
  ASSUME NEW p, Fresh(p), NEW b, p.state \in {"s_header_value_discard_ws", "s_header_value_start"}
  PROVE  AfterPass(ValueStart(p, b), p)
  <1> DEFINE q == Mark(Go(p, "s_header_value"), "value")
             f(next) == [q EXCEPT !.header = next]
             g == f("h_general")
             u == [g EXCEPT !.flags = @ \cup {"upgrade"}]
             c == f("h_content_length_num")
             l == [c EXCEPT !.flags = @ \cup {"content-length"}, !.length = Digit(b, Decimal)]
  <1>1. /\ p.state \in Heading /\ "s_header_value" \in Heading
        /\ p.state \notin {"s_header_field", "s_header_value"}
    BY DEF Heading, Values
  <1>2. /\ Starts(p.state) = {} /\ "value" \in Marked("s_header_value") /\ Starts("s_header_value") \subseteq {"value"}
    BY <1>1, AtHeading
  <1>3. HeadLike(p, p)
    BY HeadLikeIs
  <1>4. Quiet(p) /\ At("s_header_value", p.flags, p.length, p.phase) /\ \A k \in Kinds : p.marks[k] = None
    BY <1>1, <1>2, <1>3, HeadingTo
  <1>5. "value" \in Kinds
    BY DEF Kinds
  <1>6. AfterPass(q, p)
    BY <1>2, <1>4, <1>5, MarkMoved
  <1>7. q.state = "s_header_value"
    <2> DEFINE o == Go(p, "s_header_value")
    <2>1. ParserTyped(o) /\ o.state = "s_header_value"
      BY <1>4, GoIs DEF Quiet
    <2> HIDE DEF o
    <2>2. Mark(o, "value").state = o.state
      BY <1>5, <2>1, MarkIs
    <2> QED BY <2>1, <2>2 DEF o
  <1> HIDE DEF q
  <1>8. \A next : AfterPass(f(next), p) /\ f(next).state = q.state
    <2>1. ParserTyped(q)
      BY <1>6 DEF AfterPass, Sane, Loose
    <2>2. \A next : f(next).state = q.state
      BY <2>1 DEF ParserTyped, Shaped, Names
    <2> QED BY <1>6, <2>2, HeaderPassed
  <1>9. \A x \in {g, c} : AfterPass(x, p) /\ x.state = "s_header_value"
    BY <1>7, <1>8
  <1> HIDE DEF g, c
  <1>10. AfterPass(u, p)
    <2>1. ParserTyped(g)
      BY <1>9 DEF AfterPass, Sane, Loose
    <2>2. But(u, g, {"flags"}) /\ u.flags = g.flags \cup {"upgrade"}
      BY <2>1 DEF ParserTyped, Shaped, But, Names
    <2> HIDE DEF u
    <2>3. u.length = g.length /\ u.type = g.type /\ u.flags \subseteq AllFlags
      BY <2>1, <2>2, ButIs DEF ParserTyped, AllFlags
    <2>4. At(g.state, u.flags, u.length, g.phase)
      BY <1>1, <1>9, <2>2, AtHeading DEF AfterPass, Sane, Loose
    <2>5. {"flags"} \in SUBSET (Idle \cup {"flags", "length", "type"})
      OBVIOUS
    <2> QED BY <1>9, <2>1, <2>2, <2>3, <2>4, <2>5, EditPassed DEF ParserTyped
  <1>11. b \in Digital => AfterPass(l, p)
    <2> SUFFICES ASSUME b \in Digital PROVE AfterPass(l, p)
      OBVIOUS
    <2>1. ParserTyped(c)
      BY <1>9 DEF AfterPass, Sane, Loose
    <2>2. But(l, c, {"flags", "length"}) /\ l.flags = c.flags \cup {"content-length"} /\ l.length = Digit(b, Decimal)
      BY <2>1 DEF ParserTyped, Shaped, But, Names
    <2> HIDE DEF l
    <2>3. l.length \in 0..Max64
      BY <2>2, DigitIs, ParserAssumption
    <2>4. l.type = c.type /\ l.flags \subseteq AllFlags
      BY <2>1, <2>2, ButIs DEF ParserTyped, AllFlags
    <2>5. At(c.state, l.flags, l.length, c.phase)
      BY <1>1, <1>9, <2>2, AtHeading DEF AfterPass, Sane, Loose
    <2>6. {"flags", "length"} \in SUBSET (Idle \cup {"flags", "length", "type"})
      OBVIOUS
    <2> QED BY <1>9, <2>1, <2>2, <2>3, <2>4, <2>5, <2>6, EditPassed DEF ParserTyped
  <1>12. AfterPass(Error(q), p)
    <2>1. q.called = FALSE
      <3> DEFINE o == Go(p, "s_header_value")
      <3>1. ParserTyped(o) /\ o.called = FALSE
        BY <1>4, GoIs DEF Quiet
      <3> HIDE DEF o
      <3>2. Mark(o, "value").called = o.called
        BY <1>5, <3>1, MarkIs
      <3> QED BY <3>1, <3>2 DEF o, q
    <2> QED BY <1>6, <2>1, ErrorPassed DEF AfterPass
  <1>13. \/ \E next : ValueStart(p, b) = f(next)
         \/ ValueStart(p, b) \in {q, u, Error(q)}
         \/ b \in Digital /\ ValueStart(p, b) = l
    BY DEF ValueStart, Expect, q, u, l, g, c
  <1> QED BY <1>6, <1>8, <1>10, <1>11, <1>12, <1>13

LEMMA ValueGoesOnPassed ==
  ASSUME NEW p, Fresh(p), NEW b, p.state = "s_header_value"
  PROVE  AfterPass(ValueGoesOn(p, b), p)
  <1> DEFINE f(next) == [p EXCEPT !.header = next]
             h == Flagged(p)
             g == [h EXCEPT !.header = "h_matching_connection_token_start"]
  <1>1. AfterPass(p, p) /\ AfterPass(Error(p), p) /\ ParserTyped(p)
    BY Stays DEF Fresh, Sane, Loose
  <1>2. \A next : AfterPass(f(next), p)
    BY <1>1, HeaderPassed
  <1>3. p.state \in Heading
    BY DEF Heading, Values
  <1>4. AfterPass(h, p)
    <2>1. HeadLike(h, p)
      BY FlaggedLike
    <2> HIDE DEF h
    <2>2. /\ At(p.state, h.flags, h.length, h.phase)
          /\ \A k \in Kinds : h.marks[k] # None => k \in Starts(p.state)
          /\ \A k \in Starts(p.state) : h.marks[k] # None
      BY <1>3, <2>1, HeadingTo
    <2>3. Starts(p.state) = Marked(p.state)
      BY <1>3, AtHeading
    <2>4. Sane(h)
      BY <2>1, <2>2, <2>3 DEF HeadLike, Quiet, Sane, Loose
    <2> QED BY <2>1, <2>4 DEF HeadLike, Quiet, AfterPass
  <1> HIDE DEF h
  <1>5. AfterPass(g, p)
    BY <1>4, HeaderPassed
  <1>6. b \in Digital => AfterPass(Number(p, b, Decimal), p)
    <2>1. At(p.state, p.flags, p.length, p.phase)
      BY DEF Fresh, Sane, Loose
    <2>2. \A l \in 0..Max64 \ {Max64} : At(p.state, p.flags, l, p.phase)
      BY <1>3, <2>1, AtHeading
    <2> QED BY <2>2, NumberPassed
  <1>7. \/ ValueGoesOn(p, b) \in {p, Error(p), g}
        \/ \E next : ValueGoesOn(p, b) = f(next)
        \/ b \in Digital /\ ValueGoesOn(p, b) = Number(p, b, Decimal)
    <2>1. CASE p.header \in {"h_content_length_num", "h_content_length_ws"}
      <3>1. \/ ValueGoesOn(p, b) \in {p, Error(p), f("h_content_length_ws")}
            \/ b \in Digital /\ ValueGoesOn(p, b) = Number(p, b, Decimal)
        BY <2>1 DEF ValueGoesOn, Expect, Flag
      <3> QED BY <3>1
    <2>2. CASE p.header \in {"h_matching_transfer_encoding_chunked", "h_matching_connection_token_start",
                             "h_matching_connection_keep_alive", "h_matching_connection_close",
                             "h_matching_connection_upgrade"}
      <3> DEFINE t == "h_matching_connection_token"
                 n == CASE p.header = "h_matching_transfer_encoding_chunked" ->
                             IF b = "hunked" THEN "h_transfer_encoding_chunked" ELSE "h_general"
                        [] p.header = "h_matching_connection_token_start" ->
                             ConnectionBegun(b, IF b \in Token THEN t ELSE "h_general")
                        [] p.header = "h_matching_connection_keep_alive" ->
                             IF b = "eep-alive" THEN "h_connection_keep_alive" ELSE t
                        [] p.header = "h_matching_connection_close" ->
                             IF b = "lose" THEN "h_connection_close" ELSE t
                        [] OTHER -> IF b = "pgrade" THEN "h_connection_upgrade" ELSE t
      <3>1. ValueGoesOn(p, b) \in {p, f(n)}
        BY <2>2 DEF ValueGoesOn, Flag
      <3> QED BY <3>1
    <2>3. CASE p.header \in {"h_matching_connection_token", "h_transfer_encoding_chunked"}
      <3>1. ValueGoesOn(p, b) \in {p, f("h_matching_connection_token_start"), f("h_general")}
        BY <2>3 DEF ValueGoesOn, Flag
      <3> QED BY <3>1
    <2>4. CASE p.header \in DOMAIN Flag \ {"h_transfer_encoding_chunked"}
      BY <2>4 DEF ValueGoesOn, Flag, g, h
    <2>5. CASE p.header \notin DOMAIN Flag \cup {"h_content_length_num", "h_content_length_ws",
                                "h_matching_transfer_encoding_chunked", "h_matching_connection_token_start",
                                "h_matching_connection_keep_alive", "h_matching_connection_close",
                                "h_matching_connection_upgrade", "h_matching_connection_token"}
      BY <2>5 DEF ValueGoesOn, Flag
    <2> QED BY <2>1, <2>2, <2>3, <2>4, <2>5 DEF Flag
  <1> QED BY <1>1, <1>2, <1>5, <1>6, <1>7

LEMMA ValuePassed ==
  ASSUME NEW p, Fresh(p), NEW b, p.state \in Values
  PROVE  AfterPass(ValueStep(p, b), p)
  <1> DEFINE done == Data(Go(p, "s_header_almost_done"), "value", 0)
             flagged == Flagged(p)
             empty == Data(Mark(Go(flagged, "s_header_field_start"), "value"), "value", 0)
             folded == IF p.header = "h_content_length_num"
                       THEN [p EXCEPT !.header = "h_content_length_ws"] ELSE p
  <1>1. HeadLike(p, p) /\ HeadLike(flagged, p) /\ HeadLike(folded, p)
    <2> DEFINE f == [p EXCEPT !.header = "h_content_length_ws"]
    <2>1. But(f, p, Idle)
      BY DEF Fresh, Sane, Loose, ParserTyped, Shaped, But, Names, Idle
    <2> HIDE DEF f
    <2> QED BY <2>1, FlaggedLike, HeadLikeIs DEF f
  <1> HIDE DEF flagged, folded
  <1>2. AfterPass(p, p) /\ AfterPass(Error(p), p)
    BY Stays
  <1>3. /\ p.state \in Heading
        /\ \A s \in {"s_header_value_discard_ws", "s_header_value_discard_ws_almost_done",
             "s_header_value_discard_lws", "s_header_value_start", "s_header_value_lws",
             "s_header_almost_done", "s_header_field_start"} : s \in Heading /\ Starts(s) = {}
    BY AtHeading DEF Heading, Values, Fields
  <1>4. "value" \in Kinds
    BY DEF Kinds
  <1>5. CASE p.state # "s_header_value"
    <2>1. \A k \in Kinds : p.marks[k] = None /\ flagged.marks[k] = None /\ folded.marks[k] = None
      BY <1>1, <1>3, <1>5, AtHeading, HeadingTo DEF Values
    <2>2. /\ Quiet(p) /\ Quiet(flagged) /\ Quiet(folded)
          /\ \A s \in Heading : /\ At(s, p.flags, p.length, p.phase)
                                /\ At(s, flagged.flags, flagged.length, flagged.phase)
                                /\ At(s, folded.flags, folded.length, folded.phase)
          /\ Follows(flagged.phase, "value") = flagged.phase
      BY <1>1, <1>3, HeadingTo
    <2>3. CASE p.state = "s_header_value_discard_ws"
      <3>1. ValueStep(p, b) \in {p, Go(p, "s_header_value_discard_ws_almost_done"),
                                 Go(p, "s_header_value_discard_lws"), ValueStart(p, b)}
        BY <2>3 DEF ValueStep
      <3> QED BY <1>2, <1>3, <2>1, <2>2, <2>3, <3>1, Moved, ValueStartPassed
    <2>4. CASE p.state = "s_header_value_start"
      BY <2>4, ValueStartPassed DEF ValueStep
    <2>5. CASE p.state = "s_header_almost_done"
      <3>1. ValueStep(p, b) \in {Error(p), Go(p, "s_header_value_lws")}
        BY <2>5 DEF ValueStep, Expect
      <3> QED BY <1>2, <1>3, <2>1, <2>2, <3>1, Moved
    <2>6. CASE p.state = "s_header_value_lws"
      <3>1. ValueStep(p, b) \in {Reexecute(Go(folded, "s_header_value_start")),
                                 Reexecute(Go(flagged, "s_header_field_start"))}
        BY <2>6 DEF ValueStep, folded, flagged
      <3>2. Passes("s_header_value_start") < Passes(p.state) /\ Passes("s_header_field_start") < Passes(p.state)
        BY <2>6 DEF Passes
      <3> QED BY <1>3, <2>1, <2>2, <3>1, <3>2, Moved
    <2>7. CASE p.state = "s_header_value_discard_ws_almost_done"
      <3>1. ValueStep(p, b) \in {Error(p), Go(p, "s_header_value_discard_lws")}
        BY <2>7 DEF ValueStep, Expect
      <3> QED BY <1>2, <1>3, <2>1, <2>2, <3>1, Moved
    <2>8. CASE p.state = "s_header_value_discard_lws"
      <3>1. ValueStep(p, b) \in {Error(p), Go(p, "s_header_value_discard_ws"), Reexecute(empty)}
        BY <2>8 DEF ValueStep, Expect, flagged
      <3>2. Passes("s_header_field_start") < Passes(p.state)
        BY <2>8 DEF Passes
      <3>3. AfterPass(empty, p)
        BY <1>3, <1>4, <2>1, <2>2, DataMarked
      <3>4. empty.state = "s_header_field_start"
        <4> DEFINE g == Go(flagged, "s_header_field_start")
                   m == Mark(g, "value")
        <4>1. ParserTyped(g) /\ g.state = "s_header_field_start"
          BY <2>2, GoIs DEF Quiet
        <4> HIDE DEF g
        <4>2. ParserTyped(m) /\ m.state = g.state
          BY <1>4, <4>1, MarkIs
        <4> HIDE DEF m
        <4>3. Data(m, "value", 0).state = m.state
          BY <1>4, <4>2, DataIs
        <4> QED BY <4>1, <4>2, <4>3 DEF g, m
      <3> HIDE DEF empty
      <3>5. AfterPass(Reexecute(empty), p)
        BY <3>2, <3>3, <3>4, AgainPassed
      <3>6. AfterPass(Go(p, "s_header_value_discard_ws"), p)
        BY <1>3, <2>1, <2>2, Moved
      <3> QED BY <1>2, <3>1, <3>5, <3>6
    <2> QED BY <1>5, <2>3, <2>4, <2>5, <2>6, <2>7, <2>8 DEF Values
  <1>6. CASE p.state = "s_header_value"
    <2>1. ValueStep(p, b) \in {done, Reexecute(done), Error(p), ValueGoesOn(p, b)}
      BY <1>6 DEF ValueStep, Expect
    <2>2. Starts(p.state) = {"value"} /\ Passes("s_header_almost_done") < Passes(p.state)
      BY <1>3, <1>6, AtHeading DEF Passes
    <2>3. /\ Quiet(p) /\ At("s_header_almost_done", p.flags, p.length, p.phase)
          /\ Starts("s_header_almost_done") = {}
          /\ \A k \in Kinds : p.marks[k] # None => k = "value" /\ Follows(p.phase, "value") = p.phase
      BY <1>1, <1>3, <2>2, HeadingTo
    <2>4. AfterPass(done, p) /\ AfterPass(Reexecute(done), p)
      BY <1>4, <2>2, <2>3, DataMoved
    <2> QED BY <1>2, <1>6, <2>1, <2>4, ValueGoesOnPassed
  <1> QED BY <1>5, <1>6

LEMMA HeadersPassed ==
  ASSUME NEW p, Fresh(p), NEW b, NEW answer, p.state = "s_headers_almost_done"
  PROVE  AfterPass(HeadersStep(p, b, answer), p)
  <1> DEFINE upgrade == IF {"upgrade", "connection-upgrade"} \subseteq p.flags
                        THEN p.type = "request" \/ p.status = "101" ELSE p.method = "CONNECT"
             told == Notify(Go(p, "s_headers_done"), "headers_complete")
             skips == IF answer = 0 THEN p.flags ELSE p.flags \cup {"skip"}
             set == [told EXCEPT !.upgrade = upgrade \/ answer = 2, !.flags = skips]
             last == Reexecute(Notify(Go(p, "s_message_done"), "chunk_complete"))
  <1>1. /\ p.state \in Heading /\ Starts(p.state) = {}
        /\ "s_headers_done" \in InBody /\ "s_message_done" \in InBody
        /\ Passes("s_headers_done") < Passes(p.state) /\ Passes("s_message_done") < Passes(p.state)
        /\ Starts("s_headers_done") = {} /\ Starts("s_message_done") = {}
    BY AtHeading DEF Heading, InBody, Bodies, Passes, Starts, Url, UrlEnds, Before
  <1>2. /\ Quiet(p) /\ \A k \in Kinds : p.marks[k] = None
        /\ At(p.state, p.flags, p.length, p.phase)
    BY <1>1, HeadLikeIs, HeadingTo
  <1>3. AfterPass(Error(p), p)
    BY Stays
  <1>4. {"headers_complete", "chunk_complete"} \subseteq Tellings
    BY DEF Tellings
  <1>5. CASE "trailing" \in p.flags
    <2>1. HeadersStep(p, b, answer) \in {Error(p), last}
      BY <1>5 DEF HeadersStep
    <2>2. Follows(p.phase, "chunk_complete") = "body"
      BY <1>1, <1>2, <1>5, AtHeading DEF Follows
    <2>3. At("s_message_done", p.flags, p.length, Follows(p.phase, "chunk_complete"))
      BY <1>1, <2>2, AtBody DEF Bodies
    <2> QED BY <1>1, <1>2, <1>3, <1>4, <2>1, <2>3, NotifyMoved
  <1>6. CASE "trailing" \notin p.flags
    <2>1. HeadersStep(p, b, answer) \in {Error(p), Reexecute(set)}
      BY <1>6 DEF HeadersStep, Expect
    <2>2. Follows(p.phase, "headers_complete") = "body"
      BY <1>1, <1>2, <1>6, AtHeading DEF Follows
    <2>3. At("s_headers_done", p.flags, p.length, Follows(p.phase, "headers_complete"))
      BY <1>1, <2>2, AtBody DEF Bodies
    <2>4. AfterPass(told, p)
      BY <1>1, <1>2, <1>4, <2>3, NotifyMoved
    <2>5. told.state = "s_headers_done" /\ told.flags = p.flags
      <3> DEFINE g == Go(p, "s_headers_done")
      <3>1. ParserTyped(g) /\ g.state = "s_headers_done" /\ g.flags = p.flags
        BY <1>2, GoIs DEF Quiet
      <3> HIDE DEF g
      <3>2. Notify(g, "headers_complete").state = g.state /\ Notify(g, "headers_complete").flags = g.flags
        BY <1>4, <3>1, NotifyIs
      <3> QED BY <3>1, <3>2 DEF g
    <2> HIDE DEF told
    <2>6. ParserTyped(told)
      BY <2>4 DEF AfterPass, Sane, Loose
    <2>7. But(set, told, {"upgrade", "flags"}) /\ set.flags = skips
      BY <2>6 DEF ParserTyped, Shaped, But, Names
    <2>8. skips \subseteq AllFlags
      BY <1>2 DEF Quiet, ParserTyped, AllFlags
    <2> HIDE DEF set, skips
    <2>9. set.length = told.length /\ set.type = told.type /\ set.state = told.state
      BY <2>7, ButIs
    <2>10. At(told.state, set.flags, set.length, told.phase)
      BY <1>1, <2>4, <2>5, AtBody DEF AfterPass, Sane, Loose, Bodies
    <2>11. {"upgrade", "flags"} \in SUBSET (Idle \cup {"flags", "length", "type"})
      BY DEF Idle
    <2>12. AfterPass(set, p)
      BY <2>4, <2>6, <2>7, <2>8, <2>9, <2>10, <2>11, EditPassed DEF ParserTyped
    <2>13. AfterPass(Reexecute(set), p)
      BY <1>1, <2>5, <2>9, <2>12, AgainPassed
    <2> QED BY <1>3, <2>1, <2>13
  <1> QED BY <1>5, <1>6

\* A message is complete: another one may begin, or none.
LEMMA CompletePassed ==
  ASSUME NEW p, NEW n, Quiet(n), n.phase = "body", \A k \in Kinds : n.marks[k] = None
  PROVE  AfterPass(Complete(n), p)
  <1> DEFINE s == IF ~KeepsAlive(n) THEN "s_dead" ELSE IF n.type = "request" THEN "s_start_req" ELSE "s_start_res"
  <1>1. Complete(n) = Notify(Go(n, s), "message_complete")
    BY DEF Complete, NewMessage
  <1>2. s \in Starting
    BY DEF Starting
  <1> HIDE DEF s
  <1>3. "message_complete" \in Tellings /\ Follows(n.phase, "message_complete") = "between"
    BY DEF Tellings, Follows
  <1>4. At(s, n.flags, n.length, Follows(n.phase, "message_complete")) /\ Starts(s) = {}
    BY <1>2, <1>3, AtStart
  <1> QED BY <1>1, <1>3, <1>4, NotifyMoved

LEMMA LeavesPassed ==
  ASSUME NEW p, NEW q, AfterPass(q, p)
  PROVE  AfterPass(Leaves(q), p)
  <1> DEFINE n == Leaves(q)
  <1>1. ParserTyped(q) /\ At(q.state, q.flags, q.length, q.phase)
    BY DEF AfterPass, Sane, Loose
  <1>2. But(n, q, {"over"})
    BY <1>1 DEF Leaves, ParserTyped, Shaped, But, Names
  <1> HIDE DEF n
  <1>3. {"over"} \in SUBSET (Idle \cup {"flags", "length", "type"})
    BY DEF Idle
  <1>4. n.flags = q.flags /\ n.length = q.length /\ n.type = q.type
    BY <1>2, ButIs
  <1> QED BY <1>1, <1>2, <1>3, <1>4, EditPassed DEF ParserTyped, n

\* Another length, or other flags, and nothing else.
LEMMA LengthIs ==
  ASSUME NEW p, ParserTyped(p), NEW q, But(q, p, {"length"}), q.length \in 0..Max64
  PROVE  /\ ParserTyped(q) /\ q.type = p.type /\ q.flags = p.flags /\ q.state = p.state
         /\ q.phase = p.phase /\ q.marks = p.marks /\ q.again = p.again /\ q.called = p.called
  <1>1. /\ Shaped(q) /\ q.type = p.type /\ q.errno = p.errno /\ q.flags = p.flags /\ q.state = p.state
        /\ q.marks = p.marks /\ q.told = p.told /\ q.phase = p.phase /\ q.again = p.again
        /\ q.called = p.called
    BY ButIs
  <1> QED BY <1>1 DEF ParserTyped

LEMMA FlagsAre ==
  ASSUME NEW p, ParserTyped(p), NEW q, But(q, p, {"flags"}), q.flags \subseteq AllFlags
  PROVE  /\ ParserTyped(q) /\ q.type = p.type /\ q.length = p.length /\ q.state = p.state
         /\ q.phase = p.phase /\ q.marks = p.marks /\ q.again = p.again /\ q.called = p.called
  <1>1. /\ Shaped(q) /\ q.type = p.type /\ q.errno = p.errno /\ q.length = p.length /\ q.state = p.state
        /\ q.marks = p.marks /\ q.told = p.told /\ q.phase = p.phase /\ q.again = p.again
        /\ q.called = p.called
    BY ButIs
  <1> QED BY <1>1 DEF ParserTyped

\* In a body, one byte less to come.
LEMMA CountedIs ==
  ASSUME NEW p, ParserTyped(p), p.length # 0
  PROVE  LET q == [Mark(p, "body") EXCEPT !.length = @ - 1] IN
         /\ ParserTyped(q) /\ q.length = p.length - 1 /\ q.length # Max64
         /\ q.state = p.state /\ q.flags = p.flags /\ q.phase = p.phase
         /\ q.again = p.again /\ q.called = p.called
         /\ \A k \in Kinds \ {"body"} : q.marks[k] = p.marks[k]
  <1> DEFINE m == Mark(p, "body")
             q == [m EXCEPT !.length = @ - 1]
  <1>1. "body" \in Kinds
    BY DEF Kinds
  <1>2. /\ ParserTyped(m) /\ m.length = p.length /\ m.state = p.state /\ m.flags = p.flags
        /\ m.phase = p.phase /\ m.again = p.again /\ m.called = p.called
        /\ \A k \in Kinds \ {"body"} : m.marks[k] = p.marks[k]
    BY <1>1, MarkIs
  <1> HIDE DEF m
  <1>3. But(q, m, {"length"}) /\ q.length = m.length - 1
    BY <1>2 DEF ParserTyped, Shaped, But, Names
  <1> HIDE DEF q
  <1>4. q.length \in 0..Max64 /\ q.length # Max64
    <2>1. p.length \in 0..Max64 /\ p.length # 0 /\ q.length = p.length - 1
      BY <1>2, <1>3 DEF ParserTyped
    <2> QED BY <2>1, ParserAssumption
  <1>5. /\ ParserTyped(q) /\ q.flags = m.flags /\ q.state = m.state /\ q.phase = m.phase
        /\ q.marks = m.marks /\ q.again = m.again /\ q.called = m.called
    BY <1>2, <1>3, <1>4, LengthIs
  <1> QED BY <1>2, <1>3, <1>4, <1>5 DEF q, m

LEMMA BodyPassed ==
  ASSUME NEW p, Fresh(p), NEW b, p.state \in Bodies
  PROVE  AfterPass(BodyStep(p, b), p)
  <1>1. AfterPass(p, p) /\ AfterPass(Error(p), p) /\ Quiet(p)
    BY Stays DEF Fresh, Sane, Loose, Quiet
  <1>2. p.state \in InBody /\ p.phase = "body" /\ \A s \in InBody : Starts(s) = {}
    BY AtBody DEF InBody, Fresh, Sane, Loose
  <1>3. \A k \in Kinds : p.marks[k] # None => k \in Marked(p.state)
    BY DEF Fresh, Sane, Loose
  <1>4. "body" \in Kinds /\ Follows("body", "body") = "body"
    BY DEF Kinds, Follows
  <1>5. CASE p.state \in {"s_headers_done", "s_message_done"}
    <2>1. \A k \in Kinds : p.marks[k] = None
      BY <1>2, <1>3, <1>5, AtBody
    <2>2. AfterPass(Complete(p), p)
      BY <1>1, <1>2, <2>1, CompletePassed
    <2>3. AfterPass(Leaves(Complete(p)), p)
      BY <2>2, LeavesPassed
    <2>4. \/ BodyStep(p, b) \in {Error(p), Complete(p), Leaves(Complete(p))}
          \/ BodyStep(p, b) \in {Go(p, "s_chunk_size_start")} /\ "chunked" \in p.flags
          \/ BodyStep(p, b) = Go(p, "s_body_identity") /\ p.length \notin {0, Max64}
          \/ BodyStep(p, b) = Go(p, "s_body_identity_eof")
      <3>1. CASE p.state = "s_message_done"
        BY <3>1 DEF BodyStep
      <3>2. CASE p.state = "s_headers_done"
        <4>1. BodyStep(p, b) = HeadersDone(p, b)
          BY <3>2 DEF BodyStep
        <4> QED BY <4>1 DEF HeadersDone
      <3> QED BY <1>5, <3>1, <3>2
    <2>5. \A s \in {"s_chunk_size_start", "s_body_identity", "s_body_identity_eof"} : s \in InBody
      BY DEF InBody, Bodies
    <2>6. CASE BodyStep(p, b) = Go(p, "s_chunk_size_start") /\ "chunked" \in p.flags
      <3>1. At("s_chunk_size_start", p.flags, p.length, p.phase)
        BY <1>2, <2>5, <2>6, AtBody
      <3> QED BY <1>1, <1>2, <2>1, <2>5, <2>6, <3>1, Moved
    <2>7. CASE BodyStep(p, b) = Go(p, "s_body_identity") /\ p.length \notin {0, Max64}
      <3>1. At("s_body_identity", p.flags, p.length, p.phase)
        BY <1>2, <2>5, <2>7, AtBody DEF Bodies
      <3> QED BY <1>1, <1>2, <2>1, <2>5, <2>7, <3>1, Moved
    <2>8. CASE BodyStep(p, b) = Go(p, "s_body_identity_eof")
      <3>1. At("s_body_identity_eof", p.flags, p.length, p.phase)
        BY <1>2, <2>5, AtBody DEF Bodies
      <3> QED BY <1>1, <1>2, <2>1, <2>5, <2>8, <3>1, Moved
    <2> QED BY <1>1, <2>2, <2>3, <2>4, <2>6, <2>7, <2>8
  <1>6. CASE p.state = "s_body_identity_eof"
    <2> DEFINE m == Mark(p, "body")
    <2>1. BodyStep(p, b) = m
      BY <1>6 DEF BodyStep
    <2>2. /\ ParserTyped(m) /\ m.state = p.state /\ m.flags = p.flags /\ m.length = p.length
          /\ m.phase = p.phase /\ m.again = FALSE /\ m.called = FALSE
          /\ \A k \in Kinds \ {"body"} : m.marks[k] = p.marks[k]
      BY <1>1, <1>4, MarkIs DEF Quiet
    <2> HIDE DEF m
    <2>3. Marked(p.state) = {"body"}
      BY <1>2, <1>6, AtBody
    <2>4. Sane(m)
      BY <1>2, <1>3, <2>2, <2>3 DEF Fresh, Sane, Loose
    <2> QED BY <2>1, <2>2, <2>4 DEF AfterPass
  <1>7. CASE p.state = "s_body_identity"
    <2> DEFINE q == [Mark(p, "body") EXCEPT !.length = @ - 1]
               done == Reexecute(Data(Go(q, "s_message_done"), "body", 1))
    <2>1. BodyStep(p, b) = IF q.length = 0 THEN done ELSE q
      BY <1>7 DEF BodyStep
    <2>2. p.length \notin {0, Max64} /\ Marked(p.state) = {"body"}
      BY <1>2, <1>7, AtBody DEF Fresh, Sane, Loose
    <2>3. /\ ParserTyped(q) /\ q.length = p.length - 1 /\ q.length # Max64
          /\ q.state = p.state /\ q.flags = p.flags /\ q.phase = p.phase
          /\ q.again = p.again /\ q.called = p.called
          /\ \A k \in Kinds \ {"body"} : q.marks[k] = p.marks[k]
      BY <1>1, <2>2, CountedIs DEF Quiet
    <2> HIDE DEF q
    <2>4. Quiet(q) /\ \A k \in Kinds : q.marks[k] # None => k = "body"
      BY <1>1, <1>3, <2>2, <2>3 DEF Quiet
    <2>5. CASE q.length = 0
      <3>1. At("s_message_done", q.flags, q.length, q.phase) /\ Starts("s_message_done") = {}
        BY <1>2, <2>3, AtBody DEF InBody, Bodies
      <3>2. Passes("s_message_done") < Passes(p.state)
        BY <1>7 DEF Passes
      <3>3. AfterPass(done, p)
        BY <1>2, <1>4, <2>3, <2>4, <3>1, <3>2, DataMoved
      <3> QED BY <2>1, <2>5, <3>3
    <2>6. CASE q.length # 0
      <3>1. At(q.state, q.flags, q.length, q.phase)
        <4>1. /\ q.state = "s_body_identity" /\ q.state \in InBody \cap Bodies /\ q.phase = "body"
              /\ q.length \notin {0, Max64}
          BY <1>2, <1>7, <2>3, <2>6 DEF Bodies
        <4> HIDE DEF done
        <4> QED BY <4>1, AtBody
      <3>2. Sane(q)
        BY <1>2, <2>2, <2>3, <2>4, <3>1 DEF Sane, Loose
      <3> QED BY <2>1, <2>4, <2>6, <3>2 DEF Quiet, AfterPass
    <2> QED BY <2>5, <2>6
  <1> QED BY <1>5, <1>6, <1>7 DEF Bodies

LEMMA ChunkPassed ==
  ASSUME NEW p, Fresh(p), NEW b, p.state \in Chunks64
  PROVE  AfterPass(ChunkStep(p, b), p)
  <1>1. AfterPass(p, p) /\ AfterPass(Error(p), p) /\ Quiet(p) /\ ParserTyped(p)
    BY Stays DEF Fresh, Sane, Loose, Quiet
  <1>2. "chunked" \in p.flags
    BY DEF Fresh, Sane, Loose, At
  <1>3. \A k \in Kinds : p.marks[k] # None => k \in Marked(p.state)
    BY DEF Fresh, Sane, Loose
  <1>4. "body" \in Kinds /\ Follows("chunk", "body") = "chunk"
    BY DEF Kinds, Follows
  <1>5. "chunk_header" \in Tellings /\ "chunk_complete" \in Tellings
    BY DEF Tellings
  <1>6. /\ p.state \in {"s_chunk_size_start", "s_chunk_size", "s_chunk_parameters",
                        "s_chunk_size_almost_done"} =>
             /\ p.state \in InBody \ Bodies /\ p.phase = "body"
             /\ (p.state # "s_chunk_size_start" => p.length # Max64)
             /\ \A k \in Kinds : p.marks[k] = None
        /\ p.state \in InChunk => p.phase = "chunk"
    <2>1. p.state \in {"s_chunk_size_start", "s_chunk_size", "s_chunk_parameters",
                       "s_chunk_size_almost_done"} => p.state \in InBody \ Bodies
      BY DEF InBody, Bodies
    <2>2. p.state \in InBody \ Bodies =>
             /\ p.phase = "body"
             /\ (p.state # "s_chunk_size_start" => p.length # Max64)
             /\ \A k \in Kinds : p.marks[k] = None
      BY <1>3, AtBody DEF Fresh, Sane, Loose, Bodies
    <2>3. p.state \in InChunk => p.phase = "chunk"
      BY AtChunk DEF Fresh, Sane, Loose
    <2> QED BY <2>1, <2>2, <2>3
  <1>7. {"s_chunk_size_start", "s_chunk_size", "s_chunk_parameters", "s_chunk_size_almost_done"}
          \subseteq InBody \ Bodies
    BY DEF InBody, Bodies
  <1>16. \A s \in InBody \cup InChunk : Starts(s) = {}
    BY AtBody, AtChunk
  <1>8. {"s_chunk_data", "s_chunk_data_almost_done", "s_chunk_data_done"} \subseteq InChunk
    BY DEF InChunk
  <1>9. CASE p.state = "s_chunk_size_start"
    <2> DEFINE n == [p EXCEPT !.length = Digit(b, Hex)]
    <2>1. \/ ChunkStep(p, b) = Error(p)
          \/ b \in Digital /\ ChunkStep(p, b) = Go(n, "s_chunk_size")
      BY <1>9 DEF ChunkStep, Expect
    <2>2. CASE ChunkStep(p, b) = Error(p)
      BY <1>1, <1>6, <1>7, <1>9, <1>16, <2>2, Moved
    <2>3. CASE b \in Digital /\ ChunkStep(p, b) = Go(n, "s_chunk_size")
      <3>1. But(n, p, {"length"}) /\ n.length = Digit(b, Hex)
        BY <1>1 DEF ParserTyped, Shaped, But, Names
      <3> HIDE DEF n
      <3>2. n.length \in 0..Max64 /\ n.length # Max64
        BY <2>3, <3>1, DigitIs, ParserAssumption
      <3>3. /\ Quiet(n) /\ n.flags = p.flags /\ n.phase = p.phase /\ n.marks = p.marks
        BY <1>1, <3>1, <3>2, LengthIs DEF Quiet
      <3>4. At("s_chunk_size", n.flags, n.length, n.phase)
        BY <1>2, <1>6, <1>7, <1>9, <3>2, <3>3, AtBody
      <3> QED BY <1>1, <1>6, <1>7, <1>9, <1>16, <2>3, <3>3, <3>4, Moved
    <2> QED BY <2>1, <2>2, <2>3
  <1>10. CASE p.state = "s_chunk_size"
    <2>1. \/ ChunkStep(p, b) \in {Error(p), Go(p, "s_chunk_size_almost_done"), Go(p, "s_chunk_parameters")}
          \/ b \in Digital /\ ChunkStep(p, b) = Number(p, b, Hex)
      BY <1>10 DEF ChunkStep, Expect
    <2>2. /\ At("s_chunk_size_almost_done", p.flags, p.length, p.phase)
          /\ At("s_chunk_parameters", p.flags, p.length, p.phase)
          /\ \A l \in 0..Max64 \ {Max64} : At(p.state, p.flags, l, p.phase)
      BY <1>2, <1>6, <1>7, <1>10, AtBody
    <2> QED BY <1>1, <1>6, <1>7, <1>10, <1>16, <2>1, <2>2, Moved, NumberPassed
  <1>11. CASE p.state = "s_chunk_parameters"
    <2>1. ChunkStep(p, b) \in {p, Go(p, "s_chunk_size_almost_done")}
      BY <1>11 DEF ChunkStep
    <2>2. At("s_chunk_size_almost_done", p.flags, p.length, p.phase)
      BY <1>2, <1>6, <1>7, <1>11, AtBody
    <2> QED BY <1>1, <1>6, <1>7, <1>11, <1>16, <2>1, <2>2, Moved
  <1>12. CASE p.state = "s_chunk_size_almost_done"
    <2> DEFINE t == [p EXCEPT !.flags = @ \cup {"trailing"}]
    <2>1. \/ ChunkStep(p, b) = Error(p)
          \/ ChunkStep(p, b) = Notify(Go(t, "s_header_field_start"), "chunk_header")
          \/ ChunkStep(p, b) = Notify(Go(p, "s_chunk_data"), "chunk_header") /\ p.length # 0
      BY <1>12 DEF ChunkStep, Expect
    <2>2. p.phase = "body" /\ Follows("body", "chunk_header") = "chunk"
      BY <1>6, <1>12 DEF Follows
    <2>3. p.length # 0 => At("s_chunk_data", p.flags, p.length, Follows(p.phase, "chunk_header"))
      BY <1>2, <1>6, <1>8, <1>12, <2>2, AtChunk
    <2>4. But(t, p, {"flags"}) /\ t.flags = p.flags \cup {"trailing"}
      BY <1>1 DEF ParserTyped, Shaped, But, Names
    <2> HIDE DEF t
    <2>6. t.flags \subseteq AllFlags
      BY <1>1, <2>4 DEF ParserTyped, AllFlags
    <2>7. Quiet(t) /\ t.phase = p.phase /\ t.marks = p.marks
      BY <1>1, <2>4, <2>6, FlagsAre DEF Quiet
    <2>8. "s_header_field_start" \in Heading
      BY DEF Heading, Fields
    <2>9. At("s_header_field_start", t.flags, t.length, Follows(t.phase, "chunk_header"))
      BY <2>2, <2>4, <2>7, <2>8, AtHeading
    <2>10. Starts("s_header_field_start") = {} /\ Starts("s_chunk_data") = {}
      BY <1>8, <2>8, AtHeading, AtChunk
    <2>11. AfterPass(Notify(Go(t, "s_header_field_start"), "chunk_header"), p)
      BY <1>5, <1>6, <1>12, <2>7, <2>9, <2>10, NotifyMoved
    <2>12. p.length # 0 => AfterPass(Notify(Go(p, "s_chunk_data"), "chunk_header"), p)
      BY <1>1, <1>5, <1>6, <1>12, <2>3, <2>10, NotifyMoved
    <2> QED BY <1>1, <2>1, <2>11, <2>12
  <1>13. CASE p.state = "s_chunk_data"
    <2> DEFINE q == [Mark(p, "body") EXCEPT !.length = @ - 1]
    <2>1. ChunkStep(p, b) = IF q.length = 0 THEN Go(q, "s_chunk_data_almost_done") ELSE q
      BY <1>13 DEF ChunkStep
    <2>2. p.length \notin {0, Max64} /\ Marked(p.state) = {"body"}
      BY <1>8, <1>13, AtChunk DEF Fresh, Sane, Loose
    <2>3. /\ ParserTyped(q) /\ q.length = p.length - 1 /\ q.length # Max64
          /\ q.state = p.state /\ q.flags = p.flags /\ q.phase = p.phase
          /\ q.again = p.again /\ q.called = p.called
          /\ \A k \in Kinds \ {"body"} : q.marks[k] = p.marks[k]
      BY <1>1, <2>2, CountedIs
    <2> HIDE DEF q
    <2>4. Quiet(q) /\ \A k \in Kinds : q.marks[k] # None => k = "body"
      BY <1>1, <1>3, <2>2, <2>3 DEF Quiet
    <2>5. CASE q.length = 0
      <3>1. At("s_chunk_data_almost_done", q.flags, q.length, q.phase)
        BY <1>2, <1>6, <1>8, <1>13, <2>3, <2>5, AtChunk
      <3>2. Marked("s_chunk_data_almost_done") = {"body"}
        BY <1>8, AtChunk
      <3> QED BY <1>8, <1>16, <2>1, <2>4, <2>5, <3>1, <3>2, Moved
    <2>6. CASE q.length # 0
      <3>1. At(q.state, q.flags, q.length, q.phase)
        <4>1. /\ q.state = "s_chunk_data" /\ q.state \in InChunk /\ q.phase = "chunk"
              /\ "chunked" \in q.flags /\ q.length \notin {0, Max64}
          BY <1>2, <1>6, <1>8, <1>13, <2>3, <2>6
        <4> QED BY <4>1, AtChunk
      <3>2. Sane(q)
        BY <1>8, <1>13, <1>16, <2>2, <2>3, <2>4, <3>1 DEF Sane, Loose
      <3> QED BY <2>1, <2>4, <2>6, <3>2 DEF Quiet, AfterPass
    <2> QED BY <2>5, <2>6
  <1>14. CASE p.state = "s_chunk_data_almost_done"
    <2>1. ChunkStep(p, b) \in {Error(p), Data(Go(p, "s_chunk_data_done"), "body", 0)}
      BY <1>14 DEF ChunkStep, Expect
    <2>2. /\ Marked(p.state) = {"body"} /\ Starts("s_chunk_data_done") = {}
          /\ At("s_chunk_data_done", p.flags, p.length, p.phase)
      BY <1>2, <1>6, <1>8, <1>14, AtChunk
    <2>3. \A k \in Kinds : p.marks[k] # None => k = "body" /\ Follows(p.phase, "body") = p.phase
      BY <1>3, <1>4, <1>6, <1>8, <1>14, <2>2
    <2> QED BY <1>1, <1>4, <2>1, <2>2, <2>3, DataMoved
  <1>15. CASE p.state = "s_chunk_data_done"
    <2>1. ChunkStep(p, b) \in {Error(p), Notify(Go(p, "s_chunk_size_start"), "chunk_complete")}
      BY <1>15 DEF ChunkStep, Expect
    <2>2. Marked(p.state) = {} /\ p.phase = "chunk" /\ Follows("chunk", "chunk_complete") = "body"
      BY <1>6, <1>8, <1>15, AtChunk DEF Follows
    <2>3. /\ At("s_chunk_size_start", p.flags, p.length, Follows(p.phase, "chunk_complete"))
          /\ Starts("s_chunk_size_start") = {}
      BY <1>2, <1>7, <2>2, AtBody
    <2>4. \A k \in Kinds : p.marks[k] = None
      BY <1>3, <2>2
    <2> QED BY <1>1, <1>5, <2>1, <2>3, <2>4, NotifyMoved
  <1> QED BY <1>9, <1>10, <1>11, <1>12, <1>13, <1>14, <1>15 DEF Chunks64

-----------------------------------------------------------------------------
(***************************************************************************)
(* A byte, the end of a chunk, the end of the stream                       *)
(***************************************************************************)

LEMMA SwitchPassed ==
  ASSUME NEW p, Fresh(p), NEW b, NEW answer
  PROVE  AfterPass(Switch(p, b, answer), p)
  <1>1. p.state \in States
    BY DEF Fresh, Sane, Loose, At
  <1>2. CASE p.state \in Starting
    BY <1>2, StartPassed DEF Switch, Starting, Responding, Fields, Values, Bodies, Chunks64
  <1>3. CASE p.state \in Responding
    <2>1. Switch(p, b, answer) = ResponseStep(p, b)
      BY <1>3 DEF Switch, Starting, Responding, Fields, Values, Bodies, Chunks64
    <2> QED BY <1>3, <2>1, ResponsePassed
  <1>4. CASE p.state \in Requesting
    <2>1. Switch(p, b, answer) = RequestStep(p, b)
      BY <1>4 DEF Switch, Starting, Responding, Requesting, Url, UrlEnds, Before, Fields, Values, Bodies, Chunks64
    <2> QED BY <1>4, <2>1, RequestPassed
  <1>5. CASE p.state \in Fields
    <2>1. Switch(p, b, answer) = FieldStep(p, b)
      BY <1>5 DEF Switch, Starting, Responding, Fields, Values, Bodies, Chunks64
    <2> QED BY <1>5, <2>1, FieldPassed
  <1>6. CASE p.state \in Values
    <2>1. Switch(p, b, answer) = ValueStep(p, b)
      BY <1>6 DEF Switch, Starting, Responding, Fields, Values, Bodies, Chunks64
    <2> QED BY <1>6, <2>1, ValuePassed
  <1>7. CASE p.state = "s_headers_almost_done"
    <2>1. Switch(p, b, answer) = HeadersStep(p, b, answer)
      BY <1>7 DEF Switch, Starting, Responding, Fields, Values, Bodies, Chunks64
    <2> QED BY <1>7, <2>1, HeadersPassed
  <1>8. CASE p.state \in Bodies
    <2>1. Switch(p, b, answer) = BodyStep(p, b)
      BY <1>8 DEF Switch, Starting, Responding, Fields, Values, Bodies, Chunks64
    <2> QED BY <1>8, <2>1, BodyPassed
  <1>9. CASE p.state \in Chunks64
    <2>1. Switch(p, b, answer) = ChunkStep(p, b)
      BY <1>9 DEF Switch, Starting, Responding, Fields, Values, Bodies, Chunks64
    <2> QED BY <1>9, <2>1, ChunkPassed
  <1> QED BY <1>1, <1>2, <1>3, <1>4, <1>5, <1>6, <1>7, <1>8, <1>9
      DEF States, Heading, InBody, InChunk, Chunks64

\* An execute() that starts anew keeps the marks that are asked for.
LEMMA RestartSane ==
  ASSUME NEW p, Loose(p)
  PROVE  /\ Sane(Restart(p)) /\ Restart(p).again = p.again /\ Restart(p).called = p.called
         /\ Restart(p).state = p.state
         /\ \A k \in Kinds : Restart(p).marks[k] = IF k \in Starts(p.state) THEN 0 ELSE None
  <1> DEFINE q == Restart(p)
             m == [k \in Kinds |-> IF k \in Starts(p.state) THEN 0 ELSE None]
  <1>1. But(q, p, {"marks"}) /\ q.marks = m
    BY DEF Sane, Loose, ParserTyped, Shaped, But, Restart, Names
  <1> HIDE DEF q
  <1>2. /\ Shaped(q) /\ q.type = p.type /\ q.errno = p.errno /\ q.flags = p.flags
        /\ q.length = p.length /\ q.state = p.state /\ q.told = p.told /\ q.phase = p.phase
        /\ q.again = p.again /\ q.called = p.called
    BY <1>1, ButIs
  <1>3. q.marks \in [Kinds -> {None} \cup Nat]
    BY <1>1
  <1>4. ParserTyped(q)
    BY <1>2, <1>3 DEF Sane, Loose, ParserTyped
  <1>5. \A k \in Kinds : q.marks[k] # None => k \in Marked(q.state)
    BY <1>1, <1>2 DEF Marked
  <1>6. \A k \in Starts(q.state) : q.marks[k] # None
    <2>1. Starts(p.state) \subseteq Kinds
      BY DEF Starts, Kinds
    <2> QED BY <1>1, <1>2, <2>1 DEF None
  <1> QED BY <1>1, <1>2, <1>4, <1>5, <1>6 DEF Sane, Loose, q

\* A callback that fails, or pauses the parser.
LEMMA RepliedPassed ==
  ASSUME NEW p, NEW q, AfterPass(q, p), NEW how
  PROVE  AfterPass(Replied(q, how), p)
  <1> DEFINE e == [q EXCEPT !.errno = "callback", !.again = FALSE]
  <1>1. Sane(q) /\ Loose(q)
    BY DEF AfterPass, Sane
  <1>2. CASE q.called /\ how = "fail"
    <2>1. Replied(q, how) = e
      BY <1>2 DEF Replied
    <2>2. But(e, q, {"errno", "again"}) /\ e.errno = "callback" /\ e.again = FALSE
      BY <1>1 DEF Sane, Loose, ParserTyped, Shaped, But, Names
    <2> HIDE DEF e
    <2>3. /\ Shaped(e) /\ e.type = q.type /\ e.flags = q.flags
          /\ e.length = q.length /\ e.state = q.state /\ e.marks = q.marks /\ e.told = q.told
          /\ e.phase = q.phase /\ e.called = q.called
      BY <2>2, ButIs
    <2>4. ParserTyped(e)
      BY <1>1, <2>2, <2>3 DEF Sane, Loose, ParserTyped
    <2>5. Sane(e)
      BY <1>1, <2>3, <2>4 DEF Sane, Loose
    <2> QED BY <2>1, <2>2, <2>3, <2>5 DEF AfterPass
  <1>3. CASE q.called /\ how = "pause"
    <2> DEFINE r == Restart(q)
    <2>1. Replied(q, how) = r
      BY <1>3 DEF Replied
    <2>2. /\ Sane(r) /\ r.again = q.again /\ r.called = q.called /\ r.state = q.state
          /\ \A k \in Kinds : r.marks[k] = IF k \in Starts(q.state) THEN 0 ELSE None
      BY <1>1, RestartSane
    <2> HIDE DEF r
    <2>3. Starts(q.state) = {}
      BY <1>3 DEF AfterPass
    <2> QED BY <2>1, <2>2, <2>3 DEF AfterPass
  <1>4. CASE ~(q.called /\ how = "fail") /\ ~(q.called /\ how = "pause")
    BY <1>4 DEF Replied
  <1> QED BY <1>2, <1>3, <1>4

LEMMA PassPassed ==
  ASSUME NEW p, Sane(p), NEW b, NEW answer, NEW how
  PROVE  AfterPass(Pass(p, b, answer, how), p)
  <1> DEFINE c == [p EXCEPT !.again = FALSE, !.called = FALSE]
             q == Switch(c, b, answer)
  <1>1. But(c, p, {"again", "called"}) /\ c.again = FALSE /\ c.called = FALSE
    BY DEF Sane, Loose, ParserTyped, Shaped, But, Names
  <1> HIDE DEF c
  <1>2. /\ Shaped(c) /\ c.type = p.type /\ c.errno = p.errno /\ c.flags = p.flags
        /\ c.length = p.length /\ c.state = p.state /\ c.marks = p.marks /\ c.told = p.told
        /\ c.phase = p.phase
    BY <1>1, ButIs
  <1>3. ParserTyped(c)
    BY <1>1, <1>2 DEF Sane, Loose, ParserTyped
  <1>4. Fresh(c)
    BY <1>1, <1>2, <1>3 DEF Sane, Loose, Fresh
  <1>5. AfterPass(q, c)
    BY <1>4, SwitchPassed
  <1> HIDE DEF q
  <1>6. AfterPass(q, p)
    BY <1>2, <1>5 DEF AfterPass
  <1> QED BY <1>6, RepliedPassed DEF Pass, q, c

\* What a pass leaves, fewer than n more of them to come.
MoreToCome(q, n) ==
  /\ Sane(q) /\ (q.again => Passes(q.state) < n)
  /\ (q.called => Starts(q.state) = {} /\ \A k \in Kinds : q.marks[k] = None)

\* Four passes are enough.
LEMMA ExecutedSane ==
  ASSUME NEW p, Sane(p), NEW b, NEW answer, NEW how
  PROVE  LET q == Executed(p, b, answer, how) IN
         /\ Sane(q) /\ q.again = FALSE
         /\ q.called => Starts(q.state) = {} /\ \A k \in Kinds : q.marks[k] = None
  <1> DEFINE more(q) == IF q.again THEN Pass(q, b, answer, how) ELSE q
             first == Pass(p, b, answer, how)
             second == more(first)
             third == more(second)
  <1>1. \A s : Passes(s) \in 0..3
    BY DEF Passes
  <1>2. ASSUME NEW q, NEW n \in Nat, MoreToCome(q, n + 1)
        PROVE  MoreToCome(more(q), n)
    <2>1. Sane(q) /\ (q.again => Passes(q.state) < n + 1)
      BY <1>2 DEF MoreToCome
    <2>2. CASE q.again
      <3> DEFINE r == Pass(q, b, answer, how)
      <3>1. AfterPass(r, q)
        BY <2>1, PassPassed
      <3>2. more(q) = r
        BY <2>2
      <3> HIDE DEF r, more
      <3>3. r.again => Passes(r.state) < n
        BY <1>1, <2>1, <2>2, <3>1 DEF AfterPass
      <3>4. MoreToCome(r, n)
        BY <3>1, <3>3 DEF AfterPass, MoreToCome
      <3> QED BY <3>2, <3>4
    <2>3. CASE ~q.again
      <3>1. more(q) = q
        BY <2>3
      <3>2. MoreToCome(q, n)
        BY <1>2, <2>3 DEF MoreToCome
      <3> HIDE DEF more
      <3> QED BY <3>1, <3>2
    <2> QED BY <2>2, <2>3
  <1>3. MoreToCome(first, 3)
    <2>1. AfterPass(first, p)
      BY PassPassed
    <2> HIDE DEF first
    <2>2. first.again => Passes(first.state) < 3
      BY <1>1, <2>1 DEF AfterPass
    <2> QED BY <2>1, <2>2 DEF AfterPass, MoreToCome
  <1> HIDE DEF more, first
  <1>4. MoreToCome(second, 2)
    BY <1>2, <1>3
  <1> HIDE DEF second
  <1>5. MoreToCome(third, 1)
    BY <1>2, <1>4 DEF third
  <1> HIDE DEF third
  <1>6. MoreToCome(more(third), 0)
    BY <1>2, <1>5
  <1>7. Executed(p, b, answer, how) = more(third)
    BY DEF Executed, more, first, second, third
  <1> DEFINE q == more(third)
  <1>8. /\ Sane(q) /\ (q.again => Passes(q.state) < 0)
        /\ (q.called => Starts(q.state) = {} /\ \A k \in Kinds : q.marks[k] = None)
    BY <1>6 DEF MoreToCome
  <1> HIDE DEF q
  <1>9. q.again = FALSE
    <2>1. ~q.again
      <3>1. Passes(q.state) \in 0..3
        BY <1>1
      <3>2. ~(Passes(q.state) < 0)
        BY <3>1
      <3> QED BY <1>8, <3>2
    <2>2. q.again \in BOOLEAN
      BY <1>8 DEF Sane, Loose, ParserTyped
    <2> QED BY <2>1, <2>2
  <1>10. q = Executed(p, b, answer, how)
    BY <1>7 DEF q
  <1> QED BY <1>8, <1>9, <1>10

\* What is marked may be told where it is marked.
LEMMA MarkedFollows ==
  ASSUME NEW s, NEW f, NEW l, NEW ph, At(s, f, l, ph), NEW k \in Marked(s)
  PROVE  Follows(ph, k) = ph
  <1>1. s \in States
    BY DEF At
  <1>2. CASE s \in Starting
    BY <1>2, AtStart
  <1>3. CASE s \in Responding \cup Requesting
    <2>1. ph = "head" /\ k \in {"url", "status"}
      BY <1>3, AtHead
    <2> QED BY <2>1 DEF Follows
  <1>4. CASE s \in Heading
    <2>1. ph \in {"head", "chunk"} /\ k \in {"field", "value"}
      BY <1>4, AtHeading
    <2> QED BY <2>1 DEF Follows
  <1>5. CASE s \in InBody
    <2>1. ph = "body" /\ k = "body"
      BY <1>5, AtBody
    <2> QED BY <2>1 DEF Follows
  <1>6. CASE s \in InChunk
    <2>1. ph = "chunk" /\ k = "body"
      BY <1>6, AtChunk
    <2> QED BY <2>1 DEF Follows
  <1> QED BY <1>1, <1>2, <1>3, <1>4, <1>5, <1>6 DEF States

LEMMA DataLoose ==
  ASSUME NEW p, Loose(p), NEW k \in Kinds, NEW more \in {0, 1}
  PROVE  /\ Loose(Data(p, k, more))
         /\ Data(p, k, more).state = p.state /\ Data(p, k, more).again = p.again
         /\ Data(p, k, more).marks[k] = None
         /\ \A j \in Kinds : p.marks[j] = None => Data(p, k, more).marks[j] = None
  <1> DEFINE q == Data(p, k, more)
  <1>1. ParserTyped(p) /\ At(p.state, p.flags, p.length, p.phase)
    BY DEF Loose
  <1>2. /\ ParserTyped(q) /\ q.state = p.state /\ q.flags = p.flags /\ q.length = p.length
        /\ q.again = p.again /\ q.marks[k] = None
        /\ \A j \in Kinds \ {k} : q.marks[j] = p.marks[j]
        /\ p.marks[k] = None => q = p
        /\ p.marks[k] # None => q.phase = Follows(p.phase, k)
    BY <1>1, DataIs
  <1>3. p.marks[k] # None => Follows(p.phase, k) = p.phase
    BY <1>1, MarkedFollows DEF Loose
  <1> HIDE DEF q
  <1>4. q.phase = p.phase
    BY <1>2, <1>3
  <1>5. Loose(q)
    BY <1>2, <1>4 DEF Loose
  <1> QED BY <1>2, <1>5 DEF q

\* The end of a chunk leaves no mark.
LEMMA FlushedLoose ==
  ASSUME NEW p, Loose(p), NEW more \in {0, 1}
  PROVE  /\ Loose(Flushed(p, more)) /\ Flushed(p, more).again = p.again
         /\ Flushed(p, more).state = p.state
         /\ \A k \in Kinds : Flushed(p, more).marks[k] = None
  <1> DEFINE a == Data(p, "field", more)
             b == Data(a, "value", more)
             c == Data(b, "url", more)
             d == Data(c, "body", more)
             e == Data(d, "status", more)
  <1>1. Kinds = {"field", "value", "url", "body", "status"}
    BY DEF Kinds
  <1>2. Loose(a) /\ a.again = p.again /\ a.state = p.state /\ a.marks["field"] = None
    BY <1>1, DataLoose
  <1> HIDE DEF a
  <1>3. Loose(b) /\ b.again = p.again /\ b.state = p.state /\ b.marks["field"] = None /\ b.marks["value"] = None
    BY <1>1, <1>2, DataLoose
  <1> HIDE DEF b
  <1>4. /\ Loose(c) /\ c.again = p.again /\ c.state = p.state
        /\ \A k \in {"field", "value", "url"} : c.marks[k] = None
    BY <1>1, <1>3, DataLoose
  <1> HIDE DEF c
  <1>5. /\ Loose(d) /\ d.again = p.again /\ d.state = p.state
        /\ \A k \in {"field", "value", "url", "body"} : d.marks[k] = None
    BY <1>1, <1>4, DataLoose
  <1> HIDE DEF d
  <1>6. /\ Loose(e) /\ e.again = p.again /\ e.state = p.state
        /\ \A k \in Kinds : e.marks[k] = None
    BY <1>1, <1>5, DataLoose
  <1> QED BY <1>6 DEF Flushed, a, b, c, d

LEMMA AdvancedSane ==
  ASSUME NEW p, Loose(p)
  PROVE  /\ Loose(Advanced(p)) /\ Advanced(p).again = p.again
         /\ Sane(p) => Sane(Advanced(p))
  <1> DEFINE q == Advanced(p)
             m == [k \in Kinds |-> IF p.marks[k] = None THEN None ELSE p.marks[k] + 1]
  <1>1. But(q, p, {"marks", "called"}) /\ q.marks = m /\ q.called = FALSE
    BY DEF Sane, Loose, ParserTyped, Shaped, But, Advanced, Names
  <1> HIDE DEF q
  <1>2. /\ Shaped(q) /\ q.type = p.type /\ q.errno = p.errno /\ q.flags = p.flags
        /\ q.length = p.length /\ q.state = p.state /\ q.told = p.told /\ q.phase = p.phase
        /\ q.again = p.again
    BY <1>1, ButIs
  <1>3. p.marks \in [Kinds -> {None} \cup Nat]
    BY DEF Sane, Loose, ParserTyped
  <1>4. q.marks \in [Kinds -> {None} \cup Nat] /\ \A k \in Kinds : q.marks[k] # None <=> p.marks[k] # None
    BY <1>1, <1>3 DEF None
  <1>5. ParserTyped(q)
    BY <1>1, <1>2, <1>4 DEF Sane, Loose, ParserTyped
  <1>6. Starts(q.state) \subseteq Kinds
    BY DEF Starts, Kinds
  <1> QED BY <1>2, <1>4, <1>5, <1>6 DEF Sane, Loose, q

LEMMA QuietSane ==
  ASSUME NEW p, Sane(p), NEW q, q = [p EXCEPT !.called = FALSE]
  PROVE  Sane(q) /\ q.again = p.again /\ q.state = p.state
  <1>1. But(q, p, {"called"}) /\ q.called = FALSE
    BY DEF Sane, Loose, ParserTyped, Shaped, But, Names
  <1>2. /\ Shaped(q) /\ q.type = p.type /\ q.errno = p.errno /\ q.flags = p.flags
        /\ q.length = p.length /\ q.state = p.state /\ q.marks = p.marks /\ q.told = p.told
        /\ q.phase = p.phase /\ q.again = p.again
    BY <1>1, ButIs
  <1> QED BY <1>1, <1>2 DEF Sane, Loose, ParserTyped

\* A callback at the end of a chunk, whatever it answers.
LEMMA RepliedLoose ==
  ASSUME NEW p, Loose(p), p.again = FALSE, NEW how
  PROVE  Loose(Replied(p, how)) /\ Replied(p, how).again = FALSE
  <1> DEFINE e == [p EXCEPT !.errno = "callback", !.again = FALSE]
  <1>1. But(e, p, {"errno", "again"}) /\ e.errno = "callback" /\ e.again = FALSE
    BY DEF Sane, Loose, ParserTyped, Shaped, But, Names
  <1> HIDE DEF e
  <1>2. /\ Shaped(e) /\ e.type = p.type /\ e.flags = p.flags
        /\ e.length = p.length /\ e.state = p.state /\ e.marks = p.marks /\ e.told = p.told
        /\ e.phase = p.phase /\ e.called = p.called
    BY <1>1, ButIs
  <1>3. Loose(e)
    BY <1>1, <1>2 DEF Sane, Loose, ParserTyped
  <1>4. Loose(Restart(p)) /\ Restart(p).again = FALSE
    BY RestartSane DEF Sane
  <1>5. Replied(p, how) \in {p, e, Restart(p)}
    BY DEF Replied, e
  <1> QED BY <1>1, <1>3, <1>4, <1>5

LEMMA EndedSane ==
  ASSUME NEW p, Sane(p), NEW b, NEW answer, NEW how
  PROVE  /\ Loose(Ended(p, b, answer, how)) /\ Ended(p, b, answer, how).again = FALSE
         /\ Ended(p, b, answer, how).errno = "HPE_OK" => Sane(Ended(p, b, answer, how))
  <1> DEFINE q == Executed(p, b, answer, how)
             c == [q EXCEPT !.called = FALSE]
             g == Flushed(c, 1)
             f == Replied(g, how)
  <1>1. Sane(q) /\ q.again = FALSE
    BY ExecutedSane
  <1>2. \/ Ended(p, b, answer, how) \in {q, Advanced(q), Restart(Advanced(q)), Restart(Advanced(f))}
        \/ Ended(p, b, answer, how) = f /\ f.errno # "HPE_OK"
    BY DEF Ended
  <1> HIDE DEF q
  <1>3. Sane(c) /\ c.again = FALSE
    BY <1>1, QuietSane
  <1> HIDE DEF c
  <1>4. Loose(g) /\ g.again = FALSE
    BY <1>3, FlushedLoose DEF Sane
  <1> HIDE DEF g
  <1>5. Loose(f) /\ f.again = FALSE
    BY <1>4, RepliedLoose
  <1> HIDE DEF f
  <1>6. Loose(q)
    BY <1>1 DEF Sane
  <1>7. \A x \in {q, f} : Loose(Advanced(x)) /\ Advanced(x).again = FALSE
    BY <1>1, <1>5, <1>6, AdvancedSane
  <1>8. \A x \in {q, f} : Sane(Restart(Advanced(x))) /\ Restart(Advanced(x)).again = FALSE
    BY <1>7, RestartSane
  <1>9. Sane(Advanced(q))
    BY <1>1, <1>6, AdvancedSane
  <1>10. \A x \in {q, Advanced(q), Restart(Advanced(q)), Restart(Advanced(f))} : Sane(x) /\ x.again = FALSE
    BY <1>1, <1>7, <1>8, <1>9
  <1> QED BY <1>2, <1>5, <1>10 DEF Sane

-----------------------------------------------------------------------------
(***************************************************************************)
(* The two parsers                                                         *)
(***************************************************************************)

\* What is left of a parser that is done.
DoneWith(p) ==
  \E e \in {"HPE_OK", "error", "callback"}, ph \in {"between", "head", "body", "chunk"} :
    p = [NewParser("both") EXCEPT !.errno = e, !.over = TRUE, !.phase = ph]

\* A parser between two bytes, all it told compared.
Settled(p) ==
  /\ p.told = <<>> /\ p.again = FALSE /\ p.called = FALSE
  /\ \A k \in Kinds : p.marks[k] <= MaxMark

ParserInv ==
  /\ Settled(cut) /\ Settled(whole)
  /\ Reads => Sane(cut) /\ Sane(whole)
  /\ ~Reads => DoneWith(cut) /\ DoneWith(whole)

LEMMA NewSane ==
  ASSUME NEW type \in {"both", "request", "response"}
  PROVE  /\ Shaped(NewParser(type)) /\ Sane(NewParser(type)) /\ Settled(NewParser(type))
         /\ NewParser(type).errno = "HPE_OK" /\ NewParser(type).over = FALSE
  <1> DEFINE p == NewParser(type)
  <1>1. /\ Shaped(p) /\ p.type = type /\ p.errno = "HPE_OK" /\ p.over = FALSE /\ p.flags = {}
        /\ p.length = 0 /\ p.marks = [k \in Kinds |-> None] /\ p.told = <<>> /\ p.phase = "between"
        /\ p.again = FALSE /\ p.called = FALSE
        /\ p.state = IF type = "both" THEN "s_start_req_or_res"
                     ELSE IF type = "request" THEN "s_start_req" ELSE "s_start_res"
    BY DEF NewParser, Shaped, Names
  <1> HIDE DEF p
  <1>2. p.state \in Starting
    BY <1>1 DEF Starting
  <1>3. ParserTyped(p)
    <2>1. p.told \in Seq(Spans)
      BY <1>1
    <2>2. p.marks \in [Kinds -> {None} \cup Nat]
      BY <1>1
    <2>3. p.type \in {"both", "request", "response"} /\ p.length \in 0..Max64 /\ p.flags \subseteq AllFlags
      BY <1>1, ParserAssumption
    <2> QED BY <1>1, <2>1, <2>2, <2>3 DEF ParserTyped
  <1>4. Sane(p)
    BY <1>1, <1>2, <1>3, AtStart DEF Sane, Loose
  <1>5. Settled(p)
    BY <1>1, ParserAssumption DEF Settled, None
  <1> QED BY <1>1, <1>4, <1>5 DEF p

LEMMA DoneIs ==
  ASSUME NEW p, DoneWith(p)
  PROVE  /\ Settled(p) /\ ParserTyped(p) /\ p.over = TRUE
         /\ p.state = "s_start_req_or_res" /\ p.phase # "broken"
  <1> DEFINE n == NewParser("both")
  <1>1. PICK e \in {"HPE_OK", "error", "callback"}, ph \in {"between", "head", "body", "chunk"} :
          p = [n EXCEPT !.errno = e, !.over = TRUE, !.phase = ph]
    BY DEF DoneWith
  <1>2. /\ Shaped(n) /\ Sane(n) /\ Settled(n) /\ n.state = "s_start_req_or_res"
    BY NewSane DEF NewParser
  <1> HIDE DEF n
  <1>3. But(p, n, {"errno", "over", "phase"}) /\ p.errno = e /\ p.over = TRUE /\ p.phase = ph
    BY <1>1, <1>2 DEF Shaped, But, Names
  <1>4. /\ Shaped(p) /\ p.type = n.type /\ p.flags = n.flags /\ p.length = n.length
        /\ p.state = n.state /\ p.marks = n.marks /\ p.told = n.told /\ p.again = n.again
        /\ p.called = n.called
    BY <1>3, ButIs
  <1>5. ParserTyped(p)
    BY <1>2, <1>3, <1>4 DEF Sane, Loose, ParserTyped
  <1>6. Settled(p)
    BY <1>2, <1>4 DEF Settled
  <1> QED BY <1>2, <1>3, <1>4, <1>5, <1>6

\* A message is somewhere.
LEMMA PhaseIs ==
  ASSUME NEW p, Loose(p)
  PROVE  p.phase \in {"between", "head", "body", "chunk"}
  BY DEF Sane, Loose, At, PhaseIn

LEMMA ComparedDone ==
  ASSUME NEW c, NEW w, Compared(c, w), ~(c.errno = "HPE_OK" /\ ~c.over),
         c.errno \in {"HPE_OK", "error", "callback"}, c.phase \in {"between", "head", "body", "chunk"}
  PROVE  ParserInv' /\ ~Reads'
  <1> DEFINE d == [NewParser("both") EXCEPT !.errno = c.errno, !.over = TRUE, !.phase = c.phase]
  <1>1. cut' = d /\ whole' = d
    BY DEF Compared
  <1>2. DoneWith(d)
    BY DEF DoneWith
  <1> HIDE DEF d
  <1>3. Settled(d) /\ d.over = TRUE
    BY <1>2, DoneIs
  <1>4. ~Reads'
    BY <1>1, <1>3 DEF Reads
  <1> QED BY <1>1, <1>2, <1>3, <1>4 DEF ParserInv

LEMMA ComparedKeeps ==
  ASSUME NEW c, NEW w, Loose(c), c.errno = "HPE_OK" => Sane(c), Sane(w), c.again = FALSE, w.again = FALSE, Compared(c, w),
         Reads' => \A k \in Kinds : cut'.marks[k] <= MaxMark
  PROVE  ParserInv'
  <1>1. CASE c.errno = "HPE_OK" /\ ~c.over
    <2> DEFINE m == [k \in Kinds |-> IF w.marks[k] = None THEN None
                                     ELSE IF c.marks[k] = None THEN 0 ELSE c.marks[k]]
               c2 == [c EXCEPT !.told = <<>>, !.called = FALSE]
               w2 == [w EXCEPT !.told = <<>>, !.called = FALSE, !.marks = m]
    <2>1. cut' = c2
      BY <1>1 DEF Compared
    <2>2. whole' = w2
      <3>1. whole' = [w EXCEPT !.told = <<>>, !.called = FALSE,
                          !.marks = [k \in Kinds |-> IF @[k] = None THEN None
                                     ELSE IF c.marks[k] = None THEN 0 ELSE c.marks[k]]]
        BY <1>1 DEF Compared
      <3> QED BY <3>1
    <2>0. Sane(c) /\ ParserTyped(c) /\ ParserTyped(w)
      BY <1>1 DEF Sane, Loose
    <2>3. But(c2, c, {"told", "called"}) /\ c2.told = <<>> /\ c2.called = FALSE
      BY <2>0 DEF ParserTyped, Shaped, But, Names
    <2>4. But(w2, w, {"told", "called", "marks"}) /\ w2.told = <<>> /\ w2.called = FALSE /\ w2.marks = m
      BY <2>0 DEF ParserTyped, Shaped, But, Names
    <2>5. c2.over = c.over
      BY <2>3 DEF But, Names
    <2> HIDE DEF c2, w2
    <2>6. /\ Shaped(c2) /\ c2.type = c.type /\ c2.errno = c.errno /\ c2.flags = c.flags
          /\ c2.length = c.length /\ c2.state = c.state /\ c2.marks = c.marks /\ c2.phase = c.phase
          /\ c2.again = c.again
      BY <2>3, ButIs
    <2>7. /\ Shaped(w2) /\ w2.type = w.type /\ w2.errno = w.errno /\ w2.flags = w.flags
          /\ w2.length = w.length /\ w2.state = w.state /\ w2.phase = w.phase
          /\ w2.again = w.again
      BY <2>4, ButIs
    <2>8. Reads'
      BY <1>1, <2>1, <2>5, <2>6 DEF Reads
    <2>9. Sane(c2)
      <3>1. c2.told \in Seq(Spans)
        BY <2>3
      <3>2. ParserTyped(c2)
        BY <2>0, <2>3, <2>6, <3>1 DEF ParserTyped
      <3> QED BY <2>0, <2>6, <3>2 DEF Sane, Loose
    <2>10. /\ c.marks \in [Kinds -> {None} \cup Nat] /\ w.marks \in [Kinds -> {None} \cup Nat]
      BY <2>0 DEF ParserTyped
    <2>11. m \in [Kinds -> {None} \cup Nat] /\ \A k \in Kinds : m[k] # None <=> w.marks[k] # None
      BY <2>10 DEF None
    <2>12. Sane(w2)
      <3>1. w2.told \in Seq(Spans)
        BY <2>4
      <3> HIDE DEF m
      <3>2. ParserTyped(w2)
        BY <2>0, <2>4, <2>7, <2>11, <3>1 DEF ParserTyped
      <3>3. Starts(w2.state) \subseteq Kinds
        BY DEF Starts, Kinds
      <3> QED BY <2>4, <2>7, <2>11, <3>2, <3>3 DEF Sane, Loose
    <2>13. \A k \in Kinds : c.marks[k] <= MaxMark
      BY <2>1, <2>6, <2>8
    <2>14. \A k \in Kinds : m[k] <= MaxMark
      BY <2>10, <2>13, ParserAssumption DEF None
    <2>15. Settled(c2) /\ Settled(w2)
      BY <2>3, <2>4, <2>6, <2>7, <2>13, <2>14 DEF Settled
    <2> HIDE DEF m
    <2> QED BY <2>1, <2>2, <2>8, <2>9, <2>12, <2>15 DEF ParserInv
  <1>2. CASE ~(c.errno = "HPE_OK" /\ ~c.over)
    <2>1. c.errno \in {"HPE_OK", "error", "callback"}
      BY DEF Loose, ParserTyped
    <2> QED BY <1>2, <2>1, PhaseIs, ComparedDone
  <1> QED BY <1>1, <1>2

\* The end of the stream: no parser reads on.
LEMMA AtEofSane ==
  ASSUME NEW p, Sane(p), p.again = FALSE
  PROVE  /\ AtEof(p).again = FALSE
         /\ AtEof(p).errno \in {"HPE_OK", "error", "callback"}
         /\ AtEof(p).phase \in {"between", "head", "body", "chunk"}
         /\ AtEof(p).errno = "HPE_OK" => AtEof(p).over = TRUE
  <1> DEFINE q == Flushed(p, 0)
             n == Notify(q, "message_complete")
             e == [n EXCEPT !.over = TRUE, !.called = FALSE]
             o == [q EXCEPT !.over = TRUE]
  <1>1. Loose(q) /\ q.again = FALSE /\ q.state = p.state
    BY FlushedLoose DEF Sane
  <1>2. AtEof(p) = IF p.state = "s_body_identity_eof" THEN e
                   ELSE IF p.state \in Starting THEN o ELSE Error(q)
    BY DEF AtEof, Starting
  <1> HIDE DEF q
  <1>3. ParserTyped(q) /\ q.phase \in {"between", "head", "body", "chunk"}
    BY <1>1, PhaseIs DEF Sane, Loose
  <1>4. CASE p.state = "s_body_identity_eof"
    <2>1. q.phase = "body"
      BY <1>1, <1>4, AtBody DEF Sane, Loose, InBody, Bodies
    <2>2. "message_complete" \in Tellings
      BY DEF Tellings
    <2>3. ParserTyped(n) /\ n.again = FALSE /\ n.phase = Follows(q.phase, "message_complete")
      BY <1>1, <1>3, <2>2, NotifyIs
    <2> HIDE DEF n
    <2>4. But(e, n, {"over", "called"}) /\ e.over = TRUE
      BY <2>3 DEF ParserTyped, Shaped, But, Names
    <2> HIDE DEF e
    <2>5. e.again = n.again /\ e.errno = n.errno /\ e.phase = n.phase
      BY <2>4, ButIs
    <2>6. e.phase = "between"
      BY <2>1, <2>3, <2>5 DEF Follows
    <2> QED BY <1>2, <1>4, <2>3, <2>4, <2>5, <2>6 DEF ParserTyped
  <1>5. CASE p.state \in Starting
    <2>1. p.state # "s_body_identity_eof"
      BY <1>5 DEF Starting
    <2>2. But(o, q, {"over"}) /\ o.over = TRUE
      BY <1>3 DEF ParserTyped, Shaped, But, Names
    <2> HIDE DEF o
    <2>3. o.again = q.again /\ o.errno = q.errno /\ o.phase = q.phase
      BY <2>2, ButIs
    <2> QED BY <1>1, <1>2, <1>3, <1>5, <2>1, <2>2, <2>3 DEF ParserTyped
  <1>6. CASE p.state # "s_body_identity_eof" /\ p.state \notin Starting
    <2>1. Error(q).errno = "error"
      BY <1>3 DEF Error, ParserTyped, Shaped, Names
    <2> QED BY <1>2, <1>3, <1>6, <2>1, ErrorIs
  <1> QED BY <1>4, <1>5, <1>6

LEMMA ParserInvStarts ==
  HttpParserInit => ParserInv
  <1> SUFFICES ASSUME HttpParserInit PROVE ParserInv
    OBVIOUS
  <1>1. PICK type \in Types : cut = NewParser(type) /\ whole = NewParser(type)
    BY DEF HttpParserInit
  <1>2. type \in {"both", "request", "response"}
    BY ParserAssumption
  <1> QED BY <1>1, <1>2, NewSane DEF ParserInv, Reads

\* What Execute compares.
ExecutedWhole(b, answer) ==
  LET w == Executed(whole, b, answer, "go") IN IF w.errno = "HPE_OK" THEN Advanced(w) ELSE w

LEMMA ParserInvKept ==
  ParserInv /\ [HttpParserNext]_parserVars => ParserInv'
  <1> SUFFICES ASSUME ParserInv, [HttpParserNext]_parserVars PROVE ParserInv'
    OBVIOUS
  <1>1. ASSUME NEW b, NEW answer, NEW how, Execute(b, answer, how)
        PROVE  ParserInv'
    <2> DEFINE c == Ended(cut, b, answer, how)
               w == ExecutedWhole(b, answer)
    <2>1. Sane(cut) /\ Sane(whole)
      BY <1>1 DEF ParserInv, Execute
    <2>2. Loose(c) /\ c.again = FALSE /\ (c.errno = "HPE_OK" => Sane(c))
      BY <2>1, EndedSane
    <2>3. Sane(w) /\ w.again = FALSE
      <3> DEFINE x == Executed(whole, b, answer, "go")
      <3>1. Sane(x) /\ x.again = FALSE
        BY <2>1, ExecutedSane
      <3>2. w \in {x, Advanced(x)}
        BY DEF ExecutedWhole
      <3> HIDE DEF x
      <3> QED BY <3>1, <3>2, AdvancedSane DEF Sane
    <2>4. Compared(c, w) /\ \A k \in Kinds : cut'.marks[k] <= MaxMark
      BY <1>1 DEF Execute, ExecutedWhole
    <2> HIDE DEF c, w
    <2> QED BY <2>2, <2>3, <2>4, ComparedKeeps
  <1>2. ASSUME HeaderOverflow
        PROVE  ParserInv'
    <2> DEFINE c == Error(cut)
    <2>1. Sane(cut) /\ Compared(c, Error(whole))
      BY <1>2 DEF ParserInv, HeaderOverflow
    <2>2. ParserTyped(cut) /\ cut.phase \in {"between", "head", "body", "chunk"}
      BY <2>1, PhaseIs DEF Sane, Loose
    <2>3. c.errno = "error" /\ c.phase = cut.phase
      BY <2>2 DEF Error, ParserTyped, Shaped, Names
    <2> HIDE DEF c
    <2> QED BY <2>1, <2>2, <2>3, ComparedDone
  <1>3. ASSUME Eof
        PROVE  ParserInv'
    <2> DEFINE c == AtEof(cut)
    <2>1. Sane(cut) /\ cut.again = FALSE /\ Compared(c, AtEof(whole))
      BY <1>3 DEF ParserInv, Eof, Settled
    <2>2. /\ c.errno \in {"HPE_OK", "error", "callback"} /\ c.phase \in {"between", "head", "body", "chunk"}
          /\ c.errno = "HPE_OK" => c.over = TRUE
      BY <2>1, AtEofSane
    <2> HIDE DEF c
    <2> QED BY <2>1, <2>2, ComparedDone
  <1>4. CASE UNCHANGED parserVars
    BY <1>4 DEF parserVars, ParserInv, Reads
  <1> QED BY <1>1, <1>2, <1>3, <1>4 DEF HttpParserNext

\* At most one thing is marked at a time.
LEMMA OneMarked ==
  ASSUME NEW s
  PROVE  \E k \in Kinds : Marked(s) \subseteq {k}
  BY DEF Marked, Starts, Kinds, Url, Before, UrlEnds

LEMMA SaneAsserts ==
  ASSUME NEW p, Sane(p)
  PROVE  /\ Cardinality({k \in Kinds : p.marks[k] # None}) <= 1
         /\ p.state \in Chunks64 => "chunked" \in p.flags
         /\ p.errno = "HPE_OK" /\ p.state \in {"s_body_identity", "s_chunk_data"} => p.length \notin {0, Max64}
         /\ p.state = "s_chunk_data_almost_done" => p.length = 0
         /\ p.phase # "broken"
  <1> DEFINE M == {k \in Kinds : p.marks[k] # None}
  <1>1. Cardinality(M) <= 1
    <2>1. PICK k \in Kinds : Marked(p.state) \subseteq {k}
      BY OneMarked
    <2>2. M = {} \/ M = {k}
      BY <2>1 DEF Sane, Loose
    <2> HIDE DEF M
    <2> QED BY <2>2, FS_EmptySet, FS_Singleton
  <1> QED BY <1>1, PhaseIs DEF Sane, Loose, At

LEMMA InvAsserts ==
  ParserInv => ParserAsserts /\ HttpParserTypeOK
  <1> SUFFICES ASSUME ParserInv PROVE ParserAsserts /\ HttpParserTypeOK
    OBVIOUS
  <1>1. ASSUME NEW p, Settled(p), Sane(p) \/ DoneWith(p)
        PROVE  ParserTyped(p) /\ Settled(p)
    BY <1>1, DoneIs DEF Sane, Loose
  <1>2. ASSUME NEW p, ParserTyped(p), Settled(p)
        PROVE  /\ p.type \in {"both", "request", "response"} /\ p.errno \in {"HPE_OK", "error", "callback"}
               /\ p.flags \subseteq {"chunked", "keep-alive", "close", "connection-upgrade", "trailing",
                                     "upgrade", "skip", "content-length"}
               /\ p.length \in 0..Max64 /\ p.marks \in [Kinds -> None..(MaxMark + 1)]
               /\ ~p.again /\ ~p.called /\ p.told = <<>>
    <2>1. p.marks \in [Kinds -> None..(MaxMark + 1)]
      BY <1>2, ParserAssumption DEF ParserTyped, Settled, None
    <2> QED BY <1>2, <2>1 DEF ParserTyped, Settled, AllFlags
  <1>3. HttpParserTypeOK
    BY <1>1, <1>2 DEF ParserInv, HttpParserTypeOK
  <1>4. ASSUME NEW p, DoneWith(p)
        PROVE  /\ Cardinality({k \in Kinds : p.marks[k] # None}) <= 1
               /\ p.state \in Chunks64 => "chunked" \in p.flags
               /\ p.errno = "HPE_OK" /\ p.state \in {"s_body_identity", "s_chunk_data"} => p.length \notin {0, Max64}
               /\ p.state = "s_chunk_data_almost_done" => p.length = 0
               /\ p.phase # "broken"
    <2>1. p.state = "s_start_req_or_res" /\ p.phase # "broken" /\ \A k \in Kinds : p.marks[k] = None
      <3>1. NewParser("both").marks = [k \in Kinds |-> None]
        BY DEF NewParser
      <3>2. p.marks = NewParser("both").marks
        BY <1>4 DEF DoneWith, NewParser
      <3> QED BY <1>4, <3>1, <3>2, DoneIs
    <2>2. {k \in Kinds : p.marks[k] # None} = {}
      BY <2>1
    <2>3. p.state \notin Chunks64
      BY <2>1 DEF Chunks64
    <2> QED BY <2>1, <2>2, <2>3, FS_EmptySet
  <1>5. ParserAsserts
    BY <1>4, SaneAsserts DEF ParserInv, ParserAsserts
  <1> QED BY <1>3, <1>5

\* The assertions of http_parser_execute() hold, and its callbacks come in the order of a
\* message, wherever the chunks end and whatever the callbacks answer.
THEOREM ParserHolds == HttpParserSpec => [](ParserAsserts /\ HttpParserTypeOK)
  <1>1. HttpParserInit => ParserInv
    BY ParserInvStarts
  <1>2. ParserInv /\ [HttpParserNext]_parserVars => ParserInv'
    BY ParserInvKept
  <1>3. ParserInv => ParserAsserts /\ HttpParserTypeOK
    BY InvAsserts
  <1> QED BY <1>1, <1>2, <1>3, PTL DEF HttpParserSpec

-----------------------------------------------------------------------------
(***************************************************************************)
(* The cut parser and the whole one                                        *)
(***************************************************************************)

\* A parser that was not called back, and reads on with the same byte.
Opened(p) == [p EXCEPT !.again = FALSE, !.called = FALSE]

\* The same but for a body's mark: the cut parser has told what the whole one marks still.
Twin(c, w) ==
  /\ Shaped(w) /\ But(c, w, {"called", "marks"})
  /\ \A k \in Kinds : \/ c.marks[k] = w.marks[k]
                      \/ k = "body" /\ c.marks[k] = None /\ w.marks[k] = 0

\* What the cut parser (c) and the whole one (w) come to.
Parallel(c, w) ==
  \/ c.errno = "callback" /\ c.again = FALSE
  \/ Shaped(w) /\ But(c, w, {"called"})
  \/ Shaped(w) /\ But(c, w, {"called", "marks"}) /\ c.errno = "error" /\ c.again = FALSE

LEMMA SameIs ==
  ASSUME NEW c, NEW w, Shaped(c), Shaped(w), \A f \in Names : c[f] = w[f]
  PROVE  c = w
  <1>1. [f \in Names |-> c[f]] = [f \in Names |-> w[f]]
    OBVIOUS
  <1> QED BY <1>1 DEF Shaped

LEMMA OpenedIs ==
  ASSUME NEW p, Sane(p)
  PROVE  /\ But(Opened(p), p, {"again", "called"}) /\ Fresh(Opened(p))
         /\ Opened(p).again = FALSE /\ Opened(p).called = FALSE
         /\ Opened(p).marks = p.marks /\ Opened(p).state = p.state
  <1> DEFINE c == Opened(p)
  <1>1. But(c, p, {"again", "called"}) /\ c.again = FALSE /\ c.called = FALSE
    BY DEF Opened, Sane, Loose, ParserTyped, Shaped, But, Names
  <1> HIDE DEF c
  <1>2. /\ Shaped(c) /\ c.type = p.type /\ c.errno = p.errno /\ c.flags = p.flags
        /\ c.length = p.length /\ c.state = p.state /\ c.marks = p.marks /\ c.told = p.told
        /\ c.phase = p.phase
    BY <1>1, ButIs
  <1>3. ParserTyped(c)
    BY <1>1, <1>2 DEF Sane, Loose, ParserTyped
  <1> QED BY <1>1, <1>2, <1>3 DEF Sane, Loose, Fresh, c

\* A callback that does not fail leaves a parser as it is.
LEMMA ReplyIs ==
  ASSUME NEW p, NEW s, AfterPass(s, p), NEW how
  PROVE  \/ Replied(s, how).errno = "callback" /\ Replied(s, how).again = FALSE
         \/ Replied(s, how) = s
  <1> DEFINE r == Restart(s)
             e == [s EXCEPT !.errno = "callback", !.again = FALSE]
  <1>1. ParserTyped(s)
    BY DEF AfterPass, Sane, Loose
  <1>2. CASE s.called /\ how = "fail"
    <2>1. Replied(s, how) = e
      BY <1>2 DEF Replied
    <2>2. e.errno = "callback" /\ e.again = FALSE
      BY <1>1 DEF ParserTyped, Shaped, Names
    <2> QED BY <2>1, <2>2
  <1>3. CASE s.called /\ how = "pause"
    <2>1. Replied(s, how) = r
      BY <1>3 DEF Replied
    <2>2. Starts(s.state) = {} /\ \A k \in Kinds : s.marks[k] = None
      BY <1>3 DEF AfterPass
    <2>3. r = [s EXCEPT !.marks = [k \in Kinds |-> None]]
      BY <2>2 DEF Restart
    <2>4. s.marks = [k \in Kinds |-> None]
      BY <1>1, <2>2 DEF ParserTyped
    <2>5. r = s
      BY <1>1, <2>3, <2>4 DEF ParserTyped, Shaped, Names
    <2> QED BY <2>1, <2>5
  <1>4. CASE ~(s.called /\ how = "fail") /\ ~(s.called /\ how = "pause")
    BY <1>4 DEF Replied
  <1> QED BY <1>2, <1>3, <1>4

\* Where a body is marked, the mark is set again before it is read.
LEMMA BodyMarked ==
  ASSUME NEW c, NEW w, Mark(c, "body") = Mark(w, "body"), c.state = w.state,
         c.state \in {"s_body_identity", "s_body_identity_eof", "s_chunk_data"}, NEW b, NEW answer
  PROVE  Switch(c, b, answer) = Switch(w, b, answer)
  <1>1. CASE c.state \in {"s_body_identity", "s_body_identity_eof"}
    <2>1. Switch(c, b, answer) = BodyStep(c, b) /\ Switch(w, b, answer) = BodyStep(w, b)
      BY <1>1 DEF Switch, Starting, Responding, Fields, Values, Bodies, Chunks64
    <2>2. BodyStep(c, b) = BodyStep(w, b)
      BY <1>1 DEF BodyStep
    <2> QED BY <2>1, <2>2
  <1>2. CASE c.state = "s_chunk_data"
    <2>1. Switch(c, b, answer) = ChunkStep(c, b) /\ Switch(w, b, answer) = ChunkStep(w, b)
      BY <1>2 DEF Switch, Starting, Responding, Fields, Values, Bodies, Chunks64
    <2>2. ChunkStep(c, b) = ChunkStep(w, b)
      BY <1>2 DEF ChunkStep
    <2> QED BY <2>1, <2>2
  <1> QED BY <1>1, <1>2

\* A body's mark that spans nothing tells nothing.
LEMMA NothingTold ==
  ASSUME NEW w, ParserTyped(w), w.marks["body"] = 0, Follows(w.phase, "body") = w.phase
  PROVE  /\ But(Data(w, "body", 0), w, {"marks", "called"})
         /\ Data(w, "body", 0).marks = [w.marks EXCEPT !["body"] = None]
  <1> DEFINE d == Data(w, "body", 0)
             t == [i \in 1..(w.marks["body"] + 0) |-> <<"body", i - 1 - w.marks["body"]>>]
  <1>1. "body" \in Kinds
    BY DEF Kinds
  <1>3. t = <<>>
    OBVIOUS
  <1>4. /\ But(d, w, {"told", "phase", "called", "marks"}) /\ d.phase = Follows(w.phase, "body")
        /\ d.told = w.told \o t /\ d.marks = [w.marks EXCEPT !["body"] = None]
    <2>1. w.marks["body"] # None
      BY DEF None
    <2>2. d = Told(w, "body", 0)
      BY <2>1, DataCases
    <2>3. w.told \o t = ToldOn(w.told, "body", w.marks["body"], 0)
      BY DEF ToldOn
    <2> HIDE DEF d, t
    <2>4. Shaped(w)
      BY DEF ParserTyped
    <2>5. Telling(d, w, "body", 0)
      BY <2>2, <2>4, ToldMembers
    <2> QED BY <2>3, <2>5 DEF Telling, Unmarked
  <1>5. w.told \o t = w.told
    BY <1>1, <1>3 DEF ParserTyped
  <1> HIDE DEF t, d
  <1>6. But(d, w, {"marks", "called"})
    BY <1>4, <1>5 DEF But, Names
  <1> QED BY <1>4, <1>6 DEF d

\* One pass each, from parsers that differ in a body's mark at most.
LEMMA SwitchParallel ==
  ASSUME NEW c, NEW w, Fresh(c), Fresh(w), Twin(c, w), NEW b, NEW answer
  PROVE  LET cs == Switch(c, b, answer)
             ws == Switch(w, b, answer) IN
         \/ cs = ws
         \/ Shaped(ws) /\ But(cs, ws, {"called"}) /\ cs.called = FALSE
         \/ Shaped(ws) /\ But(cs, ws, {"marks"}) /\ cs.errno = "error" /\ cs.again = FALSE /\ cs.called = FALSE
  <1> DEFINE cs == Switch(c, b, answer)
             ws == Switch(w, b, answer)
  <1>1. /\ ParserTyped(c) /\ ParserTyped(w) /\ Sane(c) /\ Sane(w) /\ Loose(w)
        /\ c.called = FALSE /\ w.called = FALSE /\ c.again = FALSE /\ w.again = FALSE
    BY DEF Fresh, Sane, Loose
  <1>2. But(c, w, {"marks"}) /\ c.state = w.state /\ Shaped(c) /\ Shaped(w)
    BY <1>1 DEF Twin, But, Names
  <1>3. "body" \in Kinds
    BY DEF Kinds
  <1>4. CASE \A k \in Kinds : c.marks[k] = w.marks[k]
    <2>1. c.marks = w.marks
      BY <1>1, <1>4 DEF ParserTyped
    <2>2. c = w
      BY <1>2, <2>1, SameIs DEF But, Names
    <2> QED BY <2>2
  <1>5. CASE ~(\A k \in Kinds : c.marks[k] = w.marks[k])
    <2>1. /\ c.marks["body"] = None /\ w.marks["body"] = 0
          /\ \A k \in Kinds \ {"body"} : c.marks[k] = w.marks[k]
      BY <1>5 DEF Twin
    <2>2. "body" \in Marked(w.state)
      BY <1>1, <1>3, <2>1 DEF Loose, None
    <2>3. w.state \in {"s_body_identity", "s_body_identity_eof", "s_chunk_data", "s_chunk_data_almost_done"}
      BY <2>2 DEF Marked, Starts
    <2>4. CASE w.state # "s_chunk_data_almost_done"
      <3> DEFINE cm == Mark(c, "body")
                 wm == Mark(w, "body")
      <3>1. But(cm, c, {"marks"}) /\ cm.marks = [c.marks EXCEPT !["body"] = 0]
        BY <1>1, <2>1 DEF ParserTyped, Shaped, But, Mark, Names
      <3>2. But(wm, w, {"marks"}) /\ wm.marks = [w.marks EXCEPT !["body"] = 0]
        BY <1>1, <2>1 DEF ParserTyped, Shaped, But, Mark, Names, None
      <3> HIDE DEF cm, wm
      <3>3. [c.marks EXCEPT !["body"] = 0] = [w.marks EXCEPT !["body"] = 0]
        BY <1>1, <2>1 DEF ParserTyped
      <3>4. \A f \in Names : cm[f] = wm[f]
        BY <1>2, <3>1, <3>2, <3>3 DEF But
      <3>5. cm = wm
        BY <3>1, <3>2, <3>4, SameIs DEF But
      <3>6. cs = ws
        BY <1>2, <2>3, <2>4, <3>5, BodyMarked DEF cm, wm
      <3> QED BY <3>6
    <2>5. CASE w.state = "s_chunk_data_almost_done"
      <3> DEFINE cg == Go(c, "s_chunk_data_done")
                 wg == Go(w, "s_chunk_data_done")
                 d == Data(wg, "body", 0)
      <3>1. cs = ChunkStep(c, b) /\ ws = ChunkStep(w, b)
        BY <1>2, <2>5 DEF Switch, Starting, Responding, Fields, Values, Bodies, Chunks64
      <3>2. CASE b = "CR"
        <4>1. cs = Data(cg, "body", 0) /\ ws = d
          BY <1>2, <2>5, <3>1, <3>2 DEF ChunkStep, Expect
        <4>2. /\ But(cg, c, {"state"}) /\ cg.state = "s_chunk_data_done"
              /\ But(wg, w, {"state"}) /\ wg.state = "s_chunk_data_done"
          BY <1>1 DEF ParserTyped, Shaped, But, Go, Names
        <4> HIDE DEF cg, wg, cs, ws
        <4>3. cg.marks = c.marks /\ wg.marks = w.marks /\ cg.called = FALSE /\ wg.again = FALSE
          BY <1>1, <4>2, ButIs
        <4>4. cs = cg
          BY <2>1, <4>1, <4>3, DataCases
        <4>5. But(d, wg, {"marks", "called"}) /\ d.marks = [w.marks EXCEPT !["body"] = None]
          <5>1. /\ ParserTyped(wg) /\ wg.phase = w.phase
            BY <1>1, <4>2, ButIs DEF ParserTyped
          <5>2. Follows(wg.phase, "body") = wg.phase
            BY <1>1, <1>3, <2>2, <5>1, MarkedFollows DEF Loose
          <5> QED BY <2>1, <4>3, <5>1, <5>2, NothingTold
        <4>6. c.marks = [w.marks EXCEPT !["body"] = None]
          BY <1>1, <2>1 DEF ParserTyped
        <4> HIDE DEF d
        <4>7. But(cs, ws, {"called"}) /\ Shaped(ws)
          BY <1>2, <4>1, <4>2, <4>3, <4>4, <4>5, <4>6 DEF But, Names
        <4> QED BY <4>3, <4>4, <4>7 DEF cs, ws
      <3>3. CASE b # "CR"
        <4>1. cs = Error(c) /\ ws = Error(w)
          BY <1>2, <2>5, <3>1, <3>3 DEF ChunkStep, Expect
        <4> HIDE DEF cs, ws
        <4>2. But(cs, c, {"errno", "again"}) /\ cs.errno = "error" /\ cs.again = FALSE
          BY <1>1, <4>1 DEF ParserTyped, Shaped, But, Error, Names
        <4>3. But(ws, w, {"errno", "again"}) /\ ws.errno = "error" /\ ws.again = FALSE
          BY <1>1, <4>1 DEF ParserTyped, Shaped, But, Error, Names
        <4>4. cs.called = FALSE
          BY <1>1, <4>2, ButIs
        <4>5. But(cs, ws, {"marks"}) /\ Shaped(ws)
          BY <1>2, <4>2, <4>3 DEF But, Names
        <4> QED BY <4>2, <4>4, <4>5 DEF cs, ws
      <3> QED BY <3>2, <3>3
    <2> QED BY <2>3, <2>4, <2>5
  <1> QED BY <1>4, <1>5

LEMMA PassParallel ==
  ASSUME NEW c, NEW w, Sane(c), Sane(w), Twin(c, w), NEW b, NEW answer, NEW how
  PROVE  Parallel(Pass(c, b, answer, how), Pass(w, b, answer, "go"))
  <1> DEFINE co == Opened(c)
             wo == Opened(w)
             cs == Switch(co, b, answer)
             ws == Switch(wo, b, answer)
  <1>1. /\ But(co, c, {"again", "called"}) /\ Fresh(co) /\ co.again = FALSE /\ co.called = FALSE
        /\ co.marks = c.marks /\ But(wo, w, {"again", "called"}) /\ Fresh(wo) /\ wo.again = FALSE
        /\ wo.called = FALSE /\ wo.marks = w.marks
    BY OpenedIs
  <1>2. Pass(c, b, answer, how) = Replied(cs, how) /\ Pass(w, b, answer, "go") = ws
    BY DEF Pass, Opened, Replied
  <1> HIDE DEF co, wo
  <1>3. Twin(co, wo)
    BY <1>1 DEF Twin, But, Names
  <1>4. \/ cs = ws
        \/ Shaped(ws) /\ But(cs, ws, {"called"}) /\ cs.called = FALSE
        \/ Shaped(ws) /\ But(cs, ws, {"marks"}) /\ cs.errno = "error" /\ cs.again = FALSE /\ cs.called = FALSE
    BY <1>1, <1>3, SwitchParallel
  <1>5. AfterPass(cs, co) /\ AfterPass(ws, wo)
    BY <1>1, SwitchPassed
  <1> HIDE DEF cs, ws
  <1>6. \/ Replied(cs, how).errno = "callback" /\ Replied(cs, how).again = FALSE
        \/ Replied(cs, how) = cs
    BY <1>5, ReplyIs
  <1>7. Shaped(ws)
    BY <1>5 DEF AfterPass, Sane, Loose, ParserTyped
  <1>8. Parallel(cs, ws)
    BY <1>4, <1>7 DEF Parallel, But
  <1> QED BY <1>2, <1>6, <1>8 DEF Parallel

\* All passes.
LEMMA ExecutedParallel ==
  ASSUME NEW c, NEW w, Sane(c), Sane(w), Twin(c, w), NEW b, NEW answer, NEW how
  PROVE  Parallel(Executed(c, b, answer, how), Executed(w, b, answer, "go"))
  <1> DEFINE cmore(q) == IF q.again THEN Pass(q, b, answer, how) ELSE q
             wmore(q) == IF q.again THEN Pass(q, b, answer, "go") ELSE q
  <1>1. ASSUME NEW x, NEW y, Sane(x), Sane(y), Parallel(x, y)
        PROVE  Sane(cmore(x)) /\ Sane(wmore(y)) /\ Parallel(cmore(x), wmore(y))
    <2>1. Sane(cmore(x)) /\ Sane(wmore(y))
      BY <1>1, PassPassed DEF AfterPass
    <2>2. CASE x.again = FALSE /\ x.errno = "callback"
      <3>1. cmore(x) = x
        BY <2>2
      <3> HIDE DEF cmore, wmore
      <3> QED BY <2>1, <2>2, <3>1 DEF Parallel
    <2>3. CASE x.again = FALSE /\ x.errno # "callback"
      <3>1. y.again = x.again
        BY <1>1, <2>3, ButIs DEF Parallel
      <3> QED BY <1>1, <2>3, <3>1
    <2>4. CASE x.again = TRUE
      <3>1. Shaped(y) /\ But(x, y, {"called"})
        BY <1>1, <2>4 DEF Parallel
      <3>2. y.again = TRUE /\ x.marks = y.marks
        BY <2>4, <3>1, ButIs
      <3>3. Twin(x, y)
        BY <3>1, <3>2 DEF Twin, But
      <3> QED BY <1>1, <2>1, <2>4, <3>2, <3>3, PassParallel
    <2>5. x.again \in BOOLEAN
      BY <1>1 DEF Sane, Loose, ParserTyped
    <2> QED BY <2>1, <2>2, <2>3, <2>4, <2>5
  <1> DEFINE c1 == Pass(c, b, answer, how)
             w1 == Pass(w, b, answer, "go")
             c2 == cmore(c1)
             w2 == wmore(w1)
             c3 == cmore(c2)
             w3 == wmore(w2)
  <1>2. Sane(c1) /\ Sane(w1) /\ Parallel(c1, w1)
    BY PassPassed, PassParallel DEF AfterPass
  <1>3. Executed(c, b, answer, how) = cmore(c3) /\ Executed(w, b, answer, "go") = wmore(w3)
    BY DEF Executed
  <1> HIDE DEF cmore, wmore, c1, w1
  <1>4. Sane(c2) /\ Sane(w2) /\ Parallel(c2, w2)
    BY <1>1, <1>2
  <1> HIDE DEF c2, w2
  <1>5. Sane(c3) /\ Sane(w3) /\ Parallel(c3, w3)
    BY <1>1, <1>4
  <1> HIDE DEF c3, w3
  <1> QED BY <1>1, <1>3, <1>5

-----------------------------------------------------------------------------
(***************************************************************************)
(* What is told, and what is pending                                       *)
(***************************************************************************)

LEMMA MembersIs ==
  ASSUME NEW c, NEW w, But(c, w, {"called", "marks", "told"})
  PROVE  Members(c) = Members(w)
  <1>1. /\ c.type = w.type /\ c.errno = w.errno /\ c.flags = w.flags
        /\ c.length = w.length /\ c.state = w.state /\ c.phase = w.phase
    BY ButIs
  <1>2. /\ c.over = w.over /\ c.header = w.header /\ c.method = w.method /\ c.index = w.index
        /\ c.status = w.status /\ c.modern = w.modern /\ c.upgrade = w.upgrade
    BY DEF But, Names
  <1> QED BY <1>1, <1>2 DEF Members

LEMMA PendingNone ==
  ASSUME NEW p, \A k \in Kinds : p.marks[k] \in {None, 0}
  PROVE  Pending(p) = <<>>
  <1>1. {k \in Kinds : p.marks[k] > 0} = {}
    BY DEF None
  <1> QED BY <1>1 DEF Pending

LEMMA PendingOne ==
  ASSUME NEW p, NEW k \in Kinds, p.marks[k] \in Nat, p.marks[k] > 0,
         \A j \in Kinds \ {k} : p.marks[j] = None
  PROVE  Pending(p) = [i \in 1..p.marks[k] |-> <<k, i - p.marks[k]>>]
  <1> DEFINE ks == {j \in Kinds : p.marks[j] > 0}
  <1>1. ks = {k}
    BY DEF None
  <1>2. (CHOOSE j \in ks : TRUE) = k /\ ks # {}
    BY <1>1
  <1>3. Pending(p) = LET j == CHOOSE j \in ks : TRUE IN [i \in 1..p.marks[j] |-> <<j, i - p.marks[j]>>]
    BY <1>2 DEF Pending
  <1> HIDE DEF ks
  <1> QED BY <1>2, <1>3

\* The end of a chunk calls back for the one mark there is.
LEMMA FlushedOne ==
  ASSUME NEW p, NEW k \in Kinds, NEW more, Data(p, k, more).marks = [p.marks EXCEPT ![k] = None],
         p.marks \in [Kinds -> {None} \cup Nat], \A j \in Kinds \ {k} : p.marks[j] = None
  PROVE  Flushed(p, more) = Data(p, k, more)
  <1> DEFINE d == Data(p, k, more)
  <1>1. \A j \in Kinds : d.marks[j] = None
    OBVIOUS
  <1> HIDE DEF d
  <1>2. \A j \in Kinds : Data(d, j, more) = d
    BY <1>1, DataCases
  <1>3. \A j \in Kinds \ {k} : Data(p, j, more) = p
    BY DataCases
  <1>4. Data(p, k, more) = d
    BY DEF d
  <1>5. Kinds = {"field", "value", "url", "body", "status"}
    BY DEF Kinds
  <1>6. CASE k = "field"
    BY <1>2, <1>4, <1>5, <1>6 DEF Flushed
  <1>7. CASE k = "value"
    BY <1>2, <1>3, <1>4, <1>5, <1>7 DEF Flushed
  <1>8. CASE k = "url"
    BY <1>2, <1>3, <1>4, <1>5, <1>8 DEF Flushed
  <1>9. CASE k = "body"
    BY <1>2, <1>3, <1>4, <1>5, <1>9 DEF Flushed
  <1>10. CASE k = "status"
    BY <1>3, <1>4, <1>5, <1>10 DEF Flushed
  <1> QED BY <1>4, <1>5, <1>6, <1>7, <1>8, <1>9, <1>10

LEMMA FlushedNone ==
  ASSUME NEW p, NEW more, \A j \in Kinds : p.marks[j] = None
  PROVE  Flushed(p, more) = p
  <1>1. \A j \in Kinds : Data(p, j, more) = p
    BY DataCases
  <1>2. Kinds = {"field", "value", "url", "body", "status"}
    BY DEF Kinds
  <1> QED BY <1>1, <1>2 DEF Flushed

LEMMA RestartIs ==
  ASSUME NEW p, Loose(p)
  PROVE  /\ But(Restart(p), p, {"marks"})
         /\ \A k \in Kinds : Restart(p).marks[k] = IF k \in Starts(p.state) THEN 0 ELSE None
  <1> DEFINE q == Restart(p)
             m == [k \in Kinds |-> IF k \in Starts(p.state) THEN 0 ELSE None]
  <1>1. But(q, p, {"marks"}) /\ q.marks = m
    BY DEF Loose, ParserTyped, Shaped, But, Restart, Names
  <1> HIDE DEF q
  <1> QED BY <1>1 DEF q

LEMMA AdvancedIs ==
  ASSUME NEW p, ParserTyped(p)
  PROVE  /\ But(Advanced(p), p, {"marks", "called"}) /\ Advanced(p).called = FALSE
         /\ Advanced(p).marks = [k \in Kinds |-> IF p.marks[k] = None THEN None ELSE p.marks[k] + 1]
  BY DEF ParserTyped, Shaped, But, Advanced, Names

\* A mark that is told leaves everything else as it is.
TellingLoosely(q, p, k, more) ==
  /\ But(q, p, {"marks", "called", "told"}) /\ q.called = TRUE
  /\ q.marks = Unmarked(p.marks, k) /\ q.told = ToldOn(p.told, k, p.marks[k], more)

LEMMA ToldIs ==
  ASSUME NEW p, Loose(p), NEW k \in Kinds, p.marks[k] # None, NEW more
  PROVE  TellingLoosely(Data(p, k, more), p, k, more)
  <1> DEFINE d == Data(p, k, more)
             t == ToldOn(p.told, k, p.marks[k], more)
  <1>1. ParserTyped(p) /\ Follows(p.phase, k) = p.phase
    BY MarkedFollows DEF Loose
  <1>2. d = Told(p, k, more)
    BY DataCases
  <1> HIDE DEF d, t
  <1>3. /\ But(d, p, {"told", "phase", "called", "marks"}) /\ d.called = TRUE
        /\ d.phase = p.phase /\ d.marks = Unmarked(p.marks, k) /\ d.told = t
    <2>1. Shaped(p)
      BY <1>1 DEF ParserTyped
    <2>2. Telling(d, p, k, more)
      BY <1>2, <2>1, ToldMembers
    <2> QED BY <1>1, <2>2 DEF Telling, t
  <1>4. But(d, p, {"marks", "called", "told"})
    BY <1>3 DEF But, Names
  <1> QED BY <1>3, <1>4 DEF d, t, TellingLoosely

-----------------------------------------------------------------------------
(***************************************************************************)
(* What the two parsers come to, byte by byte                              *)
(***************************************************************************)

\* The two have told the same, or a callback failed.
Alike(c, w) ==
  \/ c.errno = "callback"
  \/ /\ Members(c) = Members(w)
     /\ c.errno = "HPE_OK" => c.told \o Pending(c) = w.told \o Pending(w)
     /\ c.errno = "HPE_OK" /\ ~c.over =>
          /\ Shaped(w) /\ But(c, w, {"called", "marks", "told"})
          /\ \A k \in Kinds : /\ w.marks[k] = None => c.marks[k] = None
                              /\ c.marks[k] = None /\ w.marks[k] # None => k = "body"

\* A chunk ends: the cut parser (g) has told what is pending in the whole one.
LEMMA RestartAlike ==
  ASSUME NEW q, NEW x, NEW g, Sane(q), Sane(x), Loose(g), But(q, x, {"called"}),
         But(g, q, {"called", "marks", "told"}), g.told = x.told \o Pending(Advanced(x))
  PROVE  Alike(Restart(Advanced(g)), Advanced(x))
  <1> DEFINE a == Advanced(g)
             c == Restart(a)
             w == Advanced(x)
  <1>1. Loose(a) /\ But(a, g, {"marks", "called"})
    BY AdvancedSane, AdvancedIs DEF Loose
  <1> HIDE DEF a
  <1>2. But(c, a, {"marks"}) /\ \A k \in Kinds : c.marks[k] = IF k \in Starts(a.state) THEN 0 ELSE None
    BY <1>1, RestartIs
  <1>3. But(w, x, {"marks", "called"}) /\ Sane(w)
    BY AdvancedSane, AdvancedIs DEF Sane, Loose
  <1> HIDE DEF c, w
  <1>4. Shaped(w) /\ But(c, w, {"called", "marks", "told"})
    <2>1. Shaped(c) /\ Shaped(w)
      BY <1>2, <1>3 DEF But
    <2>2. ASSUME NEW f \in Names \ {"called", "marks", "told"}
          PROVE  c[f] = w[f]
      <3>1. c[f] = a[f] /\ w[f] = x[f] /\ a[f] = g[f]
        BY <1>1, <1>2, <1>3 DEF But
      <3>2. g[f] = x[f]
        BY DEF But
      <3> QED BY <3>1, <3>2
    <2> QED BY <2>1, <2>2 DEF But
  <1>5. c.told = g.told /\ w.told = x.told /\ c.told \in Seq(Spans)
    BY <1>1, <1>2, <1>3, ButIs DEF Loose, ParserTyped
  <1>6. Pending(c) = <<>>
    BY <1>2, PendingNone
  <1>7. c.told \o Pending(c) = w.told \o Pending(w)
    <2>1. c.told \o Pending(c) = c.told
      BY <1>5, <1>6
    <2> QED BY <1>5, <2>1 DEF w
  <1>8. a.state = w.state
    <2>1. a.state = g.state /\ g.state = q.state /\ q.state = x.state /\ w.state = x.state
      BY <1>1, <1>3, ButIs
    <2> QED BY <2>1
  <1>9. ASSUME NEW k \in Kinds
        PROVE  /\ w.marks[k] = None => c.marks[k] = None
               /\ c.marks[k] = None /\ w.marks[k] # None => k = "body"
    <2>1. k \in Starts(w.state) => w.marks[k] # None
      BY <1>3 DEF Sane
    <2>2. w.marks[k] # None => k \in Starts(w.state) \cup {"body"}
      BY <1>3 DEF Sane, Loose, Marked
    <2> QED BY <1>2, <1>8, <2>1, <2>2 DEF None
  <1>10. Members(c) = Members(w)
    BY <1>4, MembersIs
  <1>11. Alike(c, w)
    BY <1>4, <1>7, <1>9, <1>10 DEF Alike
  <1> QED BY <1>11 DEF a, c, w

\* A byte read by both parsers.
LEMMA EndedAlike ==
  ASSUME NEW p, NEW o, Sane(p), Sane(o), Twin(p, o), NEW b, NEW answer, NEW how
  PROVE  LET x == Executed(o, b, answer, "go") IN
         Alike(Ended(p, b, answer, how), IF x.errno = "HPE_OK" THEN Advanced(x) ELSE x)
  <1> DEFINE q == Executed(p, b, answer, how)
             x == Executed(o, b, answer, "go")
             cq == [q EXCEPT !.called = FALSE]
             g == Flushed(cq, 1)
             f == Replied(g, how)
             c == Ended(p, b, answer, how)
             w == IF x.errno = "HPE_OK" THEN Advanced(x) ELSE x
  <1>1. /\ Sane(q) /\ Sane(x)
        /\ q.called => Starts(q.state) = {} /\ \A k \in Kinds : q.marks[k] = None
    BY ExecutedSane
  <1>2. Parallel(q, x)
    BY ExecutedParallel
  <1>3. c = CASE q.errno # "HPE_OK" -> q
              [] q.errno = "HPE_OK" /\ q.called /\ how = "pause" -> Restart(Advanced(q))
              [] q.errno = "HPE_OK" /\ how \in {"end", "fail"} ->
                   IF f.errno = "HPE_OK" THEN Restart(Advanced(f)) ELSE f
              [] OTHER -> Advanced(q)
    BY DEF Ended
  <1>0. w = IF x.errno = "HPE_OK" THEN Advanced(x) ELSE x
    OBVIOUS
  <1> SUFFICES Alike(c, w)
    OBVIOUS
  <1> HIDE DEF q, x, c, w
  <1>4. Loose(q) /\ Loose(x) /\ ParserTyped(q) /\ ParserTyped(x)
    BY <1>1 DEF Sane, Loose
  <1>5. CASE q.errno # "HPE_OK"
    <2>1. c = q
      BY <1>3, <1>5
    <2>2. CASE q.errno = "callback"
      BY <2>1, <2>2 DEF Alike
    <2>3. CASE q.errno # "callback"
      <3>1. But(q, x, {"called", "marks"})
        BY <1>2, <2>3 DEF Parallel, But
      <3>2. x.errno = q.errno
        BY <3>1, ButIs
      <3>3. w = x
        BY <1>0, <1>5, <3>2
      <3>4. But(q, x, {"called", "marks", "told"})
        BY <3>1 DEF But
      <3>5. Members(c) = Members(w)
        BY <2>1, <3>3, <3>4, MembersIs
      <3> QED BY <1>5, <2>1, <3>5 DEF Alike
    <2> QED BY <2>2, <2>3
  <1>6. CASE q.errno = "HPE_OK"
    <2>1. But(q, x, {"called"})
      BY <1>2, <1>6 DEF Parallel
    <2>2. q.marks = x.marks /\ q.told = x.told /\ x.errno = "HPE_OK" /\ q.state = x.state
      BY <1>6, <2>1, ButIs
    <2>3. w = Advanced(x)
      BY <1>0, <2>2
    <2>4. /\ ParserTyped(Advanced(x)) /\ x.told \in Seq(Spans)
          /\ Advanced(x).marks = [k \in Kinds |-> IF x.marks[k] = None THEN None ELSE x.marks[k] + 1]
      BY <1>4, AdvancedSane, AdvancedIs DEF Loose, ParserTyped
    <2>5. (\A k \in Kinds : q.marks[k] = None) => x.told \o Pending(Advanced(x)) = q.told
      <3>1. SUFFICES ASSUME \A k \in Kinds : q.marks[k] = None
                     PROVE  x.told \o Pending(Advanced(x)) = q.told
        OBVIOUS
      <3>2. \A k \in Kinds : Advanced(x).marks[k] \in {None, 0}
        BY <2>2, <2>4, <3>1
      <3>3. Pending(Advanced(x)) = <<>>
        BY <3>2, PendingNone
      <3> QED BY <2>2, <2>4, <3>3
    <2>6. CASE q.called /\ how = "pause"
      <3>1. c = Restart(Advanced(q))
        BY <1>3, <1>6, <2>6
      <3>2. q.told = x.told \o Pending(Advanced(x))
        BY <1>1, <2>5, <2>6
      <3>3. But(q, q, {"called", "marks", "told"})
        BY <2>1 DEF But
      <3>4. Alike(Restart(Advanced(q)), Advanced(x))
        BY <1>1, <1>4, <2>1, <3>2, <3>3, RestartAlike
      <3> QED BY <2>3, <3>1, <3>4
    <2>7. CASE ~(q.called /\ how = "pause") /\ how \notin {"end", "fail"}
      <3>1. c = Advanced(q)
        BY <1>3, <1>6, <2>7
      <3>2. /\ But(Advanced(q), q, {"marks", "called"}) /\ Advanced(q).called = FALSE
            /\ Advanced(q).marks = Advanced(x).marks
        <4>1. /\ But(Advanced(q), q, {"marks", "called"}) /\ Advanced(q).called = FALSE
              /\ Advanced(q).marks = [k \in Kinds |-> IF q.marks[k] = None THEN None ELSE q.marks[k] + 1]
          BY <1>4, AdvancedIs
        <4> QED BY <2>2, <2>4, <4>1
      <3>3. /\ But(Advanced(x), x, {"marks", "called"}) /\ Advanced(x).called = FALSE
        BY <1>4, AdvancedIs
      <3>4. c = w
        <4> DEFINE aq == Advanced(q)
                   ax == Advanced(x)
        <4> HIDE DEF aq, ax
        <4>1. But(aq, q, {"marks", "called"}) /\ But(ax, x, {"marks", "called"}) /\ aq.marks = ax.marks
              /\ aq.called = ax.called
          BY <3>2, <3>3 DEF aq, ax
        <4>2. \A n \in Names : aq[n] = ax[n]
          BY <2>1, <4>1 DEF But
        <4>3. aq = ax
          BY <4>1, <4>2, SameIs DEF But
        <4> QED BY <2>3, <3>1, <4>3 DEF aq, ax
      <3>5. But(w, w, {"called", "marks", "told"}) /\ Shaped(w)
        BY <2>3, <3>3 DEF But
      <3> QED BY <3>4, <3>5 DEF Alike
    <2>8. CASE how \in {"end", "fail"}
      <3>1. c = IF f.errno = "HPE_OK" THEN Restart(Advanced(f)) ELSE f
        BY <1>3, <1>6, <2>8
      <3>2. But(cq, q, {"called"}) /\ cq.called = FALSE /\ Sane(cq)
        BY <1>1, <1>4, QuietSane DEF ParserTyped, Shaped, But, Names
      <3> HIDE DEF cq
      <3>3. /\ cq.marks = q.marks /\ cq.told = q.told /\ cq.errno = "HPE_OK" /\ cq.state = q.state
            /\ Loose(cq)
        BY <1>6, <3>2, ButIs DEF Sane
      <3>4. CASE \A k \in Kinds : q.marks[k] = None
        <4>1. g = cq
          BY <3>3, <3>4, FlushedNone
        <4>2. f = cq
          BY <3>2, <4>1 DEF Replied
        <4>3. c = Restart(Advanced(cq))
          BY <3>1, <3>3, <4>2
        <4>4. But(cq, q, {"called", "marks", "told"})
          BY <3>2 DEF But
        <4>5. cq.told = x.told \o Pending(Advanced(x))
          BY <2>5, <3>3, <3>4
        <4>6. Alike(Restart(Advanced(cq)), Advanced(x))
          BY <1>1, <2>1, <3>3, <4>4, <4>5, RestartAlike
        <4> QED BY <2>3, <4>3, <4>6
      <3>5. CASE \E k \in Kinds : q.marks[k] # None
        <4>1. PICK k \in Kinds : q.marks[k] # None
          BY <3>5
        <4>2. \A j \in Kinds \ {k} : q.marks[j] = None
          <5>1. PICK one \in Kinds : Marked(q.state) \subseteq {one}
            BY OneMarked
          <5> QED BY <1>4, <4>1, <5>1 DEF Loose
        <4> DEFINE d == Data(cq, k, 1)
        <4>3. /\ But(d, cq, {"marks", "called", "told"}) /\ d.called = TRUE
              /\ d.marks = [cq.marks EXCEPT ![k] = None]
              /\ d.told = ToldOn(cq.told, k, cq.marks[k], 1)
          <5>1. cq.marks[k] # None /\ Loose(cq)
            BY <3>3, <4>1
          <5>2. TellingLoosely(Data(cq, k, 1), cq, k, 1)
            BY <4>1, <5>1, ToldIs
          <5> QED BY <5>2 DEF TellingLoosely, Unmarked
        <4>4. g = d
          <5>1. cq.marks \in [Kinds -> {None} \cup Nat] /\ \A j \in Kinds \ {k} : cq.marks[j] = None
            BY <1>4, <3>3, <4>2 DEF ParserTyped
          <5> QED BY <4>3, <5>1, FlushedOne
        <4>5. Loose(d)
          BY <3>3, DataLoose
        <4> HIDE DEF d, g
        <4>6. d.errno = "HPE_OK"
          BY <3>3, <4>3, ButIs
        <4>7. CASE how = "fail"
          <5> DEFINE e == [d EXCEPT !.errno = "callback", !.again = FALSE]
          <5>1. f = e
            BY <4>3, <4>4, <4>7 DEF Replied
          <5>2. e.errno = "callback"
            BY <4>5 DEF Loose, ParserTyped, Shaped, Names
          <5> HIDE DEF e, f
          <5>3. c.errno = "callback"
            BY <3>1, <5>1, <5>2
          <5> QED BY <5>3 DEF Alike
        <4>8. CASE how = "end"
          <5>1. f = d
            BY <4>4, <4>8 DEF Replied
          <5>2. c = Restart(Advanced(d))
            BY <3>1, <4>6, <5>1
          <5>3. But(d, q, {"called", "marks", "told"})
            BY <3>2, <4>3 DEF But
          <5>4. d.told = x.told \o Pending(Advanced(x))
            <6> DEFINE m == q.marks[k]
            <6>1. m \in Nat
              BY <1>4, <4>1 DEF ParserTyped
            <6>2. /\ Advanced(x).marks[k] = m + 1
                  /\ \A j \in Kinds \ {k} : Advanced(x).marks[j] = None
              BY <2>2, <2>4, <4>1, <4>2
            <6>3. Pending(Advanced(x)) = [i \in 1..(m + 1) |-> <<k, i - (m + 1)>>]
              BY <6>1, <6>2, PendingOne
            <6>4. \A i \in 1..(m + 1) : i - 1 - m = i - (m + 1)
              BY <6>1
            <6>5. [i \in 1..(m + 1) |-> <<k, i - 1 - m>>] = [i \in 1..(m + 1) |-> <<k, i - (m + 1)>>]
              BY <6>4
            <6>6. d.told = x.told \o [i \in 1..(m + 1) |-> <<k, i - 1 - m>>]
              BY <2>2, <3>3, <4>3 DEF ToldOn
            <6> QED BY <6>3, <6>5, <6>6
          <5>5. Alike(Restart(Advanced(d)), Advanced(x))
            BY <1>1, <2>1, <4>5, <5>3, <5>4, RestartAlike
          <5> QED BY <2>3, <5>2, <5>5
        <4> QED BY <2>8, <4>7, <4>8
      <3> QED BY <3>4, <3>5
    <2> QED BY <2>6, <2>7, <2>8
  <1> QED BY <1>4, <1>5, <1>6 DEF ParserTyped

\* A byte is read by both, and compared.
LEMMA ComparedTwin ==
  ASSUME NEW c, NEW w, Compared(c, w), Alike(c, w), c.errno = "HPE_OK" /\ ~c.over, Loose(c), Loose(w),
         agree
  PROVE  agree' /\ Twin(cut', whole')
  <1> DEFINE m == [k \in Kinds |-> IF w.marks[k] = None THEN None
                                   ELSE IF c.marks[k] = None THEN 0 ELSE c.marks[k]]
             c2 == [c EXCEPT !.told = <<>>, !.called = FALSE]
             w2 == [w EXCEPT !.told = <<>>, !.called = FALSE, !.marks = m]
  <1>1. cut' = c2
    BY DEF Compared
  <1>2. whole' = w2
    <2>1. whole' = [w EXCEPT !.told = <<>>, !.called = FALSE,
                        !.marks = [k \in Kinds |-> IF @[k] = None THEN None
                                   ELSE IF c.marks[k] = None THEN 0 ELSE c.marks[k]]]
      BY DEF Compared
    <2> QED BY <2>1
  <1>3. But(c2, c, {"told", "called"}) /\ c2.told = <<>> /\ c2.called = FALSE
    BY DEF Loose, ParserTyped, Shaped, But, Names
  <1>4. But(w2, w, {"told", "called", "marks"}) /\ w2.told = <<>> /\ w2.called = FALSE /\ w2.marks = m
    BY DEF Loose, ParserTyped, Shaped, But, Names
  <1> HIDE DEF c2, w2
  <1>5. c2.marks = c.marks
    BY <1>3, ButIs
  <1>6. /\ Shaped(w) /\ But(c, w, {"called", "marks", "told"})
        /\ \A k \in Kinds : /\ w.marks[k] = None => c.marks[k] = None
                            /\ c.marks[k] = None /\ w.marks[k] # None => k = "body"
    BY DEF Alike
  <1>7. But(c2, w2, {"called", "marks"}) /\ Shaped(w2)
    BY <1>3, <1>4, <1>6 DEF But, Names
  <1>8. ASSUME NEW k \in Kinds
        PROVE  \/ c2.marks[k] = w2.marks[k]
               \/ k = "body" /\ c2.marks[k] = None /\ w2.marks[k] = 0
    BY <1>4, <1>5, <1>6
  <1>9. agree'
    BY DEF Compared, Alike
  <1> QED BY <1>1, <1>2, <1>7, <1>8, <1>9 DEF Twin

\* A parser is done: there is nothing more to agree on.
LEMMA ComparedLast ==
  ASSUME NEW c, NEW w, Compared(c, w), Alike(c, w), ~(c.errno = "HPE_OK" /\ ~c.over)
  PROVE  SpansAgree'
  <1>1. cut' = [NewParser("both") EXCEPT !.errno = c.errno, !.over = TRUE, !.phase = c.phase]
    BY DEF Compared
  <1>2. cut'.errno = c.errno
    BY <1>1 DEF NewParser
  <1>3. c.errno # "callback" => agree'
    BY DEF Compared, Alike
  <1> QED BY <1>2, <1>3 DEF SpansAgree

\* What is left at the end of the stream.
LEMMA FlushedTwin ==
  ASSUME NEW c, NEW w, Sane(c), Sane(w), Twin(c, w), Settled(c), Settled(w)
  PROVE  But(Flushed(c, 0), Flushed(w, 0), {"called"}) /\ Shaped(Flushed(w, 0))
  <1>1. Loose(c) /\ Loose(w) /\ ParserTyped(c) /\ ParserTyped(w) /\ "body" \in Kinds
    BY DEF Sane, Loose, Kinds
  <1>2. Shaped(Flushed(w, 0))
    BY <1>1, FlushedLoose DEF Loose, ParserTyped
  <1>3. c.called = w.called /\ But(c, w, {"marks"})
    BY DEF Settled, Twin, But
  <1>4. CASE \A k \in Kinds : c.marks[k] = w.marks[k]
    <2>1. c.marks = w.marks
      BY <1>1, <1>4 DEF ParserTyped
    <2>2. c = w
      BY <1>1, <1>3, <2>1, SameIs DEF But, Names, ParserTyped
    <2> QED BY <1>2, <2>2 DEF But
  <1>5. CASE ~(\A k \in Kinds : c.marks[k] = w.marks[k])
    <2>1. /\ c.marks["body"] = None /\ w.marks["body"] = 0
          /\ \A k \in Kinds \ {"body"} : c.marks[k] = w.marks[k]
      BY <1>5 DEF Twin
    <2>2. \A k \in Kinds \ {"body"} : w.marks[k] = None
      <3>1. PICK one \in Kinds : Marked(w.state) \subseteq {one}
        BY OneMarked
      <3> QED BY <1>1, <2>1, <3>1 DEF Loose, None
    <2>3. \A k \in Kinds : c.marks[k] = None
      BY <2>1, <2>2
    <2>4. Flushed(c, 0) = c
      BY <2>3, FlushedNone
    <2> DEFINE d == Data(w, "body", 0)
    <2>5. Follows(w.phase, "body") = w.phase
      BY <1>1, <2>1, MarkedFollows DEF Loose, None
    <2>6. But(d, w, {"marks", "called"}) /\ d.marks = [w.marks EXCEPT !["body"] = None]
      BY <1>1, <2>1, <2>5, NothingTold
    <2>7. Flushed(w, 0) = d
      <3>1. w.marks \in [Kinds -> {None} \cup Nat]
        BY <1>1 DEF ParserTyped
      <3>2. Data(w, "body", 0).marks = [w.marks EXCEPT !["body"] = None]
        BY <2>6
      <3> HIDE DEF d
      <3>3. Flushed(w, 0) = Data(w, "body", 0)
        BY <1>1, <2>2, <3>1, <3>2, FlushedOne
      <3> QED BY <3>3 DEF d
    <2> HIDE DEF d
    <2>8. c.marks = d.marks
      BY <1>1, <2>2, <2>3, <2>6 DEF ParserTyped
    <2>9. But(c, d, {"called"})
      BY <1>3, <2>6, <2>8 DEF But
    <2> QED BY <1>2, <2>4, <2>7, <2>9
  <1> QED BY <1>4, <1>5

\* Both fail.
LEMMA ErrorBut ==
  ASSUME NEW c, NEW w, NEW F, But(c, w, F), ParserTyped(c), ParserTyped(w)
  PROVE  But(Error(c), Error(w), F) /\ Error(c).errno = "error"
  <1>1. /\ But(Error(c), c, {"errno", "again"}) /\ Error(c).errno = "error" /\ Error(c).again = FALSE
        /\ But(Error(w), w, {"errno", "again"}) /\ Error(w).errno = "error" /\ Error(w).again = FALSE
    BY DEF ParserTyped, Shaped, But, Error, Names
  <1> QED BY <1>1 DEF But

LEMMA AtEofAlike ==
  ASSUME NEW c, NEW w, Sane(c), Sane(w), Twin(c, w), Settled(c), Settled(w)
  PROVE  Alike(AtEof(c), AtEof(w))
  <1> DEFINE q == Flushed(c, 0)
             x == Flushed(w, 0)
             Finished(p) == [Notify(p, "message_complete") EXCEPT !.over = TRUE, !.called = FALSE]
             Over(p) == [p EXCEPT !.over = TRUE]
  <1>1. But(q, x, {"called"})
    BY FlushedTwin
  <1>2. /\ Loose(q) /\ Loose(x) /\ \A k \in Kinds : q.marks[k] = None /\ x.marks[k] = None
    BY FlushedLoose DEF Sane
  <1>3. c.state = w.state
    BY ButIs DEF Twin
  <1>4. /\ AtEof(c) = IF c.state = "s_body_identity_eof" THEN Finished(q)
                      ELSE IF c.state \in Starting THEN Over(q) ELSE Error(q)
        /\ AtEof(w) = IF c.state = "s_body_identity_eof" THEN Finished(x)
                      ELSE IF c.state \in Starting THEN Over(x) ELSE Error(x)
    BY <1>3 DEF AtEof, Starting
  <1> HIDE DEF q, x
  <1>5. ParserTyped(q) /\ ParserTyped(x) /\ q.told = x.told /\ q.phase = x.phase
    BY <1>1, <1>2, ButIs DEF Loose
  <1>6. ASSUME NEW y, NEW z, But(y, z, {"called", "marks", "told"}), y.told = z.told, y.over = TRUE,
               \A k \in Kinds : y.marks[k] = None /\ z.marks[k] = None
        PROVE  Alike(y, z)
    <2>1. Members(y) = Members(z)
      BY <1>6, MembersIs
    <2>2. Pending(y) = <<>> /\ Pending(z) = <<>>
      BY <1>6, PendingNone
    <2> QED BY <1>6, <2>1, <2>2 DEF Alike
  <1>7. CASE c.state = "s_body_identity_eof"
    <2>1. ASSUME NEW p, ParserTyped(p)
          PROVE  /\ But(Finished(p), p, {"told", "phase", "called", "over"})
                 /\ Finished(p).told = Append(p.told, <<"message_complete", 0>>)
                 /\ Finished(p).phase = Follows(p.phase, "message_complete")
                 /\ Finished(p).over = TRUE /\ Finished(p).called = FALSE
      BY <2>1 DEF ParserTyped, Shaped, But, Notify, Names
    <2> DEFINE y == Finished(q)
               z == Finished(x)
    <2>2. /\ But(y, q, {"told", "phase", "called", "over"}) /\ But(z, x, {"told", "phase", "called", "over"})
          /\ y.told = z.told /\ y.phase = z.phase /\ y.over = TRUE /\ z.over = TRUE
      BY <1>5, <2>1
    <2> HIDE DEF y, z, Finished
    <2>3. But(y, z, {"called", "marks", "told"})
      BY <1>1, <2>2 DEF But, Names
    <2>4. y.marks = q.marks /\ z.marks = x.marks
      BY <2>2, ButIs
    <2>5. Alike(y, z)
      BY <1>2, <1>6, <2>2, <2>3, <2>4, ZenonT(30)
    <2> QED BY <1>4, <1>7, <2>5 DEF y, z
  <1>8. CASE c.state \in Starting
    <2>0. c.state # "s_body_identity_eof"
      BY <1>8 DEF Starting
    <2>1. ASSUME NEW p, ParserTyped(p)
          PROVE  But(Over(p), p, {"over"}) /\ Over(p).over = TRUE
      BY <2>1 DEF ParserTyped, Shaped, But, Names
    <2> DEFINE y == Over(q)
               z == Over(x)
    <2>2. But(y, q, {"over"}) /\ But(z, x, {"over"}) /\ y.over = TRUE /\ z.over = TRUE
      BY <1>5, <2>1
    <2> HIDE DEF y, z, Over
    <2>3. But(y, z, {"called", "marks", "told"})
      BY <1>1, <2>2 DEF But, Names
    <2>4. y.marks = q.marks /\ z.marks = x.marks /\ y.told = q.told /\ z.told = x.told
      BY <2>2, ButIs
    <2>5. Alike(y, z)
      BY <1>2, <1>5, <1>6, <2>2, <2>3, <2>4, ZenonT(30)
    <2> QED BY <1>4, <1>8, <2>0, <2>5 DEF y, z
  <1>9. CASE c.state # "s_body_identity_eof" /\ c.state \notin Starting
    <2>1. But(Error(q), Error(x), {"called"}) /\ Error(q).errno = "error"
      BY <1>1, <1>5, ErrorBut
    <2>2. But(Error(q), Error(x), {"called", "marks", "told"})
      BY <2>1 DEF But
    <2>3. Members(Error(q)) = Members(Error(x))
      BY <2>2, MembersIs
    <2> QED BY <1>4, <1>9, <2>1, <2>3 DEF Alike
  <1> QED BY <1>7, <1>8, <1>9

-----------------------------------------------------------------------------
(***************************************************************************)
(* However the stream is cut                                               *)
(***************************************************************************)

\* The inductive invariant: two parsers that read on are twins.
TwinInv ==
  /\ ParserInv /\ SpansAgree
  /\ Reads => agree /\ Twin(cut, whole)

LEMMA TwinInvStarts ==
  HttpParserInit => TwinInv
  <1> SUFFICES ASSUME HttpParserInit PROVE TwinInv
    OBVIOUS
  <1>1. ParserInv /\ agree
    BY ParserInvStarts DEF HttpParserInit
  <1>2. cut = whole /\ Shaped(whole)
    <2>1. PICK type \in Types : cut = NewParser(type) /\ whole = NewParser(type)
      BY DEF HttpParserInit
    <2>2. type \in {"both", "request", "response"}
      BY ParserAssumption
    <2> QED BY <2>1, <2>2, NewSane
  <1> QED BY <1>1, <1>2 DEF TwinInv, SpansAgree, Twin, But

\* Two parsers that were compared are twins still, or done.
LEMMA ComparedAgree ==
  ASSUME NEW c, NEW w, Compared(c, w), Alike(c, w), Loose(c), Loose(w), agree
  PROVE  SpansAgree' /\ (Reads' => agree' /\ Twin(cut', whole'))
  <1>1. CASE c.errno = "HPE_OK" /\ ~c.over
    BY <1>1, ComparedTwin DEF SpansAgree
  <1>2. CASE ~(c.errno = "HPE_OK" /\ ~c.over)
    <2>1. c.errno \in {"HPE_OK", "error", "callback"} /\ c.phase \in {"between", "head", "body", "chunk"}
      BY PhaseIs DEF Loose, ParserTyped
    <2> QED BY <1>2, <2>1, ComparedDone, ComparedLast
  <1> QED BY <1>1, <1>2

LEMMA TwinInvKept ==
  TwinInv /\ [HttpParserNext]_parserVars => TwinInv'
  <1> SUFFICES ASSUME TwinInv, [HttpParserNext]_parserVars PROVE TwinInv'
    OBVIOUS
  <1>1. ParserInv'
    BY ParserInvKept DEF TwinInv
  <1>2. ASSUME Reads
        PROVE  Sane(cut) /\ Sane(whole) /\ Settled(cut) /\ Settled(whole) /\ Twin(cut, whole) /\ agree
    BY <1>2 DEF TwinInv, ParserInv
  <1>3. ASSUME NEW b, NEW answer, NEW how, Execute(b, answer, how)
        PROVE  SpansAgree' /\ (Reads' => agree' /\ Twin(cut', whole'))
    <2> DEFINE x == Executed(whole, b, answer, "go")
               c == Ended(cut, b, answer, how)
               w == IF x.errno = "HPE_OK" THEN Advanced(x) ELSE x
    <2>1. Reads /\ Compared(c, w)
      BY <1>3 DEF Execute
    <2>2. Alike(c, w)
      BY <1>2, <2>1, EndedAlike
    <2>3. Loose(c)
      BY <1>2, <2>1, EndedSane
    <2>4. Sane(x)
      BY <1>2, <2>1, ExecutedSane
    <2> HIDE DEF c, x
    <2>5. Loose(w)
      BY <2>4, AdvancedSane DEF Sane
    <2> HIDE DEF w
    <2> QED BY <1>2, <2>1, <2>2, <2>3, <2>5, ComparedAgree
  <1>4. ASSUME HeaderOverflow
        PROVE  SpansAgree' /\ (Reads' => agree' /\ Twin(cut', whole'))
    <2> DEFINE c == Error(cut)
               w == Error(whole)
    <2>1. Reads /\ Compared(c, w)
      BY <1>4 DEF HeaderOverflow
    <2>2. ParserTyped(cut) /\ ParserTyped(whole) /\ cut.phase \in {"between", "head", "body", "chunk"}
      BY <1>2, <2>1, PhaseIs DEF Sane, Loose
    <2>3. But(c, w, {"called", "marks"}) /\ c.errno = "error"
      BY <1>2, <2>1, <2>2, ErrorBut DEF Twin
    <2>4. c.phase = cut.phase
      BY <2>2, ErrorIs
    <2> HIDE DEF c, w
    <2>5. But(c, w, {"called", "marks", "told"})
      BY <2>3 DEF But
    <2>6. Members(c) = Members(w)
      BY <2>5, MembersIs
    <2>7. Alike(c, w)
      BY <2>3, <2>6 DEF Alike
    <2>8. ~Reads'
      BY <2>1, <2>2, <2>3, <2>4, ComparedDone
    <2> QED BY <2>1, <2>3, <2>7, <2>8, ComparedLast
  <1>5. ASSUME Eof
        PROVE  SpansAgree' /\ (Reads' => agree' /\ Twin(cut', whole'))
    <2> DEFINE c == AtEof(cut)
               w == AtEof(whole)
    <2>1. Reads /\ Compared(c, w)
      BY <1>5 DEF Eof
    <2>2. Alike(c, w)
      BY <1>2, <2>1, AtEofAlike
    <2>3. /\ c.errno \in {"HPE_OK", "error", "callback"} /\ c.phase \in {"between", "head", "body", "chunk"}
          /\ c.errno = "HPE_OK" => c.over = TRUE
      BY <1>2, <2>1, AtEofSane DEF Settled
    <2> HIDE DEF c, w
    <2>4. ~Reads'
      BY <2>1, <2>3, ComparedDone
    <2> QED BY <2>1, <2>2, <2>3, <2>4, ComparedLast
  <1>6. ASSUME UNCHANGED parserVars
        PROVE  SpansAgree' /\ (Reads' => agree' /\ Twin(cut', whole'))
    BY <1>6 DEF TwinInv, parserVars, Reads, SpansAgree
  <1>7. SpansAgree' /\ (Reads' => agree' /\ Twin(cut', whole'))
    BY <1>3, <1>4, <1>5, <1>6 DEF HttpParserNext
  <1> QED BY <1>1, <1>7 DEF TwinInv

\* Wherever the chunks end and whenever a callback pauses, execute() comes to the same
\* members, and tells its callbacks the same bytes in the same order.
THEOREM ParserAgrees == HttpParserSpec => []SpansAgree
  <1>1. HttpParserInit => TwinInv
    BY TwinInvStarts
  <1>2. TwinInv /\ [HttpParserNext]_parserVars => TwinInv'
    BY TwinInvKept
  <1>3. TwinInv => SpansAgree
    BY DEF TwinInv
  <1> QED BY <1>1, <1>2, <1>3, PTL DEF HttpParserSpec

=============================================================================
