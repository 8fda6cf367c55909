--------------------------------- MODULE Codings ---------------------------------
(***************************************************************************)
(* The codings of variable length in libcocao's ByteArray (bytearray.cc):  *)
(* varints of 32 and 64 bits, signed ones by zigzag, and strings whose     *)
(* length is to be a varint.  The loops that write and read a varint go    *)
(* byte by byte, since one of them does not end.                           *)
(*                                                                         *)
(* bytes and position are what ByteArray is shown to be in Bytes.          *)
(* writeint32() calls write() with one argument, which does not exist:     *)
(* here it calls writeUint32_t(), as writeint64() calls writeUint64_t().   *)
(***************************************************************************)
EXTENDS Integers, Sequences

CONSTANTS
  Radix,      \* 0x80: a byte has a digit to this base, and a mark when there are more
  Weight,     \* Weight[i] is Radix to the i: a shift by 7 * i
  Limit,      \* Limit[w]: numbers of w bits are below
  Room,       \* Room[w]: the size of tmp, 5 and 10
  FixedSize,  \* the size of a fixed uint64_t, 8
  ByteWeight, \* ByteWeight[i] is 256 to the i
  Numbers,    \* bound: the numbers that are written
  Texts,      \* bound: the strings that are written
  MaxSent     \* bound: how many of either

Widths == {32, 64}
Octet == 0..(2 * Radix - 1)

ASSUME CodingsAssumption ==
  /\ Radix \in Nat /\ Radix > 1 /\ FixedSize \in Nat \ {0} /\ MaxSent \in Nat
  /\ Limit \in [Widths -> Nat] /\ Room \in [Widths -> Nat \ {0}]
  /\ Weight[0] = 1
  /\ \A w \in Widths :
       /\ Limit[w] > 1 /\ Limit[w] = 2 * (Limit[w] \div 2)
       /\ \A i \in 0..Room[w] : Weight[i] \in Nat \ {0}
       /\ \A i \in 1..Room[w] : Weight[i] = Radix * Weight[i - 1]
       /\ Limit[w] <= Weight[Room[w]]
  /\ \A i \in 0..(FixedSize - 1) : ByteWeight[i] \in Nat \ {0}
  /\ Numbers \subseteq Int
  /\ \A s \in Texts : s \in Seq(Octet) /\ Len(s) < Limit[64]

VARIABLES
  asBuilt,    \* whether this is the program as it is, or one with two lines corrected
  bytes,      \* all bytes before the end
  position,
  sent,       \* what was written, and between which positions
  call,       \* the call under way, with its locals
  got         \* what the last call read

codingVars == <<asBuilt, bytes, position, sent, call, got>>

Forms == {"uint32", "int32", "uint64", "int64", "string"}
Signed == {"int32", "int64"}
Width(k) == IF k \in {"uint32", "int32"} THEN 32 ELSE 64
Places == {"idle", "write", "append", "read", "text", "overrun", "thrown"}

\* What a parameter of each kind may be.
InRange(k, n) ==
  LET l == Limit[Width(k)] IN
  IF k \in Signed THEN -(l \div 2) <= n /\ n < l \div 2 ELSE 0 <= n /\ n < l

NoCall == [pc |-> "idle", kind |-> "string", number |-> 0, text |-> <<>>, from |-> 0,
           value |-> 0, tmp |-> <<>>, i |-> 0, of |-> 0]

CodingsInit ==
  /\ asBuilt \in BOOLEAN
  /\ bytes = <<>> /\ position = 0 /\ sent = <<>> /\ call = NoCall
  /\ got = [of |-> 0, number |-> 0, text |-> <<>>, end |-> 0]

-----------------------------------------------------------------------------
\* EncodeZigzag32() and 64: what overflows in it wraps, and comes out below the limit.
EncodeZigzag(v) == IF v < 0 THEN 2 * (-v) - 1 ELSE 2 * v
\* DecodeZigzag32() and 64; an exclusive or with -1 is the complement.
DecodeZigzag(u) == IF u % 2 = 0 THEN u \div 2 ELSE -(u \div 2) - 1

Encoded(k, n) == IF k \in Signed THEN EncodeZigzag(n) ELSE n
Decoded(k, u) == IF k \in Signed THEN DecodeZigzag(u) ELSE u

\* writeFuint64() of a length, big endian.
Fixed(n) == [j \in 1..FixedSize |-> (n \div ByteWeight[FixedSize - j]) % (2 * Radix)]

\* write() at the end.
Appended(s) == bytes' = bytes \o s /\ position' = position + Len(s)

Wrote == [kind |-> call.kind, number |-> call.number, text |-> call.text,
          from |-> call.from, to |-> position']

\* A call that writes at the end begins.  writeStringVint() has the length written by
\* writeFuint64(), where writeUint64_t() would be right.
Begin(k, n, s) ==
  /\ call.pc = "idle" /\ position = Len(bytes) /\ Len(sent) < MaxSent
  /\ LET fixed == asBuilt /\ k = "string" IN
     /\ call' = [NoCall EXCEPT !.pc = IF fixed THEN "append" ELSE "write", !.kind = k,
                               !.number = n, !.text = s, !.from = position,
                               !.value = Encoded(k, n)]
     /\ IF fixed THEN Appended(Fixed(n)) ELSE UNCHANGED <<bytes, position>>
  /\ UNCHANGED <<asBuilt, sent, got>>

\* A byte with the mark that there are more.
WithMore(v) == (v % Radix) + Radix

\* Broken on purpose: value >> 7 in both.
ShiftedNever(k, v) == v
\* value >>= 7 in writeUint32_t(); in writeUint64_t() only value >> 7.
Shifted(k, v) == IF asBuilt /\ Width(k) = 64 THEN v ELSE v \div Radix

Full == Len(call.tmp) = Room[Width(call.kind)]

\* A digit that is not the last.  Behind tmp is no memory of its own.
WriteDigit ==
  /\ call.pc = "write" /\ call.value >= Radix
  /\ call' = IF Full THEN [call EXCEPT !.pc = "overrun"]
             ELSE [call EXCEPT !.tmp = Append(@, WithMore(call.value)),
                               !.value = Shifted(call.kind, @)]
  /\ UNCHANGED <<asBuilt, bytes, position, sent, got>>

\* The last digit, and write(tmp, i); a string goes on with its characters.
WriteLast ==
  /\ call.pc = "write" /\ call.value < Radix
  /\ UNCHANGED <<asBuilt, got>>
  /\ IF Full
     THEN call' = [call EXCEPT !.pc = "overrun"] /\ UNCHANGED <<bytes, position, sent>>
     ELSE /\ Appended(Append(call.tmp, call.value))
          /\ IF call.kind = "string"
             THEN call' = [call EXCEPT !.pc = "append"] /\ UNCHANGED sent
             ELSE call' = NoCall /\ sent' = Append(sent, Wrote)

WriteText ==
  /\ call.pc = "append"
  /\ Appended(call.text) /\ sent' = Append(sent, Wrote) /\ call' = NoCall
  /\ UNCHANGED <<asBuilt, got>>

\* setPosition(), to where something begins, or to the end.
Seek(p) ==
  /\ call.pc = "idle" /\ p # position /\ position' = p
  /\ UNCHANGED <<asBuilt, bytes, sent, call, got>>

\* A call that reads what was written k-th begins where that does.
BeginRead(k) ==
  /\ call.pc = "idle" /\ position = sent[k].from
  /\ call' = [NoCall EXCEPT !.pc = "read", !.kind = sent[k].kind, !.of = k]
  /\ UNCHANGED <<asBuilt, bytes, position, sent, got>>

Throw == call' = [call EXCEPT !.pc = "thrown"] /\ UNCHANGED <<position, got>>

Returns(number, text) ==
  /\ got' = [of |-> call.of, number |-> number, text |-> text, end |-> position']
  /\ call' = NoCall

\* readUint32() and readUint64(): a byte.  The shift drops what is beyond the width, and
\* the bits that are or-ed are none of those that are there.
ReadDigit ==
  /\ call.pc = "read"
  /\ UNCHANGED <<asBuilt, bytes, sent>>
  /\ IF position = Len(bytes) THEN Throw
     ELSE LET b == bytes[position + 1]
              limit == Limit[Width(call.kind)]
              value == call.value + (((b % Radix) * Weight[call.i]) % limit)
              more == b >= Radix /\ Weight[call.i + 1] < limit IN
          /\ position' = position + 1
          /\ IF more THEN call' = [call EXCEPT !.value = value, !.i = @ + 1] /\ UNCHANGED got
             ELSE IF call.kind = "string"
             THEN call' = [call EXCEPT !.pc = "text", !.value = value] /\ UNCHANGED got
             ELSE Returns(Decoded(call.kind, value), <<>>)

\* readStringVint(): so many characters.
ReadText ==
  /\ call.pc = "text"
  /\ UNCHANGED <<asBuilt, bytes, sent>>
  /\ IF call.value > Len(bytes) - position THEN Throw
     ELSE /\ position' = position + call.value
          /\ Returns(call.value, SubSeq(bytes, position + 1, position'))

CodingsNext ==
  \/ \E k \in Forms \ {"string"}, n \in Numbers : InRange(k, n) /\ Begin(k, n, <<>>)
  \/ \E s \in Texts : Begin("string", Len(s), s)
  \/ WriteDigit \/ WriteLast \/ WriteText
  \/ \E k \in 1..Len(sent) : Seek(sent[k].from) \/ BeginRead(k)
  \/ Seek(Len(bytes))
  \/ ReadDigit \/ ReadText

CodingsSpec == CodingsInit /\ [][CodingsNext]_codingVars

-----------------------------------------------------------------------------
(***************************************************************************)
(* Properties                                                              *)
(***************************************************************************)

\* A call that was made, and the bytes it wrote.
Sent == [kind : Forms, number : Int, text : Seq(Octet), from : Nat, to : Nat]

\* Types; m_position is never behind the end, and every byte that write() is given is one.
CodingsTypeOK ==
  /\ asBuilt \in BOOLEAN /\ bytes \in Seq(Octet) /\ position \in 0..Len(bytes)
  /\ sent \in Seq(Sent)
  /\ call \in [pc : Places, kind : Forms, number : Int, text : Seq(Octet), from : Nat,
               value : Nat, tmp : Seq(Octet), i : Nat, of : 0..Len(sent)]
  /\ got \in [of : 0..Len(sent), number : Int, text : Seq(Octet), end : Nat]

\* What the program as it is does not write as it should.
Spoilt(k) == asBuilt /\ k = "string"

\* What is read where something begins is what was written there, whatever was written
\* since, and the next thing begins where the reader stops; nothing is thrown.  In the
\* program as it is that is not so of strings.
ReadsBack ==
  /\ got.of # 0 =>
       LET r == sent[got.of] IN
       Spoilt(r.kind) \/ (got.number = r.number /\ got.text = r.text /\ got.end = r.to)
  /\ call.pc = "thrown" => Spoilt(call.kind)

\* writeUint32_t() and writeUint64_t() stay within tmp, whatever the number; the latter
\* does not in the program as it is, when there is more than a digit.
WithinTmp ==
  call.pc = "overrun" =>
    asBuilt /\ Width(call.kind) = 64 /\ Encoded(call.kind, call.number) >= Radix

\* The i-th digit of u, from 0.
DigitOf(u, i) == (u \div Weight[i]) % Radix

\* The n bytes of b behind p are the digits of u, the first ones first and all but the last
\* one marked; and there are as many as u has, so that no number has two codings.
CodedAt(b, p, n, u) ==
  /\ \A j \in 1..n : b[p + j] = DigitOf(u, j - 1) + (IF j < n THEN Radix ELSE 0)
  /\ \A j \in 1..n : u \div Weight[j - 1] < Radix <=> j = n

\* What other programs read: everything that was written has its coding at its place.
WellCoded ==
  \A k \in 1..Len(sent) :
    LET r == sent[k]
        n == r.to - Len(r.text) - r.from IN
    \/ Spoilt(r.kind)
    \/ /\ n \in 1..Room[Width(r.kind)] /\ r.to <= Len(bytes)
       /\ CodedAt(bytes, r.from, n, Encoded(r.kind, r.number))
       /\ \A j \in 1..Len(r.text) : bytes[r.from + n + j] = r.text[j]

\* What is written is read back, the writers stay within tmp, and others can read it.
CodingsAgree == ReadsBack /\ WithinTmp /\ WellCoded

=============================================================================
