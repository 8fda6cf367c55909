------------------------------ MODULE CodingProofs ------------------------------
(***************************************************************************)
(* What the codings of a ByteArray promise, for digits to any base,        *)
(* numbers of any width and any strings.                                   *)
(***************************************************************************)
EXTENDS MCData, DataProofs, TLAPS, SequenceTheorems

-----------------------------------------------------------------------------
(***************************************************************************)
(* Quotients and remainders                                                *)
(***************************************************************************)

\* A quotient and a remainder.
LEMMA Division ==
  ASSUME NEW a \in Nat, NEW b \in Nat \ {0}
  PROVE  /\ a \div b \in Nat /\ a % b \in 0..(b - 1)
         /\ a = b * (a \div b) + (a % b)
  OBVIOUS

\* One more of b is b more.
LEMMA OneMore ==
  ASSUME NEW b \in Nat, NEW x \in Nat, NEW y \in Nat, x + 1 <= y
  PROVE  b * x \in Nat /\ b * x + b <= b * y
  <1>1. PICK d \in Nat : y = x + 1 + d
    <2>1. y - x - 1 \in Nat
      OBVIOUS
    <2> QED BY <2>1
  <1>2. b * y = b * x + b + b * d /\ b * d \in Nat /\ b * x \in Nat
    BY <1>1
  <1> QED BY <1>2

\* They are the only ones.
LEMMA OneDivision ==
  ASSUME NEW b \in Nat \ {0}, NEW q \in Nat, NEW r \in 0..(b - 1), NEW a \in Nat,
         a = b * q + r
  PROVE  a \div b = q /\ a % b = r
  <1> DEFINE p == a \div b
             s == a % b
  <1>1. p \in Nat /\ s \in 0..(b - 1) /\ a = b * p + s
    BY Division
  <1> HIDE DEF p, s
  <1>2. ~(p + 1 <= q)
    <2> SUFFICES ASSUME p + 1 <= q PROVE FALSE
      OBVIOUS
    <2>1. b * p + b <= b * q
      BY <1>1, OneMore
    <2>2. b * p \in Nat /\ b * q \in Nat
      BY <1>1
    <2> QED BY <1>1, <2>1, <2>2
  <1>3. ~(q + 1 <= p)
    <2> SUFFICES ASSUME q + 1 <= p PROVE FALSE
      OBVIOUS
    <2>1. b * q + b <= b * p
      BY <1>1, OneMore
    <2>2. b * p \in Nat /\ b * q \in Nat
      BY <1>1
    <2> QED BY <1>1, <2>1, <2>2
  <1>4. p = q
    BY <1>1, <1>2, <1>3
  <1>5. b * p = b * q /\ b * q \in Nat
    BY <1>4
  <1>6. s = r
    BY <1>1, <1>5
  <1> QED BY <1>4, <1>6 DEF p, s

\* Of what is less than b nothing is left, and what is b more has the same remainder.
LEMMA SmallDivision ==
  ASSUME NEW b \in Nat \ {0}, NEW r \in 0..(b - 1)
  PROVE  r \div b = 0 /\ r % b = r /\ (r + b) % b = r
  <1>1. PICK z \in Nat : z = 0
    OBVIOUS
  <1>2. PICK o \in Nat : o = 1
    OBVIOUS
  <1>3. PICK a \in Nat : a = r + b
    OBVIOUS
  <1>4. PICK c \in Nat : c = r
    OBVIOUS
  <1>5. c = b * z + r /\ a = b * o + r
    BY <1>1, <1>2, <1>3, <1>4
  <1>6. c \div b = z /\ c % b = r
    BY <1>5, OneDivision
  <1>7. a % b = r
    BY <1>5, OneDivision
  <1> QED BY <1>1, <1>3, <1>4, <1>6, <1>7

\* Something is left of a number just when it is not less.
LEMMA SomethingLeft ==
  ASSUME NEW a \in Nat, NEW b \in Nat \ {0}
  PROVE  /\ a >= b => a \div b > 0
         /\ a \div b = 0 => a % b = a
  <1>1. PICK q \in Nat : q = a \div b
    BY Division
  <1>2. PICK r \in 0..(b - 1) : r = a % b
    BY Division
  <1>3. a = b * q + r
    BY <1>1, <1>2, Division
  <1>4. b * 0 = 0
    OBVIOUS
  <1>5. q = 0 => a = r
    BY <1>3, <1>4
  <1> QED BY <1>1, <1>2, <1>5

\* One digit more: what is left of u after it, and what the digits up to it make.
DigitMore(u, w, R, y) ==
  /\ u \div y = (u \div w) \div R
  /\ u % y = (u % w) + ((u \div w) % R) * w

LEMMA NextDigit ==
  ASSUME NEW u \in Nat, NEW w \in Nat \ {0}, NEW R \in Nat \ {0}, NEW y \in Nat \ {0},
         y = R * w
  PROVE  DigitMore(u, w, R, y)
  <1> DEFINE d == u \div w
             r == u % w
             e == d \div R
             s == d % R
  <1>1. d \in Nat /\ r \in 0..(w - 1) /\ u = w * d + r
    BY Division
  <1>2. e \in Nat /\ s \in 0..(R - 1) /\ d = R * e + s
    BY <1>1, Division
  <1> HIDE DEF d, r, e, s
  <1>3. w * d = w * (R * e) + w * s /\ w * (R * e) \in Nat /\ w * s \in Nat
    BY <1>2
  <1>4. w * (R * e) = y * e
    BY <1>2
  <1>5. w * s + w <= w * R /\ w * R = y
    BY <1>2, OneMore
  <1>6. u = y * e + (w * s + r) /\ w * s + r \in 0..(y - 1)
    BY <1>1, <1>3, <1>4, <1>5
  <1>7. u \div y = e /\ u % y = w * s + r
    BY <1>6, <1>2, OneDivision
  <1>8. w * s + r = r + s * w
    BY <1>1, <1>2
  <1> QED BY <1>7, <1>8 DEF d, r, e, s, DigitMore

\* Who reads the code of a number, signed or not, has the number; and it is below the limit.
LEMMA ZigzagBack ==
  ASSUME NEW v \in Int
  PROVE  EncodeZigzag(v) \in Nat /\ DecodeZigzag(EncodeZigzag(v)) = v
  <1>1. CASE v < 0
    <2>1. EncodeZigzag(v) = 2 * (-v) - 1 /\ EncodeZigzag(v) = 2 * (-v - 1) + 1
      BY <1>1 DEF EncodeZigzag
    <2>2. -v - 1 \in Nat
      BY <1>1
    <2>3. EncodeZigzag(v) \div 2 = -v - 1 /\ EncodeZigzag(v) % 2 = 1
      BY <2>1, <2>2
    <2> QED BY <2>1, <2>2, <2>3 DEF DecodeZigzag
  <1>2. CASE ~(v < 0)
    <2>1. EncodeZigzag(v) = 2 * v
      BY <1>2 DEF EncodeZigzag
    <2>2. (2 * v) \div 2 = v /\ (2 * v) % 2 = 0
      BY <1>2
    <2> QED BY <1>2, <2>1, <2>2 DEF DecodeZigzag
  <1> QED BY <1>1, <1>2

LEMMA CodeBack ==
  ASSUME NEW k \in Forms, NEW n \in Int, InRange(k, n)
  PROVE  /\ Encoded(k, n) \in Nat /\ Encoded(k, n) < Limit[Width(k)]
         /\ Decoded(k, Encoded(k, n)) = n
  <1> DEFINE l == Limit[Width(k)]
  <1>1. Width(k) \in Widths
    BY DEF Width, Widths
  <1>2. l \in Nat /\ l = 2 * (l \div 2) /\ l \div 2 \in Nat
    BY <1>1, CodingsAssumption
  <1>3. CASE k \in Signed
    <2>1. -(l \div 2) <= n /\ n < l \div 2
      BY <1>3 DEF InRange
    <2>2. Encoded(k, n) = EncodeZigzag(n) /\ \A u : Decoded(k, u) = DecodeZigzag(u)
      BY <1>3 DEF Encoded, Decoded
    <2>3. EncodeZigzag(n) < 2 * (l \div 2)
      BY <1>2, <2>1 DEF EncodeZigzag
    <2> QED BY <1>2, <2>2, <2>3, ZigzagBack
  <1>4. CASE k \notin Signed
    BY <1>2, <1>4 DEF InRange, Encoded, Decoded
  <1> QED BY <1>3, <1>4

-----------------------------------------------------------------------------
(***************************************************************************)
(* Digits                                                                  *)
(***************************************************************************)

\* The weights of the digits that a width has room for.
LEMMA Weights ==
  ASSUME NEW w \in Widths
  PROVE  /\ Room[w] \in Nat \ {0} /\ Limit[w] \in Nat /\ Limit[w] > 1
         /\ Limit[w] <= Weight[Room[w]] /\ Weight[0] = 1
         /\ \A i \in 0..Room[w] : Weight[i] \in Nat \ {0}
         /\ \A i \in 1..Room[w] : Weight[i] = Radix * Weight[i - 1]
  BY CodingsAssumption

\* What is left of a number behind a digit, and what the digits up to it make.
LEMMA DigitAfter ==
  ASSUME NEW w \in Widths, NEW i \in 0..(Room[w] - 1), NEW u \in Nat
  PROVE  /\ u \div Weight[i] \in Nat
         /\ DigitOf(u, i) \in 0..(Radix - 1)
         /\ u \div Weight[i + 1] = (u \div Weight[i]) \div Radix
         /\ u % Weight[i] \in Nat
         /\ u % Weight[i + 1] = (u % Weight[i]) + DigitOf(u, i) * Weight[i]
  <1>1. Weight[i] \in Nat \ {0} /\ Weight[i + 1] = Radix * Weight[i]
    <2>1. i \in 0..Room[w] /\ i + 1 \in 1..Room[w] /\ (i + 1) - 1 = i
      BY Weights
    <2> QED BY <2>1, Weights
  <1>2. PICK x \in Nat \ {0} : x = Weight[i]
    BY <1>1
  <1>3. PICK R \in Nat \ {0} : R = Radix
    BY CodingsAssumption
  <1>4. PICK q \in Nat : q = u \div x
    BY Division
  <1>5. u % x \in Nat
    BY Division
  <1>6. q % R \in 0..(R - 1)
    BY Division
  <1>7. PICK y \in Nat \ {0} : y = R * x
    <2>1. R * x \in Nat /\ R * x # 0
      OBVIOUS
    <2> QED BY <2>1
  <1>8. u \div y = q \div R /\ u % y = (u % x) + (q % R) * x
    <2>1. DigitMore(u, x, R, y)
      BY <1>7, NextDigit
    <2> QED BY <1>4, <2>1 DEF DigitMore
  <1>9. Weight[i] = x /\ Weight[i + 1] = y /\ u \div Weight[i] = q
    BY <1>1, <1>2, <1>3, <1>4, <1>7
  <1>10. DigitOf(u, i) = q % R
    BY <1>3, <1>9 DEF DigitOf
  <1> QED BY <1>3, <1>5, <1>6, <1>8, <1>9, <1>10

\* A part that is left is a part.
LEMMA WeightBelow ==
  ASSUME NEW x \in Nat \ {0}, NEW u \in Nat
  PROVE  u \div x \in Nat /\ u % x \in Nat /\ u % x <= u /\ (u \div x > 0 => x <= u)
  <1> DEFINE q == u \div x
             r == u % x
  <1>1. q \in Nat /\ r \in Nat /\ u = x * q + r
    BY Division
  <1> HIDE DEF q, r
  <1>2. x * q \in Nat /\ x * 0 = 0
    BY <1>1
  <1>3. q > 0 => x * 0 + x <= x * q
    BY <1>1, OneMore
  <1>4. q \in Nat /\ r \in Nat /\ r <= u /\ (q > 0 => x <= u)
    BY <1>1, <1>2, <1>3
  <1> QED BY <1>4 DEF q, r

\* As long as something is left of a number there is room, and the shift is within the width.
LEMMA RoomLeft ==
  ASSUME NEW w \in Widths, NEW i \in 0..Room[w], NEW u \in Nat, u < Limit[w],
         u \div Weight[i] > 0
  PROVE  i < Room[w] /\ Weight[i] < Limit[w]
  <1> DEFINE x == Weight[i]
  <1>1. x \in Nat \ {0} /\ Limit[w] \in Nat /\ Room[w] \in Nat
    BY Weights
  <1>2. u \div x > 0
    OBVIOUS
  <1>3. x < Limit[w] => i # Room[w]
    BY <1>1, Weights
  <1> HIDE DEF x
  <1>4. x <= u
    BY <1>1, <1>2, WeightBelow
  <1> QED BY <1>1, <1>3, <1>4 DEF x

\* A digit's share of a number is not cut off.
LEMMA NotCut ==
  ASSUME NEW w \in Widths, NEW i \in 0..(Room[w] - 1), NEW u \in Nat, u < Limit[w]
  PROVE  (DigitOf(u, i) * Weight[i]) % Limit[w] = DigitOf(u, i) * Weight[i]
  <1> DEFINE x == Weight[i]
             y == Weight[i + 1]
             d == DigitOf(u, i)
             l == Limit[w]
  <1>1. x \in Nat \ {0} /\ y \in Nat \ {0} /\ l \in Nat \ {0}
    <2>1. i \in 0..Room[w] /\ i + 1 \in 0..Room[w]
      BY Weights
    <2> QED BY <2>1, Weights
  <1>2. d \in Nat /\ u % x \in Nat /\ u % y = (u % x) + d * x
    <2>1. d \in 0..(Radix - 1) /\ Radix \in Nat
      BY DigitAfter, CodingsAssumption
    <2> QED BY <2>1, DigitAfter
  <1>3. u < l
    OBVIOUS
  <1> HIDE DEF x, y, d, l
  <1>4. u % y <= u
    BY <1>1, WeightBelow
  <1>5. d * x \in 0..(l - 1)
    <2>1. d * x \in Nat
      BY <1>1, <1>2
    <2> QED BY <1>1, <1>2, <1>3, <1>4, <2>1
  <1>6. d * x = l * 0 + d * x /\ d * x \in Nat
    BY <1>1, <1>2, <1>5
  <1>7. (d * x) % l = d * x
    BY <1>1, <1>5, <1>6, OneDivision
  <1> QED BY <1>7 DEF x, d, l

-----------------------------------------------------------------------------
(***************************************************************************)
(* The invariant                                                           *)
(***************************************************************************)

Code(r) == Encoded(r.kind, r.number)
DigitsOf(r) == r.to - Len(r.text) - r.from
Wide == Width(call.kind)

\* What a call was given, or is noted as sent.
Given(r) ==
  /\ InRange(r.kind, r.number)
  /\ IF r.kind = "string" THEN r.number = Len(r.text) ELSE r.text = <<>>

SentOK ==
  \A k \in 1..Len(sent) :
    /\ Given(sent[k]) /\ sent[k].from <= sent[k].to /\ sent[k].to <= Len(bytes)

Writing ==
  call.pc \in {"write", "append"} =>
    Given(call) /\ position = Len(bytes) /\ call.from <= position

\* The digits that are in tmp, and what is left of the number.
InTmp ==
  /\ call.value = Code(call) \div Weight[Len(call.tmp)]
  /\ \A j \in 1..Len(call.tmp) :
       Code(call) \div Weight[j - 1] >= Radix /\ call.tmp[j] = DigitOf(Code(call), j - 1) + Radix

\* And in the program as it is.
Stuck == call.value = Code(call) /\ (call.tmp # <<>> => Code(call) >= Radix)

WritesDigits ==
  call.pc = "write" =>
    /\ call.from = position /\ ~Spoilt(call.kind) /\ Len(call.tmp) <= Room[Wide]
    /\ IF asBuilt /\ Wide = 64 THEN Stuck ELSE InTmp

WritesText ==
  call.pc = "append" =>
    /\ call.kind = "string"
    /\ LET n == position - call.from IN
       Spoilt("string") \/ (n \in 1..Room[64] /\ CodedAt(bytes, call.from, n, call.number))

Reading ==
  call.pc \in {"read", "text"} => call.of # 0 /\ call.kind = sent[call.of].kind

ReadsDigits ==
  call.pc = "read" =>
    /\ call.i < Room[Wide]
    /\ LET r == sent[call.of] IN
       \/ Spoilt(call.kind)
       \/ /\ call.i < DigitsOf(r) /\ position = r.from + call.i
          /\ call.value = Code(r) % Weight[call.i]

ReadsText ==
  call.pc = "text" =>
    /\ call.kind = "string"
    /\ LET r == sent[call.of] IN
       Spoilt("string") \/ (call.value = Len(r.text) /\ position = r.from + DigitsOf(r))

Coding ==
  /\ CodingsTypeOK /\ SentOK /\ WellCoded /\ Writing /\ WritesDigits /\ WritesText
  /\ Reading /\ ReadsDigits /\ ReadsText /\ ReadsBack /\ WithinTmp

-----------------------------------------------------------------------------
(***************************************************************************)
(* What is filed: a thing that was sent, with its bytes in b               *)
(***************************************************************************)

\* A place that has the coding of r, and its text behind it.
CodedIn(b, r) ==
  /\ DigitsOf(r) \in 1..Room[Width(r.kind)]
  /\ CodedAt(b, r.from, DigitsOf(r), Code(r))
  /\ \A j \in 1..Len(r.text) : b[r.from + DigitsOf(r) + j] = r.text[j]

Filed(b, r) ==
  /\ Given(r) /\ r.from <= r.to /\ r.to <= Len(b)
  /\ Spoilt(r.kind) \/ CodedIn(b, r)

LEMMA FiledIs == SentOK /\ WellCoded <=> \A k \in 1..Len(sent) : Filed(bytes, sent[k])
  BY DEF SentOK, WellCoded, Filed, CodedIn, DigitsOf, Code

\* What a number's kind and width are.
LEMMA Coded ==
  ASSUME NEW r, r.kind \in Forms, r.number \in Int, Given(r)
  PROVE  /\ Code(r) \in Nat /\ Code(r) < Limit[Width(r.kind)] /\ Width(r.kind) \in Widths
         /\ Decoded(r.kind, Code(r)) = r.number
  BY CodeBack DEF Given, Code, Width, Widths

\* More bytes behind do not disturb it.
LEMMA StaysFiled ==
  ASSUME NEW b \in Seq(Octet), NEW s \in Seq(Octet), NEW r \in Sent, Filed(b, r)
  PROVE  Filed(b \o s, r)
  <1>1. r.from \in Nat /\ r.to \in Nat /\ Len(r.text) \in Nat /\ Width(r.kind) \in Widths
    BY DEF Sent, Width, Widths
  <1>2. Len(b \o s) = Len(b) + Len(s) /\ Len(s) \in Nat /\ Len(b) \in Nat
    BY ConcatProperties
  <1>3. \A i \in 1..Len(b) : (b \o s)[i] = b[i]
    BY ConcatProperties
  <1>4. CASE Spoilt(r.kind)
    BY <1>1, <1>2, <1>4 DEF Filed
  <1>5. CASE CodedIn(b, r)
    <2> DEFINE n == DigitsOf(r)
    <2>1. n \in 1..Room[Width(r.kind)] /\ Room[Width(r.kind)] \in Nat
      BY <1>1, <1>5, Weights DEF CodedIn
    <2>2. n \in Nat /\ r.from + n + Len(r.text) = r.to /\ r.to <= Len(b)
      BY <1>1, <2>1 DEF DigitsOf, Filed
    <2> HIDE DEF n
    <2>3. \A j \in 1..n : (b \o s)[r.from + j] = b[r.from + j]
      <3>1. r.from + n <= Len(b)
        BY <1>1, <1>2, <2>2
      <3>2. \A j \in 1..n : r.from + j \in 1..Len(b)
        BY <1>1, <1>2, <2>2, <3>1
      <3> QED BY <1>3, <3>2
    <2>4. \A j \in 1..Len(r.text) : (b \o s)[r.from + n + j] = b[r.from + n + j]
      <3>1. \A j \in 1..Len(r.text) : r.from + n + j \in 1..Len(b)
        BY <1>1, <1>2, <2>2
      <3> QED BY <1>3, <3>1
    <2>5. CodedAt(b, r.from, n, Code(r))
      BY <1>5 DEF CodedIn, n
    <2>6. CodedAt(b \o s, r.from, n, Code(r))
      BY <2>3, <2>5 DEF CodedAt
    <2>7. \A j \in 1..Len(r.text) : (b \o s)[r.from + n + j] = r.text[j]
      BY <1>5, <2>4 DEF CodedIn, n
    <2>8. CodedIn(b \o s, r)
      BY <1>5, <2>6, <2>7 DEF CodedIn, n
    <2> QED BY <1>1, <1>2, <2>8 DEF Filed
  <1> QED BY <1>4, <1>5 DEF Filed

LEMMA AllFiled ==
  ASSUME asBuilt' = asBuilt, \A k \in 1..Len(sent') : Filed(bytes', sent'[k])
  PROVE  SentOK' /\ WellCoded'
  <1>1. \A k \in 1..Len(sent') : Filed(bytes, sent[k])'
    BY DEF Filed, CodedIn, CodedAt, DigitOf, DigitsOf, Code, Given, Spoilt
  <1>2. (SentOK /\ WellCoded)' <=> (\A k \in 1..Len(sent) : Filed(bytes, sent[k]))'
    BY FiledIs, PTL
  <1> QED BY <1>1, <1>2

\* A thing more that is filed at the end.
LEMMA OneMoreFiled ==
  ASSUME CodingsTypeOK, SentOK, WellCoded, CodingsTypeOK', asBuilt' = asBuilt,
         NEW s \in Seq(Octet), bytes' = bytes \o s,
         NEW r \in Sent, sent' = Append(sent, r), Filed(bytes', r)
  PROVE  SentOK' /\ WellCoded'
  <1>0. sent \in Seq(Sent) /\ bytes \in Seq(Octet)
    BY DEF CodingsTypeOK
  <1>1. \A k \in 1..Len(sent) : sent[k] \in Sent /\ Filed(bytes, sent[k])
    <2>1. \A k \in 1..Len(sent) : Filed(bytes, sent[k])
      BY FiledIs
    <2>2. \A k \in 1..Len(sent) : sent[k] \in Sent
      BY <1>0, ElementOfSeq
    <2> QED BY <2>1, <2>2
  <1>2. \A k \in 1..Len(sent) : Filed(bytes', sent[k])
    BY <1>0, <1>1, StaysFiled
  <1>3. /\ Len(sent') = Len(sent) + 1 /\ Len(sent) \in Nat
        /\ \A k \in 1..Len(sent) : sent'[k] = sent[k]
        /\ sent'[Len(sent) + 1] = r
    BY <1>0, AppendProperties
  <1>4. \A k \in 1..Len(sent') : Filed(bytes', sent'[k])
    BY <1>2, <1>3
  <1> QED BY <1>4, AllFiled

-----------------------------------------------------------------------------
(***************************************************************************)
(* The writer                                                              *)
(***************************************************************************)

\* A call that writes knows what it writes.
LEMMA Writer ==
  ASSUME Coding, call.pc \in {"write", "append"}
  PROVE  /\ Given(call) /\ call.kind \in Forms /\ Wide \in Widths
         /\ Code(call) \in Nat /\ Code(call) < Limit[Wide]
         /\ Room[Wide] \in Nat \ {0}
         /\ bytes \in Seq(Octet) /\ call.text \in Seq(Octet) /\ call.tmp \in Seq(Octet)
         /\ Len(call.tmp) \in Nat /\ Len(call.text) \in Nat /\ Len(bytes) \in Nat
         /\ position = Len(bytes) /\ call.from \in 0..position
         /\ call.value \in Nat /\ call.number \in Int
  <1>1. Given(call) /\ call.kind \in Forms /\ call.number \in Int
    BY DEF Coding, Writing, CodingsTypeOK
  <1>2. Code(call) \in Nat /\ Code(call) < Limit[Wide] /\ Wide \in Widths
    BY <1>1, Coded DEF Wide
  <1>3. Room[Wide] \in Nat \ {0}
    BY <1>2, Weights
  <1>4. position = Len(bytes) /\ call.from <= position
    BY DEF Coding, Writing
  <1> QED BY <1>1, <1>2, <1>3, <1>4 DEF Coding, CodingsTypeOK

\* What is left of a number when nothing is gone.
LEMMA NothingGone ==
  ASSUME NEW u \in Nat
  PROVE  u \div Weight[0] = u /\ u % Weight[0] = 0
  <1>1. Weight[0] = 1
    BY CodingsAssumption
  <1>2. u \div 1 = u /\ u % 1 = 0
    OBVIOUS
  <1> QED BY <1>1, <1>2

\* When there is a last digit the program as it is is right, too.
LEMMA LastInTmp ==
  ASSUME Coding, call.pc = "write", call.value < Radix
  PROVE  InTmp
  <1>1. CASE asBuilt /\ Wide = 64
    <2>1. Stuck
      BY <1>1 DEF Coding, WritesDigits
    <2>2. Code(call) \in Nat /\ Radix \in Nat
      BY Writer, CodingsAssumption
    <2>3. call.tmp = <<>>
      BY <2>1, <2>2 DEF Stuck
    <2>4. Len(call.tmp) = 0
      BY <2>3
    <2> QED BY <2>1, <2>2, <2>4, NothingGone DEF InTmp, Stuck
  <1>2. CASE ~(asBuilt /\ Wide = 64)
    BY <1>2 DEF Coding, WritesDigits
  <1> QED BY <1>1, <1>2

\* As many digits as there is room for leave nothing.
LEMMA NeverFull ==
  ASSUME Coding, call.pc = "write", InTmp, Full
  PROVE  call.value = 0 /\ Code(call) \div Weight[Room[Wide] - 1] >= Radix
  <1> DEFINE u == Code(call)
             m == Room[Wide]
  <1>1. u \in Nat /\ u < Limit[Wide] /\ Wide \in Widths /\ m \in Nat \ {0} /\ call.value \in Nat
    BY Writer
  <1>2. Len(call.tmp) = m
    BY DEF Full, Wide
  <1>3. call.value = u \div Weight[m]
    BY <1>2 DEF InTmp
  <1>4. m \in 1..Len(call.tmp)
    BY <1>1, <1>2
  <1>5. u \div Weight[m - 1] >= Radix
    BY <1>4 DEF InTmp
  <1>6. ~(call.value > 0)
    BY <1>1, <1>3, RoomLeft
  <1> QED BY <1>1, <1>5, <1>6

LEMMA NotFull ==
  ASSUME Coding, call.pc = "write", InTmp
  PROVE  ~Full
  <1> SUFFICES ASSUME Full PROVE FALSE
    OBVIOUS
  <1> DEFINE u == Code(call)
             i == Room[Wide] - 1
  <1>1. u \in Nat /\ Wide \in Widths /\ Room[Wide] \in Nat \ {0} /\ Len(call.tmp) = i + 1
    BY Writer DEF Full, Wide
  <1>2. call.value = 0 /\ u \div Weight[i] >= Radix /\ call.value = u \div Weight[i + 1]
    BY <1>1, NeverFull DEF InTmp
  <1>3. i \in 0..(Room[Wide] - 1)
    BY <1>1
  <1>4. u \div Weight[i] \in Nat /\ u \div Weight[i + 1] = (u \div Weight[i]) \div Radix
    BY <1>1, <1>3, DigitAfter
  <1>5. PICK d \in Nat : d = u \div Weight[i]
    BY <1>4
  <1>6. d >= Radix /\ d \div Radix = 0
    BY <1>2, <1>4, <1>5
  <1>7. PICK R \in Nat \ {0} : R = Radix
    BY CodingsAssumption
  <1>8. d \in Nat /\ d >= R /\ d \div R = 0
    BY <1>6, <1>7
  <1> QED BY <1>8, SomethingLeft

\* The bytes of tmp, with the last digit, are the number's coding.
LEMMA LastDigit ==
  ASSUME Coding, call.pc = "write", call.value < Radix,
         NEW b, b = bytes \o Append(call.tmp, call.value)
  PROVE  /\ Append(call.tmp, call.value) \in Seq(Octet)
         /\ Len(Append(call.tmp, call.value)) = Len(call.tmp) + 1
         /\ b \in Seq(Octet) /\ Len(b) = Len(bytes) + Len(call.tmp) + 1
         /\ Len(call.tmp) + 1 \in 1..Room[Wide]
         /\ CodedAt(b, Len(bytes), Len(call.tmp) + 1, Code(call))
  <1> DEFINE m == Len(call.tmp)
             u == Code(call)
             v == call.value
  <1>1. /\ u \in Nat /\ Wide \in Widths /\ Room[Wide] \in Nat \ {0} /\ v \in Nat
        /\ bytes \in Seq(Octet) /\ call.tmp \in Seq(Octet) /\ m \in Nat /\ Len(bytes) \in Nat
    BY Writer
  <1>2. Radix \in Nat /\ Radix > 1 /\ v < Radix
    BY CodingsAssumption
  <1>3. InTmp
    BY LastInTmp
  <1>4. m < Room[Wide]
    <2>1. m # Room[Wide]
      BY <1>3, NotFull DEF Full, Wide
    <2>2. m <= Room[Wide]
      BY DEF Coding, WritesDigits
    <2> QED BY <1>1, <2>1, <2>2
  <1>5. v \in Octet
    BY <1>1, <1>2 DEF Octet
  <1> DEFINE s == Append(call.tmp, v)
  <1>6. /\ s \in Seq(Octet) /\ Len(s) = m + 1 /\ s[m + 1] = v
        /\ \A j \in 1..m : s[j] = call.tmp[j]
    BY <1>1, <1>5, AppendProperties
  <1>7. b = bytes \o s
    OBVIOUS
  <1> HIDE DEF s
  <1>8. /\ b \in Seq(Octet) /\ Len(b) = Len(bytes) + (m + 1)
        /\ \A j \in 1..(m + 1) : b[Len(bytes) + j] = s[j]
    <2>1. bytes \o s \in Seq(Octet) /\ Len(bytes \o s) = Len(bytes) + Len(s)
      BY <1>1, <1>6, ConcatProperties
    <2>2. ASSUME NEW j \in 1..(m + 1) PROVE b[Len(bytes) + j] = s[j]
      BY <1>1, <1>6, <1>7, ConcatProperties
    <2> QED BY <1>6, <1>7, <2>1, <2>2
  <1>9. \A j \in 1..m : u \div Weight[j - 1] >= Radix /\ call.tmp[j] = DigitOf(u, j - 1) + Radix
    BY <1>3 DEF InTmp
  <1>10. v = u \div Weight[m] /\ v = DigitOf(u, m)
    <2>1. v = u \div Weight[m]
      BY <1>3 DEF InTmp
    <2>2. v % Radix = v
      <3>1. PICK x \in Nat : x = v
        BY <1>1
      <3>2. PICK R \in Nat \ {0} : R = Radix
        BY <1>2
      <3>3. x \in 0..(R - 1) /\ x = R * 0 + x
        BY <1>2, <3>1, <3>2
      <3>4. x % R = x
        BY <3>3, OneDivision
      <3> QED BY <3>1, <3>2, <3>4
    <2> QED BY <2>1, <2>2 DEF DigitOf
  <1>11. CodedAt(b, Len(bytes), m + 1, u)
    <2>1. ASSUME NEW j \in 1..(m + 1)
          PROVE  b[Len(bytes) + j] = DigitOf(u, j - 1) + (IF j < m + 1 THEN Radix ELSE 0)
      <3>1. CASE j \in 1..m
        <4>1. j < m + 1
          BY <1>1, <3>1
        <4> QED BY <1>6, <1>8, <1>9, <3>1, <4>1
      <3>2. CASE j = m + 1
        <4>1. j - 1 = m /\ ~(j < m + 1)
          BY <1>1, <3>2
        <4>2. b[Len(bytes) + j] = v
          BY <1>6, <1>8, <3>2
        <4> QED BY <1>1, <1>10, <4>1, <4>2
      <3> QED BY <1>1, <3>1, <3>2
    <2>2. ASSUME NEW j \in 1..(m + 1)
          PROVE  u \div Weight[j - 1] < Radix <=> j = m + 1
      <3>1. CASE j \in 1..m
        <4>1. u \div Weight[j - 1] \in Nat
          <5>1. PICK i \in 0..(Room[Wide] - 1) : i = j - 1
            BY <1>1, <1>4, <3>1
          <5>2. u \div Weight[i] \in Nat
            BY <1>1, DigitAfter
          <5> QED BY <5>1, <5>2
        <4> QED BY <1>1, <1>2, <1>9, <3>1, <4>1
      <3>2. CASE j = m + 1
        <4>1. j - 1 = m
          BY <1>1, <3>2
        <4> QED BY <1>2, <1>10, <3>2, <4>1
      <3> QED BY <1>1, <3>1, <3>2
    <2> QED BY <2>1, <2>2 DEF CodedAt
  <1> QED BY <1>1, <1>4, <1>6, <1>8, <1>11 DEF s

-----------------------------------------------------------------------------
(***************************************************************************)
(* The steps of a writer                                                   *)
(***************************************************************************)

\* Who does not read says nothing of reading, and what was read last stays true.
LEMMA WriterReads ==
  ASSUME Coding, CodingsTypeOK', asBuilt' = asBuilt, got' = got,
         call'.pc \in {"idle", "write", "append", "overrun"},
         sent' = sent \/ \E r : sent' = Append(sent, r)
  PROVE  Reading' /\ ReadsDigits' /\ ReadsText' /\ ReadsBack'
  <1>1. sent \in Seq(Sent) /\ got.of \in 0..Len(sent) /\ Len(sent) \in Nat
    BY DEF Coding, CodingsTypeOK
  <1>2. got.of # 0 => sent'[got.of] = sent[got.of]
    <2>1. CASE sent' = sent
      BY <2>1
    <2>2. ASSUME NEW r, sent' = Append(sent, r) PROVE got.of # 0 => sent'[got.of] = sent[got.of]
      BY <1>1, <2>2
    <2> QED BY <2>1, <2>2
  <1>3. ReadsBack'
    BY <1>2 DEF Coding, ReadsBack, Spoilt
  <1> QED BY <1>3 DEF Reading, ReadsDigits, ReadsText

LEMMA BeginKeeps ==
  ASSUME Coding, NEW k \in Forms, NEW n \in Int, NEW s \in Seq(Octet), Begin(k, n, s),
         InRange(k, n), IF k = "string" THEN n = Len(s) ELSE s = <<>>
  PROVE  Coding'
  <1> DEFINE fixed == asBuilt /\ k = "string"
             f == Fixed(n)
  <1>1. CodingsTypeOK /\ bytes \in Seq(Octet) /\ position = Len(bytes) /\ Len(bytes) \in Nat
        /\ call.pc = "idle"
    BY DEF Coding, CodingsTypeOK, Begin
  <1>2. asBuilt' = asBuilt /\ sent' = sent /\ got' = got
    BY DEF Begin
  <1>3. Encoded(k, n) \in Nat /\ Width(k) \in Widths
    BY CodeBack DEF Width, Widths
  <1>4. call' = [pc |-> IF fixed THEN "append" ELSE "write", kind |-> k, number |-> n,
                 text |-> s, from |-> position, value |-> Encoded(k, n), tmp |-> <<>>,
                 i |-> 0, of |-> 0]
    BY DEF Begin, NoCall
  <1>5. fixed => f \in Seq(Octet)
    <2> SUFFICES ASSUME fixed PROVE f \in Seq(Octet)
      OBVIOUS
    <2> SUFFICES ASSUME NEW j \in 1..FixedSize
                 PROVE  (n \div ByteWeight[FixedSize - j]) % (2 * Radix) \in Octet
      BY CodingsAssumption DEF Fixed
    <2>0. n \in Nat
      BY DEF fixed
    <2>1. PICK q \in Nat : q = n \div ByteWeight[FixedSize - j]
      <3>1. FixedSize - j \in 0..(FixedSize - 1) /\ FixedSize \in Nat
        BY CodingsAssumption
      <3>2. ByteWeight[FixedSize - j] \in Nat \ {0}
        BY <3>1, CodingsAssumption
      <3>3. n \div ByteWeight[FixedSize - j] \in Nat
        BY <2>0, <3>2, Division
      <3> QED BY <3>3
    <2>2. PICK b \in Nat \ {0} : b = 2 * Radix
      <3>1. 2 * Radix \in Nat \ {0}
        BY CodingsAssumption
      <3> QED BY <3>1
    <2>3. q % b \in 0..(b - 1)
      BY Division
    <2> QED BY <2>1, <2>2, <2>3 DEF Octet
  <1>6. /\ fixed => bytes' = bytes \o f /\ position' = position + Len(f)
        /\ ~fixed => bytes' = bytes /\ position' = position
    BY DEF Begin, Appended
  <1> HIDE DEF f
  <1>7. /\ bytes' \in Seq(Octet) /\ Len(bytes') \in Nat /\ position' = Len(bytes')
        /\ position <= position'
    <2>1. CASE fixed
      <3>1. Len(bytes \o f) = Len(bytes) + Len(f) /\ bytes \o f \in Seq(Octet) /\ Len(f) \in Nat
        BY <1>1, <1>5, <2>1, ConcatProperties
      <3>2. bytes' = bytes \o f /\ position' = position + Len(f)
        BY <1>6, <2>1
      <3>3. bytes' \in Seq(Octet) /\ Len(bytes') = Len(bytes) + Len(f)
        BY <3>1, <3>2
      <3> QED BY <1>1, <3>1, <3>2, <3>3
    <2>2. CASE ~fixed
      BY <1>1, <1>6, <2>2
    <2> QED BY <2>1, <2>2
  <1>8. CodingsTypeOK'
    <2>1. call' \in [pc : Places, kind : Forms, number : Int, text : Seq(Octet), from : Nat,
                     value : Nat, tmp : Seq(Octet), i : Nat, of : 0..Len(sent)]
      BY <1>1, <1>3, <1>4 DEF Places, CodingsTypeOK
    <2> QED BY <1>1, <1>2, <1>7, <2>1 DEF CodingsTypeOK
  <1>9. SentOK' /\ WellCoded'
    <2>1. \A j \in 1..Len(sent) : sent[j] \in Sent /\ Filed(bytes, sent[j])
      <3>1. \A j \in 1..Len(sent) : Filed(bytes, sent[j])
        BY FiledIs DEF Coding
      <3>2. \A j \in 1..Len(sent) : sent[j] \in Sent
        BY <1>1, ElementOfSeq DEF CodingsTypeOK
      <3> QED BY <3>1, <3>2
    <2>2. \A j \in 1..Len(sent) : Filed(bytes', sent[j])
      <3>1. CASE fixed
        BY <1>1, <1>5, <1>6, <2>1, <3>1, StaysFiled
      <3>2. CASE ~fixed
        BY <1>6, <2>1, <3>2
      <3> QED BY <3>1, <3>2
    <2> QED BY <1>2, <2>2, AllFiled
  <1>10. Given(call')
    BY <1>4 DEF Given
  <1>11. Writing'
    BY <1>4, <1>7, <1>10, <1>1 DEF Writing, Given
  <1>12. WritesDigits'
    <2> SUFFICES ASSUME ~fixed PROVE WritesDigits'
      BY <1>4 DEF WritesDigits
    <2>1. ~Spoilt(k)
      BY DEF Spoilt
    <2>2. Len(<<>>) = 0 /\ Room[Width(k)] \in Nat
      BY <1>3, Weights
    <2>3. call'.value = Code(call') \div Weight[Len(call'.tmp)] /\ call'.value = Code(call')
      BY <1>3, <1>4, <2>2, NothingGone DEF Code
    <2>4. InTmp' /\ Stuck'
      BY <1>4, <2>2, <2>3 DEF InTmp, Stuck, Code, DigitOf
    <2> QED BY <1>2, <1>4, <1>6, <2>1, <2>2, <2>4 DEF WritesDigits, Wide, Spoilt
  <1>13. WritesText'
    BY <1>2, <1>4 DEF WritesText, Spoilt
  <1>14. WithinTmp'
    BY <1>4 DEF WithinTmp
  <1>15. Reading' /\ ReadsDigits' /\ ReadsText' /\ ReadsBack'
    BY <1>2, <1>4, <1>8, WriterReads
  <1> QED BY <1>8, <1>9, <1>11, <1>12, <1>13, <1>14, <1>15 DEF Coding

LEMMA WriteDigitKeeps ==
  ASSUME Coding, WriteDigit
  PROVE  Coding'
  <1> DEFINE m == Len(call.tmp)
             u == Code(call)
             v == call.value
             stays == asBuilt /\ Wide = 64
             d == (v % Radix) + Radix
             w == IF stays THEN v ELSE v \div Radix
  <1>1. CodingsTypeOK /\ call.pc = "write" /\ v >= Radix
    BY DEF Coding, WriteDigit
  <1>2. /\ bytes' = bytes /\ position' = position /\ sent' = sent /\ got' = got
        /\ asBuilt' = asBuilt
    BY DEF WriteDigit
  <1>3. /\ u \in Nat /\ u < Limit[Wide] /\ Wide \in Widths /\ Room[Wide] \in Nat \ {0}
        /\ v \in Nat /\ m \in Nat /\ call.tmp \in Seq(Octet)
    BY <1>1, Writer
  <1>4. Radix \in Nat /\ Radix > 1
    BY CodingsAssumption
  <1>5. IF stays THEN Stuck ELSE InTmp
    BY <1>1 DEF Coding, WritesDigits
  <1>6. v % Radix \in 0..(Radix - 1) /\ v \div Radix \in Nat
    <2>1. PICK x \in Nat : x = v
      BY <1>3
    <2>2. PICK R \in Nat \ {0} : R = Radix
      BY <1>4
    <2>3. x % R \in 0..(R - 1) /\ x \div R \in Nat
      BY Division
    <2> QED BY <2>1, <2>2, <2>3
  <1>7. d \in Octet /\ w \in Nat
    BY <1>3, <1>4, <1>6 DEF Octet
  <1>8. \/ Full /\ call' = [call EXCEPT !.pc = "overrun"]
        \/ ~Full /\ call' = [call EXCEPT !.tmp = Append(call.tmp, d), !.value = w]
    BY <1>1 DEF WriteDigit, WithMore, Shifted, Wide
  <1>9. /\ Append(call.tmp, d) \in Seq(Octet) /\ Len(Append(call.tmp, d)) = m + 1
        /\ Append(call.tmp, d)[m + 1] = d
        /\ \A j \in 1..m : Append(call.tmp, d)[j] = call.tmp[j]
    BY <1>3, <1>7, AppendProperties
  <1>10. SentOK' /\ WellCoded'
    BY <1>2 DEF Coding, SentOK, WellCoded, CodedAt, DigitOf, Encoded, Given, Spoilt
  <1> HIDE DEF d, w
  <1>11. CASE Full /\ call' = [call EXCEPT !.pc = "overrun"]
    <2>1. /\ call'.pc = "overrun" /\ call'.kind = call.kind /\ call'.number = call.number
      BY <1>1, <1>11 DEF CodingsTypeOK
    <2>2. CodingsTypeOK'
      BY <1>1, <1>2, <1>11 DEF CodingsTypeOK, Places
    <2>3. stays
      <3> SUFFICES ASSUME ~stays PROVE FALSE
        OBVIOUS
      <3>1. InTmp
        BY <1>5
      <3> QED BY <1>1, <1>11, <3>1, NotFull
    <2>4. u >= Radix
      BY <1>1, <1>5, <2>3 DEF Stuck
    <2>5. WithinTmp'
      BY <1>2, <2>1, <2>3, <2>4 DEF WithinTmp, Code, Wide
    <2>6. Reading' /\ ReadsDigits' /\ ReadsText' /\ ReadsBack'
      BY <1>2, <2>1, <2>2, WriterReads
    <2> QED BY <1>10, <2>1, <2>2, <2>5, <2>6 DEF Coding, Writing, WritesDigits, WritesText
  <1>12. CASE ~Full /\ call' = [call EXCEPT !.tmp = Append(call.tmp, d), !.value = w]
    <2>1. /\ call'.pc = "write" /\ call'.kind = call.kind /\ call'.number = call.number
          /\ call'.text = call.text /\ call'.from = call.from
          /\ call'.tmp = Append(call.tmp, d) /\ call'.value = w
      BY <1>1, <1>12 DEF CodingsTypeOK
    <2>2. CodingsTypeOK'
      <3>1. call' \in [pc : Places, kind : Forms, number : Int, text : Seq(Octet), from : Nat,
                       value : Nat, tmp : Seq(Octet), i : Nat, of : 0..Len(sent)]
        BY <1>1, <1>7, <1>9, <1>12 DEF CodingsTypeOK
      <3> QED BY <1>1, <1>2, <3>1 DEF CodingsTypeOK
    <2>3. WithinTmp'
      BY <2>1 DEF WithinTmp
    <2>4. Reading' /\ ReadsDigits' /\ ReadsText' /\ ReadsBack'
      BY <1>2, <2>1, <2>2, WriterReads
    <2>5. Code(call') = u /\ (Given(call) => Given(call'))
      BY <2>1 DEF Code, Given
    <2>6. Writing'
      BY <1>1, <1>2, <2>1, <2>5 DEF Coding, Writing, Given
    <2>7. m < Room[Wide]
      <3>1. m <= Room[Wide] /\ m # Room[Wide]
        BY <1>1, <1>12 DEF Coding, WritesDigits, Full, Wide
      <3> QED BY <1>3, <3>1
    <2>8. Len(call'.tmp) = m + 1 /\ m + 1 <= Room[Wide]
      BY <1>3, <1>9, <2>1, <2>7
    <2>9. CASE stays
      <3>1. v = u
        BY <1>5, <2>9 DEF Stuck
      <3>2. Code(call') = u /\ call'.value = u /\ u >= Radix
        BY <1>1, <2>1, <2>5, <2>9, <3>1 DEF w
      <3>3. Stuck'
        BY <3>2 DEF Stuck, Code
      <3> QED BY <1>1, <1>2, <1>10, <2>1, <2>2, <2>3, <2>4, <2>6, <2>8, <2>9, <3>3
             DEF Coding, WritesDigits, WritesText, Wide, Spoilt
    <2>10. CASE ~stays
      <3>1. v = u \div Weight[m]
            /\ \A j \in 1..m : u \div Weight[j - 1] >= Radix /\ call.tmp[j] = DigitOf(u, j - 1) + Radix
        BY <1>5, <2>10 DEF InTmp
      <3>2. u \div Weight[m + 1] = v \div Radix
        <4>1. PICK i \in 0..(Room[Wide] - 1) : i = m
          BY <1>3, <2>7
        <4>2. u \div Weight[i + 1] = (u \div Weight[i]) \div Radix
          BY <1>3, DigitAfter
        <4> QED BY <3>1, <4>1, <4>2
      <3>3. call'.value = u \div Weight[m + 1]
        BY <2>1, <2>10, <3>2 DEF w
      <3>4. ASSUME NEW j \in 1..(m + 1)
            PROVE  u \div Weight[j - 1] >= Radix /\ call'.tmp[j] = DigitOf(u, j - 1) + Radix
        <4>1. CASE j \in 1..m
          BY <1>9, <2>1, <3>1, <4>1
        <4>2. CASE j = m + 1
          <5>1. j - 1 = m /\ call'.tmp[j] = d
            BY <1>3, <1>9, <2>1, <4>2
          <5>2. d = DigitOf(u, m) + Radix
            BY <3>1 DEF d, DigitOf
          <5> QED BY <1>1, <3>1, <5>1, <5>2
        <4> QED BY <1>3, <4>1, <4>2
      <3>5. InTmp'
        <4>1. /\ call'.value = Code(call') \div Weight[Len(call'.tmp)]
              /\ \A j \in 1..Len(call'.tmp) :
                   Code(call') \div Weight[j - 1] >= Radix /\ call'.tmp[j] = DigitOf(Code(call'), j - 1) + Radix
          BY <2>5, <2>8, <3>3, <3>4
        <4> QED BY <4>1 DEF InTmp, Code, DigitOf
      <3> QED BY <1>1, <1>2, <1>10, <2>1, <2>2, <2>3, <2>4, <2>6, <2>8, <2>10, <3>5
             DEF Coding, WritesDigits, WritesText, Wide, Spoilt
    <2> QED BY <2>9, <2>10
  <1> QED BY <1>8, <1>11, <1>12

LEMMA WriteLastKeeps ==
  ASSUME Coding, WriteLast
  PROVE  Coding'
  <1> DEFINE m == Len(call.tmp)
             u == Code(call)
             s == Append(call.tmp, call.value)
  <1>1. CodingsTypeOK /\ call.pc = "write" /\ call.value < Radix
    BY DEF Coding, WriteLast
  <1>2. ~Full
    BY <1>1, LastInTmp, NotFull
  <1>3. /\ Given(call) /\ call.kind \in Forms /\ call.number \in Int
        /\ bytes \in Seq(Octet) /\ call.text \in Seq(Octet) /\ m \in Nat /\ Len(bytes) \in Nat
        /\ position = Len(bytes)
    BY <1>1, Writer
  <1>4. /\ s \in Seq(Octet) /\ Len(s) = m + 1
        /\ bytes \o s \in Seq(Octet) /\ Len(bytes \o s) = Len(bytes) + m + 1
        /\ m + 1 \in 1..Room[Wide]
        /\ CodedAt(bytes \o s, Len(bytes), m + 1, u)
    BY <1>1, LastDigit
  <1>5. asBuilt' = asBuilt /\ got' = got /\ bytes' = bytes \o s /\ position' = position + Len(s)
    BY <1>2 DEF WriteLast, Appended
  <1>6. \/ call.kind = "string" /\ call' = [call EXCEPT !.pc = "append"] /\ sent' = sent
        \/ call.kind # "string" /\ call' = NoCall /\ sent' = Append(sent, Wrote)
    BY <1>2 DEF WriteLast
  <1>7. call.from = position /\ ~Spoilt(call.kind)
    BY <1>1 DEF Coding, WritesDigits
  <1> HIDE DEF s
  <1>8. /\ bytes' \in Seq(Octet) /\ Len(bytes') = Len(bytes) + m + 1
        /\ position' = Len(bytes') /\ position' \in Nat
    BY <1>3, <1>4, <1>5
  <1>9. CASE call.kind = "string" /\ call' = [call EXCEPT !.pc = "append"] /\ sent' = sent
    <2>1. /\ call'.pc = "append" /\ call'.kind = "string" /\ call'.number = call.number
          /\ call'.text = call.text /\ call'.from = call.from
      BY <1>1, <1>9 DEF CodingsTypeOK
    <2>2. CodingsTypeOK'
      <3>1. call' \in [pc : Places, kind : Forms, number : Int, text : Seq(Octet), from : Nat,
                       value : Nat, tmp : Seq(Octet), i : Nat, of : 0..Len(sent)]
        BY <1>1, <1>9 DEF CodingsTypeOK, Places
      <3>2. position' \in 0..Len(bytes')
        BY <1>8
      <3> QED BY <1>1, <1>5, <1>8, <1>9, <3>1, <3>2 DEF CodingsTypeOK
    <2>3. \A k \in 1..Len(sent) : Filed(bytes', sent[k])
      <3>1. \A k \in 1..Len(sent) : sent[k] \in Sent
        BY <1>1, ElementOfSeq DEF CodingsTypeOK
      <3>2. \A k \in 1..Len(sent) : Filed(bytes, sent[k])
        BY FiledIs DEF Coding
      <3> QED BY <1>3, <1>4, <1>5, <3>1, <3>2, StaysFiled
    <2>4. SentOK' /\ WellCoded'
      BY <1>5, <1>9, <2>3, AllFiled
    <2>5. Writing'
      <3>1. Given(call')
        BY <1>3, <2>1, <1>9 DEF Given
      <3>2. call.from <= position'
        BY <1>3, <1>7, <1>8
      <3> QED BY <1>8, <2>1, <3>1, <3>2 DEF Writing, Given
    <2>6. WritesText'
      <3>1. position' - call.from = m + 1 /\ Wide = 64 /\ u = call.number
        BY <1>3, <1>7, <1>8, <1>9 DEF Wide, Width, Code, Encoded, Signed
      <3>2. m + 1 \in 1..Room[64] /\ CodedAt(bytes', call.from, m + 1, call.number)
        BY <1>3, <1>4, <1>5, <1>7, <3>1
      <3> QED BY <2>1, <3>1, <3>2 DEF WritesText, CodedAt, DigitOf
    <2>7. Reading' /\ ReadsDigits' /\ ReadsText' /\ ReadsBack'
      BY <1>5, <1>9, <2>1, <2>2, WriterReads
    <2> QED BY <2>1, <2>2, <2>4, <2>5, <2>6, <2>7 DEF Coding, WritesDigits, WithinTmp
  <1>10. CASE call.kind # "string" /\ call' = NoCall /\ sent' = Append(sent, Wrote)
    <2> DEFINE r == Wrote
    <2>1. /\ r.kind = call.kind /\ r.number = call.number /\ r.text = call.text
          /\ r.from = Len(bytes) /\ r.to = Len(bytes) + m + 1
      BY <1>3, <1>7, <1>8 DEF Wrote
    <2>2. r \in Sent
      BY <1>1, <1>3, <1>8 DEF Wrote, Sent, CodingsTypeOK
    <2> HIDE DEF r
    <2>3. call'.pc = "idle" /\ call' \in [pc : Places, kind : Forms, number : Int,
            text : Seq(Octet), from : Nat, value : Nat, tmp : Seq(Octet), i : Nat, of : {0}]
      BY <1>10 DEF NoCall, Places, Forms
    <2>4. CodingsTypeOK'
      <3>1. sent \in Seq(Sent) /\ got.of \in 0..Len(sent) /\ Len(sent) \in Nat
        BY <1>1 DEF CodingsTypeOK
      <3>2. sent' \in Seq(Sent) /\ Len(sent') = Len(sent) + 1
        BY <1>10, <2>2, <3>1, AppendProperties DEF r
      <3>3. got' \in [of : 0..Len(sent'), number : Int, text : Seq(Octet), end : Nat]
        <4>1. got \in [of : 0..Len(sent), number : Int, text : Seq(Octet), end : Nat]
          BY <1>1 DEF CodingsTypeOK
        <4>2. 0..Len(sent) \subseteq 0..Len(sent')
          BY <3>1, <3>2
        <4> QED BY <1>5, <4>1, <4>2
      <3>4. call' \in [pc : Places, kind : Forms, number : Int, text : Seq(Octet), from : Nat,
                       value : Nat, tmp : Seq(Octet), i : Nat, of : 0..Len(sent')]
        BY <2>3, <3>1, <3>2
      <3> QED BY <1>1, <1>5, <1>8, <3>2, <3>3, <3>4 DEF CodingsTypeOK
    <2>5. Filed(bytes', r)
      <3>1. Given(r) /\ Code(r) = u
        BY <1>3, <2>1 DEF Given, Code
      <3>2. r.text = <<>> /\ Len(r.text) = 0
        BY <1>3, <1>10, <2>1 DEF Given
      <3>3. DigitsOf(r) = m + 1
        BY <1>3, <2>1, <3>2 DEF DigitsOf
      <3>4. CodedIn(bytes', r)
        BY <1>4, <1>5, <2>1, <3>1, <3>2, <3>3 DEF CodedIn, Wide
      <3>5. r.from <= r.to /\ r.to <= Len(bytes')
        BY <1>3, <1>8, <2>1
      <3> QED BY <3>1, <3>4, <3>5 DEF Filed
    <2>6. SentOK' /\ WellCoded'
      BY <1>1, <1>4, <1>5, <1>10, <2>2, <2>4, <2>5, OneMoreFiled DEF Coding, r
    <2>7. Reading' /\ ReadsDigits' /\ ReadsText' /\ ReadsBack'
      BY <1>5, <1>10, <2>3, <2>4, WriterReads
    <2> QED BY <2>3, <2>4, <2>6, <2>7 DEF Coding, Writing, WritesDigits, WritesText, WithinTmp
  <1> QED BY <1>6, <1>9, <1>10

LEMMA WriteTextKeeps ==
  ASSUME Coding, WriteText
  PROVE  Coding'
  <1> DEFINE r == Wrote
             t == call.text
             n == position - call.from
  <1>1. CodingsTypeOK /\ call.pc = "append" /\ call.kind = "string"
    BY DEF Coding, WriteText, WritesText
  <1>2. /\ asBuilt' = asBuilt /\ got' = got /\ call' = NoCall /\ sent' = Append(sent, Wrote)
        /\ bytes' = bytes \o t /\ position' = position + Len(t)
    BY DEF WriteText, Appended
  <1>3. /\ Given(call) /\ call.number \in Int
        /\ bytes \in Seq(Octet) /\ t \in Seq(Octet) /\ Len(t) \in Nat /\ Len(bytes) \in Nat
        /\ position = Len(bytes) /\ call.from \in 0..position
    BY <1>1, Writer
  <1>4. call.number = Len(t)
    BY <1>1, <1>3 DEF Given
  <1>5. /\ bytes' \in Seq(Octet) /\ Len(bytes') = Len(bytes) + Len(t)
        /\ position' = Len(bytes') /\ position' \in Nat
        /\ \A i \in 1..Len(bytes) : bytes'[i] = bytes[i]
        /\ \A j \in 1..Len(t) : bytes'[Len(bytes) + j] = t[j]
    <2>1. /\ bytes \o t \in Seq(Octet) /\ Len(bytes \o t) = Len(bytes) + Len(t)
          /\ \A i \in 1..Len(bytes) : (bytes \o t)[i] = bytes[i]
          /\ \A j \in 1..Len(t) : (bytes \o t)[Len(bytes) + j] = t[j]
      BY <1>3, ConcatProperties
    <2> QED BY <1>2, <1>3, <2>1
  <1>6. /\ r.kind = "string" /\ r.number = call.number /\ r.text = t
        /\ r.from = call.from /\ r.to = Len(bytes) + Len(t)
    BY <1>1, <1>5 DEF Wrote
  <1>7. r \in Sent
    BY <1>1, <1>3, <1>5 DEF Wrote, Sent, CodingsTypeOK
  <1> HIDE DEF r, t
  <1>8. call'.pc = "idle" /\ call' \in [pc : Places, kind : Forms, number : Int,
          text : Seq(Octet), from : Nat, value : Nat, tmp : Seq(Octet), i : Nat, of : {0}]
    BY <1>2 DEF NoCall, Places, Forms
  <1>9. CodingsTypeOK'
    <2>1. sent \in Seq(Sent) /\ got.of \in 0..Len(sent) /\ Len(sent) \in Nat
      BY <1>1 DEF CodingsTypeOK
    <2>2. sent' \in Seq(Sent) /\ Len(sent') = Len(sent) + 1
      BY <1>2, <1>7, <2>1, AppendProperties DEF r
    <2>3. got' \in [of : 0..Len(sent'), number : Int, text : Seq(Octet), end : Nat]
      <3>1. got \in [of : 0..Len(sent), number : Int, text : Seq(Octet), end : Nat]
        BY <1>1 DEF CodingsTypeOK
      <3>2. 0..Len(sent) \subseteq 0..Len(sent')
        BY <2>1, <2>2
      <3> QED BY <1>2, <3>1, <3>2
    <2>4. call' \in [pc : Places, kind : Forms, number : Int, text : Seq(Octet), from : Nat,
                     value : Nat, tmp : Seq(Octet), i : Nat, of : 0..Len(sent')]
      BY <1>8, <2>1, <2>2
    <2> QED BY <1>1, <1>2, <1>5, <2>2, <2>3, <2>4 DEF CodingsTypeOK
  <1>10. Filed(bytes', r)
    <2>1. Given(r) /\ Code(r) = call.number
      BY <1>1, <1>3, <1>6 DEF Given, Code, Encoded, Signed, t
    <2>2. DigitsOf(r) = n /\ n \in Nat
      BY <1>3, <1>6 DEF DigitsOf
    <2>3. r.from <= r.to /\ r.to <= Len(bytes')
      BY <1>3, <1>5, <1>6
    <2>4. CASE Spoilt("string")
      BY <1>6, <2>1, <2>3, <2>4 DEF Filed
    <2>5. CASE ~Spoilt("string")
      <3>1. n \in 1..Room[64] /\ CodedAt(bytes, call.from, n, call.number)
        BY <1>1, <2>5 DEF Coding, WritesText
      <3>2. \A j \in 1..n : bytes'[call.from + j] = bytes[call.from + j]
        <4>1. \A j \in 1..n : call.from + j \in 1..Len(bytes)
          BY <1>3, <2>2
        <4> QED BY <1>5, <4>1
      <3>3. CodedAt(bytes', call.from, n, call.number)
        BY <3>1, <3>2 DEF CodedAt
      <3>4. \A j \in 1..Len(r.text) : bytes'[r.from + n + j] = r.text[j]
        <4>1. r.from + n = Len(bytes) /\ r.text = t
          BY <1>3, <1>6
        <4> QED BY <1>5, <4>1
      <3>5. Width("string") = 64
        BY DEF Width
      <3>6. CodedIn(bytes', r)
        BY <1>6, <2>1, <2>2, <3>1, <3>3, <3>4, <3>5 DEF CodedIn
      <3> QED BY <2>1, <2>3, <3>6 DEF Filed
    <2> QED BY <2>4, <2>5
  <1>11. SentOK' /\ WellCoded'
    BY <1>1, <1>2, <1>3, <1>7, <1>9, <1>10, OneMoreFiled DEF Coding, r
  <1>12. Reading' /\ ReadsDigits' /\ ReadsText' /\ ReadsBack'
    BY <1>2, <1>8, <1>9, WriterReads
  <1> QED BY <1>8, <1>9, <1>11, <1>12 DEF Coding, Writing, WritesDigits, WritesText, WithinTmp

-----------------------------------------------------------------------------
(***************************************************************************)
(* The steps of a reader                                                   *)
(***************************************************************************)

\* Who does not write says nothing of writing, and what was sent stays.
LEMMA ReaderWrites ==
  ASSUME Coding, asBuilt' = asBuilt, bytes' = bytes, sent' = sent,
         call'.pc \in {"idle", "read", "text", "thrown"}
  PROVE  /\ SentOK' /\ WellCoded' /\ Writing' /\ WritesDigits' /\ WritesText' /\ WithinTmp'
  <1>1. SentOK' /\ WellCoded'
    BY DEF Coding, SentOK, WellCoded, CodedAt, DigitOf, Encoded, Given, Spoilt
  <1> QED BY <1>1 DEF Writing, WritesDigits, WritesText, WithinTmp

\* What was sent is filed.
LEMMA SentIs ==
  ASSUME Coding, NEW k \in 1..Len(sent)
  PROVE  /\ sent[k] \in Sent /\ Filed(bytes, sent[k])
         /\ bytes \in Seq(Octet) /\ Len(bytes) \in Nat /\ position \in 0..Len(bytes)
         /\ Code(sent[k]) \in Nat /\ Code(sent[k]) < Limit[Width(sent[k].kind)]
         /\ Width(sent[k].kind) \in Widths
         /\ Decoded(sent[k].kind, Code(sent[k])) = sent[k].number
  <1>1. sent \in Seq(Sent) /\ bytes \in Seq(Octet) /\ position \in 0..Len(bytes)
    BY DEF Coding, CodingsTypeOK
  <1>2. sent[k] \in Sent
    BY <1>1, ElementOfSeq
  <1>3. Filed(bytes, sent[k])
    BY FiledIs DEF Coding
  <1>4. sent[k].kind \in Forms /\ sent[k].number \in Int /\ Given(sent[k])
    BY <1>2, <1>3 DEF Sent, Filed
  <1> QED BY <1>1, <1>2, <1>3, <1>4, Coded

LEMMA SeekKeeps ==
  ASSUME Coding, NEW p \in 0..Len(bytes), Seek(p)
  PROVE  Coding'
  <1>1. /\ asBuilt' = asBuilt /\ bytes' = bytes /\ sent' = sent /\ call' = call /\ got' = got
        /\ position' = p /\ call.pc = "idle"
    BY DEF Seek
  <1>2. CodingsTypeOK'
    BY <1>1 DEF Coding, CodingsTypeOK
  <1>3. /\ SentOK' /\ WellCoded' /\ Writing' /\ WritesDigits' /\ WritesText' /\ WithinTmp'
    BY <1>1, ReaderWrites
  <1>4. ReadsBack'
    BY <1>1 DEF Coding, ReadsBack, Spoilt
  <1> QED BY <1>1, <1>2, <1>3, <1>4 DEF Coding, Reading, ReadsDigits, ReadsText

LEMMA BeginReadKeeps ==
  ASSUME Coding, NEW k \in 1..Len(sent), BeginRead(k)
  PROVE  Coding'
  <1> DEFINE r == sent[k]
  <1>1. /\ asBuilt' = asBuilt /\ bytes' = bytes /\ sent' = sent /\ got' = got
        /\ position' = position /\ position = r.from
        /\ call' = [NoCall EXCEPT !.pc = "read", !.kind = r.kind, !.of = k]
    BY DEF BeginRead
  <1>2. call' = [pc |-> "read", kind |-> r.kind, number |-> 0, text |-> <<>>, from |-> 0,
                 value |-> 0, tmp |-> <<>>, i |-> 0, of |-> k]
    BY <1>1 DEF NoCall
  <1>3. /\ r \in Sent /\ Filed(bytes, r) /\ Code(r) \in Nat /\ Width(r.kind) \in Widths
    BY SentIs
  <1>4. r.kind \in Forms /\ r.from \in Nat /\ Room[Width(r.kind)] \in Nat \ {0}
    BY <1>3, Weights DEF Sent
  <1> HIDE DEF r
  <1>5. CodingsTypeOK'
    <2>1. call' \in [pc : Places, kind : Forms, number : Int, text : Seq(Octet), from : Nat,
                     value : Nat, tmp : Seq(Octet), i : Nat, of : 0..Len(sent)]
      BY <1>2, <1>4 DEF Places
    <2> QED BY <1>1, <2>1 DEF Coding, CodingsTypeOK
  <1>6. call'.pc = "read" /\ call'.kind = r.kind /\ call'.of = k /\ call'.i = 0 /\ call'.value = 0
    BY <1>2
  <1>7. /\ SentOK' /\ WellCoded' /\ Writing' /\ WritesDigits' /\ WritesText' /\ WithinTmp'
    BY <1>1, <1>6, ReaderWrites
  <1>8. ReadsBack'
    BY <1>1, <1>6 DEF Coding, ReadsBack, Spoilt
  <1>9. sent'[call'.of] = r /\ call'.of # 0
    BY <1>1, <1>6 DEF r
  <1>10. Spoilt(r.kind) \/ (0 < DigitsOf(r) /\ Code(r) % Weight[0] = 0)
    <2>1. CASE CodedIn(bytes, r)
      <3>1. DigitsOf(r) \in 1..Room[Width(r.kind)]
        BY <2>1 DEF CodedIn
      <3> QED BY <1>3, <1>4, <3>1, NothingGone
    <2> QED BY <1>3, <2>1 DEF Filed
  <1>11. Reading'
    BY <1>6, <1>9 DEF Reading
  <1>12. ReadsDigits'
    <2>1. /\ call'.i < Room[Width(call'.kind)]
          /\ \/ asBuilt /\ call'.kind = "string"
             \/ /\ call'.i < DigitsOf(r) /\ position' = r.from + call'.i
                /\ call'.value = Code(r) % Weight[call'.i]
      BY <1>1, <1>4, <1>6, <1>10 DEF Spoilt
    <2> QED BY <1>1, <1>9, <2>1 DEF ReadsDigits, Wide, Spoilt, DigitsOf, Code
  <1> QED BY <1>5, <1>6, <1>7, <1>8, <1>11, <1>12 DEF Coding, ReadsText

\* What is ahead of who reads digits: if there is one that is marked, there is another, for
\* which the width has room; and the last one makes the number whole.
NextByte(r, i, b, w) ==
  /\ position < Len(bytes) /\ i + 1 <= Room[w]
  /\ (Code(r) % Weight[i]) + (((b % Radix) * Weight[i]) % Limit[w]) = Code(r) % Weight[i + 1]
  /\ i + 1 < DigitsOf(r) => b >= Radix /\ Weight[i + 1] < Limit[w] /\ i + 1 < Room[w]
  /\ ~(i + 1 < DigitsOf(r)) => ~(b >= Radix) /\ Code(r) % Weight[i + 1] = Code(r)

LEMMA DigitAhead ==
  ASSUME Coding, NEW k \in 1..Len(sent), CodedIn(bytes, sent[k]),
         NEW i \in Nat, i < DigitsOf(sent[k]), position = sent[k].from + i,
         NEW b, b = bytes[position + 1],
         NEW w \in Widths, w = Width(sent[k].kind)
  PROVE  NextByte(sent[k], i, b, w)
  <1> DEFINE r == sent[k]
             u == Code(r)
             n == DigitsOf(r)
  <1>1. /\ r \in Sent /\ Filed(bytes, r) /\ Len(bytes) \in Nat
        /\ u \in Nat /\ u < Limit[w]
    BY SentIs
  <1>2. /\ n \in 1..Room[w] /\ Room[w] \in Nat \ {0} /\ CodedAt(bytes, r.from, n, u)
    BY Weights DEF CodedIn
  <1>3. r.from \in Nat /\ r.to \in Nat /\ Len(r.text) \in Nat /\ r.to <= Len(bytes)
    BY <1>1 DEF Sent, Filed
  <1>4. n = r.to - Len(r.text) - r.from
    BY DEF DigitsOf
  <1>5. i < n /\ position = r.from + i
    OBVIOUS
  <1> HIDE DEF r, u, n
  <1>6. position < Len(bytes) /\ i + 1 \in 1..n /\ i \in 0..(Room[w] - 1)
    <2>1. n \in Nat /\ n <= Room[w] /\ Room[w] \in Nat
      BY <1>2
    <2>2. r.from + n <= Len(bytes)
      BY <1>1, <1>3, <1>4, <2>1
    <2>3. position < Len(bytes)
      BY <1>1, <1>3, <1>5, <2>1, <2>2
    <2>4. i + 1 \in 1..n /\ i \in 0..(Room[w] - 1)
      BY <1>5, <2>1
    <2> QED BY <2>3, <2>4
  <1>7. /\ u \div Weight[i] \in Nat /\ DigitOf(u, i) \in 0..(Radix - 1)
        /\ u \div Weight[i + 1] = (u \div Weight[i]) \div Radix
        /\ u % Weight[i + 1] = (u % Weight[i]) + DigitOf(u, i) * Weight[i]
    BY <1>1, <1>6, DigitAfter
  <1>8. Radix \in Nat \ {0} /\ Radix > 1
    BY CodingsAssumption
  <1>9. /\ b = DigitOf(u, i) + (IF i + 1 < n THEN Radix ELSE 0)
        /\ u \div Weight[i] < Radix <=> i + 1 = n
    <2>1. (i + 1) - 1 = i /\ r.from + (i + 1) = position + 1
      BY <1>3, <1>5
    <2>2. /\ bytes[r.from + (i + 1)] = DigitOf(u, (i + 1) - 1) + (IF i + 1 < n THEN Radix ELSE 0)
          /\ u \div Weight[(i + 1) - 1] < Radix <=> i + 1 = n
      BY <1>2, <1>6 DEF CodedAt
    <2> QED BY <2>1, <2>2
  <1>10. b % Radix = DigitOf(u, i)
    <2>1. PICK R \in Nat \ {0} : R = Radix
      BY <1>8
    <2>2. PICK d \in 0..(R - 1) : d = DigitOf(u, i)
      BY <1>7, <2>1
    <2>3. b = d \/ b = d + R
      BY <1>9, <2>1, <2>2
    <2>4. d % R = d /\ (d + R) % R = d
      BY SmallDivision
    <2>5. b % R = d
      BY <2>3, <2>4
    <2> QED BY <2>1, <2>2, <2>5
  <1>11. (DigitOf(u, i) * Weight[i]) % Limit[w] = DigitOf(u, i) * Weight[i]
    BY <1>1, <1>6, NotCut
  <1>12. (u % Weight[i]) + (((b % Radix) * Weight[i]) % Limit[w]) = u % Weight[i + 1]
    BY <1>7, <1>10, <1>11
  <1>13. ASSUME i + 1 < n PROVE b >= Radix /\ Weight[i + 1] < Limit[w] /\ i + 1 < Room[w]
    <2>1. b >= Radix
      BY <1>7, <1>8, <1>9, <1>13
    <2>2. PICK d \in Nat : d = u \div Weight[i]
      BY <1>7
    <2>3. d >= Radix
      BY <1>6, <1>8, <1>9, <1>13, <2>2
    <2>4. d \div Radix > 0
      <3>1. PICK R \in Nat \ {0} : R = Radix
        BY <1>8
      <3>2. d >= R
        BY <2>3, <3>1
      <3>3. d \div R > 0
        BY <3>2, SomethingLeft
      <3> QED BY <3>1, <3>3
    <2>5. u \div Weight[i + 1] > 0
      BY <1>7, <2>2, <2>4
    <2>6. i + 1 \in 0..Room[w]
      BY <1>2, <1>6
    <2> QED BY <1>1, <2>1, <2>5, <2>6, RoomLeft
  <1>14. ASSUME ~(i + 1 < n) PROVE ~(b >= Radix) /\ u % Weight[i + 1] = u
    <2>1. i + 1 = n
      BY <1>6, <1>14, <1>2
    <2>2. ~(b >= Radix)
      BY <1>7, <1>8, <1>9, <1>14
    <2>3. PICK d \in Nat : d = u \div Weight[i]
      BY <1>7
    <2>4. PICK R \in Nat \ {0} : R = Radix
      BY <1>8
    <2>5. d \in 0..(R - 1)
      BY <1>9, <2>1, <2>3, <2>4
    <2>7. d \div R = 0
      BY <2>5, SmallDivision
    <2>8. u \div Weight[i + 1] = 0
      BY <1>7, <2>3, <2>4, <2>7
    <2>9. Weight[i + 1] \in Nat \ {0}
      <3>1. i + 1 \in 0..Room[w]
        BY <1>2, <1>6
      <3> QED BY <3>1, Weights
    <2>10. PICK y \in Nat \ {0} : y = Weight[i + 1]
      BY <2>9
    <2>11. u \div y = 0
      BY <2>8, <2>10
    <2>14. u % y = u
      BY <1>1, <2>11, SomethingLeft
    <2> QED BY <2>2, <2>10, <2>14
  <1>15. i + 1 <= Room[w]
    BY <1>2, <1>6
  <1> QED BY <1>6, <1>12, <1>13, <1>14, <1>15 DEF r, u, n, NextByte

\* Who reads has begun with something that was sent.
LEMMA Reader ==
  ASSUME Coding, call.pc \in {"read", "text"}
  PROVE  /\ call.of \in 1..Len(sent) /\ call.kind = sent[call.of].kind /\ call.kind \in Forms
         /\ bytes \in Seq(Octet) /\ Len(bytes) \in Nat /\ position \in 0..Len(bytes)
         /\ call.value \in Nat /\ call.i \in Nat /\ Len(sent) \in Nat
  BY DEF Coding, Reading, CodingsTypeOK

\* A call that throws.
LEMMA ThrowKeeps ==
  ASSUME Coding, call.pc \in {"read", "text"}, Throw, UNCHANGED <<asBuilt, bytes, sent>>,
         Spoilt(call.kind)
  PROVE  Coding'
  <1>1. /\ call' = [call EXCEPT !.pc = "thrown"] /\ position' = position /\ got' = got
        /\ asBuilt' = asBuilt /\ bytes' = bytes /\ sent' = sent
    BY DEF Throw
  <1>2. CodingsTypeOK'
    BY <1>1 DEF Coding, CodingsTypeOK, Places
  <1>3. call'.pc = "thrown" /\ call'.kind = call.kind
    BY <1>1 DEF Coding, CodingsTypeOK
  <1>4. ReadsBack'
    BY <1>1, <1>3 DEF Coding, ReadsBack, Spoilt
  <1>5. /\ SentOK' /\ WellCoded' /\ Writing' /\ WritesDigits' /\ WritesText' /\ WithinTmp'
    BY <1>1, <1>3, ReaderWrites
  <1> QED BY <1>2, <1>3, <1>4, <1>5 DEF Coding, Reading, ReadsDigits, ReadsText

\* A call that returns what was sent.
LEMMA ReturnKeeps ==
  ASSUME Coding, call.pc \in {"read", "text"}, UNCHANGED <<asBuilt, bytes, sent>>,
         NEW n \in Int, NEW t \in Seq(Octet), Returns(n, t), position' \in 0..Len(bytes),
         LET r == sent[call.of] IN
         Spoilt(r.kind) \/ (n = r.number /\ t = r.text /\ position' = r.to)
  PROVE  Coding'
  <1>1. /\ call' = NoCall /\ asBuilt' = asBuilt /\ bytes' = bytes /\ sent' = sent
        /\ got' = [of |-> call.of, number |-> n, text |-> t, end |-> position']
    BY DEF Returns
  <1>2. call.of \in 1..Len(sent) /\ Len(sent) \in Nat
    BY Reader
  <1>3. CodingsTypeOK'
    <2>1. call' \in [pc : Places, kind : Forms, number : Int, text : Seq(Octet), from : Nat,
                     value : Nat, tmp : Seq(Octet), i : Nat, of : 0..Len(sent)]
      BY <1>1, <1>2 DEF NoCall, Places, Forms
    <2>2. got' \in [of : 0..Len(sent), number : Int, text : Seq(Octet), end : Nat]
      BY <1>1, <1>2
    <2> QED BY <1>1, <2>1, <2>2 DEF Coding, CodingsTypeOK
  <1>4. call'.pc = "idle"
    BY <1>1 DEF NoCall
  <1>5. ReadsBack'
    BY <1>1, <1>4 DEF ReadsBack, Spoilt
  <1>6. /\ SentOK' /\ WellCoded' /\ Writing' /\ WritesDigits' /\ WritesText' /\ WithinTmp'
    BY <1>1, <1>4, ReaderWrites
  <1> QED BY <1>3, <1>4, <1>5, <1>6 DEF Coding, Reading, ReadsDigits, ReadsText

LEMMA ReadDigitKeeps ==
  ASSUME Coding, ReadDigit
  PROVE  Coding'
  <1> DEFINE r == sent[call.of]
             w == Wide
             b == bytes[position + 1]
             value == call.value + (((b % Radix) * Weight[call.i]) % Limit[w])
             more == b >= Radix /\ Weight[call.i + 1] < Limit[w]
  <1>1. /\ call.pc = "read" /\ UNCHANGED <<asBuilt, bytes, sent>>
        /\ asBuilt' = asBuilt /\ bytes' = bytes /\ sent' = sent
    BY DEF ReadDigit
  <1>2. /\ call.of \in 1..Len(sent) /\ call.kind = r.kind /\ call.kind \in Forms
        /\ bytes \in Seq(Octet) /\ Len(bytes) \in Nat /\ position \in 0..Len(bytes)
        /\ call.value \in Nat /\ call.i \in Nat /\ Len(sent) \in Nat
    BY <1>1, Reader
  <1>3. /\ r \in Sent /\ Filed(bytes, r) /\ Given(r) /\ r.from \in Nat /\ r.number \in Int
        /\ Code(r) \in Nat /\ Decoded(r.kind, Code(r)) = r.number
    BY <1>2, SentIs DEF Filed, Sent
  <1>4. w \in Widths /\ w = Width(r.kind) /\ Limit[w] \in Nat \ {0} /\ Room[w] \in Nat \ {0}
    BY <1>2, Weights DEF Wide, Width, Widths
  <1>5. /\ call.i < Room[w]
        /\ \/ Spoilt(call.kind)
           \/ /\ call.i < DigitsOf(r) /\ position = r.from + call.i
              /\ call.value = Code(r) % Weight[call.i]
    BY <1>1 DEF Coding, ReadsDigits
  <1>6. ASSUME ~Spoilt(call.kind)
        PROVE  /\ position < Len(bytes) /\ value = Code(r) % Weight[call.i + 1]
               /\ call.i + 1 < DigitsOf(r) => more /\ call.i + 1 < Room[w]
               /\ ~(call.i + 1 < DigitsOf(r)) => ~more /\ value = Code(r)
               /\ CodedIn(bytes, r)
    <2>1. CodedIn(bytes, r)
      BY <1>2, <1>3, <1>6 DEF Filed
    <2>2. call.i < DigitsOf(r) /\ position = r.from + call.i /\ call.value = Code(r) % Weight[call.i]
      BY <1>5, <1>6
    <2>3. PICK i \in Nat : i = call.i
      BY <1>2
    <2>4. NextByte(r, i, b, w)
      BY <1>2, <1>4, <2>1, <2>2, <2>3, DigitAhead
    <2> HIDE DEF b, w, r
    <2>5. /\ position < Len(bytes)
          /\ (call.value) + (((b % Radix) * Weight[i]) % Limit[w]) = Code(r) % Weight[i + 1]
          /\ i + 1 < DigitsOf(r) => b >= Radix /\ Weight[i + 1] < Limit[w] /\ i + 1 < Room[w]
          /\ ~(i + 1 < DigitsOf(r)) => ~(b >= Radix) /\ Code(r) % Weight[i + 1] = Code(r)
      BY <2>2, <2>3, <2>4 DEF NextByte
    <2> QED BY <2>1, <2>3, <2>5
  <1>7. CASE position = Len(bytes)
    <2>1. Throw
      BY <1>7 DEF ReadDigit
    <2>2. Spoilt(call.kind)
      BY <1>2, <1>6, <1>7
    <2> QED BY <1>1, <2>1, <2>2, ThrowKeeps
  <1>8. CASE position # Len(bytes)
    <2>1. /\ position' = position + 1
          /\ IF more THEN call' = [call EXCEPT !.value = value, !.i = call.i + 1] /\ got' = got
             ELSE IF call.kind = "string"
             THEN call' = [call EXCEPT !.pc = "text", !.value = value] /\ got' = got
             ELSE Returns(Decoded(call.kind, value), <<>>)
      BY <1>1, <1>8 DEF ReadDigit, Wide, Coding, CodingsTypeOK
    <2>2. position' \in 0..Len(bytes) /\ position' = position + 1
      BY <1>2, <1>8, <2>1
    <2>3. value \in Nat
      <3>1. PICK y \in Nat : y = Weight[call.i]
        <4>1. call.i \in 0..Room[w]
          BY <1>2, <1>4, <1>5
        <4> QED BY <1>4, <4>1, Weights
      <3>2. PICK l \in Nat \ {0} : l = Limit[w]
        BY <1>4
      <3>3. PICK R \in Nat \ {0} : R = Radix
        BY CodingsAssumption
      <3>4. PICK c \in Nat : c = b
        <4>1. position + 1 \in 1..Len(bytes)
          BY <1>2, <1>8
        <4>2. b \in Octet
          BY <1>2, <4>1, ElementOfSeq
        <4>3. Octet \subseteq Nat
          BY CodingsAssumption DEF Octet
        <4> QED BY <4>2, <4>3
      <3>5. c % R \in Nat
        BY Division
      <3>6. (c % R) * y \in Nat
        BY <3>5
      <3>7. PICK z \in Nat : z = (c % R) * y
        BY <3>6
      <3>8. z % l \in Nat
        BY Division
      <3>9. ((b % Radix) * Weight[call.i]) % Limit[w] = z % l
        BY <3>1, <3>2, <3>3, <3>4, <3>7
      <3> QED BY <1>2, <3>8, <3>9
    <2> HIDE DEF value, b
    <2>4. CASE more
      <3>1. call' = [call EXCEPT !.value = value, !.i = call.i + 1] /\ got' = got
        BY <2>1, <2>4
      <3>2. /\ call'.pc = "read" /\ call'.kind = call.kind /\ call'.of = call.of
            /\ call'.value = value /\ call'.i = call.i + 1
        BY <1>1, <3>1 DEF Coding, CodingsTypeOK
      <3>3. CodingsTypeOK'
        <4>1. call' \in [pc : Places, kind : Forms, number : Int, text : Seq(Octet), from : Nat,
                         value : Nat, tmp : Seq(Octet), i : Nat, of : 0..Len(sent)]
          <5>1. call \in [pc : Places, kind : Forms, number : Int, text : Seq(Octet), from : Nat,
                          value : Nat, tmp : Seq(Octet), i : Nat, of : 0..Len(sent)]
            BY DEF Coding, CodingsTypeOK
          <5>2. call.i + 1 \in Nat
            BY <1>2
          <5> QED BY <2>3, <3>1, <5>1, <5>2
        <4> QED BY <1>1, <2>2, <3>1, <4>1 DEF Coding, CodingsTypeOK
      <3>4. call.i + 1 < Room[w]
        <4>1. call.i + 1 # Room[w]
          BY <1>4, <2>4, Weights
        <4> QED BY <1>2, <1>4, <1>5, <4>1
      <3>5. /\ call'.i < Room[w]
            /\ \/ Spoilt(call.kind)
               \/ /\ call'.i < DigitsOf(r) /\ position' = r.from + call'.i
                  /\ call'.value = Code(r) % Weight[call'.i]
        <4> SUFFICES ASSUME ~Spoilt(call.kind)
                     PROVE  /\ call'.i < DigitsOf(r) /\ position' = r.from + call'.i
                            /\ call'.value = Code(r) % Weight[call'.i]
          BY <3>2, <3>4
        <4>1. call.i + 1 < DigitsOf(r) /\ value = Code(r) % Weight[call.i + 1]
          BY <1>6, <2>4
        <4>2. position = r.from + call.i
          BY <1>5
        <4>3. PICK f \in Nat, i \in Nat : f = r.from /\ i = call.i
          BY <1>2, <1>3
        <4>4. position' = f + (i + 1)
          BY <2>2, <4>2, <4>3
        <4> HIDE DEF r, w
        <4>5. call'.i = i + 1 /\ call'.value = value
          BY <3>2, <4>3
        <4> QED BY <4>1, <4>3, <4>4, <4>5
      <3>6. sent'[call'.of] = r /\ call'.of # 0
        BY <1>1, <1>2, <3>2
      <3>7. Reading' /\ ReadsDigits'
        BY <1>1, <1>2, <3>2, <3>5, <3>6
           DEF Reading, ReadsDigits, Wide, Spoilt, DigitsOf, Code
      <3>8. ReadsBack'
        BY <1>1, <3>1, <3>2 DEF Coding, ReadsBack, Spoilt
      <3>9. /\ SentOK' /\ WellCoded' /\ Writing' /\ WritesDigits' /\ WritesText' /\ WithinTmp'
        BY <1>1, <3>2, ReaderWrites
      <3> QED BY <3>2, <3>3, <3>7, <3>8, <3>9 DEF Coding, ReadsText
    <2>5. ASSUME ~more, ~Spoilt(call.kind)
          PROVE  /\ value = Code(r) /\ position' = r.from + DigitsOf(r)
                 /\ r.from + DigitsOf(r) + Len(r.text) = r.to
      <3>1. value = Code(r) /\ ~(call.i + 1 < DigitsOf(r)) /\ CodedIn(bytes, r)
        BY <1>6, <2>5
      <3>2. call.i < DigitsOf(r) /\ position = r.from + call.i
        BY <1>5, <2>5
      <3>3. DigitsOf(r) \in Nat
        BY <1>4, <3>1 DEF CodedIn
      <3>4. DigitsOf(r) = call.i + 1
        BY <1>2, <3>1, <3>2, <3>3
      <3>5. DigitsOf(r) = r.to - Len(r.text) - r.from /\ r.to \in Nat /\ Len(r.text) \in Nat
        BY <1>3 DEF DigitsOf, Sent
      <3>6. r.from + DigitsOf(r) + Len(r.text) = r.to
        BY <1>3, <3>3, <3>5
      <3>7. position' = r.from + DigitsOf(r)
        <4>1. PICK i \in Nat : i = call.i
          BY <1>2
        <4>2. PICK f \in Nat : f = r.from
          BY <1>3
        <4>3. position' = (f + i) + 1 /\ DigitsOf(r) = i + 1
          BY <2>2, <3>2, <3>4, <4>1, <4>2
        <4>4. position' = f + DigitsOf(r)
          BY <4>3
        <4> QED BY <4>2, <4>4
      <3> QED BY <3>1, <3>6, <3>7
    <2>6. CASE ~more /\ call.kind = "string"
      <3>1. call' = [call EXCEPT !.pc = "text", !.value = value] /\ got' = got
        BY <2>1, <2>6
      <3>2. /\ call'.pc = "text" /\ call'.kind = "string" /\ call'.of = call.of
            /\ call'.value = value
        BY <2>6, <3>1 DEF Coding, CodingsTypeOK
      <3>3. CodingsTypeOK'
        <4>1. call' \in [pc : Places, kind : Forms, number : Int, text : Seq(Octet), from : Nat,
                         value : Nat, tmp : Seq(Octet), i : Nat, of : 0..Len(sent)]
          BY <1>2, <2>3, <3>1 DEF Coding, CodingsTypeOK, Places
        <4> QED BY <1>1, <2>2, <3>1, <4>1 DEF Coding, CodingsTypeOK
      <3>4. Spoilt("string") \/ (value = Len(r.text) /\ position' = r.from + DigitsOf(r))
        <4>1. Code(r) = Len(r.text)
          BY <1>2, <1>3, <2>6 DEF Given, Code, Encoded, Signed
        <4> QED BY <2>5, <2>6, <4>1
      <3>5. sent'[call'.of] = r /\ call'.of # 0
        BY <1>1, <1>2, <3>2
      <3>6. Reading' /\ ReadsText'
        <4>1. Reading'
          BY <1>2, <2>6, <3>2, <3>5 DEF Reading
        <4>2. Spoilt("string") \/ (call'.value = Len(r.text) /\ position' = r.from + DigitsOf(r))
          BY <3>2, <3>4
        <4>3. ReadsText'
          BY <1>1, <3>2, <3>5, <4>2 DEF ReadsText, Spoilt, DigitsOf
        <4> QED BY <4>1, <4>3
      <3>7. ReadsBack'
        BY <1>1, <3>1, <3>2 DEF Coding, ReadsBack, Spoilt
      <3>8. /\ SentOK' /\ WellCoded' /\ Writing' /\ WritesDigits' /\ WritesText' /\ WithinTmp'
        BY <1>1, <3>2, ReaderWrites
      <3> QED BY <3>2, <3>3, <3>6, <3>7, <3>8 DEF Coding, ReadsDigits
    <2>7. CASE ~more /\ call.kind # "string"
      <3>1. Returns(Decoded(call.kind, value), <<>>)
        BY <2>1, <2>7
      <3>2. ~Spoilt(call.kind)
        BY <2>7 DEF Spoilt
      <3>3. value = Code(r) /\ position' = r.from + DigitsOf(r) /\ r.from + DigitsOf(r) + Len(r.text) = r.to
        BY <2>5, <2>7, <3>2
      <3>4. Decoded(call.kind, value) = r.number
        BY <1>2, <1>3, <3>3
      <3>5. r.text = <<>> /\ Len(r.text) = 0
        BY <1>2, <1>3, <2>7 DEF Given
      <3>6. position' = r.to
        BY <2>2, <3>3, <3>5
      <3>7. <<>> \in Seq(Octet)
        OBVIOUS
      <3> QED BY <1>1, <1>3, <2>2, <3>1, <3>4, <3>5, <3>6, <3>7, ReturnKeeps
    <2> QED BY <2>4, <2>6, <2>7
  <1> QED BY <1>7, <1>8

LEMMA ReadTextKeeps ==
  ASSUME Coding, ReadText
  PROVE  Coding'
  <1> DEFINE r == sent[call.of]
             v == call.value
             t == SubSeq(bytes, position + 1, position + v)
  <1>1. /\ call.pc = "text" /\ UNCHANGED <<asBuilt, bytes, sent>> /\ call.kind = "string"
    BY DEF ReadText, Coding, ReadsText
  <1>2. /\ call.of \in 1..Len(sent) /\ call.kind = r.kind
        /\ bytes \in Seq(Octet) /\ Len(bytes) \in Nat /\ position \in 0..Len(bytes)
        /\ v \in Nat /\ Len(sent) \in Nat
    BY <1>1, Reader
  <1>3. r \in Sent /\ Filed(bytes, r) /\ Given(r)
    BY <1>2, SentIs DEF Filed
  <1>4. r.text \in Seq(Octet) /\ Len(r.text) \in Nat /\ r.from \in Nat /\ r.to \in Nat
    BY <1>3 DEF Sent
  <1>5. ASSUME ~Spoilt("string")
        PROVE  /\ v = Len(r.text) /\ position + v = r.to /\ r.to <= Len(bytes) /\ r.number = v
               /\ \A j \in 1..v : bytes[position + j] = r.text[j]
    <2>1. v = Len(r.text) /\ position = r.from + DigitsOf(r)
      BY <1>1, <1>5 DEF Coding, ReadsText
    <2>2. CodedIn(bytes, r) /\ r.to <= Len(bytes)
      BY <1>1, <1>2, <1>3, <1>5 DEF Filed
    <2>3. DigitsOf(r) = r.to - Len(r.text) - r.from
      BY DEF DigitsOf
    <2>4. \A j \in 1..v : bytes[position + j] = r.text[j]
      BY <2>1, <2>2 DEF CodedIn
    <2>5. r.number = v
      BY <1>1, <1>2, <1>3, <2>1 DEF Given
    <2> QED BY <1>2, <1>4, <2>1, <2>2, <2>3, <2>4, <2>5
  <1>6. CASE v > Len(bytes) - position
    <2>1. Throw
      BY <1>6 DEF ReadText
    <2>2. Spoilt(call.kind)
      BY <1>1, <1>2, <1>5, <1>6
    <2> QED BY <1>1, <2>1, <2>2, ThrowKeeps
  <1>7. CASE ~(v > Len(bytes) - position)
    <2>1. position' = position + v /\ Returns(v, SubSeq(bytes, position + 1, position'))
      BY <1>7 DEF ReadText
    <2>2. position' \in 0..Len(bytes) /\ Returns(v, t)
      BY <1>2, <1>7, <2>1
    <2>3. t \in Seq(Octet) /\ Len(t) = v /\ \A j \in 1..v : t[j] = bytes[position + j]
      <3>1. \A j \in (position + 1)..(position + v) : bytes[j] \in Octet
        <4>1. \A j \in (position + 1)..(position + v) : j \in 1..Len(bytes)
          BY <1>2, <1>7
        <4> QED BY <1>2, <4>1, ElementOfSeq
      <3>2. /\ SubSeq(bytes, position + 1, position + v) \in Seq(Octet)
            /\ Len(SubSeq(bytes, position + 1, position + v)) = v
        BY <1>2, <3>1, SubSeqProperties
      <3>3. \A j \in 1..v : SubSeq(bytes, position + 1, position + v)[j] = bytes[position + j]
        BY <1>2, <3>1, SubSeqProperties
      <3> QED BY <3>2, <3>3
    <2> HIDE DEF t
    <2>4. Spoilt(r.kind) \/ (v = r.number /\ t = r.text /\ position' = r.to)
      <3> SUFFICES ASSUME ~Spoilt("string") PROVE v = r.number /\ t = r.text /\ position' = r.to
        BY <1>1, <1>2
      <3>1. t = r.text
        <4>1. Len(t) = Len(r.text) /\ \A j \in 1..Len(t) : t[j] = r.text[j]
          BY <1>5, <2>3
        <4> QED BY <1>4, <2>3, <4>1, SeqEqual
      <3> QED BY <1>5, <2>1, <3>1
    <2> QED BY <1>1, <1>2, <2>2, <2>3, <2>4, ReturnKeeps
  <1> QED BY <1>6, <1>7

-----------------------------------------------------------------------------
(***************************************************************************)
(* The theorems                                                            *)
(***************************************************************************)

LEMMA CodingStarts == CodingsInit => Coding
  <1> SUFFICES ASSUME CodingsInit PROVE Coding
    OBVIOUS
  <1>1. /\ asBuilt \in BOOLEAN /\ bytes = <<>> /\ position = 0 /\ sent = <<>> /\ call = NoCall
        /\ got = [of |-> 0, number |-> 0, text |-> <<>>, end |-> 0]
    BY DEF CodingsInit
  <1>2. Len(sent) = 0 /\ Len(bytes) = 0 /\ call.pc = "idle" /\ got.of = 0
    BY <1>1 DEF NoCall
  <1>3. CodingsTypeOK
    <2>1. call \in [pc : Places, kind : Forms, number : Int, text : Seq(Octet), from : Nat,
                    value : Nat, tmp : Seq(Octet), i : Nat, of : 0..Len(sent)]
      BY <1>1, <1>2 DEF NoCall, Places, Forms
    <2> QED BY <1>1, <1>2, <2>1 DEF CodingsTypeOK
  <1>4. 1..Len(sent) = {}
    BY <1>2
  <1> QED BY <1>2, <1>3, <1>4
          DEF Coding, SentOK, WellCoded, Writing, WritesDigits, WritesText, Reading,
              ReadsDigits, ReadsText, ReadsBack, WithinTmp

LEMMA CodingStays == Coding /\ [CodingsNext]_codingVars => Coding'
  <1> SUFFICES ASSUME Coding, [CodingsNext]_codingVars PROVE Coding'
    OBVIOUS
  <1>1. ASSUME NEW k \in Forms \ {"string"}, NEW n \in Numbers, InRange(k, n), Begin(k, n, <<>>)
        PROVE  Coding'
    <2>1. n \in Int /\ k \in Forms /\ k # "string" /\ <<>> \in Seq(Octet)
      BY CodingsAssumption
    <2> QED BY <1>1, <2>1, BeginKeeps
  <1>2. ASSUME NEW s \in Texts, Begin("string", Len(s), s)
        PROVE  Coding'
    <2>1. s \in Seq(Octet) /\ Len(s) < Limit[64] /\ Len(s) \in Nat
      BY CodingsAssumption
    <2>2. InRange("string", Len(s)) /\ "string" \in Forms
      BY <2>1 DEF InRange, Signed, Width, Forms
    <2> QED BY <1>2, <2>1, <2>2, BeginKeeps
  <1>3. CASE WriteDigit
    BY <1>3, WriteDigitKeeps
  <1>4. CASE WriteLast
    BY <1>4, WriteLastKeeps
  <1>5. CASE WriteText
    BY <1>5, WriteTextKeeps
  <1>6. ASSUME NEW k \in 1..Len(sent), Seek(sent[k].from)
        PROVE  Coding'
    <2>1. sent[k] \in Sent /\ Filed(bytes, sent[k]) /\ Len(bytes) \in Nat
      BY SentIs
    <2>2. sent[k].from \in 0..Len(bytes)
      BY <2>1 DEF Filed, Sent
    <2> QED BY <1>6, <2>2, SeekKeeps
  <1>7. ASSUME NEW k \in 1..Len(sent), BeginRead(k)
        PROVE  Coding'
    BY <1>7, BeginReadKeeps
  <1>8. CASE Seek(Len(bytes))
    <2>1. Len(bytes) \in 0..Len(bytes)
      BY DEF Coding, CodingsTypeOK
    <2> QED BY <1>8, <2>1, SeekKeeps
  <1>9. CASE ReadDigit
    BY <1>9, ReadDigitKeeps
  <1>10. CASE ReadText
    BY <1>10, ReadTextKeeps
  <1>11. CASE UNCHANGED codingVars
    <2>1. /\ asBuilt' = asBuilt /\ bytes' = bytes /\ position' = position /\ sent' = sent
          /\ call' = call /\ got' = got
      BY <1>11 DEF codingVars
    <2>2. CodingsTypeOK'
      BY <2>1 DEF Coding, CodingsTypeOK
    <2>3. SentOK' /\ WellCoded'
      BY <2>1 DEF Coding, SentOK, WellCoded, CodedAt, DigitOf, Encoded, Given, Spoilt
    <2>4. Writing'
      BY <2>1 DEF Coding, Writing, Given
    <2>5. WritesDigits'
      <3>1. (Stuck => Stuck') /\ (InTmp => InTmp')
        BY <2>1 DEF Stuck, InTmp, Code, DigitOf
      <3> QED BY <2>1, <3>1 DEF Coding, WritesDigits, Wide, Spoilt
    <2>6. WritesText'
      BY <2>1 DEF Coding, WritesText, Spoilt, CodedAt, DigitOf
    <2>7. Reading' /\ ReadsDigits' /\ ReadsText'
      BY <2>1 DEF Coding, Reading, ReadsDigits, ReadsText, Wide, Spoilt, DigitsOf, Code
    <2>8. ReadsBack' /\ WithinTmp'
      BY <2>1 DEF Coding, ReadsBack, WithinTmp, Spoilt
    <2> QED BY <2>2, <2>3, <2>4, <2>5, <2>6, <2>7, <2>8 DEF Coding
  <1> QED BY <1>1, <1>2, <1>3, <1>4, <1>5, <1>6, <1>7, <1>8, <1>9, <1>10, <1>11 DEF CodingsNext

\* Types, and what is known at each place of a call.
THEOREM CodingsTyped == CodingsSpec => [](CodingsTypeOK /\ Coding)
  <1>1. Coding => CodingsTypeOK
    BY DEF Coding
  <1> QED BY <1>1, CodingStarts, CodingStays, PTL DEF CodingsSpec

\* What is read where something begins is what was written there, for every number of any
\* width and to any base, and for every string of the corrected program; nothing is thrown.
THEOREM CodingsReadBack == CodingsSpec => []ReadsBack
  <1>1. Coding => ReadsBack
    BY DEF Coding
  <1> QED BY <1>1, CodingStarts, CodingStays, PTL DEF CodingsSpec

\* The writers stay within tmp, and come to an end there; the program as it is does so when
\* the number has one digit, or 32 bits.
THEOREM WritersStayWithinTmp == CodingsSpec => []WithinTmp
  <1>1. Coding => WithinTmp
    BY DEF Coding
  <1> QED BY <1>1, CodingStarts, CodingStays, PTL DEF CodingsSpec

\* What was written has the digits of its number, and as many of them as the number has.
THEOREM CodingsAreVarints == CodingsSpec => []WellCoded
  <1>1. Coding => WellCoded
    BY DEF Coding
  <1> QED BY <1>1, CodingStarts, CodingStays, PTL DEF CodingsSpec

\* All three: what is written is read back from it, by this program and by others.
THEOREM CodingsAlwaysAgree == CodingsSpec => []CodingsAgree
  <1>1. Coding => CodingsAgree
    BY DEF Coding, CodingsAgree
  <1> QED BY <1>1, CodingStarts, CodingStays, PTL DEF CodingsSpec

-----------------------------------------------------------------------------
(***************************************************************************)
(* ByteArray, codings and parser side by side                              *)
(***************************************************************************)

\* Whichever of the three moves: the type invariant, what the parser asserts and tells, and
\* what the codings promise.
THEOREM DataHolds ==
  DataSpec => [](DataTypeOK /\ ParserAsserts /\ SpansAgree /\ CodingsAgree)
  <1> DEFINE Inv == ByteInv /\ Coding /\ TwinInv
             dataVars == <<byteVars, codingVars, parserVars, subject>>
  <1>1. DataInit => Inv
    BY ByteInvInit, CodingStarts, TwinInvStarts DEF DataInit
  <1>2. Inv /\ [DataNext]_dataVars => Inv'
    <2> SUFFICES ASSUME Inv, [DataNext]_dataVars
                 PROVE  Inv'
      OBVIOUS
    <2>1. [ByteArrayNext]_byteVars /\ [CodingsNext]_codingVars /\ [HttpParserNext]_parserVars
      BY DEF DataNext
    <2>2. ByteInv'
      BY <2>1, ByteInvKept
    <2>3. Coding'
      BY <2>1, CodingStays
    <2>4. TwinInv'
      BY <2>1, TwinInvKept
    <2> QED BY <2>2, <2>3, <2>4
  <1>3. Inv => DataTypeOK /\ ParserAsserts /\ SpansAgree /\ CodingsAgree
    BY ByteTyped, InvAsserts DEF TwinInv, Coding, DataTypeOK, CodingsAgree
  <1> QED BY <1>1, <1>2, <1>3, PTL DEF DataSpec
=============================================================================
