---------------------------------- MODULE Bytes ----------------------------------
(***************************************************************************)
(* What a ByteArray promises: a sequence of bytes with one position, at    *)
(* which everything is written and read.  out is what the last call read   *)
(* or was given to write.                                                  *)
(***************************************************************************)
EXTENDS Integers, Sequences, SequencesExt

CONSTANTS Byte, MaxWrite

VARIABLES bytes, position, out

Init == bytes = <<>> /\ position = 0 /\ out = <<>>

\* Bytes in the order asked for.
Ordered(s) == {s, Reverse(s)}

\* n bytes laid over those from the position on; the sequence grows when it must, and
\* nothing else in it changes.
Write(n) ==
  /\ out' \in Seq(Byte) /\ Len(out') = n
  /\ \E s \in Ordered(out') :
       bytes' = SubSeq(bytes, 1, position) \o s \o SubSeq(bytes, position + n + 1, Len(bytes))
  /\ position' = position + n

\* What n bytes from the position are.
Ahead(n) == SubSeq(bytes, position + 1, position + n)

\* Everything that is read was written, and nothing is read twice or skipped.
Read(n) ==
  /\ n <= Len(bytes) - position
  /\ out' \in Ordered(Ahead(n))
  /\ position' = position + n
  /\ UNCHANGED bytes

\* A string is its length and so many bytes; when they are not there the length is read.
ReadString ==
  /\ position < Len(bytes)
  /\ LET n == bytes[position + 1] IN
     IF n < Len(bytes) - position
     THEN out' = Tail(Ahead(n + 1)) /\ position' = position + n + 1
     ELSE position' = position + 1 /\ out' = <<>>
  /\ UNCHANGED bytes

\* A look ahead.
Peek(n) ==
  /\ n <= Len(bytes) - position
  /\ out' = Ahead(n)
  /\ UNCHANGED <<bytes, position>>

\* Moving behind the end makes what lies between part of the bytes, whatever it is.
SetPosition ==
  /\ position' \in Nat
  /\ IF position' <= Len(bytes) THEN bytes' = bytes
     ELSE Len(bytes') = position' /\ SubSeq(bytes', 1, Len(bytes)) = bytes
  /\ out' = <<>>

Clear == bytes' = <<>> /\ position' = 0 /\ out' = <<>>

Next ==
  \/ \E n \in 0..MaxWrite : Write(n)
  \/ \E n \in 0..Len(bytes) : Read(n) \/ Peek(n)
  \/ ReadString \/ SetPosition \/ Clear

Spec == Init /\ [][Next]_<<bytes, position, out>>

=============================================================================
