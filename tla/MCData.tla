---------------------------------- MODULE MCData ----------------------------------
(***************************************************************************)
(* The ByteArray, its codings of variable length, and the HTTP parser:     *)
(* three models that share nothing, checked in one run on small instances. *)
(* A behaviour is one of them.                                             *)
(***************************************************************************)
EXTENDS ByteArray, Codings, HttpParser
VARIABLE subject    \* which of the three moves; it never changes

DataInit ==
  /\ subject \in {"bytes", "codings", "parser"}
  /\ ByteArrayInit /\ CodingsInit /\ HttpParserInit
  /\ subject # "codings" => asBuilt

DataNext ==
  \/ subject = "bytes" /\ ByteArrayNext /\ UNCHANGED <<codingVars, parserVars, subject>>
  \/ subject = "codings" /\ CodingsNext /\ UNCHANGED <<byteVars, parserVars, subject>>
  \/ subject = "parser" /\ HttpParserNext /\ UNCHANGED <<byteVars, codingVars, subject>>

DataSpec == DataInit /\ [][DataNext]_<<byteVars, codingVars, parserVars, subject>>

DataTypeOK == ByteArrayTypeOK /\ CodingsTypeOK /\ HttpParserTypeOK

-----------------------------------------------------------------------------
\* Digits of two bits, in numbers of three bits and of five, so that the last digit is
\* cut in both.
TwoBits[i \in 0..3] == IF i = 0 THEN 1 ELSE 4 * TwoBits[i - 1]
ThreeBits[i \in 0..1] == IF i = 0 THEN 1 ELSE 8 * ThreeBits[i - 1]
ThreeAndFive == [w \in Widths |-> IF w = 32 THEN 8 ELSE 32]
TwoAndThree == [w \in Widths |-> IF w = 32 THEN 2 ELSE 3]
EveryNumber == -16..31
Strings == {<<>>, <<5, 0>>, <<3, 7, 0, 1, 2>>}

=============================================================================
