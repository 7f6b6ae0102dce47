------------------------------ MODULE HexParser ------------------------------
(***************************************************************************)
(* The text of Intel hex records as hex_parser/hex_parser.c reads and      *)
(* rewrites it.  A text is a sequence of characters; the only ones the     *)
(* parser tells apart are the digits in their two cases and the colon.     *)
(* Positions are those of the C code plus one.                             *)
(***************************************************************************)
EXTENDS Integers, Sequences

\* 0 .. 15 are the digits '0' .. '9', 'A' .. 'F', and 16 .. 21 'a' .. 'f'.
Colon == 22
Other == 23
Char  == 0 .. Other

IsDigit(c) == c \in 0 .. 21
Value(c)   == IF c < 16 THEN c ELSE c - 6

\* str2byte at position i; past the end of the string it meets the '\0'.
IsByte(str, i) == i + 1 <= Len(str) /\ IsDigit(str[i]) /\ IsDigit(str[i + 1])
str2byte(str, i) == 16 * Value(str[i]) + Value(str[i + 1])
byte2str(b) == <<b \div 16, b % 16>>

LengthPos == 2
AddrPos   == 4
TypePos   == 8
DataPos   == 10
UtilData  == 11

\* The sum of n bytes of text from position i on, as a uint8_t.
SumFrom(str, i, n) ==
  LET sum[k \in 0 .. n] == IF k = 0 THEN 0 ELSE (sum[k - 1] + str2byte(str, i + 2 * (k - 1))) % 256
  IN  sum[n]

Length(str) == str2byte(str, LengthPos)

\* Mutant: the checksum is not looked at.
WellFormedUnsummed(str) ==
  /\ str # <<>> /\ str[1] = Colon
  /\ IsByte(str, LengthPos)
  /\ Len(str) = 2 * Length(str) + UtilData
  /\ \A i \in 2 .. Len(str) : IsDigit(str[i])

\* What hex_parser_feed checks before it looks at the type of the record.
WellFormed(str) ==
  /\ str # <<>> /\ str[1] = Colon
  /\ IsByte(str, LengthPos)
  /\ Len(str) = 2 * Length(str) + UtilData
  /\ \A i \in 2 .. Len(str) : IsDigit(str[i])
  /\ SumFrom(str, LengthPos, Length(str) + 5) = 0

Word16(str, i) == 256 * str2byte(str, i) + str2byte(str, i + 2)

Data(str) == [i \in 1 .. Length(str) |-> str2byte(str, DataPos + 2 * (i - 1))]

\* An address record is not required to hold two bytes: the parser reads
\* the four digits that follow the type, the checksum among them if need be.
HasOffset(str) == IsByte(str, DataPos) /\ IsByte(str, DataPos + 2)

Refused == [kind |-> "bad", addr |-> 0, data |-> <<>>]
Record(k, a, d) == [kind |-> k, addr |-> a, data |-> d]

\* The record hex_parser_feed acts on: its kind, its address or offset, and
\* the data handed to the callback.
Parse(str) ==
  IF ~WellFormed(str) THEN Refused
  ELSE LET type == str2byte(str, TypePos) IN
       CASE type = 0 -> Record("data", Word16(str, AddrPos), Data(str))
         [] type = 1 -> Record("eof", 0, <<>>)
         [] type = 2 /\ HasOffset(str) -> Record("offset", 16 * Word16(str, DataPos), <<>>)
         [] type = 4 /\ HasOffset(str) -> Record("offset", 65536 * Word16(str, DataPos), <<>>)
         [] type \in {3, 5} -> Record("start", 0, <<>>)
         [] OTHER -> Refused

Digits(bytes) ==
  [i \in 1 .. 2 * Len(bytes) |->
     LET b == bytes[(i + 1) \div 2] IN byte2str(b)[IF i % 2 = 1 THEN 1 ELSE 2]]

Checksum(sum) == (1 + (255 - sum)) % 256

\* The text of a data record with its data replaced (data_upd): what comes
\* before the data is kept as it was written.
Rewrite(str, data) ==
  LET text == SubSeq(str, 1, DataPos - 1) \o Digits(data)
      sum  == SumFrom(text, LengthPos, Len(data) + 4)
  IN  text \o byte2str(Checksum(sum))
=============================================================================
