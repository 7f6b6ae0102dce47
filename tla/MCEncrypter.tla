---------------------------- MODULE MCEncrypter ----------------------------
(***************************************************************************)
(* Hex files for Encrypter, with blocks of two bytes: records that are     *)
(* empty, shorter than a block, a block and longer; both cases of digits;  *)
(* all kinds of record, an address record too short for its offset among   *)
(* them; lines with a wrong checksum, a wrong length and a wrong line end. *)
(***************************************************************************)
EXTENDS Encrypter

\* Key-stream bytes 255, 1, 128, 1, 255, ...
MCCrypt(n, i, b) ==
  CASE i % 2 = 1 -> (IF b % 2 = 0 THEN b + 1 ELSE b - 1)
    [] i % 2 = 0 /\ n % 2 = 0 -> 255 - b
    [] OTHER -> (b + 128) % 256

Hex(addr, type, bytes) ==
  LET head == <<Colon>> \o Digits(<<Len(bytes), addr \div 256, addr % 256, type>> \o bytes)
  IN  head \o byte2str(Checksum(SumFrom(head, LengthPos, Len(bytes) + 4)))

Lower(text) == [i \in 1 .. Len(text) |-> IF text[i] \in 10 .. 15 THEN text[i] + 6 ELSE text[i]]

Ended(text) == [text |-> text, end |-> "crlf"]

Good ==
  {Ended(Hex(4660, 0, <<>>)), Ended(Hex(256, 0, <<171>>)), Ended(Hex(65535, 0, <<0, 255>>)),
   Ended(Lower(Hex(171, 0, <<205, 16, 254>>))), Ended(Hex(0, 2, <<16, 0>>)),
   Ended(Hex(0, 2, <<7>>)), Ended(Hex(0, 4, <<8, 0>>)), Ended(Hex(0, 5, <<8, 0, 1, 1>>))}

Bad ==
  {Ended([Hex(256, 0, <<171>>) EXCEPT ![11] = 0]), Ended(Append(Hex(256, 0, <<171>>), 0)),
   Ended(Hex(0, 4, <<>>)), Ended(Hex(0, 9, <<1>>)), Ended(<<Other>>),
   [text |-> Hex(256, 0, <<171>>), end |-> "lf"], [text |-> Hex(256, 0, <<171>>), end |-> "eof"]}

MCFiles ==
  {<<a, b, c, Ended(Hex(0, 1, <<>>))>> : a, b \in Good \cup Bad, c \in Good}
=============================================================================
