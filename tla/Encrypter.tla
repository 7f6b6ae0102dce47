------------------------------ MODULE Encrypter ------------------------------
(***************************************************************************)
(* An application on its way from the hex file to the packer of the        *)
(* device: encrypter/main.c reads the file line by line, rewrites the data *)
(* records it can parse, encrypted, and drops the lines it cannot; the     *)
(* device parses and decrypts the lines it is sent.  Both ends run the     *)
(* same parser and start the same key stream; neither says in a record     *)
(* which block of it the record uses.                                      *)
(***************************************************************************)
EXTENDS HexParser

CONSTANTS
  Files,           \* the hex files: sequences of lines with their line ends
  BlockLen,        \* AES_BLOCKLEN
  MaxBlocks,       \* bound: key-stream blocks used for one file
  Crypt(_, _, _)   \* Crypt(n, i, b): byte b xor byte i of key-stream block n

LineEnds == {"crlf", "lf", "eof"}

ASSUME EncrypterAssumption ==
  /\ Files \subseteq Seq([text : Seq(Char), end : LineEnds])
  /\ BlockLen \in Nat \ {0} /\ MaxBlocks \in Nat
  /\ \A n \in 0 .. MaxBlocks, i \in 0 .. BlockLen - 1, b \in 0 .. 255 :
       Crypt(n, i, b) \in 0 .. 255 /\ Crypt(n, i, Crypt(n, i, b)) = b

VARIABLES
  file,     \* lines of the hex file the encrypter has not read
  encCtr,   \* key-stream blocks the encrypter has used
  output,   \* lines it has written and the device has not been sent
  devCtr,   \* key-stream blocks the device has used
  meant,    \* history: the records of the hex file that were encrypted
  written,  \* history: the lines of the encrypted file
  got       \* history: what the device made of the lines, "bad" included

vars == <<file, encCtr, output, devCtr, meant, written, got>>

Init ==
  /\ file \in Files
  /\ encCtr = 0 /\ output = <<>> /\ devCtr = 0
  /\ meant = <<>> /\ written = <<>> /\ got = <<>>

\* AES_CTR_xcrypt_buffer: a call starts on a block of its own.
Xcrypt(ctr, data) ==
  [i \in 1 .. Len(data) |-> Crypt(ctr + ((i - 1) \div BlockLen), (i - 1) % BlockLen, data[i])]
BlocksOf(data) == (Len(data) + BlockLen - 1) \div BlockLen

\* getline keeps the line end, and the program cuts off two characters.
Cut(l) ==
  LET keep == Len(l.text) - (CASE l.end = "crlf" -> 0 [] l.end = "lf" -> 1 [] l.end = "eof" -> 2)
  IN  SubSeq(l.text, 1, keep)

\* Mutant: the key stream runs on over a line that is dropped.
NextLineCounts ==
  /\ file # <<>>
  /\ file' = Tail(file)
  /\ LET str == Cut(Head(file))
         r   == Parse(str)
         out == IF r.kind = "data" THEN Rewrite(str, Xcrypt(encCtr, r.data)) ELSE str
     IN  IF r = Refused
         THEN encCtr' = encCtr + 1 /\ UNCHANGED <<output, meant, written>>
         ELSE /\ encCtr + BlocksOf(r.data) <= MaxBlocks
              /\ encCtr' = encCtr + BlocksOf(r.data)
              /\ output' = Append(output, out)
              /\ meant' = Append(meant, r)
              /\ written' = Append(written, out)
  /\ UNCHANGED <<devCtr, got>>

NextLine ==
  /\ file # <<>>
  /\ file' = Tail(file)
  /\ LET str == Cut(Head(file))
         r   == Parse(str)
         out == IF r.kind = "data" THEN Rewrite(str, Xcrypt(encCtr, r.data)) ELSE str
     IN  IF r = Refused
         THEN UNCHANGED <<encCtr, output, meant, written>>
         ELSE /\ encCtr + BlocksOf(r.data) <= MaxBlocks
              /\ encCtr' = encCtr + BlocksOf(r.data)
              /\ output' = Append(output, out)
              /\ meant' = Append(meant, r)
              /\ written' = Append(written, out)
  /\ UNCHANGED <<devCtr, got>>

\* stm_hex_feed and new_data, up to the packer.
FeedDevice ==
  /\ output # <<>>
  /\ LET r == Parse(Head(output)) IN
     /\ got' = Append(got, [r EXCEPT !.data = Xcrypt(devCtr, r.data)])
     /\ devCtr' = devCtr + BlocksOf(r.data)
  /\ output' = Tail(output)
  /\ UNCHANGED <<file, encCtr, meant, written>>

Next == NextLine \/ FeedDevice

Spec == Init /\ [][Next]_vars

-----------------------------------------------------------------------------
\* The device gets the records of the hex file, in order, with the data
\* they had there: it accepts every line the encrypter writes, and its key
\* stream stays in step with the encrypter's however long the records are
\* and whichever lines were dropped.
DeviceGetsPlaintext == got = SubSeq(meant, 1, Len(got))

\* A character of the encrypted file that arrives as another one is
\* noticed, unless it is the same digit in the other case.  Stated of the
\* line written last, whichever it is.
DamageNoticed ==
  written # <<>> =>
    LET str == written[Len(written)] IN
    \A i \in 1 .. Len(str), c \in Char :
      Parse([str EXCEPT ![i] = c]) \in {Refused, Parse(str)}
=============================================================================
