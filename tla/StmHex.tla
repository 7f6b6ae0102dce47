------------------------------- MODULE StmHex -------------------------------
(***************************************************************************)
(* hex_parser_on_data of src/stm_hex.c: packing a stream of decrypted      *)
(* (address, byte) pairs into the half-words flash can be programmed with. *)
(* A byte at an even address is kept until its odd neighbour arrives; a    *)
(* byte whose neighbour does not come is written next to 0xFF.             *)
(*                                                                         *)
(* The kept byte is the record  even = [valid, addr, data]  (the statics   *)
(* even_valid, even_addr, even_data).  A call writes the half-words of     *)
(* WordsOnByte in order, up to the first that fails, and leaves            *)
(* EvenOnByte: the code updates the statics whether or not a write failed. *)
(***************************************************************************)
EXTENDS FlashLayout, Sequences

EvenByte == [valid : BOOLEAN, addr : Addr, data : Byte]
NoEven   == [valid |-> FALSE, addr |-> 0, data |-> 0]

HalfWord    == [addr : Addr, word : Word]
Put(a, l, h) == [addr |-> a, word |-> [lo |-> l, hi |-> h]]

IsOdd(a) == a % 2 = 1

\* The kept byte alone: (uint16_t)0xFF00 | even_data
Flush(even) == IF even.valid THEN <<Put(even.addr, even.data, FF)>> ELSE <<>>

\* Mutant: the two bytes of a half-word exchanged.
WordsSwapped(even, a, b) ==
  IF ~IsOdd(a) THEN Flush(even)
  ELSE IF even.valid /\ a - even.addr = 1 THEN <<Put(even.addr, b, even.data)>>
  ELSE Flush(even) \o <<Put(a - 1, FF, b)>>

WordsOnByte(even, a, b) ==
  IF ~IsOdd(a) THEN Flush(even)
  ELSE IF even.valid /\ a - even.addr = 1 THEN <<Put(even.addr, even.data, b)>>
  ELSE Flush(even) \o <<Put(a - 1, FF, b)>>

EvenOnByte(even, a, b) ==
  IF IsOdd(a) THEN [even EXCEPT !.valid = FALSE]
  ELSE [valid |-> TRUE, addr |-> a, data |-> b]

\* Mutant: the last byte of an odd-sized file is not written.
NoFlush(even) == <<>>

WordsOnFinish(even) == Flush(even)

\* Mutant: the byte stays pending after it was written.
StillPending(even) == even

EvenOnFinish(even) == [even EXCEPT !.valid = FALSE]
=============================================================================
