---------------------------- MODULE MCProcedure ----------------------------
(***************************************************************************)
(* Files for Procedure, in the layout of MCBootloader.                     *)
(***************************************************************************)
EXTENDS Procedure

Xor2(a, b) == ((a + b) % 2) + 2 * (((a \div 2) + (b \div 2)) % 2)
MCDecrypt(n, i, b) == Xor2(b, (n + i) % 2)

MCFactoryCells == [c \in Cells |-> [lo |-> 1, hi |-> 2]]
NoTornWords == {}

\* Whole half-words, in two segments: the address is made of an offset and
\* a record address.  The last record fills the last cell of the flash.
AlignedFile ==
  <<OffsetLine(8), DataLine(4, <<1, 2>>), DataLine(6, <<0, 1>>), OffsetLine(16),
    DataLine(0, <<2, 2>>), DataLine(2, <<2, 1>>), TextLine("start"), EofLine(TRUE)>>

\* A section of odd length.
OddFile == <<DataLine(12, <<1, 2, 1>>), DataLine(16, <<2, 0>>), EofLine(TRUE)>>

\* The end-of-file record written ":00000001ff".
LowerCaseFile == <<DataLine(12, <<1, 2>>), EofLine(FALSE)>>

MCLines == {File[i] : i \in 1 .. Len(File)} \cup {TextLine("bad"), TextLine("program")}

\* The hypotheses of the theorems in Procedure_proofs: AlignedFile meets both.
ASSUME HexFile /\ (WellMade <=> File = AlignedFile)
=============================================================================
