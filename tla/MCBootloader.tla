---------------------------- MODULE MCBootloader ----------------------------
(***************************************************************************)
(* Values for the constants of Bootloader.  The flash is three pages of    *)
(* four bytes at address 8; the bootloader fills three bytes of the first, *)
(* the application has the other two, 12 to 19.  A byte has two bits.      *)
(***************************************************************************)
EXTENDS Bootloader

Commands == {TextLine("erase"), TextLine("program"), TextLine("bad")}

\* Records that start or end on an odd address, leave a gap, repeat an
\* address, run past the last byte or lie in the bootloader; offsets that
\* move them elsewhere, wrap the 32-bit address around, or are left over from
\* a segment never reset.
MCLines ==
  Commands \cup {EofLine(TRUE), EofLine(FALSE), OffsetLine(8), OffsetLine(24)}
  \cup {DataLine(12, <<1>>), DataLine(13, <<2>>), DataLine(15, <<1, 1>>),
        DataLine(19, <<1, 1>>), DataLine(10, <<1>>)}

\* Two-bit exclusive or, and a key stream of two alternating blocks.
Xor2(a, b) == ((a + b) % 2) + 2 * (((a \div 2) + (b \div 2)) % 2)
MCDecrypt(n, i, b) == Xor2(b, (n + i) % 2)

MCFactoryCells == [c \in Cells |-> IF c \in BootCells THEN [lo |-> 1, hi |-> 2] ELSE Blank]
MCTornWords == {Zero, [lo |-> 1, hi |-> FF]}
=============================================================================
