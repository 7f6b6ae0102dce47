----------------------------- MODULE MCStartUp -----------------------------
(***************************************************************************)
(* Values for StartUp: the flash of MCBootloader and a few lines.          *)
(***************************************************************************)
EXTENDS StartUp

MCLines ==
  {TextLine("erase"), TextLine("program"), TextLine("bad"), EofLine(TRUE),
   DataLine(12, <<1, 2, 1>>), DataLine(13, <<2>>)}

\* The cipher is another run's subject.
MCDecrypt(n, i, b) == b

MCFactoryCells == [c \in Cells |-> IF c \in BootCells THEN [lo |-> 1, hi |-> 2] ELSE Blank]
MCTornWords == {Zero, [lo |-> 1, hi |-> FF]}
=============================================================================
