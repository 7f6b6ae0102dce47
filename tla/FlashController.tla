-------------------------- MODULE FlashController --------------------------
(***************************************************************************)
(* The flash program/erase controller (FPEC) seen through the calls the    *)
(* bootloader makes of stm32f10x_flash.c: unlocking and locking the        *)
(* control register, erasing a page, programming a half-word.  A           *)
(* controller is a record                                                  *)
(*     cells   the contents of the flash                                   *)
(*     locked  the LOCK bit of FLASH->CR                                   *)
(*     flags   the error bits of FLASH->SR, which stay set until cleared   *)
(* and each operator returns the controller after the call.                *)
(*                                                                         *)
(* "fault" is what the hardware does with an operation: "none" carries it  *)
(* out; "WRPRTERR" refuses it (a write-protected page) and sets the flag;  *)
(* "timeout" leaves it undone when the driver stops waiting; "late" is an  *)
(* operation that does complete, but after the driver stopped waiting.     *)
(***************************************************************************)
EXTENDS FlashLayout

ErrorFlags == {"PGERR", "WRPRTERR"}
Faults     == {"WRPRTERR", "timeout", "late"}

Controller == [cells : [Cells -> Word], locked : BOOLEAN, flags : SUBSET ErrorFlags]

FLASH_Unlock(f)    == [f EXCEPT !.locked = FALSE]
FLASH_Lock(f)      == [f EXCEPT !.locked = TRUE]

\* Mutant: the error flags of an earlier operation stay set.
KeepFlags(f) == f

FLASH_ClearFlag(f) == [f EXCEPT !.flags = {}]

\* FLASH_WaitForLastOperation = FLASH_COMPLETE before an operation: no error
\* flag is left from an earlier one.  With the control register locked the
\* driver's writes to it have no effect, and nothing is done either.
Ready(f)  == f.flags = {}
Starts(f) == Ready(f) /\ ~f.locked

FLASH_ErasePage(f, a, fault) ==
  IF ~Starts(f) \/ fault = "timeout" THEN f
  ELSE IF fault = "WRPRTERR" THEN [f EXCEPT !.flags = {"WRPRTERR"}]
  ELSE [f EXCEPT !.cells = [c \in Cells |-> IF c \in PageCells(a) THEN Blank ELSE f.cells[c]]]

\* A half-word can be programmed only where the cell is erased; the one
\* value accepted over another is 0x0000.
Programmable(f, a, w) == f.cells[a] = Blank \/ w = Zero

FLASH_ProgramHalfWord(f, a, w, fault) ==
  IF ~Starts(f) \/ fault = "timeout" THEN f
  ELSE IF fault = "WRPRTERR" THEN [f EXCEPT !.flags = {"WRPRTERR"}]
  ELSE IF ~Programmable(f, a, w) THEN [f EXCEPT !.flags = {"PGERR"}]
  ELSE [f EXCEPT !.cells[a] = w]

\* FLASH_ProgramHalfWord(f, a, w, fault) == FLASH_COMPLETE
ProgramCompletes(f, a, w, fault) ==
  fault \notin {"timeout", "late"} /\ Ready(FLASH_ProgramHalfWord(f, a, w, fault))
=============================================================================
