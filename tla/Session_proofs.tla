--------------------------- MODULE Session_proofs ---------------------------
(***************************************************************************)
(* What an erase leaves in the application area, what a session finds      *)
(* there and what it adds: three invariants on top of IInv, and the        *)
(* properties of Bootloader that follow from them.  The second part shows  *)
(* that Bootloader implements Flasher, for every layout, every set of      *)
(* lines and every fault: each action is mapped to one of Flasher's or to  *)
(* a stutter.  IInv says where the command line is when the action is      *)
(* taken, and ProgramOKMeansWritten is what makes Accept possible.         *)
(***************************************************************************)
EXTENDS Bootloader_proofs

(***************************************************************************)
(* The erase.  As long as no fault happens, the pages below eraseAddr are  *)
(* blank and the controller accepts the next operation.                    *)
(***************************************************************************)
IsPage(a)     == \E k \in Int : a = k * PageSize
BlankBelow(a) == \A c \in AppCells : c < a => flash.cells[c] = Blank

ErasedSoFar ==
  /\ IsPage(eraseAddr)
  /\ job # "none" /\ clean /\ ~StartsErase => Ready(flash) /\ BlankBelow(eraseAddr)

LEMMA NextMultiple ==
  ASSUME NEW p \in Nat \ {0}, NEW k \in Int
  PROVE  k * p + p = (k + 1) * p /\ 0 * p = 0
  BY SMT

LEMMA Quotient ==
  ASSUME NEW p \in Nat \ {0}, NEW k \in Int, NEW x \in Int, x >= k * p, x < (k + 1) * p
  PROVE  x \div p = k
<1>1. x \div p >= k /\ x \div p \in Int
  BY DivLower, DivMod
<1>2. x \div p < k + 1
  BY DivUpper
<1> QED BY <1>1, <1>2

\* The pages of the application begin at multiples of the page size.
LEMMA Aligned ==
  ASSUME IInv, ErasedSoFar, job # "none"
  PROVE  /\ EraseFrom \in Nat /\ IsPage(EraseFrom) /\ IsPage(EraseFrom + PageSize)
         /\ \A c \in AppCells : c < EraseFrom + PageSize /\ c >= EraseFrom
                                  => c \in PageCells(EraseFrom)
<1>1. EraseFrom \in Nat /\ PageSize \in Nat \ {0} /\ AppFirst \in Nat /\ LastAddr \in Nat
  BY ErasingType, LayoutTypes
<1>2. IsPage(EraseFrom)
  <2>1. CASE StartsErase
    <3>1. (LastAddr + PageSize) \div PageSize \in Int
      BY <1>1, DivMod
    <3> QED BY <2>1, <3>1 DEF EraseFrom, AppFirst, IsPage
  <2> QED BY <2>1 DEF EraseFrom, ErasedSoFar
<1>3. PICK k \in Int : EraseFrom = k * PageSize
  BY <1>2 DEF IsPage
<1>4. EraseFrom + PageSize = (k + 1) * PageSize /\ k + 1 \in Int
  BY <1>1, <1>3, NextMultiple
<1>5. ASSUME NEW c \in AppCells, c < EraseFrom + PageSize, c >= EraseFrom
      PROVE  c \in PageCells(EraseFrom)
  <2>1. c \in Cells /\ c \in Int
    BY LayoutTypes DEF AppCells
  <2>2. c \div PageSize = k
    BY <1>1, <1>3, <1>4, <1>5, <2>1, Quotient
  <2>3. EraseFrom \div PageSize = k
    <3>1. EraseFrom >= k * PageSize /\ EraseFrom < (k + 1) * PageSize
      BY <1>1, <1>3, <1>4
    <3> QED BY <1>1, <3>1, Quotient
  <2> QED BY <2>1, <2>2, <2>3 DEF PageCells
<1> QED BY <1>1, <1>2, <1>4, <1>5 DEF IsPage

\* Below the page being erased everything is blank, and the controller is
\* ready, if no fault has happened in this erase.
LEMMA SoFar ==
  ASSUME IInv, ErasedSoFar, job # "none", StartsErase \/ clean
  PROVE  Ready(ErasingFlash) /\ BlankBelow(EraseFrom)
<1>1. CASE StartsErase
  <2>1. flash \in Controller /\ FLASH_Unlock(flash) \in Controller
    BY ControllerTypes, WordTypes, LayoutTypes DEF IInv, TypeOK
  <2>2. Ready(ErasingFlash)
    BY <1>1, <2>1 DEF ErasingFlash, FLASH_ClearFlag, Ready, Controller
  <2>3. BlankBelow(EraseFrom)
    BY <1>1, LayoutTypes DEF EraseFrom, BlankBelow, AppCells
  <2> QED BY <2>2, <2>3
<1>2. CASE ~StartsErase
  BY <1>2 DEF ErasedSoFar, ErasingFlash, EraseFrom
<1> QED BY <1>1, <1>2

LEMMA ErasePageStepSoFar ==
  ASSUME IInv, ErasedSoFar, job # "none", ErasePageStep PROVE ErasedSoFar'
<1>1. PICK fault \in FaultChoices :
        /\ PagesLeft
        /\ eraseAddr' = EraseFrom + PageSize
        /\ IF PageClean(flash.cells, EraseFrom)
           THEN fault = "none" /\ flash' = ErasingFlash
           ELSE flash' = FLASH_ErasePage(ErasingFlash, EraseFrom, fault)
        /\ clean' = ((StartsErase \/ clean) /\ fault = "none")
  BY DEF ErasePageStep
<1>2. EraseFrom \in Nat /\ PageSize \in Nat \ {0} /\ IsPage(EraseFrom + PageSize)
      /\ \A c \in AppCells : c < EraseFrom + PageSize /\ c >= EraseFrom
                               => c \in PageCells(EraseFrom)
  BY Aligned, LayoutTypes
<1>3. IsPage(eraseAddr)'
  BY <1>1, <1>2 DEF IsPage
<1>4. ASSUME clean' PROVE Ready(flash') /\ BlankBelow(eraseAddr)'
  <2> DEFINE e == ErasingFlash
  <2>1. fault = "none" /\ Ready(e) /\ \A c \in AppCells : c < EraseFrom => e.cells[c] = Blank
    BY <1>1, <1>4, SoFar, ErasingType DEF BlankBelow
  <2>2. e \in Controller /\ ~e.locked /\ e.cells = flash.cells
    BY ErasingType
  <2> HIDE DEF e
  <2>3. /\ Ready(flash')
        /\ \A c \in Cells : flash'.cells[c] = e.cells[c] \/ flash'.cells[c] = Blank
        /\ \A c \in PageCells(EraseFrom) : flash'.cells[c] = Blank
    <3>1. CASE PageClean(flash.cells, EraseFrom)
      BY <1>1, <2>1, <2>2, <3>1 DEF PageClean, e
    <3>2. CASE ~PageClean(flash.cells, EraseFrom)
      <4>1. flash' = [e EXCEPT !.cells = [c \in Cells |-> IF c \in PageCells(EraseFrom)
                                                          THEN Blank ELSE e.cells[c]]]
        BY <1>1, <2>1, <2>2, <3>2 DEF FLASH_ErasePage, Starts, e
      <4> QED BY <2>1, <2>2, <4>1 DEF Controller, Ready, PageCells
    <3> QED BY <3>1, <3>2
  <2>4. ASSUME NEW c \in AppCells, c < eraseAddr' PROVE flash'.cells[c] = Blank
    <3>1. c \in Cells /\ c \in Nat
      BY LayoutTypes DEF AppCells
    <3> QED BY <1>1, <1>2, <2>1, <2>3, <2>4, <3>1
  <2> QED BY <2>3, <2>4 DEF BlankBelow
<1> QED BY <1>3, <1>4 DEF ErasedSoFar

LEMMA StepSoFar == IInv /\ ErasedSoFar /\ [Next]_vars => ErasedSoFar'
<1> SUFFICES ASSUME IInv, ErasedSoFar, [Next]_vars PROVE ErasedSoFar' OBVIOUS
<1>0. IsPage(0)
  BY LayoutTypes, NextMultiple DEF IsPage
<1>1. CASE job # "none" /\ ErasePageStep
  BY <1>1, ErasePageStepSoFar
<1>2. CASE FinishErase \/ FinishProgram \/ PowerCycle
  BY <1>0, <1>2 DEF FinishErase, FinishProgram, EraseDone, PowerCycle, ErasedSoFar, IsPage
<1>3. ASSUME NEW l \in Lines, Command(l) PROVE ErasedSoFar'
  <2>1. eraseAddr' = 0
    BY <1>3 DEF Command, Idle, IInv, PhaseInv
  <2> QED BY <1>0, <2>1 DEF ErasedSoFar, StartsErase, IsPage
<1>4. CASE (\E l \in Lines : HexLine(l)) \/ FeedByte \/ WriteWord \/ EndLine
  <2>1. job = "none"
    BY <1>4 DEF HexLine, Idle, FeedByte, WriteWord, EndLine, IInv, PhaseInv
  <2>2. UNCHANGED <<job, eraseAddr>>
    BY <1>4 DEF HexLine, FeedData, FeedEof, FeedOffset, Reject, FeedByte, WriteWord, EndLine, cliVars
  <2> QED BY <2>1, <2>2 DEF ErasedSoFar, IsPage
<1>5. CASE UNCHANGED vars
  BY <1>5 DEF vars, cliVars, histVars, ErasedSoFar, StartsErase, BlankBelow, IsPage
<1> QED BY <1>1, <1>2, <1>3, <1>4, <1>5 DEF Next, Work, cmd_erase, cmd_program

\* When no page is left, no cell of the application holds anything.
LEMMA AllErased ==
  ASSUME IInv, ErasedSoFar, job # "none", StartsErase \/ clean, ~PagesLeft
  PROVE  Ready(ErasingFlash) /\ \A c \in AppCells : flash.cells[c] = Blank
<1>1. Ready(ErasingFlash) /\ BlankBelow(EraseFrom)
  BY SoFar
<1>2. EraseFrom \in Nat /\ AppLast \in Nat /\ AppLast < EraseFrom
  BY ErasingType, LayoutTypes DEF PagesLeft
<1>3. \A c \in AppCells : c \in Nat /\ c <= AppLast
  BY LayoutTypes DEF AppCells, Cells
<1> QED BY <1>1, <1>2, <1>3 DEF BlankBelow

(***************************************************************************)
(* The cells of the application.                                           *)
(***************************************************************************)
LEMMA Even ==
  ASSUME NEW p \in Nat \ {0}, p % 4 = 0, NEW k \in Int
  PROVE  (p * k) % 2 = 0 /\ p * k \in Int
<1> DEFINE m == p \div 4
<1>1. m \in Int /\ p = 4 * m
  OBVIOUS
<1> HIDE DEF m
<1>2. p * k = 2 * (2 * (m * k)) /\ m * k \in Int
  BY <1>1
<1> QED BY <1>2

LEMMA Borders ==
  /\ AppFirst \in Nat /\ AppLast \in Nat /\ AppFirst % 2 = 0 /\ AppLast % 2 = 1
  /\ FlashBase <= AppFirst /\ AppLast < AddrSpace /\ FlashBase \in Nat
<1>0. PageSize \in Nat \ {0} /\ AppFirst \in Nat /\ AppLast \in Nat /\ LastAddr \in Nat
      /\ AppLast < AddrSpace /\ FlashBase \in Nat /\ AddrSpace \in Nat
  BY LayoutTypes, LayoutAssumption
<1>1. AppFirst % 2 = 0
  <2>1. (LastAddr + PageSize) \div PageSize \in Int
    BY <1>0, DivMod
  <2> DEFINE k == (LastAddr + PageSize) \div PageSize
  <2> HIDE DEF k
  <2>2. k \in Int /\ AppFirst = k * PageSize
    BY <2>1 DEF k, AppFirst
  <2>3. k * PageSize = PageSize * k
    BY <1>0, <2>2
  <2> QED BY <1>0, <2>2, <2>3, Even, LayoutAssumption
<1>2. ASSUME NEW x \in Nat, x % PageSize = 0 PROVE x % 2 = 0
  <2>1. x \div PageSize \in Int /\ x = PageSize * (x \div PageSize) + (x % PageSize)
    BY <1>0, DivMod
  <2>2. x = PageSize * (x \div PageSize)
    BY <1>0, <1>2, <2>1
  <2> QED BY <1>0, <2>1, <2>2, Even, LayoutAssumption
<1>3. FlashBase % 2 = 0 /\ FlashSize % 2 = 0
  BY <1>2, LayoutAssumption
<1>4. AppLast % 2 = 1
  BY <1>0, <1>3, LayoutAssumption DEF AppLast
<1>5. FlashBase <= AppFirst
  BY <1>0, LayoutTypes, LayoutAssumption DEF LastAddr
<1> QED BY <1>0, <1>1, <1>4, <1>5

\* The cell of an address.
CellOf(a) == a - (a % 2)

LEMMA CellOfApp ==
  ASSUME NEW a \in Addr, InApp(a)
  PROVE  CellOf(a) \in AppCells /\ CellOf(a) \in Addr /\ (~IsOdd(a) => CellOf(a) = a)
         /\ (IsOdd(a) => CellOf(a) = a - 1)
<1>1. a \in Nat /\ a >= AppFirst /\ a <= AppLast
  BY DEF InApp, Addr
<1>2. CellOf(a) \in Nat /\ CellOf(a) >= AppFirst /\ CellOf(a) <= AppLast /\ CellOf(a) % 2 = 0
      /\ (~IsOdd(a) => CellOf(a) = a) /\ (IsOdd(a) => CellOf(a) = a - 1)
  BY <1>1, Borders DEF CellOf, IsOdd
<1> QED BY <1>2, Borders, LayoutTypes DEF AppCells, Cells, Addr

LEMMA AppCellType ==
  ASSUME NEW c \in AppCells
  PROVE  c \in Cells /\ c \in Addr /\ c \in Nat /\ ~IsOdd(c) /\ InApp(c) /\ Writable(c)
<1>1. c \in Cells /\ c \in Nat /\ c % 2 = 0 /\ c >= AppFirst /\ c <= AppLast /\ c \in Addr
  BY LayoutTypes DEF AppCells, Cells
<1>2. c # AppLast
  BY <1>1, Borders
<1> QED BY <1>1, <1>2, Borders DEF IsOdd, InApp, Writable

(***************************************************************************)
(* The session.  When it began with nothing pending and no fault, nothing  *)
(* but what it was fed is in the application area or on its way there.     *)
(***************************************************************************)
Fed(a) == image[a] # NoByte

OnlyFed ==
  /\ even.valid => Fed(even.addr)
  /\ \A i \in 1 .. Len(words), a \in Addr :
       words[i].addr = CellOf(a) /\ ~Fed(a) => Half(words[i].word, IsOdd(a)) = FF
  /\ \A a \in AppFirst .. AppLast : ~Fed(a) => ByteAt(a) = FF

\* When its lines are also in order, what lies ahead is blank, a half-word is
\* only ever written once, and the byte that waits for its neighbour is the
\* last one fed.
Ahead(c)  == \A x \in Addr : Fed(x) => x < c
Last(x)   == Fed(x) /\ \A y \in Addr : Fed(y) => y <= x
Expected(c) == c \in AppCells /\ flash.cells[c] = Blank

Ascending ==
  /\ line.kind = "eof" => line.canon
  /\ \A c \in AppCells : Ahead(c) => flash.cells[c] = Blank
  /\ even.valid => Last(even.addr) /\ Expected(even.addr)
  /\ \A x \in Addr : Last(x) /\ ~IsOdd(x) /\ line.kind # "eof" => IsPending(x)
  /\ \A i \in 1 .. Len(words) :
       /\ Expected(words[i].addr)
       /\ \E x \in Addr : Fed(x) /\ words[i].addr <= x
       /\ even.valid => words[i].addr # even.addr

CleanSession == mode = "program" /\ clean => Ready(flash) /\ OnlyFed /\ (orderly => Ascending)

SInv == IInv /\ ErasedSoFar /\ CleanSession /\ ProgramOKMeansOnlyWritten

\* When an erase without a fault is over, the application area reads FF.
LEMMA ErasedReadsBlank ==
  ASSUME IInv, NEW cells, \A c \in AppCells : cells[c] = Blank, flash'.cells = cells
  PROVE  \A a \in AppFirst .. AppLast : ByteAt(a)' = FF
<1> SUFFICES ASSUME NEW a \in AppFirst .. AppLast PROVE ByteAt(a)' = FF OBVIOUS
<1>1. a \in Addr /\ InApp(a)
  BY Borders, LayoutTypes DEF Addr, InApp
<1>2. CellOf(a) \in AppCells
  BY <1>1, CellOfApp
<1> QED BY <1>2 DEF ByteAt, Half, Blank, CellOf

LEMMA FinishEraseSession ==
  ASSUME SInv, job # "none", FinishErase PROVE CleanSession' /\ ProgramOKMeansOnlyWritten'
<1>1. mode' = "command" /\ clean' = clean /\ status' = status /\ image' = NoImage /\ ~PagesLeft
      /\ flash' = FLASH_Lock(ErasingFlash)
  BY DEF FinishErase, EraseDone, SInv, IInv, PhaseInv
<1>2. flash'.cells = flash.cells
  BY <1>1, ErasingType, ControllerFrame, WordTypes DEF SInv
<1>3. clean => \A c \in AppCells : flash.cells[c] = Blank
  BY <1>1, AllErased DEF SInv
<1>4. clean' => \A a \in AppFirst .. AppLast : ByteAt(a)' = FF
  BY <1>1, <1>2, <1>3, ErasedReadsBlank DEF SInv
<1> QED BY <1>1, <1>4 DEF CleanSession, ProgramOKMeansOnlyWritten

LEMMA FinishProgramSession ==
  ASSUME SInv, job # "none", FinishProgram PROVE CleanSession' /\ ProgramOKMeansOnlyWritten'
<1>1. /\ flash' = FLASH_Unlock(FLASH_Lock(ErasingFlash)) /\ ~PagesLeft /\ status' = "empty"
      /\ clean' = ((StartsErase \/ clean) /\ ~even.valid)
      /\ image' = NoImage /\ even' = even /\ line' = line /\ words' = words
      /\ line = NoLine /\ words = <<>>
  BY DEF FinishProgram, EraseDone, feedVars, SInv, IInv, PhaseInv
<1>2. ASSUME clean' PROVE Ready(flash') /\ OnlyFed' /\ Ascending'
  <2> DEFINE e == ErasingFlash
  <2>1. Ready(e) /\ (\A c \in AppCells : flash.cells[c] = Blank)
    BY <1>1, <1>2, AllErased DEF SInv
  <2>2. e \in Controller /\ e.cells = flash.cells
    BY ErasingType DEF SInv
  <2>3. flash'.cells = e.cells /\ Ready(flash')
    <3> HIDE DEF e
    <3>1. flash' = [[e EXCEPT !.locked = TRUE] EXCEPT !.locked = FALSE]
      BY <1>1 DEF FLASH_Unlock, FLASH_Lock, e
    <3> QED BY <2>1, <2>2, <3>1 DEF Controller, Ready
  <2>4. \A a \in AppFirst .. AppLast : ByteAt(a)' = FF
    BY <2>1, <2>2, <2>3, ErasedReadsBlank DEF SInv
  <2>5. Len(words') = 0 /\ ~even'.valid /\ line'.kind = "bad"
    BY <1>1, <1>2, ConstantTypes
  <2>6. OnlyFed'
    BY <2>4, <2>5 DEF OnlyFed
  <2>7. \A x \in Addr : ~Fed(x)'
    BY <1>1 DEF Fed, NoImage
  <2>8. Ascending'
    BY <2>1, <2>2, <2>3, <2>5, <2>7 DEF Ascending, Last
  <2> QED BY <2>3, <2>6, <2>8
<1> QED BY <1>1, <1>2 DEF CleanSession, ProgramOKMeansOnlyWritten

\* Steps that touch neither the flash nor what was fed.
LEMMA SessionFrame ==
  ASSUME UNCHANGED <<image, words, even>>, flash' = flash
  PROVE  /\ OnlyFed => OnlyFed'
         /\ Ascending /\ (line.kind = "eof" => line'.kind = "eof")
              /\ (line'.kind = "eof" => line'.canon) => Ascending'
<1>1. \A a \in Addr : (Fed(a)' <=> Fed(a)) /\ (Last(a)' <=> Last(a)) /\ (Ahead(a)' <=> Ahead(a))
                      /\ (IsPending(a)' <=> IsPending(a))
  BY DEF Fed, Last, Ahead, IsPending
<1>2. \A a : ByteAt(a)' = ByteAt(a) /\ (Expected(a)' <=> Expected(a)) /\ (Fed(a)' <=> Fed(a))
             /\ (Ahead(a)' <=> Ahead(a)) /\ (Last(a)' <=> Last(a))
  BY DEF ByteAt, Expected, Fed, Ahead, Last
<1>3. OnlyFed => OnlyFed'
  BY <1>2 DEF OnlyFed
<1>4. Ascending /\ (line.kind = "eof" => line'.kind = "eof")
        /\ (line'.kind = "eof" => line'.canon) => Ascending'
  BY <1>1, <1>2 DEF Ascending
<1> QED BY <1>3, <1>4

LEMMA EndErrorSession ==
  ASSUME NEW f, EndSession(f, "error") PROVE CleanSession' /\ ProgramOKMeansOnlyWritten'
BY DEF EndSession, CleanSession, ProgramOKMeansOnlyWritten

LEMMA FeedEofSession ==
  ASSUME SInv, Idle, mode = "program", NEW l \in Lines, FeedEof(l)
  PROVE  CleanSession' /\ ProgramOKMeansOnlyWritten'
<1>1. /\ line' = l /\ l.kind = "eof" /\ words' = Flush(even) /\ even' = EvenOnFinish(even)
      /\ orderly' = (orderly /\ l.canon)
      /\ UNCHANGED <<flash, mode, status, image, clean>>
      /\ status = "empty" /\ even \in EvenByte /\ line.kind # "eof"
  BY ConstantTypes DEF FeedEof, cliVars, WordsOnFinish, SInv, IInv, PhaseInv, TypeOK, Idle
<1>2. ~even'.valid
  BY <1>1 DEF EvenOnFinish, EvenByte
<1>3. ProgramOKMeansOnlyWritten'
  BY <1>1 DEF ProgramOKMeansOnlyWritten
<1>4. \A a : ByteAt(a)' = ByteAt(a) /\ (Expected(a)' <=> Expected(a)) /\ (Fed(a)' <=> Fed(a))
             /\ (Ahead(a)' <=> Ahead(a))
  BY <1>1 DEF ByteAt, Expected, Fed, Ahead
<1>5. \A i \in 1 .. Len(words') :
        /\ even.valid /\ words'[i].addr = even.addr
        /\ words'[i].word.hi = FF
  BY <1>1 DEF Flush, Put
<1>6. even.valid => even.addr \in Addr /\ even.addr \in Nat /\ ~IsOdd(even.addr)
  BY <1>1 DEF SInv, IInv, HalfWordsApart, EvenByte, Addr
<1>7. ASSUME OnlyFed PROVE OnlyFed'
  <2>1. ASSUME NEW i \in 1 .. Len(words'), NEW a \in Addr, words'[i].addr = CellOf(a), ~Fed(a)'
        PROVE  Half(words'[i].word, IsOdd(a)) = FF
    <3>1. Fed(even.addr) /\ words'[i].addr = even.addr
      BY <1>5, <1>7, <2>1 DEF OnlyFed
    <3>2. a # even.addr
      BY <1>4, <2>1, <3>1
    <3>3. IsOdd(a)
      BY <2>1, <3>1, <3>2 DEF CellOf, IsOdd, Addr
    <3> QED BY <1>5, <3>3 DEF Half
  <2> QED BY <1>1, <1>2, <1>4, <1>7, <2>1 DEF OnlyFed
<1>8. ASSUME OnlyFed, Ascending, l.canon PROVE Ascending'
  <2>1. ASSUME NEW i \in 1 .. Len(words')
        PROVE  /\ Expected(words[i].addr)'
               /\ \E x \in Addr : Fed(x)' /\ words'[i].addr <= x
    <3>1. even.valid /\ words'[i].addr = even.addr
      BY <1>5
    <3>2. Expected(even.addr) /\ Fed(even.addr)
      BY <1>6, <1>8, <3>1 DEF Ascending, Last
    <3>3. Expected(words[i].addr)'
      BY <1>1, <3>1, <3>2 DEF Expected
    <3>4. PICK x \in Addr : x = even.addr /\ Fed(x) /\ x \in Nat
      BY <1>6, <3>1, <3>2
    <3>5. Fed(x)' /\ words'[i].addr <= x
      BY <1>4, <3>1, <3>4
    <3> QED BY <3>3, <3>5
  <2>2. \A c \in AppCells : Ahead(c)' => flash'.cells[c] = Blank
    BY <1>1, <1>4, <1>8 DEF Ascending
  <2> QED BY <1>1, <1>2, <1>8, <2>1, <2>2 DEF Ascending
<1> QED BY <1>1, <1>3, <1>7, <1>8 DEF CleanSession, SInv

LEMMA HexLineSession ==
  ASSUME SInv, NEW l \in Lines, HexLine(l)
  PROVE  CleanSession' /\ ProgramOKMeansOnlyWritten'
<1>1. CASE FeedData(l) \/ FeedOffset(l)
  <2>1. /\ UNCHANGED <<flash, words, even, mode, status, image, clean, orderly>>
        /\ line'.kind # "eof" /\ line.kind # "eof" /\ mode = "program" /\ status = "empty"
    BY <1>1, ConstantTypes DEF HexLine, Idle, FeedData, FeedOffset, cliVars, histVars, feedVars,
       SInv, IInv, PhaseInv
  <2>2. OnlyFed => OnlyFed'
    BY <2>1, SessionFrame
  <2>3. Ascending => Ascending'
    BY <2>1, SessionFrame
  <2> QED BY <2>1, <2>2, <2>3 DEF SInv, CleanSession, ProgramOKMeansOnlyWritten
<1>2. CASE FeedEof(l)
  BY <1>2, FeedEofSession DEF HexLine
<1>3. CASE Reject(l)
  BY <1>3, EndErrorSession DEF Reject
<1> QED BY <1>1, <1>2, <1>3 DEF HexLine

LEMMA EndLineSession ==
  ASSUME SInv, EndLine PROVE CleanSession' /\ ProgramOKMeansOnlyWritten'
<1>1. mode = "program" /\ status = "empty" /\ job = "none" /\ flash \in Controller
      /\ words = <<>> /\ UNCHANGED <<job, even, image, clean, orderly>>
  BY DEF EndLine, SInv, IInv, PhaseInv, TypeOK, hexVars, histVars
<1>2. CASE EndSession(flash, "ok")
  <2>1. flash'.cells = flash.cells /\ mode' = "command" /\ status' = "ok"
    BY <1>1, <1>2, ControllerFrame, WordTypes, LayoutTypes DEF EndSession
  <2>2. \A a : ByteAt(a)' = ByteAt(a)
    BY <2>1 DEF ByteAt
  <2> QED BY <1>1, <2>1, <2>2 DEF SInv, CleanSession, OnlyFed, Fed, ProgramOKMeansOnlyWritten
<1>3. CASE ~EndSession(flash, "ok")
  <2>1. /\ ~(line.kind = "eof" /\ line.canon) /\ line' = NoLine
        /\ UNCHANGED <<flash, mode, status, words>>
    BY <1>3 DEF EndLine
  <2>2. line'.kind # "eof"
    BY <2>1, ConstantTypes
  <2>3. OnlyFed => OnlyFed'
    BY <1>1, <2>1, SessionFrame
  <2>4. Ascending => Ascending'
    BY <1>1, <2>1, <2>2, SessionFrame DEF Ascending
  <2> QED BY <1>1, <2>1, <2>3, <2>4 DEF SInv, CleanSession, ProgramOKMeansOnlyWritten
<1> QED BY <1>2, <1>3

\* A half-word of a clean and orderly session is always written.
LEMMA ExpectedWord ==
  ASSUME SInv, words # <<>>, clean, orderly
  PROVE  /\ Writable(Head(words).addr)
         /\ ProgramCompletes(flash, Head(words).addr, Head(words).word, "none")
<1> DEFINE q == Head(words).addr
           w == Head(words).word
<1>1. mode = "program" /\ flash \in Controller /\ words[1] = Head(words) /\ 1 \in 1 .. Len(words)
      /\ w \in Word
  BY HeadWord DEF SInv
<1>2. Ready(flash) /\ Expected(q)
  BY <1>1 DEF SInv, CleanSession, Ascending
<1>3. ~flash.locked
  BY <1>1 DEF SInv, IInv, PhaseInv, LockDiscipline
<1>4. q \in Cells /\ Writable(q)
  BY <1>2, AppCellType DEF Expected
<1>5. ProgramCompletes(flash, q, w, "none")
  BY <1>1, <1>2, <1>3, <1>4 DEF Expected, ProgramCompletes, FLASH_ProgramHalfWord, Ready, Starts,
     Programmable, Controller
<1> QED BY <1>4, <1>5

LEMMA WriteWordSession ==
  ASSUME SInv, WriteWord PROVE CleanSession' /\ ProgramOKMeansOnlyWritten'
<1> DEFINE q == Head(words).addr
           w == Head(words).word
           Program(fault) == FLASH_ProgramHalfWord(flash, q, w, fault)
<1>1. PICK fault \in FaultChoices :
        /\ words # <<>>
        /\ \/ /\ Writable(q) /\ ProgramCompletes(flash, q, w, fault)
              /\ flash' = Program(fault) /\ words' = Tail(words)
              /\ UNCHANGED <<mode, status, line, rec, recAddr>>
           \/ EndSession(Program(fault), "error")
           \/ EndSession(flash, "error")
        /\ clean' = (clean /\ fault = "none")
        /\ UNCHANGED <<running, job, eraseAddr, hexVars, image, orderly>>
  BY DEF WriteWord
<1>2. CASE EndSession(Program(fault), "error") \/ EndSession(flash, "error")
  BY <1>2, EndErrorSession
<1>3. CASE /\ Writable(q) /\ ProgramCompletes(flash, q, w, fault)
           /\ flash' = Program(fault) /\ words' = Tail(words)
           /\ UNCHANGED <<mode, status, line, rec, recAddr>>
  <2>1. /\ mode = "program" /\ status = "empty" /\ flash \in Controller
        /\ Len(words) \in Nat \ {0} /\ words[1] = Head(words)
        /\ q \in Addr /\ w \in Word /\ q \in Nat /\ ~IsOdd(q) /\ Len(words') = Len(words) - 1
        /\ \A i \in 1 .. Len(words) - 1 : words'[i] = words[i + 1]
    BY <1>1, <1>3, HeadWord DEF SInv
  <2>2. q \in Cells /\ ~flash.locked
    BY <1>3, <2>1, WritableCell DEF SInv, IInv, PhaseInv, LockDiscipline
  <2>3. flash'.cells = [flash.cells EXCEPT ![q] = w] /\ Ready(flash')
    BY <1>3, <2>1, <2>2, ProgramEffect DEF ProgramCompletes
  <2>4. flash'.cells[q] = w /\ \A c \in Cells : c # q => flash'.cells[c] = flash.cells[c]
    BY <2>1, <2>2, <2>3 DEF Controller
  <2>5. UNCHANGED <<even, image, orderly>> /\ \A a : (Fed(a)' <=> Fed(a))
    BY <1>1 DEF hexVars, Fed
  <2>6. ASSUME NEW i \in 1 .. Len(words')
        PROVE  i + 1 \in 1 .. Len(words) /\ words'[i] = words[i + 1] /\ words'[i].addr # q
    <3>1. i + 1 \in 1 .. Len(words) /\ words'[i] = words[i + 1] /\ i + 1 # 1 /\ 1 \in 1 .. Len(words)
      BY <2>1
    <3> QED BY <2>1, <3>1 DEF SInv, IInv, HalfWordsApart
  <2>7. 1 \in 1 .. Len(words)
    BY <2>1
  <2>8. ASSUME OnlyFed PROVE OnlyFed'
    <3>1. ASSUME NEW a \in AppFirst .. AppLast, ~Fed(a) PROVE ByteAt(a)' = FF
      <4>1. a \in Addr /\ InApp(a)
        BY Borders, LayoutTypes DEF Addr, InApp
      <4>2. CellOf(a) \in Cells
        BY <4>1, CellOfApp, AppCellType
      <4>3. CASE CellOf(a) = q
        BY <2>1, <2>4, <2>7, <2>8, <3>1, <4>1, <4>3 DEF OnlyFed, ByteAt, CellOf
      <4>4. CASE CellOf(a) # q
        BY <2>4, <2>8, <3>1, <4>2, <4>4 DEF OnlyFed, ByteAt, CellOf
      <4> QED BY <4>3, <4>4
    <3> QED BY <2>5, <2>6, <2>8, <3>1 DEF OnlyFed
  <2>9. ASSUME Ascending PROVE Ascending'
    <3>1. ASSUME NEW c \in AppCells, Ahead(c) PROVE flash'.cells[c] = Blank
      <4>1. c # q
        <5>1. PICK x \in Addr : Fed(x) /\ words[1].addr <= x
          BY <2>7, <2>9 DEF Ascending
        <5>2. x < c /\ x \in Nat /\ c \in Nat
          BY <3>1, <5>1, AppCellType DEF Ahead, Addr
        <5> QED BY <2>1, <5>1, <5>2
      <4> QED BY <2>4, <2>9, <3>1, <4>1, AppCellType DEF Ascending
    <3>2. \A c : Expected(c) /\ c # q => Expected(c)'
      BY <2>4, AppCellType DEF Expected
    <3>3. even.valid => even.addr # q
      BY <2>1, <2>7, <2>9 DEF Ascending
    <3>4. \A a : (Ahead(a)' <=> Ahead(a)) /\ (Last(a)' <=> Last(a))
                 /\ (IsPending(a)' <=> IsPending(a))
      BY <2>5 DEF Ahead, Last, IsPending
    <3>5. line' = line
      BY <1>3
    <3> QED BY <2>5, <2>6, <2>9, <3>1, <3>2, <3>3, <3>4, <3>5 DEF Ascending
  <2>10. (clean' => clean) /\ (orderly' <=> orderly) /\ mode = "program" /\ status' # "ok"
    BY <1>1, <1>3, <2>1
  <2>11. clean' => OnlyFed' /\ (orderly' => Ascending')
    BY <2>8, <2>9, <2>10 DEF SInv, CleanSession
  <2> QED BY <2>3, <2>10, <2>11 DEF CleanSession, ProgramOKMeansOnlyWritten
<1> QED BY <1>1, <1>2, <1>3

\* The half-words one byte completes: the pending byte's, next to 0xFF or to
\* this byte, and this byte's own, next to 0xFF.
FlushedWord(v) ==
  even.valid /\ v.addr = even.addr /\ (v.word.hi = FF \/ recAddr = even.addr + 1)
LoneWord(v) ==
  /\ IsOdd(recAddr) /\ v.addr = recAddr - 1 /\ v.word.lo = FF
  /\ ~(even.valid /\ even.addr = recAddr - 1)

LEMMA FeedWords ==
  ASSUME SInv, FeedByte
  PROVE  /\ \A i \in 1 .. Len(words') : FlushedWord(words'[i]) \/ LoneWord(words'[i])
         /\ even'.valid => even'.addr = recAddr /\ ~IsOdd(recAddr)
         /\ ~IsOdd(recAddr) => even'.valid
         /\ recAddr \in Addr /\ recAddr \in Nat /\ mode = "program" /\ status = "empty"
         /\ line.kind # "eof" /\ line' = line /\ flash' = flash
         /\ \A a \in Addr : Fed(a)' <=> Fed(a) \/ a = recAddr
         /\ even.valid => even.addr \in Addr /\ even.addr \in Nat /\ ~IsOdd(even.addr)
<1>1. /\ words' = WordsOnByte(even, recAddr, Head(rec)) /\ line' = line /\ flash' = flash
      /\ even' = EvenOnByte(even, recAddr, Head(rec)) /\ rec # <<>>
  BY DEF FeedByte
<1>2. recAddr \in Addr /\ Head(rec) \in Byte /\ mode = "program" /\ status = "empty"
      /\ line.kind # "eof"
      /\ \A a \in Addr : image'[a] = IF a = recAddr THEN Head(rec) ELSE image[a]
  BY <1>1, FeedByteTypes DEF SInv, IInv, PhaseInv
<1>3. Head(rec) # NoByte
  BY <1>2, LayoutTypes DEF Byte, NoByte
<1>4. \A a \in Addr : Fed(a)' <=> Fed(a) \/ a = recAddr
  BY <1>2, <1>3 DEF Fed
<1>5. even \in EvenByte /\ recAddr \in Nat
  BY <1>2 DEF SInv, IInv, TypeOK, Addr
<1>6. even.valid => even.addr \in Addr /\ even.addr \in Nat /\ ~IsOdd(even.addr)
  BY <1>5 DEF SInv, IInv, HalfWordsApart, EvenByte, Addr
<1>7. even'.valid => even'.addr = recAddr /\ ~IsOdd(recAddr)
  BY <1>1, <1>5 DEF EvenOnByte, EvenByte
<1>8. ~IsOdd(recAddr) => even'.valid
  BY <1>1, <1>5 DEF EvenOnByte, EvenByte
<1>9. ASSUME NEW i \in 1 .. Len(words') PROVE FlushedWord(words'[i]) \/ LoneWord(words'[i])
  <2> DEFINE f == Put(even.addr, even.data, FF)
             p == Put(even.addr, even.data, Head(rec))
             o == Put(recAddr - 1, FF, Head(rec))
  <2>1. /\ f.addr = even.addr /\ f.word.hi = FF /\ p.addr = even.addr
        /\ o.addr = recAddr - 1 /\ o.word.lo = FF
    BY DEF Put
  <2>2. words' = IF ~IsOdd(recAddr) THEN IF even.valid THEN <<f>> ELSE <<>>
                 ELSE IF even.valid /\ recAddr - even.addr = 1 THEN <<p>>
                 ELSE (IF even.valid THEN <<f>> ELSE <<>>) \o <<o>>
    BY <1>1 DEF WordsOnByte, Flush
  <2> HIDE DEF f, p, o
  <2>3. \/ words'[i] = f /\ even.valid
        \/ words'[i] = p /\ even.valid /\ recAddr - even.addr = 1
        \/ words'[i] = o /\ IsOdd(recAddr) /\ ~(even.valid /\ recAddr - even.addr = 1)
    <3>1. CASE ~IsOdd(recAddr) \/ (even.valid /\ recAddr - even.addr = 1)
      <4>1. CASE ~IsOdd(recAddr) /\ ~even.valid
        <5>1. Len(words') = 0
          BY <2>2, <4>1
        <5> QED BY <1>9, <5>1
      <4>2. CASE ~IsOdd(recAddr) /\ even.valid
        <5>1. Len(words') = 1 /\ words'[1] = f
          BY <2>2, <4>2
        <5> QED BY <1>9, <4>2, <5>1
      <4>3. CASE IsOdd(recAddr) /\ even.valid /\ recAddr - even.addr = 1
        <5>1. Len(words') = 1 /\ words'[1] = p
          BY <2>2, <4>3
        <5> QED BY <1>9, <4>3, <5>1
      <4> QED BY <3>1, <4>1, <4>2, <4>3
    <3>2. CASE IsOdd(recAddr) /\ even.valid /\ recAddr - even.addr # 1
      <4>1. words' = <<f>> \o <<o>>
        BY <2>2, <3>2
      <4>2. Len(words') = 2 /\ words'[1] = f /\ words'[2] = o
        BY <4>1
      <4> QED BY <1>9, <3>2, <4>2
    <3>3. CASE IsOdd(recAddr) /\ ~even.valid
      <4>1. words' = <<>> \o <<o>>
        BY <2>2, <3>3
      <4>2. Len(words') = 1 /\ words'[1] = o
        BY <4>1
      <4> QED BY <1>9, <3>3, <4>2
    <3> QED BY <3>1, <3>2, <3>3
  <2> QED BY <1>5, <1>6, <2>1, <2>3 DEF FlushedWord, LoneWord
<1> QED BY <1>1, <1>2, <1>4, <1>5, <1>6, <1>7, <1>8, <1>9

LEMMA FeedOnlyFed == ASSUME SInv, FeedByte, OnlyFed PROVE OnlyFed'
<1>1. even'.valid => Fed(even.addr)'
  <2>1. image'[recAddr] # NoByte
    BY FeedWords DEF Fed
  <2> QED BY <2>1, FeedWords DEF Fed
<1>2. ASSUME NEW i \in 1 .. Len(words'), NEW a \in Addr, words'[i].addr = CellOf(a), ~Fed(a)'
      PROVE  Half(words'[i].word, IsOdd(a)) = FF
  <2>1. ~Fed(a) /\ a # recAddr /\ a \in Nat /\ recAddr \in Nat
    BY <1>2, FeedWords DEF Addr
  <2>2. CASE FlushedWord(words'[i])
    <3>1. a # even.addr /\ CellOf(a) = even.addr /\ ~IsOdd(even.addr) /\ even.addr \in Nat
      BY <1>2, <2>1, <2>2, FeedWords DEF FlushedWord, OnlyFed
    <3>2. IsOdd(a) /\ a = even.addr + 1
      BY <2>1, <3>1 DEF CellOf, IsOdd
    <3> QED BY <2>1, <2>2, <3>2 DEF FlushedWord, Half
  <2>3. CASE LoneWord(words'[i])
    <3>1. ~IsOdd(a)
      BY <1>2, <2>1, <2>3 DEF LoneWord, CellOf, IsOdd
    <3> QED BY <2>3, <3>1 DEF LoneWord, Half
  <2> QED BY <2>2, <2>3, FeedWords
<1>3. ASSUME NEW a \in AppFirst .. AppLast, ~Fed(a)' PROVE ByteAt(a)' = FF
  <2>1. a \in Addr
    BY Borders, LayoutTypes DEF Addr
  <2> QED BY <1>3, <2>1, FeedWords DEF OnlyFed, ByteAt
<1> QED BY <1>1, <1>2, <1>3 DEF OnlyFed

LEMMA FeedAscending ==
  ASSUME SInv, FeedByte, OnlyFed, Ascending, InApp(recAddr), Ahead(recAddr)
  PROVE  Ascending'
<1> DEFINE r == recAddr
<1>1. /\ r \in Addr /\ r \in Nat /\ line.kind # "eof" /\ line' = line /\ flash' = flash
      /\ \A a \in Addr : Fed(a)' <=> Fed(a) \/ a = r
      /\ \A a \in Addr : a \in Nat
  BY FeedWords DEF Addr
<1>2. \A x \in Addr : Fed(x) => x < r
  BY DEF Ahead
<1>3. \A x \in Addr : Fed(x)' => x <= r
  BY <1>1, <1>2
<1>4. \A c \in AppCells : Ahead(c)' => flash'.cells[c] = Blank
  BY <1>1 DEF Ascending, Ahead
<1>5. even'.valid => Last(even.addr)' /\ Expected(even.addr)'
  <2> SUFFICES ASSUME even'.valid PROVE Last(even.addr)' /\ Expected(even.addr)' OBVIOUS
  <2>1. even'.addr = r /\ ~IsOdd(r)
    BY FeedWords
  <2>2. r \in AppCells
    BY <1>1, <2>1, CellOfApp
  <2>3. flash'.cells[r] = Blank
    BY <1>1, <2>2 DEF Ascending
  <2>4. \A y \in Addr : Fed(y)' => y <= even'.addr
    BY <1>3, <2>1
  <2>5. image'[even'.addr] # NoByte
    BY <1>1, <2>1 DEF Fed
  <2> QED BY <2>1, <2>2, <2>3, <2>4, <2>5 DEF Last, Expected, Fed
<1>6. \A x \in Addr : Last(x)' /\ ~IsOdd(x) => IsPending(x)'
  <2> SUFFICES ASSUME NEW x \in Addr, Last(x)', ~IsOdd(x) PROVE IsPending(x)' OBVIOUS
  <2>1. x <= r /\ r <= x
    BY <1>1, <1>3 DEF Last
  <2>2. x = r
    BY <1>1, <2>1
  <2> QED BY <2>2, FeedWords DEF IsPending
<1>7. ASSUME NEW i \in 1 .. Len(words')
      PROVE  /\ Expected(words[i].addr)'
             /\ \E x \in Addr : Fed(x)' /\ words'[i].addr <= x
             /\ even'.valid => words'[i].addr # even'.addr
  <2> DEFINE q == words'[i].addr
  <2>1. CASE FlushedWord(words'[i])
    <3>1. even.valid /\ q = even.addr /\ q \in Addr /\ q \in Nat
      BY <2>1, FeedWords DEF FlushedWord
    <3>2. PICK x \in Addr : x = q /\ Fed(x) /\ x < r /\ Expected(x)
      BY <1>2, <3>1 DEF OnlyFed, Ascending
    <3>3. Expected(words[i].addr)'
      BY <1>1, <3>2 DEF Expected
    <3>4. Fed(x)' /\ q <= x
      BY <1>1, <3>1, <3>2
    <3>5. even'.valid => q # even'.addr
      BY <1>1, <3>2, FeedWords
    <3> QED BY <3>3, <3>4, <3>5
  <2>2. CASE LoneWord(words'[i])
    <3>1. IsOdd(r) /\ q = r - 1 /\ ~(even.valid /\ even.addr = r - 1)
      BY <2>2 DEF LoneWord
    <3>2. q \in AppCells /\ q \in Addr /\ q \in Nat /\ ~IsOdd(q)
      BY <1>1, <3>1, CellOfApp, AppCellType
    <3>3. PICK c \in AppCells : c = q
      BY <3>2
    <3>4. ~Last(c)
      BY <1>1, <3>1, <3>2, <3>3 DEF Ascending, IsPending
    <3>5. Ahead(c)
      <4>1. \A x \in Addr : Fed(x) => x <= c
        BY <1>1, <1>2, <3>1, <3>2, <3>3
      <4>2. ~Fed(c)
        BY <3>4, <4>1 DEF Last
      <4> SUFFICES ASSUME NEW x \in Addr, Fed(x) PROVE x < c
        BY DEF Ahead
      <4>3. x # c /\ x <= c /\ x \in Nat /\ c \in Nat
        BY <1>1, <3>2, <3>3, <4>1, <4>2
      <4> QED BY <4>3
    <3>6. Expected(words[i].addr)'
      BY <1>1, <3>3, <3>5 DEF Ascending, Expected
    <3>7. \E x \in Addr : Fed(x)' /\ q <= x
      <4>1. PICK x \in Addr : x = r
        BY <1>1
      <4> QED BY <1>1, <3>1, <4>1
    <3>8. ~even'.valid
      BY <3>1, FeedWords
    <3> QED BY <1>1, <3>6, <3>7, <3>8
  <2> QED BY <2>1, <2>2, FeedWords
<1> QED BY <1>1, <1>4, <1>5, <1>6, <1>7 DEF Ascending

LEMMA FeedByteSession ==
  ASSUME SInv, FeedByte PROVE CleanSession' /\ ProgramOKMeansOnlyWritten'
<1>1. /\ (clean' <=> clean) /\ mode = "program" /\ mode' = mode /\ status' # "ok"
      /\ flash' = flash
      /\ orderly' = (orderly /\ InApp(recAddr) /\ Follows(recAddr))
  BY FeedWords DEF FeedByte, cliVars
<1>2. orderly' => orderly /\ InApp(recAddr) /\ Ahead(recAddr)
  BY <1>1 DEF Follows, Ahead, Fed
<1>3. clean' => Ready(flash') /\ OnlyFed'
  BY <1>1, FeedOnlyFed DEF SInv, CleanSession
<1>4. clean' /\ orderly' => Ascending'
  BY <1>1, <1>2, FeedAscending DEF SInv, CleanSession
<1> QED BY <1>1, <1>3, <1>4 DEF CleanSession, ProgramOKMeansOnlyWritten

(***************************************************************************)
(* Every step.                                                             *)
(***************************************************************************)
LEMMA InitSession == Init => SInv
<1> SUFFICES ASSUME Init PROVE SInv OBVIOUS
<1>1. IsPage(0)
  BY LayoutTypes, NextMultiple DEF IsPage
<1>2. ErasedSoFar
  BY <1>1 DEF Init, ErasedSoFar, IsPage
<1> QED BY <1>2, InitInv DEF Init, SInv, CleanSession, ProgramOKMeansOnlyWritten

LEMMA StepSession == SInv /\ [Next]_vars => SInv'
<1> SUFFICES ASSUME SInv, [Next]_vars PROVE CleanSession' /\ ProgramOKMeansOnlyWritten'
  BY StepInv, StepSoFar DEF SInv
<1>1. ASSUME NEW l \in Lines, Command(l) PROVE CleanSession' /\ ProgramOKMeansOnlyWritten'
  BY <1>1 DEF Command, CleanSession, ProgramOKMeansOnlyWritten
<1>2. ASSUME NEW l \in Lines, HexLine(l) PROVE CleanSession' /\ ProgramOKMeansOnlyWritten'
  BY <1>2, HexLineSession
<1>3. CASE job # "none" /\ ErasePageStep
  BY <1>3 DEF ErasePageStep, SInv, IInv, PhaseInv, CleanSession, ProgramOKMeansOnlyWritten
<1>4. CASE cmd_erase
  BY <1>3, <1>4, FinishEraseSession DEF cmd_erase
<1>5. CASE cmd_program
  BY <1>3, <1>5, FinishProgramSession DEF cmd_program
<1>6. CASE FeedByte \/ WriteWord \/ EndLine
  BY <1>6, FeedByteSession, WriteWordSession, EndLineSession
<1>7. CASE PowerCycle
  BY <1>7 DEF PowerCycle, CleanSession, ProgramOKMeansOnlyWritten
<1>8. CASE UNCHANGED vars
  <2>1. UNCHANGED <<image, words, even, mode, status, line>> /\ flash' = flash
        /\ (clean' <=> clean) /\ (orderly' <=> orderly) /\ job' = job
    BY <1>8 DEF vars, cliVars, feedVars, hexVars, histVars
  <2>2. OnlyFed => OnlyFed'
    BY <2>1, SessionFrame
  <2>3. Ascending => Ascending'
    BY <2>1, SessionFrame DEF Ascending
  <2>4. \A a : ByteAt(a)' = ByteAt(a)
    BY <2>1 DEF ByteAt
  <2> QED BY <2>1, <2>2, <2>3, <2>4 DEF SInv, CleanSession, ProgramOKMeansOnlyWritten
<1> QED BY <1>1, <1>2, <1>4, <1>5, <1>6, <1>7, <1>8 DEF Next, Work

LEMMA SessionInvariance == Spec => []SInv
BY InitSession, StepSession, PTL DEF Spec

(***************************************************************************)
(* A step that turns a file down.                                          *)
(***************************************************************************)
LEMMA NotRefused ==
  ASSUME SInv, [Next]_vars, status # "error", status' = "error"
  PROVE  ~(clean' /\ orderly')
<1>1. CASE \E l \in Lines : HexLine(l)
  <2>1. PICK l \in Lines : HexLine(l)
    BY <1>1
  <2>2. Reject(l)
    BY <2>1 DEF HexLine, FeedData, FeedEof, FeedOffset, cliVars
  <2> QED BY <2>2 DEF Reject
<1>2. CASE WriteWord
  <2> SUFFICES ASSUME clean', orderly' PROVE FALSE
    OBVIOUS
  <2>1. PICK fault \in FaultChoices :
          /\ words # <<>>
          /\ \/ UNCHANGED status
             \/ /\ Writable(Head(words).addr)
                /\ ~ProgramCompletes(flash, Head(words).addr, Head(words).word, fault)
             \/ ~Writable(Head(words).addr)
          /\ clean' = (clean /\ fault = "none") /\ orderly' = orderly
    BY <1>2 DEF WriteWord
  <2>2. clean /\ orderly /\ fault = "none"
    BY <2>1
  <2> QED BY <2>1, <2>2, ExpectedWord
<1> QED BY <1>1, <1>2 DEF Next, Command, Work, cmd_erase, cmd_program, ErasePageStep,
           FinishErase, FinishProgram, FeedByte, EndLine, EndSession, PowerCycle, vars, cliVars

(***************************************************************************)
(* The theorems.                                                           *)
(***************************************************************************)

\* "Program OK!" after a session that began with nothing pending and met no
\* fault also means that nothing but what it was fed is in the application.
THEOREM ProgramOKOnlyHolds == Spec => []ProgramOKMeansOnlyWritten
<1>1. SInv => ProgramOKMeansOnlyWritten
  BY DEF SInv
<1> QED BY <1>1, SessionInvariance, PTL

\* An erase without a fault leaves no cell of the application programmed, for
\* every page size and wherever the bootloader ends.
THEOREM EraseClearsHolds == Spec => EraseClearsApplication
<1> DEFINE Cleared == job # "none" /\ job' = "none" /\ ~PagesLeft /\ clean
                        => \A c \in AppCells : flash'.cells[c] = Blank
<1>1. ASSUME SInv, [Next]_vars PROVE Cleared
  <2> SUFFICES ASSUME job # "none", job' = "none", ~PagesLeft, clean
               PROVE  flash'.cells = flash.cells
    BY <1>1, AllErased DEF SInv
  <2>1. words = <<>> /\ line = NoLine /\ mode = "command"
    BY <1>1 DEF SInv, IInv, PhaseInv
  <2>2. CASE FinishErase \/ FinishProgram
    <3>1. ErasingFlash \in Controller /\ ErasingFlash.cells = flash.cells
      BY <1>1, ErasingType DEF SInv
    <3>2. /\ FLASH_Lock(ErasingFlash).cells = flash.cells
          /\ FLASH_Unlock(FLASH_Lock(ErasingFlash)).cells = flash.cells
      BY <3>1, ControllerTypes, ControllerFrame, WordTypes, LayoutTypes
    <3> QED BY <2>2, <3>2 DEF FinishErase, FinishProgram
  <2>3. CASE PowerCycle
    BY <2>1, <2>3 DEF PowerCycle, CellsAfterReset
  <2>4. CASE FinishErase \/ FinishProgram \/ PowerCycle
    BY <2>2, <2>3, <2>4
  <2>5. CASE UNCHANGED vars
    BY <2>5 DEF vars
  <2> QED BY <1>1, <2>1, <2>4, <2>5 DEF Next, Command, Idle, HexLine, Work, cmd_erase,
             cmd_program, ErasePageStep, FeedByte, WriteWord, EndLine
<1>2. SInv /\ [Next]_vars => [Cleared]_vars
  BY <1>1
<1> QED BY <1>2, SessionInvariance, PTL DEF Spec, EraseClearsApplication

\* A well-formed file is never turned down: every half-word it makes the
\* packer ask for lies in the application, in a cell that is still blank.
THEOREM WellFormedHolds == Spec => WellFormedFileAccepted
<1>1. SInv /\ [Next]_vars
        => [status # "error" /\ status' = "error" => ~(clean' /\ orderly')]_vars
  BY NotRefused
<1> QED BY <1>1, SessionInvariance, PTL DEF Spec, WellFormedFileAccepted

\* A session that ends without an error leaves no pending byte and no address
\* offset to the next one.
Finished == line.kind = "eof" => addrOffs = 0

THEOREM LeftoversHold == Spec => []LeftoversOnlyAfterError
<1> DEFINE Clear == IInv /\ LeftoversOnlyAfterError /\ Finished
<1>1. Init => Clear
  BY InitInv, ConstantTypes DEF Init, LeftoversOnlyAfterError, Finished, NoEven
<1>2. Clear /\ [Next]_vars => Clear'
  <2> SUFFICES ASSUME Clear, [Next]_vars PROVE LeftoversOnlyAfterError' /\ Finished'
    BY StepInv
  <2> USE DEF LeftoversOnlyAfterError, Finished
  <2>1. ASSUME NEW l \in Lines, Command(l) PROVE LeftoversOnlyAfterError' /\ Finished'
    BY <2>1 DEF Command, feedVars, hexVars
  <2>2. ASSUME NEW l \in Lines, HexLine(l) PROVE LeftoversOnlyAfterError' /\ Finished'
    BY <2>2, ConstantTypes DEF HexLine, Idle, FeedData, FeedEof, FeedOffset, Reject, EndSession,
       cliVars, feedVars
  <2>3. CASE job # "none" /\ ErasePageStep
    BY <2>3 DEF ErasePageStep, IInv, PhaseInv, feedVars, hexVars
  <2>4. CASE job # "none" /\ (FinishErase \/ FinishProgram)
    BY <2>4, ConstantTypes DEF FinishErase, FinishProgram, EraseDone, IInv, PhaseInv, feedVars,
       hexVars
  <2>5. CASE FeedByte
    BY <2>5 DEF FeedByte, IInv, PhaseInv, cliVars
  <2>6. CASE WriteWord
    BY <2>6, HeadWord, ConstantTypes DEF WriteWord, EndSession, hexVars
  <2>7. CASE EndLine
    BY <2>7, ConstantTypes DEF EndLine, EndSession, hexVars, IInv, PhaseInv
  <2>8. CASE PowerCycle
    BY <2>8, ConstantTypes DEF PowerCycle, NoEven
  <2>9. CASE UNCHANGED vars
    BY <2>9 DEF vars, cliVars, feedVars, hexVars
  <2> QED BY <2>1, <2>2, <2>3, <2>4, <2>5, <2>6, <2>7, <2>8, <2>9
          DEF Next, Work, cmd_erase, cmd_program
<1>3. Clear => LeftoversOnlyAfterError
  OBVIOUS
<1> QED BY <1>1, <1>2, <1>3, PTL DEF Spec

-----------------------------------------------------------------------------
(***************************************************************************)
(* The refinement mapping.                                                 *)
(***************************************************************************)
LEMMA SameLayout ==
  /\ F!Addr = Addr /\ F!Byte = Byte /\ F!Word = Word /\ F!Blank = Blank /\ F!Zero = Zero
  /\ F!AppFirst = AppFirst /\ F!AppLast = AppLast /\ F!AppCells = AppCells
  /\ F!Nothing = NoImage
  /\ F!Pages = {PageCells(a) : a \in AppFirst .. AppLast}
<1>1. F!Cells = Cells
  BY DEF F!Cells, Cells, F!AppLast, AppLast
<1> QED BY <1>1 DEF F!Addr, Addr, F!Byte, Byte, F!Word, Word, F!Blank, Blank, F!Zero, Zero,
     F!AppFirst, AppFirst, F!LastAddr, LastAddr, F!AppLast, AppLast, F!AppCells, AppCells,
     F!Nothing, NoImage, NoByte, F!Pages, F!PageCells, PageCells

LEMMA AppType ==
  ASSUME IInv
  PROVE  App \in [AppCells -> Word] /\ \A c \in AppCells : App[c] = flash.cells[c]
  BY DEF App, IInv, TypeOK, Controller, AppCells

\* Cells that keep what they hold keep it in the application area.
LEMMA SameApp ==
  ASSUME flash'.cells = flash.cells
  PROVE  App' = App
  BY DEF App

LEMMA OnlyIn ==
  ASSUME IInv, IInv', NEW S, \A c \in AppCells \ S : flash'.cells[c] = flash.cells[c]
  PROVE  F!OnlyIn(S)
<1>1. App \in [AppCells -> Word] /\ \A c \in AppCells : App[c] = flash.cells[c]
  BY AppType
<1>2. App' \in [AppCells -> Word] /\ \A c \in AppCells : App'[c] = flash'.cells[c]
  BY DEF App, IInv, TypeOK, Controller, AppCells
<1> QED BY <1>1, <1>2, SameLayout DEF F!OnlyIn

(***************************************************************************)
(* Commands and erases.                                                    *)
(***************************************************************************)
LEMMA CommandBegins ==
  ASSUME IInv, NEW l \in Lines, Command(l)
  PROVE  F!Begin
<1>1. flash' = flash /\ mode = "command" /\ mode' = "command" /\ job = "none"
      /\ job' # "none" /\ UNCHANGED <<status, image>>
  BY DEF Command, Idle, histVars
<1> QED BY <1>1, SameApp DEF F!Begin, Phase

LEMMA PageErased ==
  ASSUME IInv, IInv', job # "none", ErasePageStep
  PROVE  F!ErasePage
<1>1. PICK fault \in FaultChoices :
        /\ PagesLeft
        /\ IF PageClean(flash.cells, EraseFrom)
           THEN flash' = ErasingFlash
           ELSE flash' = FLASH_ErasePage(ErasingFlash, EraseFrom, fault)
        /\ image' = NoImage
        /\ UNCHANGED <<mode, job, status>>
  BY DEF ErasePageStep
<1> DEFINE e == ErasingFlash
           P == PageCells(EraseFrom)
<1>2. e \in Controller /\ e.cells = flash.cells /\ EraseFrom \in AppFirst .. AppLast
      /\ EraseFrom \in Nat
  BY <1>1, ErasingType, LayoutTypes DEF PagesLeft
<1>3. \A c \in Cells \ P : flash'.cells[c] = flash.cells[c]
  BY <1>1, <1>2, ControllerFrame, WordTypes
<1>4. \A c \in P : flash'.cells[c] \in {flash.cells[c], Blank}
  <2>1. \A c \in P : c \in Cells
    BY DEF PageCells
  <2> HIDE DEF e, P
  <2>2. CASE flash' = e
    BY <1>2, <2>2
  <2>3. CASE flash' = FLASH_ErasePage(e, EraseFrom, fault)
    BY <1>2, <2>1, <2>3 DEF FLASH_ErasePage, Controller, P
  <2> QED BY <1>1, <2>2, <2>3 DEF e
<1>5. F!OnlyIn(P)
  <2>1. AppCells \subseteq Cells
    BY DEF AppCells
  <2> QED BY <1>3, <2>1, OnlyIn
<1>6. \A c \in P \cap AppCells : App'[c] \in {App[c], Blank}
  BY <1>4 DEF App
<1>7. Phase = "erasing" /\ Phase' = Phase
  BY <1>1 DEF Phase, IInv, PhaseInv
<1>8. P \in F!Pages
  BY <1>2, SameLayout
<1> QED BY <1>1, <1>5, <1>6, <1>7, <1>8, SameLayout DEF F!ErasePage

\* The cells at the end of an erase.
LEMMA LockedCells ==
  ASSUME IInv, job # "none"
  PROVE  /\ FLASH_Lock(ErasingFlash) \in Controller
         /\ FLASH_Lock(ErasingFlash).cells = flash.cells
         /\ FLASH_Unlock(FLASH_Lock(ErasingFlash)).cells = flash.cells
<1>1. FLASH_Lock(ErasingFlash) \in Controller /\ FLASH_Lock(ErasingFlash).cells = flash.cells
  BY ErasingType, ControllerTypes, ControllerFrame, WordTypes
<1> QED BY <1>1, ErasingType, ControllerFrame, WordTypes

LEMMA EraseFinished ==
  ASSUME IInv, job # "none", FinishErase
  PROVE  F!FinishErase
<1>1. mode = "command" /\ mode' = mode /\ job' = "none" /\ image' = NoImage /\ status' = status
      /\ flash'.cells = flash.cells
  BY LockedCells DEF FinishErase, EraseDone, IInv, PhaseInv
<1> QED BY <1>1, SameApp, SameLayout DEF F!FinishErase, Phase

LEMMA SessionOpened ==
  ASSUME IInv, job # "none", FinishProgram
  PROVE  F!OpenSession
<1>1. mode = "command" /\ mode' = "program" /\ image' = NoImage /\ status' = "empty"
      /\ flash'.cells = flash.cells
  BY LockedCells DEF FinishProgram, EraseDone, IInv, PhaseInv
<1> QED BY <1>1, SameApp, SameLayout DEF F!OpenSession, Phase

(***************************************************************************)
(* Sessions.                                                               *)
(***************************************************************************)

\* A session that ends in an error and leaves the cells alone.
LEMMA EndsRefused ==
  ASSUME IInv, mode = "program", NEW f, f \in Controller, EndSession(f, "error"),
         UNCHANGED <<job, image>>
  PROVE  /\ Phase = "receiving" /\ Phase' = "idle" /\ status' = "error"
         /\ flash'.cells = f.cells
  BY ControllerFrame, WordTypes, ConstantTypes, LayoutTypes
     DEF EndSession, Phase, IInv, PhaseInv

LEMMA LineReceived ==
  ASSUME IInv, NEW l \in Lines, HexLine(l)
  PROVE  F!Refuse \/ UNCHANGED F!flasherVars
<1>1. mode = "program" /\ flash \in Controller
  BY DEF HexLine, IInv, TypeOK
<1>2. CASE FeedData(l) \/ FeedEof(l) \/ FeedOffset(l)
  BY <1>2, SameApp DEF FeedData, FeedEof, FeedOffset, cliVars, histVars, F!flasherVars, Phase
<1>3. CASE Reject(l)
  BY <1>1, <1>3, EndsRefused, SameApp DEF Reject, F!Refuse
<1> QED BY <1>2, <1>3 DEF HexLine

LEMMA ByteReceived ==
  ASSUME IInv, FeedByte
  PROVE  F!Receive
<1>1. mode = "program" /\ recAddr \in Addr /\ Head(rec) \in Byte
  BY HeadTailProperties DEF FeedByte, IInv, PhaseInv, TypeOK
<1>2. image' = [image EXCEPT ![recAddr] = Head(rec)] /\ UNCHANGED <<flash, mode, job, status>>
  BY DEF FeedByte, cliVars
<1> QED BY <1>1, <1>2, SameApp, SameLayout DEF F!Receive, Phase

\* A half-word that is written, now or after the driver stopped waiting.
LEMMA CellWritten ==
  ASSUME IInv, IInv', words # <<>>, Writable(Head(words).addr), NEW fault,
         flash'.cells =
           FLASH_ProgramHalfWord(flash, Head(words).addr, Head(words).word, fault).cells
  PROVE  F!WriteCell
<1> DEFINE q == Head(words).addr
           w == Head(words).word
<1>1. q \in Cells /\ q \in Nat /\ q \in AppCells /\ w \in Word /\ flash \in Controller
  BY HeadWord, WritableCell DEF AppCells, Writable
<1>2. \A c \in AppCells \ {q} : flash'.cells[c] = flash.cells[c]
  BY <1>1, ControllerFrame DEF AppCells
<1>3. flash.cells[q] = Blank \/ flash'.cells[q] \in {flash.cells[q], Zero}
  <2> HIDE DEF q, w
  <2>1. \/ flash'.cells = flash.cells
        \/ Programmable(flash, q, w) /\ flash'.cells = [flash.cells EXCEPT ![q] = w]
    BY <1>1 DEF FLASH_ProgramHalfWord, Controller, q, w
  <2> QED BY <1>1, <2>1 DEF Programmable, Controller
<1>4. F!OnlyIn({q})
  BY <1>2, OnlyIn
<1>5. App[q] = Blank \/ App'[q] \in {App[q], Zero}
  BY <1>1, <1>3 DEF App
<1> HIDE DEF q
<1> QED BY <1>1, <1>4, <1>5, SameLayout DEF F!WriteCell

LEMMA WordHandled ==
  ASSUME IInv, IInv', WriteWord
  PROVE  F!Write \/ F!Refuse
<1> DEFINE q == Head(words).addr
           w == Head(words).word
           Program(fault) == FLASH_ProgramHalfWord(flash, q, w, fault)
<1>1. PICK fault \in FaultChoices :
        \/ Writable(q) /\ flash' = Program(fault) /\ UNCHANGED <<mode, status>>
        \/ Writable(q) /\ EndSession(Program(fault), "error")
        \/ EndSession(flash, "error")
  BY DEF WriteWord
<1>2. words # <<>> /\ UNCHANGED <<job, image>>
  BY DEF WriteWord
<1>3. mode = "program" /\ flash \in Controller /\ Program(fault) \in Controller
  BY <1>2, HeadWord, ControllerTypes
<1>4. CASE Writable(q) /\ flash' = Program(fault) /\ UNCHANGED <<mode, status>>
  BY <1>2, <1>3, <1>4, CellWritten DEF F!Write, Phase
<1>5. CASE Writable(q) /\ EndSession(Program(fault), "error")
  <2>1. flash'.cells = Program(fault).cells /\ Phase = "receiving" /\ Phase' = "idle"
        /\ status' = "error"
    BY <1>2, <1>3, <1>5, EndsRefused
  <2> QED BY <1>2, <1>5, <2>1, CellWritten DEF F!Refuse
<1>6. CASE EndSession(flash, "error")
  BY <1>2, <1>3, <1>6, EndsRefused, SameApp DEF F!Refuse
<1> QED BY <1>1, <1>4, <1>5, <1>6

LEMMA LineEnded ==
  ASSUME IInv, IInv', EndLine
  PROVE  F!Accept \/ UNCHANGED F!flasherVars
<1>1. mode = "program" /\ flash \in Controller /\ UNCHANGED <<job, image>> /\ job = "none"
  BY DEF EndLine, IInv, PhaseInv, TypeOK, histVars
<1>2. CASE line.kind = "eof" /\ line.canon
  <2>1. status' = "ok" /\ mode' = "command" /\ flash'.cells = flash.cells
    BY <1>1, <1>2, ControllerFrame, WordTypes, ConstantTypes, LayoutTypes
       DEF EndLine, EndSession
  <2>2. ASSUME NEW a \in Addr, image[a] # NoByte
        PROVE  /\ a >= AppFirst /\ a <= AppLast
               /\ (IF a % 2 = 1 THEN App[a - 1].hi ELSE App[a].lo) = image[a]
    <3>1. InApp(a) /\ ByteAt(a) = image[a]
      <4>1. (InApp(a) /\ ByteAt(a) = image[a])'
        BY <1>1, <2>1, <2>2 DEF IInv, ProgramOKMeansWritten
      <4> QED BY <1>1, <2>1, <4>1 DEF InApp, ByteAt
    <3>2. CellOf(a) \in AppCells /\ (~IsOdd(a) => CellOf(a) = a)
          /\ (IsOdd(a) => CellOf(a) = a - 1)
      BY <3>1, CellOfApp
    <3>3. App[CellOf(a)] = flash.cells[CellOf(a)]
      BY <3>2, AppType
    <3> QED BY <3>1, <3>2, <3>3 DEF InApp, ByteAt, Half, CellOf, IsOdd
  <2>3. F!FileIsThere
    BY <2>2, SameLayout DEF F!FileIsThere, F!ByteIn, NoByte
  <2> QED BY <1>1, <2>1, <2>3, SameApp DEF F!Accept, Phase
<1>3. CASE ~(line.kind = "eof" /\ line.canon)
  BY <1>1, <1>3, SameApp DEF EndLine, F!flasherVars, Phase
<1> QED BY <1>2, <1>3

(***************************************************************************)
(* The power, and every step.                                              *)
(***************************************************************************)
LEMMA PowerLost ==
  ASSUME IInv, IInv', PowerCycle
  PROVE  F!LosePower
<1>1. PICK cells \in CellsAfterReset :
        /\ flash'.cells = cells /\ mode' = "command" /\ job' = "none" /\ status' = "NA"
        /\ image' = NoImage
  BY DEF PowerCycle
<1>2. Phase' = "idle" /\ image' = F!Nothing
  BY <1>1, SameLayout DEF Phase
<1>3. ASSUME NEW S, cells \in Overwritten(S) PROVE F!OnlyIn(S)
  <2>1. \A c \in AppCells \ S : flash'.cells[c] = flash.cells[c]
    BY <1>1, <1>3 DEF Overwritten, AppCells
  <2> QED BY <2>1, OnlyIn
<1>4. CASE cells = flash.cells
  BY <1>1, <1>2, <1>4, SameApp DEF F!LosePower
<1>5. CASE job # "none" /\ PagesLeft /\ cells \in Overwritten(PageCells(EraseFrom))
  <2>1. EraseFrom \in AppFirst .. AppLast /\ Phase = "erasing"
    BY <1>5, ErasingType, LayoutTypes DEF PagesLeft, Phase, IInv, PhaseInv
  <2>2. PageCells(EraseFrom) \in F!Pages /\ F!OnlyIn(PageCells(EraseFrom))
    BY <1>3, <1>5, <2>1, SameLayout
  <2> QED BY <1>1, <1>2, <2>1, <2>2 DEF F!LosePower
<1>6. CASE words # <<>> /\ Writable(Head(words).addr)
           /\ cells \in Overwritten({Head(words).addr})
  <2>1. Head(words).addr \in F!AppCells /\ Phase = "receiving"
    BY <1>6, HeadWord, WritableCell, SameLayout DEF AppCells, Writable, Phase
  <2>2. F!OnlyIn({Head(words).addr})
    BY <1>3, <1>6
  <2> QED BY <1>1, <1>2, <2>1, <2>2 DEF F!LosePower
<1> QED BY <1>1, <1>4, <1>5, <1>6 DEF CellsAfterReset

LEMMA StepFlasher == IInv /\ IInv' /\ [Next]_vars => [F!Next]_(F!flasherVars)
<1> SUFFICES ASSUME IInv, IInv', [Next]_vars PROVE [F!Next]_(F!flasherVars)
  OBVIOUS
<1>1. ASSUME NEW l \in Lines, Command(l) PROVE F!Next
  BY <1>1, CommandBegins DEF F!Next
<1>2. ASSUME NEW l \in Lines, HexLine(l) PROVE [F!Next]_(F!flasherVars)
  BY <1>2, LineReceived DEF F!Next
<1>3. CASE cmd_erase
  BY <1>3, PageErased, EraseFinished DEF cmd_erase, F!Next
<1>4. CASE cmd_program
  BY <1>4, PageErased, SessionOpened DEF cmd_program, F!Next
<1>5. CASE FeedByte
  BY <1>5, ByteReceived DEF F!Next
<1>6. CASE WriteWord
  BY <1>6, WordHandled DEF F!Next
<1>7. CASE EndLine
  BY <1>7, LineEnded DEF F!Next
<1>8. CASE PowerCycle
  BY <1>8, PowerLost DEF F!Next
<1>9. CASE UNCHANGED vars
  BY <1>9, SameApp DEF vars, cliVars, histVars, F!flasherVars, Phase
<1> QED BY <1>1, <1>2, <1>3, <1>4, <1>5, <1>6, <1>7, <1>8, <1>9 DEF Next, Work

\* The command line, the hex parser, the packer and the flash controller
\* together keep what Flasher promises: the application area changes only by
\* erases and by the half-words of a session, and "Program OK!" is said only
\* of a file that is there.
THEOREM FlasherImplemented == Spec => ImplementsFlasher
<1>1. Init => F!Init
  <2> SUFFICES ASSUME Init PROVE F!Init
    OBVIOUS
  <2> QED BY InitInv, AppType, SameLayout DEF Init, F!Init, Phase
<1>2. IInv /\ IInv' /\ [Next]_vars => [F!Next]_(F!flasherVars)
  BY StepFlasher
<1> QED BY <1>1, <1>2, Invariance, PTL DEF Spec, ImplementsFlasher, F!Spec
=============================================================================
