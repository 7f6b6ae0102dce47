------------------------- MODULE Bootloader_proofs -------------------------
(***************************************************************************)
(* Proofs about Bootloader, for every layout, every set of lines, every    *)
(* key stream and every fault.  First come lemmas about the operators it   *)
(* is built from: the address arithmetic of FlashLayout, the calls of      *)
(* FlashController and the packer of StmHex.  Then IInv is shown to hold   *)
(* initially and to be preserved by each action; the properties follow.    *)
(***************************************************************************)
EXTENDS Bootloader, SequenceTheorems, TLAPS

(***************************************************************************)
(* Integer division by a variable divisor.                                 *)
(***************************************************************************)
LEMMA DivLower ==
  ASSUME NEW p \in Nat \ {0}, NEW k \in Int, NEW x \in Int, x >= k * p
  PROVE  x \div p >= k
  BY SMT

LEMMA DivUpper ==
  ASSUME NEW p \in Nat \ {0}, NEW k \in Int, NEW x \in Int, x < k * p
  PROVE  x \div p < k
  BY SMT

LEMMA DivMod ==
  ASSUME NEW p \in Nat \ {0}, NEW x \in Int
  PROVE  /\ x \div p \in Int
         /\ x = p * (x \div p) + (x % p)
         /\ x % p \in 0 .. p - 1
  BY SMT

\* The block of the m-th byte is one of the blocks that n bytes fill.
LEMMA DivCeiling ==
  ASSUME NEW p \in Nat \ {0}, NEW n \in Nat, NEW m \in Nat, m < n
  PROVE  /\ m \div p \in Nat /\ m % p \in 0 .. p - 1
         /\ (n + p - 1) \div p \in Nat
         /\ (m \div p) + 1 <= (n + p - 1) \div p
<1> DEFINE q == m \div p
<1>1. q \in Int /\ m = p * q + (m % p) /\ m % p \in 0 .. p - 1
  BY DivMod
<1>2. q >= 0
  BY DivLower
<1> HIDE DEF q
<1>3. p * q <= m
  BY <1>1
<1>4. (q + 1) * p <= n + p - 1
  BY <1>1, <1>3
<1>5. n + p - 1 \in Nat
  OBVIOUS
<1>6. (n + p - 1) \div p >= q + 1
  BY <1>1, <1>4, <1>5, DivLower
<1>7. (n + p - 1) \div p \in Int
  BY <1>5, DivMod
<1> QED BY <1>1, <1>2, <1>6, <1>7 DEF q

(***************************************************************************)
(* The layout.                                                             *)
(***************************************************************************)

\* The constants and the addresses computed from them are integers, and the
\* application begins above the bootloader's last byte.
LEMMA LayoutTypes ==
  /\ PageSize \in Nat \ {0} /\ AddrSpace \in Nat \ {0} /\ FF \in Nat \ {0}
  /\ LastAddr \in Nat /\ AppLast \in Nat /\ AppFirst \in Nat
  /\ LastAddr < AppFirst
  /\ AppLast + PageSize < AddrSpace
  /\ Cells \subseteq Addr /\ Cells \subseteq Nat
<1> DEFINE x == LastAddr + PageSize
<1>1. PageSize \in Nat \ {0} /\ AddrSpace \in Nat \ {0} /\ FF \in Nat \ {0}
  BY LayoutAssumption
<1>2. LastAddr \in Nat /\ AppLast \in Nat /\ AppLast + PageSize < AddrSpace
  BY LayoutAssumption DEF LastAddr, AppLast
<1>3. x \in Nat /\ AppFirst = (x \div PageSize) * PageSize
  BY <1>1, <1>2 DEF AppFirst
<1> HIDE DEF x
<1>4. /\ x \div PageSize \in Int
      /\ x = PageSize * (x \div PageSize) + (x % PageSize)
      /\ x % PageSize \in 0 .. PageSize - 1
  BY <1>1, <1>3, DivMod
<1>5. PageSize * (x \div PageSize) = (x \div PageSize) * PageSize
  BY <1>1, <1>4
<1>6. AppFirst \in Int /\ AppFirst > x - PageSize
  BY <1>1, <1>3, <1>4, <1>5
<1>7. AppFirst \in Nat /\ LastAddr < AppFirst
  BY <1>6, <1>1, <1>2 DEF x
<1>8. Cells \subseteq Addr /\ Cells \subseteq Nat
  BY <1>1, <1>2, LayoutAssumption DEF Cells, Addr
<1> QED BY <1>1, <1>2, <1>7, <1>8

\* A page of the application shares no cell with the bootloader, although
\* the bootloader need not end at a page boundary.
LEMMA PagesApart ==
  ASSUME NEW a \in Nat, a >= AppFirst, NEW c \in BootCells
  PROVE  c \notin PageCells(a)
<1> DEFINE k == (LastAddr + PageSize) \div PageSize
<1>1. PageSize \in Nat \ {0} /\ LastAddr \in Nat /\ LastAddr < AppFirst /\ AppFirst \in Nat
  BY LayoutTypes
<1>2. k \in Int
  BY <1>1, DivMod
<1>3. AppFirst = k * PageSize
  BY DEF AppFirst
<1>4. c \in Nat /\ c <= LastAddr
  BY LayoutTypes DEF BootCells
<1> HIDE DEF k
<1>5. a \div PageSize >= k
  BY <1>1, <1>2, <1>3, DivLower
<1>6. c \div PageSize < k
  BY <1>1, <1>2, <1>3, <1>4, DivUpper
<1>7. c \div PageSize # a \div PageSize
  BY <1>1, <1>2, <1>4, <1>5, <1>6, DivMod
<1> QED BY <1>7 DEF PageCells

\* A sum of addresses reduced to 32 bits is an address.
LEMMA AddrWraps ==
  ASSUME NEW n \in Nat
  PROVE  n % AddrSpace \in Addr
  BY LayoutTypes, DivMod DEF Addr

(***************************************************************************)
(* The flash controller.                                                   *)
(***************************************************************************)
LEMMA WordTypes == Blank \in Word /\ Zero \in Word
  BY LayoutTypes DEF Blank, Zero, Word, Byte

\* Every call returns a controller.
LEMMA ControllerTypes ==
  ASSUME NEW f \in Controller, NEW a \in Nat, NEW w \in Word, NEW fault
  PROVE  /\ FLASH_Unlock(f) \in Controller
         /\ FLASH_Lock(f) \in Controller
         /\ FLASH_ClearFlag(f) \in Controller
         /\ FLASH_ErasePage(f, a, fault) \in Controller
         /\ FLASH_ProgramHalfWord(f, a, w, fault) \in Controller
<1>1. FLASH_Unlock(f) \in Controller /\ FLASH_Lock(f) \in Controller
      /\ FLASH_ClearFlag(f) \in Controller
  BY DEF FLASH_Unlock, FLASH_Lock, FLASH_ClearFlag, Controller
<1>2. FLASH_ErasePage(f, a, fault) \in Controller
  BY WordTypes DEF FLASH_ErasePage, Controller, ErrorFlags
<1>3. FLASH_ProgramHalfWord(f, a, w, fault) \in Controller
  BY DEF FLASH_ProgramHalfWord, Controller, ErrorFlags
<1> QED BY <1>1, <1>2, <1>3

\* What the calls leave alone: the lock is moved by Lock and Unlock only,
\* the cells by an erase within its page and by a write in its cell.
LEMMA ControllerFrame ==
  ASSUME NEW f \in Controller, NEW a \in Nat, NEW w \in Word, NEW fault
  PROVE  /\ ~FLASH_Unlock(f).locked /\ FLASH_Unlock(f).cells = f.cells
         /\ FLASH_Lock(f).locked /\ FLASH_Lock(f).cells = f.cells
         /\ FLASH_ClearFlag(f).locked = f.locked /\ FLASH_ClearFlag(f).cells = f.cells
         /\ FLASH_ErasePage(f, a, fault).locked = f.locked
         /\ FLASH_ProgramHalfWord(f, a, w, fault).locked = f.locked
         /\ \A c \in Cells \ PageCells(a) :
              FLASH_ErasePage(f, a, fault).cells[c] = f.cells[c]
         /\ \A c \in Cells \ {a} :
              FLASH_ProgramHalfWord(f, a, w, fault).cells[c] = f.cells[c]
<1>1. /\ ~FLASH_Unlock(f).locked /\ FLASH_Unlock(f).cells = f.cells
      /\ FLASH_Lock(f).locked /\ FLASH_Lock(f).cells = f.cells
      /\ FLASH_ClearFlag(f).locked = f.locked /\ FLASH_ClearFlag(f).cells = f.cells
  BY DEF FLASH_Unlock, FLASH_Lock, FLASH_ClearFlag, Controller
<1>2. /\ FLASH_ErasePage(f, a, fault).locked = f.locked
      /\ \A c \in Cells \ PageCells(a) :
           FLASH_ErasePage(f, a, fault).cells[c] = f.cells[c]
  BY DEF FLASH_ErasePage, Controller
<1>3. /\ FLASH_ProgramHalfWord(f, a, w, fault).locked = f.locked
      /\ \A c \in Cells \ {a} :
           FLASH_ProgramHalfWord(f, a, w, fault).cells[c] = f.cells[c]
  BY DEF FLASH_ProgramHalfWord, Controller
<1> QED BY <1>1, <1>2, <1>3

(***************************************************************************)
(* The packer.                                                             *)
(***************************************************************************)
LEMMA PutType ==
  ASSUME NEW a \in Addr, NEW l \in Byte, NEW h \in Byte
  PROVE  Put(a, l, h) \in HalfWord
  BY DEF Put, HalfWord, Word

\* The half-words of one call are half-words, and so is what stays pending.
LEMMA PackerTypes ==
  ASSUME NEW e \in EvenByte, NEW a \in Addr, NEW b \in Byte
  PROVE  /\ WordsOnByte(e, a, b) \in Seq(HalfWord)
         /\ EvenOnByte(e, a, b) \in EvenByte
         /\ WordsOnFinish(e) \in Seq(HalfWord)
         /\ EvenOnFinish(e) \in EvenByte
<1>1. FF \in Byte
  BY LayoutTypes DEF Byte
<1>2. EvenOnByte(e, a, b) \in EvenByte /\ EvenOnFinish(e) \in EvenByte
  BY DEF EvenOnByte, EvenOnFinish, EvenByte
<1>3. Flush(e) \in Seq(HalfWord)
  <2>1. Put(e.addr, e.data, FF) \in HalfWord
    BY <1>1, PutType DEF EvenByte
  <2> QED BY <2>1, EmptySeq DEF Flush
<1>4. IsOdd(a) => a - 1 \in Addr
  BY LayoutTypes DEF IsOdd, Addr
<1>5. IsOdd(a) => <<Put(a - 1, FF, b)>> \in Seq(HalfWord)
  BY <1>1, <1>4, PutType
<1>6. <<Put(e.addr, e.data, b)>> \in Seq(HalfWord)
  BY PutType DEF EvenByte
<1>7. WordsOnByte(e, a, b) \in Seq(HalfWord)
  BY <1>3, <1>5, <1>6, ConcatProperties DEF WordsOnByte
<1> QED BY <1>2, <1>3, <1>7 DEF WordsOnFinish

\* The types of the values the actions pick from the constants.
LEMMA ConstantTypes ==
  /\ Lines \subseteq Line
  /\ NoLine \notin Lines
  /\ \A l \in Line : l.addr \in Addr /\ l.data \in Seq(Byte) /\ l.kind \in Kinds
  /\ FactoryCells \in [Cells -> Word]
  /\ MaxBlocks \in Nat /\ BlockLen \in Nat \ {0}
  /\ NoLine.kind = "bad" /\ 0 \in Addr /\ NoEven \in EvenByte
<1>1. 0 \in Addr /\ 0 \in Byte
  BY LayoutTypes DEF Addr, Byte
<1> QED BY <1>1, BootloaderAssumption DEF Line, NoLine, NoEven, EvenByte

\* A decrypted record is a sequence of bytes: the blocks it uses are among
\* those counted by the guard of FeedData.
LEMMA DecryptedType ==
  ASSUME NEW data \in Seq(Byte), ctr \in 0 .. MaxBlocks, ctr + BlocksOf(data) <= MaxBlocks
  PROVE  /\ Decrypted(data) \in Seq(Byte)
         /\ ctr + BlocksOf(data) \in 0 .. MaxBlocks
<1>1. Len(data) \in Nat /\ BlockLen \in Nat \ {0} /\ MaxBlocks \in Nat /\ ctr \in Nat
  BY ConstantTypes, LenProperties
<1>2. BlocksOf(data) \in Nat
  <2>1. 0 * BlockLen <= Len(data) + BlockLen - 1
    BY <1>1
  <2>2. (Len(data) + BlockLen - 1) \div BlockLen >= 0
    BY <1>1, <2>1, DivLower
  <2> QED BY <1>1, <2>2, DivMod DEF BlocksOf
<1>3. ASSUME NEW i \in 1 .. Len(data)
      PROVE  Decrypt(ctr + ((i - 1) \div BlockLen), (i - 1) % BlockLen, data[i]) \in Byte
  <2> DEFINE n == (i - 1) \div BlockLen
  <2>1. i - 1 \in Nat /\ i - 1 < Len(data)
    BY <1>1
  <2>2. n \in Nat /\ (i - 1) % BlockLen \in 0 .. BlockLen - 1 /\ n + 1 <= BlocksOf(data)
    BY <1>1, <2>1, DivCeiling DEF BlocksOf
  <2> HIDE DEF n
  <2>3. ctr + n \in 0 .. MaxBlocks
    BY <1>1, <1>2, <2>2
  <2>4. data[i] \in Byte
    BY ElementOfSeq
  <2> QED BY <2>2, <2>3, <2>4, BootloaderAssumption DEF n
<1>4. Decrypted(data) \in [1 .. Len(data) -> Byte]
  BY <1>3 DEF Decrypted
<1> QED BY <1>1, <1>2, <1>4

(***************************************************************************)
(* The initial states.                                                     *)
(***************************************************************************)
LEMMA InitInv == Init => IInv
<1> SUFFICES ASSUME Init PROVE IInv
  OBVIOUS
<1> USE DEF Init
<1>1. TypeOK
  <2>1. NoImage \in [Addr -> Byte \cup {NoByte}]
    BY DEF NoImage
  <2>2. flash \in Controller
    BY ConstantTypes DEF Controller
  <2>3. <<>> \in Seq(Byte) /\ <<>> \in Seq(HalfWord)
    BY EmptySeq
  <2> QED BY <2>1, <2>2, <2>3, ConstantTypes DEF TypeOK
<1>2. PhaseInv
  BY DEF PhaseInv, LockDiscipline, NoLine
<1>3. HalfWordsApart
  BY DEF HalfWordsApart, NoEven
<1>4. SessionInv /\ ProgramOKMeansWritten
  BY DEF SessionInv, ProgramOKMeansWritten
<1> QED BY <1>1, <1>2, <1>3, <1>4 DEF IInv

(***************************************************************************)
(* Steps that leave what the invariant speaks of alone.                    *)
(***************************************************************************)
LEMMA Frame ==
  ASSUME IInv, UNCHANGED <<image, even, words>>, flash'.cells = flash.cells
  PROVE  /\ HalfWordsApart'
         /\ (PendingIsLast /\ WordsExplained /\ FedBytesHeld)
              => (PendingIsLast /\ WordsExplained /\ FedBytesHeld)'
         /\ (status' = status => ProgramOKMeansWritten')
<1>1. HalfWordsApart'
  BY DEF IInv, HalfWordsApart
<1>2. \A a \in Addr : (IsPending(a)' <=> IsPending(a)) /\ (Waits(a)' <=> Waits(a))
                      /\ (Stored(a)' <=> Stored(a))
  BY DEF IsPending, Waits, Stored, ByteAt
<1>3. PendingIsLast => PendingIsLast'
  BY DEF PendingIsLast
<1>4. WordsExplained => WordsExplained'
  BY <1>2 DEF WordsExplained
<1>5. FedBytesHeld => FedBytesHeld'
  BY <1>2 DEF FedBytesHeld
<1>6. status' = status => ProgramOKMeansWritten'
  BY DEF IInv, ProgramOKMeansWritten, ByteAt
<1> QED BY <1>1, <1>3, <1>4, <1>5, <1>6

\* The controller an erase works on is unlocked and holds the same cells.
LEMMA ErasingType ==
  ASSUME IInv, job # "none"
  PROVE  /\ ErasingFlash \in Controller /\ ~ErasingFlash.locked
         /\ ErasingFlash.cells = flash.cells
         /\ EraseFrom \in Nat /\ EraseFrom >= AppFirst
<1>1. flash \in Controller /\ eraseAddr \in Nat
  BY LayoutTypes DEF IInv, TypeOK, Addr
<1>2. EraseFrom \in Nat /\ EraseFrom >= AppFirst
  BY <1>1, LayoutTypes DEF IInv, PhaseInv, EraseFrom, StartsErase
<1>3. CASE StartsErase
  <2> DEFINE u == FLASH_Unlock(flash)
  <2>1. u \in Controller /\ ~u.locked /\ u.cells = flash.cells
    BY <1>1, ControllerTypes, ControllerFrame, WordTypes, <1>2
  <2> HIDE DEF u
  <2>2. /\ FLASH_ClearFlag(u) \in Controller /\ FLASH_ClearFlag(u).locked = u.locked
        /\ FLASH_ClearFlag(u).cells = u.cells
    BY <2>1, ControllerTypes, ControllerFrame, WordTypes, <1>2
  <2> QED BY <1>2, <1>3, <2>1, <2>2 DEF ErasingFlash, u
<1>4. CASE ~StartsErase
  BY <1>1, <1>2, <1>4 DEF IInv, PhaseInv, LockDiscipline, ErasingFlash, StartsErase
<1> QED BY <1>3, <1>4

(***************************************************************************)
(* Commands.                                                               *)
(***************************************************************************)
LEMMA CommandInv ==
  ASSUME IInv, NEW l \in Lines, Command(l)
  PROVE  IInv'
<1> USE DEF Command, feedVars, hexVars, histVars
<1>1. TypeOK'
  BY DEF IInv, TypeOK
<1>2. PhaseInv'
  BY DEF IInv, PhaseInv, LockDiscipline, Idle
<1>3. HalfWordsApart' /\ ProgramOKMeansWritten'
  BY Frame
<1>4. SessionInv'
  BY DEF SessionInv
<1> QED BY <1>1, <1>2, <1>3, <1>4 DEF IInv

LEMMA ErasePageStepInv ==
  ASSUME IInv, job # "none", ErasePageStep
  PROVE  IInv'
<1> USE DEF feedVars, hexVars
<1>1. PICK fault \in FaultChoices :
        /\ PagesLeft
        /\ eraseAddr' = EraseFrom + PageSize
        /\ IF PageClean(flash.cells, EraseFrom)
           THEN fault = "none" /\ flash' = ErasingFlash
           ELSE flash' = FLASH_ErasePage(ErasingFlash, EraseFrom, fault)
        /\ image' = NoImage
        /\ clean' = ((StartsErase \/ clean) /\ fault = "none")
        /\ UNCHANGED <<running, mode, job, status, feedVars, hexVars, orderly>>
  BY DEF ErasePageStep
<1>2. EraseFrom \in Nat /\ EraseFrom >= AppFirst /\ EraseFrom + PageSize \in Addr
      /\ EraseFrom + PageSize >= AppFirst /\ EraseFrom + PageSize # 0
  BY <1>1, ErasingType, LayoutTypes DEF PagesLeft, Addr
<1>3. flash' \in Controller /\ ~flash'.locked
  BY <1>1, <1>2, ErasingType, ControllerTypes, ControllerFrame, WordTypes
<1>4. TypeOK'
  <2>1. NoImage \in [Addr -> Byte \cup {NoByte}]
    BY DEF NoImage
  <2>2. clean' \in BOOLEAN
    BY <1>1
  <2> QED BY <1>1, <1>2, <1>3, <2>1, <2>2 DEF IInv, TypeOK
<1>5. PhaseInv'
  BY <1>1, <1>2, <1>3 DEF IInv, PhaseInv, LockDiscipline
<1>6. HalfWordsApart'
  BY <1>1 DEF IInv, HalfWordsApart
<1>7. SessionInv' /\ ProgramOKMeansWritten'
  <2>1. mode' = "command"
    BY <1>1 DEF IInv, PhaseInv
  <2>2. \A a \in Addr : image'[a] = NoByte
    BY <1>1 DEF NoImage
  <2> QED BY <2>1, <2>2 DEF SessionInv, ProgramOKMeansWritten
<1> QED BY <1>4, <1>5, <1>6, <1>7 DEF IInv

LEMMA FinishEraseInv ==
  ASSUME IInv, job # "none", FinishErase
  PROVE  IInv'
<1> USE DEF FinishErase, EraseDone, feedVars, hexVars
<1>1. flash' \in Controller /\ flash'.locked
  BY ErasingType, ControllerTypes, ControllerFrame, WordTypes
<1>2. TypeOK'
  <2>1. NoImage \in [Addr -> Byte \cup {NoByte}]
    BY DEF NoImage
  <2> QED BY <1>1, <2>1, ConstantTypes DEF IInv, TypeOK
<1>3. mode' = "command"
  BY DEF IInv, PhaseInv
<1>4. PhaseInv'
  BY <1>1, <1>3 DEF IInv, PhaseInv, LockDiscipline
<1>5. HalfWordsApart'
  BY DEF IInv, HalfWordsApart
<1>6. SessionInv' /\ ProgramOKMeansWritten'
  <2>1. \A a \in Addr : image'[a] = NoByte
    BY DEF NoImage
  <2> QED BY <1>3, <2>1 DEF SessionInv, ProgramOKMeansWritten
<1> QED BY <1>2, <1>4, <1>5, <1>6 DEF IInv

LEMMA FinishProgramInv ==
  ASSUME IInv, job # "none", FinishProgram
  PROVE  IInv'
<1> USE DEF FinishProgram, EraseDone, feedVars
<1>1. flash' \in Controller /\ ~flash'.locked
  <2>1. FLASH_Lock(ErasingFlash) \in Controller
    BY ErasingType, ControllerTypes, WordTypes
  <2> QED BY <2>1, ControllerTypes, ControllerFrame, WordTypes, ErasingType
<1>2. NoImage \in [Addr -> Byte \cup {NoByte}]
  BY DEF NoImage
<1>3. line = NoLine /\ rec = <<>> /\ words = <<>>
  BY DEF IInv, PhaseInv
<1>4. TypeOK'
  <2>1. 0 \in 0 .. MaxBlocks
    BY ConstantTypes
  <2>2. clean' \in BOOLEAN /\ orderly' \in BOOLEAN
    OBVIOUS
  <2> QED BY <1>1, <1>2, <2>1, <2>2, ConstantTypes DEF IInv, TypeOK
<1>5. PhaseInv'
  BY <1>1, <1>3, ConstantTypes DEF IInv, PhaseInv, LockDiscipline
<1>6. HalfWordsApart'
  BY DEF IInv, HalfWordsApart
<1>7. ProgramOKMeansWritten'
  BY DEF ProgramOKMeansWritten
<1>8. SessionInv'
  <2>1. \A a \in Addr : image'[a] = NoByte
    BY DEF NoImage
  <2>2. FedBytesHeld'
    BY <2>1 DEF FedBytesHeld
  <2>3. WordsExplained'
    BY <2>1 DEF WordsExplained
  <2>4. PendingIsLast'
    BY <2>1 DEF PendingIsLast, IInv, TypeOK, EvenByte
  <2> QED BY <2>2, <2>3, <2>4 DEF SessionInv
<1> QED BY <1>4, <1>5, <1>6, <1>7, <1>8 DEF IInv

(***************************************************************************)
(* Hex lines.                                                              *)
(***************************************************************************)
LEMMA FeedDataInv ==
  ASSUME IInv, Idle, mode = "program", NEW l \in Lines, FeedData(l), UNCHANGED running
  PROVE  IInv'
<1> USE DEF FeedData, cliVars, histVars
<1>0. l \in Line /\ l.addr \in Addr /\ l.data \in Seq(Byte) /\ l # NoLine
  BY ConstantTypes
<1>1. Decrypted(l.data) \in Seq(Byte) /\ ctr' \in 0 .. MaxBlocks
  BY <1>0, DecryptedType DEF IInv, TypeOK
<1>2. recAddr' \in Addr
  <2>1. addrOffs + l.addr \in Nat
    BY <1>0 DEF IInv, TypeOK, Addr
  <2> QED BY <2>1, AddrWraps DEF RecordAddr
<1>3. TypeOK'
  BY <1>0, <1>1, <1>2 DEF IInv, TypeOK
<1>4. PhaseInv'
  BY <1>0 DEF IInv, PhaseInv, LockDiscipline, Idle
<1>5. HalfWordsApart' /\ ProgramOKMeansWritten' /\ SessionInv'
  BY Frame DEF SessionInv, IInv
<1> QED BY <1>3, <1>4, <1>5 DEF IInv

LEMMA FeedOffsetInv ==
  ASSUME IInv, Idle, mode = "program", NEW l \in Lines, FeedOffset(l), UNCHANGED running
  PROVE  IInv'
<1> USE DEF FeedOffset, cliVars, feedVars, histVars
<1>1. TypeOK'
  BY ConstantTypes DEF IInv, TypeOK
<1>2. PhaseInv'
  BY DEF IInv, PhaseInv, LockDiscipline
<1>3. HalfWordsApart' /\ ProgramOKMeansWritten' /\ SessionInv'
  BY Frame DEF SessionInv, IInv
<1> QED BY <1>1, <1>2, <1>3 DEF IInv

\* The end of a session, in error or with nothing left on its way.
LEMMA EndSessionInv ==
  ASSUME IInv, mode = "program", NEW f \in Controller, NEW result \in {"ok", "error"},
         EndSession(f, result), result = "ok" => ProgramOKMeansWritten',
         UNCHANGED <<running, job, eraseAddr, hexVars, image>>,
         clean' \in BOOLEAN, orderly' \in BOOLEAN
  PROVE  IInv'
<1> USE DEF EndSession, hexVars
<1>1. flash' \in Controller /\ flash'.locked
  BY ControllerTypes, ControllerFrame, WordTypes, ConstantTypes, LayoutTypes
<1>2. TypeOK'
  BY <1>1, ConstantTypes, EmptySeq DEF IInv, TypeOK
<1>3. PhaseInv'
  BY <1>1, ConstantTypes DEF IInv, PhaseInv, LockDiscipline
<1>4. HalfWordsApart'
  BY DEF IInv, HalfWordsApart
<1>5. SessionInv'
  BY DEF SessionInv
<1>6. ProgramOKMeansWritten'
  BY DEF ProgramOKMeansWritten
<1> QED BY <1>2, <1>3, <1>4, <1>5, <1>6 DEF IInv

LEMMA RejectInv ==
  ASSUME IInv, Idle, mode = "program", NEW l \in Lines, Reject(l), UNCHANGED running
  PROVE  IInv'
<1>1. flash \in Controller /\ clean \in BOOLEAN
  BY DEF IInv, TypeOK
<1> QED BY <1>1, EndSessionInv DEF Reject

\* A byte the session fed, if nothing waits, is pending or stored.
LEMMA NothingWaits ==
  ASSUME IInv, mode = "program", words = <<>>, NEW a \in Addr, image[a] # NoByte
  PROVE  IsPending(a) \/ Stored(a)
  BY DEF IInv, SessionInv, FedBytesHeld, Waits

\* Writing out the pending byte alone: it is explained by the session, and
\* its padding by what is stored already.
LEMMA FlushExplained ==
  ASSUME IInv, mode = "program", words = <<>>, even.valid,
         NEW a \in Addr, even.addr = a - (a % 2), image[a] # NoByte
  PROVE  LET w == Put(even.addr, even.data, FF).word IN
         \/ Half(w, IsOdd(a)) = image[a] /\ ~IsOdd(a)
         \/ Half(w, IsOdd(a)) = FF /\ IsOdd(a) /\ Stored(a)
<1>1. CASE IsOdd(a)
  <2>1. ~IsPending(a)
    BY <1>1 DEF IsPending, IInv, HalfWordsApart, IsOdd
  <2> QED BY <1>1, <2>1, NothingWaits DEF Half, Put
<1>2. CASE ~IsOdd(a)
  <2>1. even.addr = a
    BY <1>2 DEF IsOdd, Addr
  <2>2. image[a] = even.data
    BY <2>1 DEF IInv, SessionInv, PendingIsLast
  <2> QED BY <1>2, <2>2 DEF Half, Put
<1> QED BY <1>1, <1>2

LEMMA FeedEofInv ==
  ASSUME IInv, Idle, mode = "program", NEW l \in Lines, FeedEof(l), UNCHANGED running
  PROVE  IInv'
<1> USE DEF FeedEof, cliVars
<1>0. l \in Line /\ l # NoLine /\ 0 \in Addr /\ line = NoLine /\ rec = <<>> /\ words = <<>>
  BY ConstantTypes DEF Idle, IInv, PhaseInv
<1>1. even \in EvenByte /\ 0 \in Byte
  BY LayoutTypes DEF IInv, TypeOK, Byte
<1>2. TypeOK'
  <2>1. words' \in Seq(HalfWord) /\ even' \in EvenByte
    BY <1>0, <1>1, PackerTypes
  <2>2. orderly' \in BOOLEAN
    BY DEF IInv, TypeOK
  <2> QED BY <1>0, <2>1, <2>2 DEF IInv, TypeOK
<1>3. ~even'.valid /\ even'.addr = even.addr
  BY <1>1 DEF EvenOnFinish, EvenByte
<1>4. PhaseInv'
  BY <1>0, <1>3 DEF IInv, PhaseInv, LockDiscipline, Idle
<1>5. CASE ~even.valid
  <2>1. words' = <<>>
    BY <1>5 DEF WordsOnFinish, Flush
  <2>2. HalfWordsApart' /\ WordsExplained' /\ PendingIsLast'
    BY <1>3, <2>1 DEF HalfWordsApart, WordsExplained, PendingIsLast
  <2>3. FedBytesHeld'
    <3> SUFFICES ASSUME NEW a \in Addr, image[a] # NoByte PROVE Stored(a)'
      BY DEF FedBytesHeld
    <3>1. Stored(a)
      BY <1>0, <1>5, NothingWaits DEF IsPending
    <3> QED BY <3>1 DEF Stored, ByteAt
  <2>4. ProgramOKMeansWritten'
    BY DEF IInv, ProgramOKMeansWritten, ByteAt
  <2> QED BY <1>2, <1>4, <2>2, <2>3, <2>4 DEF IInv, SessionInv
<1>6. CASE even.valid
  <2> DEFINE w == Put(even.addr, even.data, FF)
  <2>1. words' = <<w>> /\ Len(words') = 1 /\ words'[1] = w
    BY <1>6 DEF WordsOnFinish, Flush
  <2>2. w.addr = even.addr
    BY DEF Put
  <2>3. HalfWordsApart'
    BY <1>3, <1>6, <2>1, <2>2 DEF HalfWordsApart, IInv
  <2>4. PendingIsLast'
    BY <1>3 DEF PendingIsLast
  <2>5. WordsExplained'
    <3> SUFFICES ASSUME NEW a \in Addr, w.addr = a - (a % 2), image[a] # NoByte
                 PROVE  \/ Half(w.word, IsOdd(a)) = image[a]
                        \/ Half(w.word, IsOdd(a)) = FF /\ Stored(a)'
      BY <2>1 DEF WordsExplained
    <3>1. \/ Half(w.word, IsOdd(a)) = image[a]
          \/ Half(w.word, IsOdd(a)) = FF /\ Stored(a)
      BY <1>0, <1>6, <2>2, FlushExplained
    <3> QED BY <3>1 DEF Stored, ByteAt
  <2>6. FedBytesHeld'
    <3> SUFFICES ASSUME NEW a \in Addr, image[a] # NoByte PROVE (Waits(a) \/ Stored(a))'
      BY DEF FedBytesHeld
    <3>1. CASE Stored(a)
      BY <3>1 DEF Stored, ByteAt
    <3>2. CASE IsPending(a)
      <4>1. a % 2 = 0 /\ w.addr = a - (a % 2) /\ ~IsOdd(a)
        BY <1>6, <2>2, <3>2 DEF IsPending, IInv, HalfWordsApart, IsOdd, Addr
      <4>2. Half(w.word, IsOdd(a)) = image[a]
        BY <1>0, <1>6, <2>2, <4>1, FlushExplained
      <4> QED BY <2>1, <4>1, <4>2 DEF Waits
    <3> QED BY <1>0, <3>1, <3>2, NothingWaits
  <2>7. ProgramOKMeansWritten'
    BY DEF IInv, ProgramOKMeansWritten, ByteAt
  <2> QED BY <1>2, <1>4, <2>3, <2>4, <2>5, <2>6, <2>7 DEF IInv, SessionInv
<1> QED BY <1>5, <1>6

(***************************************************************************)
(* Bytes.  The four cases are those of hex_parser_on_data.                 *)
(***************************************************************************)
LEMMA FeedByteTypes ==
  ASSUME IInv, FeedByte
  PROVE  /\ TypeOK' /\ PhaseInv' /\ ProgramOKMeansWritten'
         /\ mode = "program" /\ recAddr \in Addr /\ Head(rec) \in Byte
         /\ \A a \in Addr : image'[a] = IF a = recAddr THEN Head(rec) ELSE image[a]
<1> USE DEF FeedByte, cliVars
<1>0. mode = "program" /\ status = "empty" /\ line.kind # "eof"
  BY DEF IInv, PhaseInv
<1>1. Head(rec) \in Byte /\ Tail(rec) \in Seq(Byte) /\ recAddr \in Addr /\ even \in EvenByte
  BY HeadTailProperties DEF IInv, TypeOK
<1>2. words' \in Seq(HalfWord) /\ even' \in EvenByte
  BY <1>1, PackerTypes
<1>3. recAddr' \in Addr
  <2>1. recAddr + 1 \in Nat
    BY <1>1 DEF Addr
  <2> QED BY <2>1, AddrWraps
<1>4. image' \in [Addr -> Byte \cup {NoByte}]
      /\ \A a \in Addr : image'[a] = IF a = recAddr THEN Head(rec) ELSE image[a]
  BY <1>1 DEF IInv, TypeOK
<1>5. TypeOK'
  <2>1. orderly' \in BOOLEAN
    BY DEF IInv, TypeOK
  <2> QED BY <1>1, <1>2, <1>3, <1>4, <2>1 DEF IInv, TypeOK
<1>6. PhaseInv'
  BY <1>0 DEF IInv, PhaseInv, LockDiscipline
<1>7. ProgramOKMeansWritten'
  BY <1>0 DEF ProgramOKMeansWritten
<1> QED BY <1>0, <1>1, <1>4, <1>5, <1>6, <1>7

\* Bytes stored before the step are stored after it, unless fed again.
LEMMA FeedByteKeeps ==
  ASSUME IInv, FeedByte, NEW a \in Addr, a # recAddr, image[a] # NoByte
  PROVE  image'[a] = image[a] /\ (IsPending(a) \/ Stored(a)') /\ (Stored(a) => Stored(a)')
<1>1. mode = "program" /\ image'[a] = image[a] /\ words = <<>> /\ flash' = flash
  BY FeedByteTypes DEF FeedByte
<1>2. Stored(a) => Stored(a)'
  BY <1>1 DEF Stored, ByteAt
<1> QED BY <1>1, <1>2, NothingWaits

\* An odd byte completes the half-word of the pending one.
LEMMA FeedPair ==
  ASSUME IInv, FeedByte, IsOdd(recAddr), even.valid, recAddr - even.addr = 1
  PROVE  HalfWordsApart' /\ SessionInv'
<1> DEFINE w == Put(even.addr, even.data, Head(rec))
<1>1. words' = <<w>> /\ Len(words') = 1 /\ words'[1] = w /\ w.addr = even.addr
  BY DEF FeedByte, WordsOnByte, Put
<1>2. ~even'.valid
  BY DEF FeedByte, EvenOnByte, IInv, TypeOK, EvenByte
<1>3. even.addr \in Addr /\ recAddr \in Addr /\ ~IsOdd(even.addr) /\ mode = "program"
  BY FeedByteTypes DEF IInv, TypeOK, EvenByte, HalfWordsApart
<1>4. HalfWordsApart' /\ PendingIsLast'
  BY <1>1, <1>2, <1>3 DEF HalfWordsApart, PendingIsLast
<1>5. \A a \in Addr : w.addr = a - (a % 2) => a = even.addr \/ a = recAddr
  BY <1>1, <1>3 DEF IsOdd, Addr
<1>6. /\ image'[recAddr] = Half(w.word, IsOdd(recAddr)) /\ w.addr = recAddr - (recAddr % 2)
      /\ w.addr = even.addr - (even.addr % 2)
  BY <1>1, <1>3, FeedByteTypes DEF Half, Put, IsOdd, Addr
<1>7. image[even.addr] # NoByte => image'[even.addr] = Half(w.word, IsOdd(even.addr))
  BY <1>3, FeedByteTypes DEF Half, Put, IInv, SessionInv, PendingIsLast
<1>8. WordsExplained'
  <2> SUFFICES ASSUME NEW a \in Addr, w.addr = a - (a % 2), image'[a] # NoByte
               PROVE  Half(w.word, IsOdd(a)) = image'[a]
    BY <1>1 DEF WordsExplained
  <2> QED BY <1>3, <1>5, <1>6, <1>7, FeedByteTypes
<1>9. FedBytesHeld'
  <2> SUFFICES ASSUME NEW a \in Addr, image'[a] # NoByte PROVE (Waits(a) \/ Stored(a))'
    BY DEF FedBytesHeld
  <2>1. CASE a = recAddr
    BY <1>1, <1>6, <2>1 DEF Waits, Half
  <2>2. CASE a # recAddr /\ ~IsPending(a)
    BY <2>2, FeedByteKeeps, FeedByteTypes
  <2>3. CASE a # recAddr /\ IsPending(a)
    BY <1>1, <1>3, <1>6, <1>7, <2>3, FeedByteTypes DEF Waits, IsPending
  <2> QED BY <2>1, <2>2, <2>3
<1> QED BY <1>4, <1>8, <1>9 DEF SessionInv

\* An odd byte alone is written next to 0xFF.
LEMMA FeedOddAlone ==
  ASSUME IInv, FeedByte, IsOdd(recAddr), ~even.valid
  PROVE  HalfWordsApart' /\ SessionInv'
<1> DEFINE w == Put(recAddr - 1, FF, Head(rec))
<1>0. FF \in Byte /\ recAddr \in Addr /\ recAddr - 1 \in Addr /\ mode = "program"
      /\ ~IsOdd(recAddr - 1)
  BY LayoutTypes, FeedByteTypes DEF Byte, IsOdd, Addr
<1>1. words' = <<w>> /\ Len(words') = 1 /\ words'[1] = w /\ w.addr = recAddr - 1
  <2>1. words' = <<>> \o <<w>>
    BY DEF FeedByte, WordsOnByte, Flush
  <2>2. <<w>> \in Seq(HalfWord)
    BY <1>0, FeedByteTypes, PutType
  <2> QED BY <2>1, <2>2, ConcatEmptySeq DEF Put
<1>2. ~even'.valid
  BY DEF FeedByte, EvenOnByte, IInv, TypeOK, EvenByte
<1>4. HalfWordsApart' /\ PendingIsLast'
  BY <1>0, <1>1, <1>2 DEF HalfWordsApart, PendingIsLast
<1>5. \A a \in Addr : w.addr = a - (a % 2) => (a = recAddr - 1 /\ ~IsOdd(a)) \/ a = recAddr
  BY <1>0, <1>1 DEF IsOdd, Addr
<1>6. image'[recAddr] = Half(w.word, IsOdd(recAddr)) /\ w.addr = recAddr - (recAddr % 2)
  BY <1>0, <1>1, FeedByteTypes DEF Half, Put, IsOdd
<1>8. WordsExplained'
  <2> SUFFICES ASSUME NEW a \in Addr, w.addr = a - (a % 2), image'[a] # NoByte
               PROVE  \/ Half(w.word, IsOdd(a)) = image'[a]
                      \/ Half(w.word, IsOdd(a)) = FF /\ Stored(a)'
    BY <1>1 DEF WordsExplained
  <2>1. CASE a = recAddr
    BY <1>6, <2>1
  <2>2. CASE a = recAddr - 1 /\ ~IsOdd(a)
    <3>1. a # recAddr /\ image[a] # NoByte
      BY <1>0, <2>2, FeedByteTypes DEF Addr
    <3>2. Half(w.word, IsOdd(a)) = FF
      BY <2>2 DEF Half, Put
    <3> QED BY <3>1, <3>2, FeedByteKeeps DEF IsPending
  <2> QED BY <1>5, <2>1, <2>2
<1>9. FedBytesHeld'
  <2> SUFFICES ASSUME NEW a \in Addr, image'[a] # NoByte PROVE (Waits(a) \/ Stored(a))'
    BY DEF FedBytesHeld
  <2>1. CASE a = recAddr
    BY <1>1, <1>6, <2>1 DEF Waits, Half
  <2>2. CASE a # recAddr
    BY <2>2, FeedByteKeeps, FeedByteTypes DEF IsPending
  <2> QED BY <2>1, <2>2
<1> QED BY <1>4, <1>8, <1>9 DEF SessionInv

\* An odd byte elsewhere: the pending byte first, then the new one.
LEMMA FeedOddElsewhere ==
  ASSUME IInv, FeedByte, IsOdd(recAddr), even.valid, recAddr - even.addr # 1
  PROVE  HalfWordsApart' /\ SessionInv'
<1> DEFINE v == Put(even.addr, even.data, FF)
           w == Put(recAddr - 1, FF, Head(rec))
<1>0. /\ FF \in Byte /\ recAddr \in Addr /\ recAddr - 1 \in Addr /\ mode = "program"
      /\ ~IsOdd(recAddr - 1) /\ even.addr \in Addr /\ ~IsOdd(even.addr)
      /\ even.addr # recAddr - 1 /\ words = <<>>
  <2>1. FF \in Byte /\ recAddr \in Addr /\ mode = "program" /\ Head(rec) \in Byte
    BY LayoutTypes, FeedByteTypes DEF Byte
  <2>2. even.addr \in Addr /\ ~IsOdd(even.addr) /\ words = <<>> /\ even.data \in Byte
    BY DEF IInv, TypeOK, EvenByte, HalfWordsApart, FeedByte
  <2>3. recAddr - 1 \in Addr /\ ~IsOdd(recAddr - 1)
    BY <2>1, LayoutTypes DEF Addr, IsOdd
  <2>4. even.addr # recAddr - 1
    BY <2>1, <2>2 DEF Addr
  <2> QED BY <2>1, <2>2, <2>3, <2>4
<1>1. /\ Len(words') = 2 /\ words'[1] = v /\ words'[2] = w
      /\ v.addr = even.addr /\ w.addr = recAddr - 1
  <2>1. words' = <<v>> \o <<w>>
    BY DEF FeedByte, WordsOnByte, Flush
  <2>2. <<v>> \in Seq(HalfWord) /\ <<w>> \in Seq(HalfWord)
    BY <1>0, FeedByteTypes, PutType DEF IInv, TypeOK, EvenByte
  <2>3. Len(<<v>>) = 1 /\ Len(<<w>>) = 1 /\ <<v>>[1] = v /\ <<w>>[1] = w
    OBVIOUS
  <2>4. Len(words') = 2 /\ words'[1] = v /\ words'[2] = w
    BY <2>1, <2>2, <2>3, ConcatProperties
  <2> QED BY <2>4 DEF Put
<1>2. ~even'.valid
  BY DEF FeedByte, EvenOnByte, IInv, TypeOK, EvenByte
<1>4. HalfWordsApart' /\ PendingIsLast'
  BY <1>0, <1>1, <1>2 DEF HalfWordsApart, PendingIsLast
<1>5. \A a \in Addr : w.addr = a - (a % 2) => (a = recAddr - 1 /\ ~IsOdd(a)) \/ a = recAddr
  BY <1>0, <1>1 DEF IsOdd, Addr
<1>6. image'[recAddr] = Half(w.word, IsOdd(recAddr)) /\ w.addr = recAddr - (recAddr % 2)
  BY <1>0, <1>1, FeedByteTypes DEF Half, Put, IsOdd
<1>7. ASSUME NEW a \in Addr, w.addr = a - (a % 2), image'[a] # NoByte
      PROVE  \/ Half(w.word, IsOdd(a)) = image'[a]
             \/ Half(w.word, IsOdd(a)) = FF /\ Stored(a)'
  <2>1. CASE a = recAddr
    BY <1>6, <2>1
  <2>2. CASE a = recAddr - 1 /\ ~IsOdd(a)
    <3>1. a # recAddr /\ ~IsPending(a)
      BY <1>0, <2>2 DEF Addr, IsPending
    <3>2. image[a] # NoByte
      BY <1>7, <3>1, FeedByteTypes
    <3>3. Half(w.word, IsOdd(a)) = FF
      BY <2>2 DEF Half, Put
    <3> QED BY <3>1, <3>2, <3>3, FeedByteKeeps
  <2> QED BY <1>5, <1>7, <2>1, <2>2
<1>8. ASSUME NEW a \in Addr, v.addr = a - (a % 2), image'[a] # NoByte
      PROVE  \/ Half(v.word, IsOdd(a)) = image'[a]
             \/ Half(v.word, IsOdd(a)) = FF /\ Stored(a)'
  <2>1. a # recAddr
    BY <1>0, <1>1, <1>6, <1>8
  <2>2. image'[a] = image[a] /\ (Stored(a) => Stored(a)')
    BY <1>8, <2>1, FeedByteTypes, FeedByteKeeps
  <2> QED BY <1>0, <1>1, <1>8, <2>2, FlushExplained
<1>9. WordsExplained'
  BY <1>1, <1>7, <1>8 DEF WordsExplained
<1>10. FedBytesHeld'
  <2> SUFFICES ASSUME NEW a \in Addr, image'[a] # NoByte PROVE (Waits(a) \/ Stored(a))'
    BY DEF FedBytesHeld
  <2>1. CASE a = recAddr
    BY <1>1, <1>6, <2>1 DEF Waits, Half
  <2>2. CASE a # recAddr /\ ~IsPending(a)
    BY <2>2, FeedByteKeeps, FeedByteTypes
  <2>3. CASE a # recAddr /\ IsPending(a)
    <3>1. v.addr = a - (a % 2) /\ ~IsOdd(a) /\ image'[a] = image[a]
      BY <1>0, <1>1, <2>3, FeedByteTypes DEF IsPending, IsOdd, Addr
    <3>2. Half(v.word, IsOdd(a)) = image'[a]
      BY <1>0, <1>1, <3>1, FlushExplained
    <3> QED BY <1>1, <3>1, <3>2 DEF Waits
  <2> QED BY <2>1, <2>2, <2>3
<1> QED BY <1>4, <1>9, <1>10 DEF SessionInv

\* An even byte becomes the pending one; the one before it is written.
LEMMA FeedEven ==
  ASSUME IInv, FeedByte, ~IsOdd(recAddr)
  PROVE  HalfWordsApart' /\ SessionInv'
<1>0. /\ recAddr \in Addr /\ mode = "program" /\ words = <<>> /\ even.addr \in Addr
      /\ image'[recAddr] = Head(rec)
  BY FeedByteTypes DEF IInv, TypeOK, EvenByte, FeedByte
<1>1. even' = [valid |-> TRUE, addr |-> recAddr, data |-> Head(rec)] /\ words' = Flush(even)
  BY DEF FeedByte, EvenOnByte, WordsOnByte
<1>2. \A a \in Addr : IsPending(a)' <=> a = recAddr
  BY <1>1 DEF IsPending
<1>3. PendingIsLast'
  BY <1>0, <1>1 DEF PendingIsLast
<1>4. CASE ~even.valid
  <2>1. words' = <<>>
    BY <1>1, <1>4 DEF Flush
  <2>2. HalfWordsApart' /\ WordsExplained'
    BY <1>1, <2>1 DEF HalfWordsApart, WordsExplained
  <2>3. FedBytesHeld'
    <3> SUFFICES ASSUME NEW a \in Addr, image'[a] # NoByte, a # recAddr PROVE Stored(a)'
      BY <1>2 DEF FedBytesHeld
    <3> QED BY <1>4, FeedByteKeeps, FeedByteTypes DEF IsPending
  <2> QED BY <1>3, <2>2, <2>3 DEF SessionInv
<1>5. CASE even.valid
  <2> DEFINE v == Put(even.addr, even.data, FF)
  <2>1. Len(words') = 1 /\ words'[1] = v /\ v.addr = even.addr /\ ~IsOdd(even.addr)
    BY <1>1, <1>5 DEF Flush, Put, IInv, HalfWordsApart
  <2>2. HalfWordsApart'
    BY <1>1, <2>1 DEF HalfWordsApart
  <2>3. WordsExplained'
    <3> SUFFICES ASSUME NEW a \in Addr, v.addr = a - (a % 2), image'[a] # NoByte, a # recAddr
                 PROVE  \/ Half(v.word, IsOdd(a)) = image'[a]
                        \/ Half(v.word, IsOdd(a)) = FF /\ Stored(a)'
      BY <1>2, <2>1 DEF WordsExplained
    <3>1. image'[a] = image[a] /\ (Stored(a) => Stored(a)')
      BY FeedByteTypes, FeedByteKeeps
    <3> QED BY <1>0, <1>5, <2>1, <3>1, FlushExplained
  <2>4. FedBytesHeld'
    <3> SUFFICES ASSUME NEW a \in Addr, image'[a] # NoByte, a # recAddr
                 PROVE  (Waits(a) \/ Stored(a))'
      BY <1>2 DEF FedBytesHeld
    <3>1. CASE ~IsPending(a)
      BY <3>1, FeedByteKeeps, FeedByteTypes
    <3>2. CASE IsPending(a)
      <4>1. v.addr = a - (a % 2) /\ ~IsOdd(a) /\ image'[a] = image[a]
        BY <1>0, <2>1, <3>2, FeedByteTypes DEF IsPending, IsOdd, Addr
      <4>2. Half(v.word, IsOdd(a)) = image'[a]
        BY <1>0, <1>5, <2>1, <4>1, FlushExplained
      <4> QED BY <2>1, <4>1, <4>2 DEF Waits
    <3> QED BY <3>1, <3>2
  <2> QED BY <1>3, <2>2, <2>3, <2>4 DEF SessionInv
<1> QED BY <1>4, <1>5

LEMMA FeedByteInv ==
  ASSUME IInv, FeedByte
  PROVE  IInv'
<1>1. HalfWordsApart' /\ SessionInv'
  BY FeedPair, FeedOddAlone, FeedOddElsewhere, FeedEven
<1> QED BY <1>1, FeedByteTypes DEF IInv

(***************************************************************************)
(* Half-words.                                                             *)
(***************************************************************************)
LEMMA HeadWord ==
  ASSUME IInv, words # <<>>
  PROVE  /\ mode = "program" /\ status = "empty" /\ flash \in Controller
         /\ Len(words) \in Nat \ {0} /\ words[1] = Head(words)
         /\ Head(words).addr \in Addr /\ Head(words).word \in Word
         /\ Head(words).addr \in Nat /\ ~IsOdd(Head(words).addr)
         /\ Tail(words) \in Seq(HalfWord) /\ Len(Tail(words)) = Len(words) - 1
         /\ \A i \in 1 .. Len(words) - 1 : Tail(words)[i] = words[i + 1]
<1>1. words \in Seq(HalfWord) /\ flash \in Controller
  BY DEF IInv, TypeOK
<1>2. mode = "program" /\ status = "empty"
  BY DEF IInv, PhaseInv
<1>3. Len(words) \in Nat \ {0} /\ words[1] = Head(words)
  BY <1>1, EmptySeq
<1>4. /\ Head(words) \in HalfWord /\ Tail(words) \in Seq(HalfWord)
      /\ Len(Tail(words)) = Len(words) - 1
      /\ \A i \in 1 .. Len(words) - 1 : Tail(words)[i] = words[i + 1]
  BY <1>1, HeadTailProperties
<1>5. ~IsOdd(Head(words).addr)
  BY <1>3 DEF IInv, HalfWordsApart
<1> QED BY <1>1, <1>2, <1>3, <1>4, <1>5 DEF HalfWord, Addr

\* A half-word that on_flash_word accepts is a cell of the flash.
LEMMA WritableCell ==
  ASSUME NEW a \in Nat, ~IsOdd(a), Writable(a)
  PROVE  a \in Cells /\ InApp(a) /\ InApp(a + 1)
  BY LayoutTypes, LayoutAssumption DEF Writable, IsOdd, Cells, InApp, AppLast, LastAddr

\* What a successful write leaves in the cell it writes and in the others.
LEMMA ProgramEffect ==
  ASSUME NEW f \in Controller, ~f.locked, NEW a \in Cells, NEW w \in Word, NEW fault,
         fault # "timeout", ProgramCompletes(f, a, w, fault)
  PROVE  /\ FLASH_ProgramHalfWord(f, a, w, fault).cells = [f.cells EXCEPT ![a] = w]
         /\ f.cells[a] = Blank \/ w = Zero
  BY DEF ProgramCompletes, FLASH_ProgramHalfWord, Ready, Starts, Programmable, Controller

LEMMA WordWritten ==
  ASSUME IInv, words # <<>>, NEW fault,
         Writable(Head(words).addr),
         ProgramCompletes(flash, Head(words).addr, Head(words).word, fault),
         flash' = FLASH_ProgramHalfWord(flash, Head(words).addr, Head(words).word, fault),
         words' = Tail(words),
         UNCHANGED <<running, mode, status, line, rec, recAddr, job, eraseAddr, hexVars, image>>,
         clean' \in BOOLEAN, orderly' \in BOOLEAN
  PROVE  IInv'
<1> USE DEF hexVars
<1> DEFINE q == Head(words).addr
           w == Head(words).word
<1>1. /\ mode = "program" /\ status = "empty" /\ flash \in Controller
      /\ Len(words) \in Nat \ {0} /\ words[1] = Head(words)
      /\ q \in Addr /\ w \in Word /\ q \in Nat /\ ~IsOdd(q)
      /\ Tail(words) \in Seq(HalfWord) /\ Len(words') = Len(words) - 1
      /\ \A i \in 1 .. Len(words) - 1 : words'[i] = words[i + 1]
  BY HeadWord
<1>2. q \in Cells /\ InApp(q) /\ InApp(q + 1)
  BY <1>1, WritableCell
<1>3. ~flash.locked
  BY <1>1 DEF IInv, PhaseInv, LockDiscipline
<1>4. /\ flash'.cells = [flash.cells EXCEPT ![q] = w]
      /\ flash.cells[q] = Blank \/ w = Zero
  BY <1>1, <1>2, <1>3, ProgramEffect DEF ProgramCompletes
<1>5. flash' \in Controller /\ ~flash'.locked
  BY <1>1, <1>3, ControllerTypes, ControllerFrame
<1>6. TypeOK'
  BY <1>1, <1>5 DEF IInv, TypeOK
<1>7. PhaseInv'
  BY <1>1, <1>3, <1>5 DEF IInv, PhaseInv, LockDiscipline
<1>8. HalfWordsApart'
  BY <1>1 DEF IInv, HalfWordsApart
<1>9. ProgramOKMeansWritten'
  BY <1>1 DEF ProgramOKMeansWritten
<1>10. flash.cells \in [Cells -> Word] /\ flash'.cells[q] = w
       /\ \A c \in Cells : c # q => flash'.cells[c] = flash.cells[c]
  BY <1>1, <1>2, <1>4 DEF Controller
<1>11. ASSUME NEW a \in Addr, a - (a % 2) # q, Stored(a)
       PROVE  Stored(a)'
  <2>1. a - (a % 2) \in Cells
    BY <1>11, LayoutTypes, LayoutAssumption DEF Stored, InApp, Cells, Addr, AppLast, LastAddr
  <2> QED BY <1>10, <1>11, <2>1 DEF Stored, ByteAt
<1>12. ASSUME NEW a \in Addr, a - (a % 2) = q
       PROVE  /\ InApp(a) /\ ByteAt(a)' = Half(w, IsOdd(a))
              /\ image[a] # NoByte => IsPending(a) \/ Stored(a)'
  <2>1. a = q \/ a = q + 1
    BY <1>12 DEF Addr
  <2>2. InApp(a)
    BY <1>2, <2>1
  <2>3. ByteAt(a)' = Half(w, IsOdd(a))
    BY <1>10, <1>12 DEF ByteAt
  <2>4. ASSUME image[a] # NoByte, ~IsPending(a) PROVE Stored(a)'
    <3>1. \/ Half(w, IsOdd(a)) = image[a]
          \/ Half(w, IsOdd(a)) = FF /\ Stored(a)
      BY <1>1, <1>12, <2>4 DEF IInv, SessionInv, WordsExplained
    <3>2. CASE Half(w, IsOdd(a)) = image[a]
      BY <2>2, <2>3, <3>2 DEF Stored
    <3>3. CASE Half(w, IsOdd(a)) = FF /\ Stored(a)
      <4>1. w # Zero
        BY <3>3, LayoutTypes DEF Half, Zero
      <4>2. ByteAt(a) = FF
        BY <1>4, <1>12, <4>1 DEF ByteAt, Half, Blank
      <4>3. image[a] = FF
        BY <3>3, <4>2 DEF Stored
      <4> QED BY <2>2, <2>3, <3>3, <4>3 DEF Stored
    <3> QED BY <3>1, <3>2, <3>3
  <2> QED BY <2>2, <2>3, <2>4
<1>13. PendingIsLast'
  BY <1>1 DEF IInv, SessionInv, PendingIsLast
<1>14. WordsExplained'
  <2> SUFFICES ASSUME NEW i \in 1 .. Len(words) - 1, NEW a \in Addr,
                      words[i + 1].addr = a - (a % 2), image[a] # NoByte
               PROVE  \/ Half(words[i + 1].word, IsOdd(a)) = image[a]
                      \/ IsPending(a)
                      \/ Half(words[i + 1].word, IsOdd(a)) = FF /\ Stored(a)'
    BY <1>1 DEF WordsExplained, IsPending
  <2>1. i + 1 \in 1 .. Len(words) /\ 1 \in 1 .. Len(words) /\ i + 1 # 1
    BY <1>1
  <2>2. words[i + 1].addr # q
    BY <1>1, <2>1 DEF IInv, HalfWordsApart
  <2>3. \/ Half(words[i + 1].word, IsOdd(a)) = image[a]
        \/ IsPending(a)
        \/ Half(words[i + 1].word, IsOdd(a)) = FF /\ Stored(a)
    BY <1>1, <2>1 DEF IInv, SessionInv, WordsExplained
  <2> QED BY <1>11, <2>2, <2>3
<1>15. FedBytesHeld'
  <2> SUFFICES ASSUME NEW a \in Addr, image[a] # NoByte, ~IsPending(a)
               PROVE  Waits(a)' \/ Stored(a)'
    BY DEF FedBytesHeld, IsPending
  <2>1. CASE a - (a % 2) = q
    BY <1>12, <2>1
  <2>2. CASE a - (a % 2) # q
    <3>1. Waits(a) \/ Stored(a)
      BY <1>1 DEF IInv, SessionInv, FedBytesHeld
    <3>2. CASE Waits(a)
      <4>1. PICK i \in 1 .. Len(words) : words[i].addr = a - (a % 2)
                                         /\ Half(words[i].word, IsOdd(a)) = image[a]
        BY <3>2 DEF Waits
      <4>2. i # 1
        BY <1>1, <2>2, <4>1
      <4>3. i - 1 \in 1 .. Len(words') /\ words'[i - 1] = words[i]
        BY <1>1, <4>2
      <4> QED BY <4>1, <4>3 DEF Waits
    <3> QED BY <1>11, <2>2, <3>1, <3>2
  <2> QED BY <2>1, <2>2
<1> QED BY <1>6, <1>7, <1>8, <1>9, <1>13, <1>14, <1>15 DEF IInv, SessionInv

LEMMA WriteWordInv ==
  ASSUME IInv, WriteWord
  PROVE  IInv'
<1> DEFINE q == Head(words).addr
           w == Head(words).word
           Program(fault) == FLASH_ProgramHalfWord(flash, q, w, fault)
<1>1. PICK fault \in FaultChoices :
        /\ words # <<>>
        /\ \/ /\ Writable(q) /\ ProgramCompletes(flash, q, w, fault)
              /\ flash' = Program(fault) /\ words' = Tail(words)
              /\ UNCHANGED <<mode, status, line, rec, recAddr>>
           \/ EndSession(Program(fault), "error")
           \/ EndSession(flash, "error")
        /\ clean' = (clean /\ fault = "none")
        /\ UNCHANGED <<running, job, eraseAddr, hexVars, image, orderly>>
  BY DEF WriteWord
<1>2. clean' \in BOOLEAN /\ orderly' \in BOOLEAN
  BY <1>1 DEF IInv, TypeOK
<1>3. mode = "program" /\ flash \in Controller /\ Program(fault) \in Controller
  BY <1>1, HeadWord, ControllerTypes
<1>4. CASE /\ Writable(q) /\ ProgramCompletes(flash, q, w, fault)
           /\ flash' = Program(fault) /\ words' = Tail(words)
           /\ UNCHANGED <<mode, status, line, rec, recAddr>>
  BY <1>1, <1>2, <1>4, WordWritten
<1>5. CASE EndSession(Program(fault), "error") \/ EndSession(flash, "error")
  BY <1>1, <1>2, <1>3, <1>5, EndSessionInv
<1> QED BY <1>1, <1>4, <1>5

(***************************************************************************)
(* The end of a line, and the power.                                       *)
(***************************************************************************)
LEMMA EndLineInv ==
  ASSUME IInv, EndLine
  PROVE  IInv'
<1>1. mode = "program" /\ status = "empty" /\ flash \in Controller
      /\ clean \in BOOLEAN /\ orderly \in BOOLEAN
  BY DEF EndLine, IInv, PhaseInv, TypeOK
<1>2. CASE line.kind = "eof" /\ line.canon
  <2>1. EndSession(flash, "ok") /\ UNCHANGED <<running, job, eraseAddr, hexVars, histVars>>
        /\ words = <<>> /\ ~even.valid
    BY <1>2 DEF EndLine, IInv, PhaseInv
  <2>2. flash'.cells = flash.cells /\ image' = image
    BY <1>1, <2>1, ControllerFrame, WordTypes, ConstantTypes, LayoutTypes
       DEF EndSession, histVars
  <2>3. ProgramOKMeansWritten'
    <3> SUFFICES ASSUME NEW a \in Addr, image[a] # NoByte PROVE Stored(a)
      BY <2>2 DEF ProgramOKMeansWritten, Stored, ByteAt
    <3> QED BY <1>1, <2>1, NothingWaits DEF IsPending
  <2> QED BY <1>1, <2>1, <2>3, EndSessionInv DEF histVars
<1>3. CASE ~(line.kind = "eof" /\ line.canon)
  <2> USE DEF hexVars, histVars
  <2>1. /\ line' = NoLine /\ recAddr' = 0 /\ words = <<>> /\ rec = <<>>
        /\ UNCHANGED <<flash, mode, status, rec, words, running, job, eraseAddr, hexVars, histVars>>
    BY <1>3 DEF EndLine
  <2>2. TypeOK'
    BY <2>1, ConstantTypes DEF IInv, TypeOK
  <2>3. PhaseInv'
    BY <2>1, ConstantTypes DEF IInv, PhaseInv, LockDiscipline
  <2>4. HalfWordsApart' /\ ProgramOKMeansWritten' /\ SessionInv'
    BY <1>1, <2>1, Frame DEF SessionInv, IInv
  <2> QED BY <2>2, <2>3, <2>4 DEF IInv
<1> QED BY <1>2, <1>3

LEMMA ResetCellsType ==
  ASSUME IInv, NEW cells \in CellsAfterReset
  PROVE  cells \in [Cells -> Word] /\ \A c \in BootCells : cells[c] = flash.cells[c]
<1>1. flash.cells \in [Cells -> Word] /\ BootCells \subseteq Cells
  BY DEF IInv, TypeOK, Controller, BootCells
<1>2. ASSUME NEW S, cells \in Overwritten(S), \A c \in BootCells : c \notin S
      PROVE  cells \in [Cells -> Word] /\ \A c \in BootCells : cells[c] = flash.cells[c]
  <2>1. PICK t \in [S -> TornWords] :
          cells = [c \in Cells |-> IF c \in S THEN t[c] ELSE flash.cells[c]]
    BY <1>2 DEF Overwritten
  <2> QED BY <1>1, <1>2, <2>1, BootloaderAssumption
<1>3. CASE cells = flash.cells
  BY <1>1, <1>3
<1>4. CASE job # "none" /\ cells \in Overwritten(PageCells(EraseFrom))
  BY <1>2, <1>4, ErasingType, PagesApart
<1>5. CASE words # <<>> /\ Writable(Head(words).addr)
           /\ cells \in Overwritten({Head(words).addr})
  <2>1. \A c \in BootCells : c # Head(words).addr
    BY <1>5, HeadWord, LayoutTypes DEF Writable, BootCells
  <2> QED BY <1>2, <1>5, <2>1
<1> QED BY <1>3, <1>4, <1>5 DEF CellsAfterReset

LEMMA PowerCycleInv ==
  ASSUME IInv, PowerCycle
  PROVE  IInv'
<1>1. PICK cells \in CellsAfterReset, program \in {"boot", "app"} :
        /\ flash' = [cells |-> cells, locked |-> TRUE, flags |-> {}]
        /\ running' = program
        /\ mode' = "command" /\ job' = "none" /\ eraseAddr' = 0 /\ status' = "NA"
        /\ line' = NoLine /\ rec' = <<>> /\ recAddr' = 0 /\ words' = <<>>
        /\ even' = NoEven /\ addrOffs' = 0 /\ ctr' = 0
        /\ image' = NoImage /\ clean' = TRUE /\ orderly' = TRUE
  BY DEF PowerCycle
<1>2. flash' \in Controller /\ flash'.locked
  BY <1>1, ResetCellsType DEF Controller
<1>3. TypeOK'
  <2>1. NoImage \in [Addr -> Byte \cup {NoByte}]
    BY DEF NoImage
  <2>2. <<>> \in Seq(Byte) /\ <<>> \in Seq(HalfWord)
    BY EmptySeq
  <2> QED BY <1>1, <1>2, <2>1, <2>2, ConstantTypes DEF TypeOK
<1>4. PhaseInv'
  BY <1>1, <1>2, ConstantTypes DEF PhaseInv, LockDiscipline
<1>5. HalfWordsApart'
  BY <1>1 DEF HalfWordsApart, NoEven
<1>6. SessionInv' /\ ProgramOKMeansWritten'
  BY <1>1 DEF SessionInv, ProgramOKMeansWritten
<1> QED BY <1>3, <1>4, <1>5, <1>6 DEF IInv

(***************************************************************************)
(* Every step.                                                             *)
(***************************************************************************)
LEMMA StepInv == IInv /\ [Next]_vars => IInv'
<1> SUFFICES ASSUME IInv, [Next]_vars PROVE IInv'
  OBVIOUS
<1>1. ASSUME NEW l \in Lines, Command(l) PROVE IInv'
  BY <1>1, CommandInv
<1>2. ASSUME NEW l \in Lines, HexLine(l) PROVE IInv'
  BY <1>2, FeedDataInv, FeedEofInv, FeedOffsetInv, RejectInv DEF HexLine
<1>3. CASE cmd_erase
  BY <1>3, ErasePageStepInv, FinishEraseInv DEF cmd_erase
<1>4. CASE cmd_program
  BY <1>4, ErasePageStepInv, FinishProgramInv DEF cmd_program
<1>5. CASE FeedByte
  BY <1>5, FeedByteInv
<1>6. CASE WriteWord
  BY <1>6, WriteWordInv
<1>7. CASE EndLine
  BY <1>7, EndLineInv
<1>8. CASE PowerCycle
  BY <1>8, PowerCycleInv
<1>9. CASE UNCHANGED vars
  <2>1. UNCHANGED <<image, even, words, status, mode>> /\ flash' = flash
    BY <1>9 DEF vars, cliVars, feedVars, hexVars, histVars
  <2>2. TypeOK' /\ PhaseInv'
    BY <1>9 DEF vars, cliVars, feedVars, hexVars, histVars, IInv, TypeOK, PhaseInv, LockDiscipline
  <2> QED BY <2>1, <2>2, Frame DEF IInv, SessionInv
<1> QED BY <1>1, <1>2, <1>3, <1>4, <1>5, <1>6, <1>7, <1>8, <1>9 DEF Next, Work

(***************************************************************************)
(* The theorems.                                                           *)
(***************************************************************************)

\* IInv, and with it type correctness, the lock discipline of src/cli.c and
\* the meaning of "Program OK!", hold in every reachable state.
THEOREM Invariance == Spec => []IInv
<1>1. Init => IInv
  BY InitInv
<1>2. IInv /\ [Next]_vars => IInv'
  BY StepInv
<1> QED BY <1>1, <1>2, PTL DEF Spec

\* Every variable keeps to the values its C object can hold.
THEOREM TypeCorrect == Spec => []TypeOK
<1>1. IInv => TypeOK
  BY DEF IInv
<1> QED BY <1>1, Invariance, PTL

\* The flash is unlocked exactly while an erase or a session is under way.
THEOREM LockDisciplineHolds == Spec => []LockDiscipline
<1>1. IInv => LockDiscipline
  BY DEF IInv, PhaseInv
<1> QED BY <1>1, Invariance, PTL

\* When the status is "Program OK!", every byte the session was fed is in
\* the application's flash.
THEOREM ProgramOKHolds == Spec => []ProgramOKMeansWritten
<1>1. IInv => ProgramOKMeansWritten
  BY DEF IInv
<1> QED BY <1>1, Invariance, PTL

\* No step changes a cell of the bootloader.
THEOREM BootloaderIntactHolds == Spec => BootloaderIntact
<1>1. ASSUME IInv, [Next]_vars, NEW c \in BootCells
      PROVE  flash'.cells[c] = flash.cells[c]
  <2> DEFINE Same == flash'.cells[c] = flash.cells[c]
  <2>0. c \in Cells /\ c \in Nat /\ c <= LastAddr /\ flash \in Controller
    BY <1>1, LayoutTypes DEF BootCells, IInv, TypeOK
  <2>1. ASSUME job # "none", ErasePageStep PROVE Same
    <3>1. PICK fault : \/ flash' = ErasingFlash
                       \/ flash' = FLASH_ErasePage(ErasingFlash, EraseFrom, fault)
      BY <2>1 DEF ErasePageStep
    <3>2. c \in Cells \ PageCells(EraseFrom)
      BY <1>1, <2>0, <2>1, ErasingType, PagesApart
    <3> QED BY <1>1, <2>1, <3>1, <3>2, ErasingType, ControllerFrame, WordTypes
  <2>2. ASSUME job # "none", FinishErase \/ FinishProgram PROVE Same
    <3>1. FLASH_Lock(ErasingFlash) \in Controller
          /\ FLASH_Lock(ErasingFlash).cells = flash.cells
      BY <1>1, <2>2, ErasingType, ControllerTypes, ControllerFrame, WordTypes
    <3>2. FLASH_Unlock(FLASH_Lock(ErasingFlash)).cells = flash.cells
      BY <1>1, <2>2, <3>1, ErasingType, ControllerFrame, WordTypes
    <3> QED BY <2>2, <3>1, <3>2 DEF FinishErase, FinishProgram
  <2>3. ASSUME NEW f \in Controller, f.cells[c] = flash.cells[c], NEW result,
               EndSession(f, result)
        PROVE  Same
    BY <2>0, <2>3, ControllerFrame, WordTypes DEF EndSession
  <2>4. ASSUME NEW l \in Lines, HexLine(l) PROVE Same
    BY <2>0, <2>3, <2>4 DEF HexLine, FeedData, FeedEof, FeedOffset, Reject
  <2>5. ASSUME WriteWord PROVE Same
    <3> DEFINE q == Head(words).addr
               f(fault) == FLASH_ProgramHalfWord(flash, q, Head(words).word, fault)
    <3>1. PICK fault : \/ Writable(q) /\ (flash' = f(fault) \/ EndSession(f(fault), "error"))
                       \/ EndSession(flash, "error")
      BY <2>5 DEF WriteWord
    <3>2. words # <<>>
      BY <2>5 DEF WriteWord
    <3>3. f(fault) \in Controller
      BY <1>1, <3>2, HeadWord, ControllerTypes
    <3>4. Writable(q) => c \in Cells \ {q}
      BY <1>1, <2>0, <3>2, HeadWord, LayoutTypes DEF Writable
    <3>5. Writable(q) => f(fault).cells[c] = flash.cells[c]
      BY <1>1, <3>2, <3>3, <3>4, HeadWord, ControllerFrame
    <3> QED BY <2>0, <2>3, <3>1, <3>3, <3>5
  <2>6. ASSUME EndLine PROVE Same
    BY <2>0, <2>3, <2>6 DEF EndLine
  <2>7. ASSUME PowerCycle PROVE Same
    BY <1>1, <2>7, ResetCellsType DEF PowerCycle
  <2>8. ASSUME UNCHANGED flash PROVE Same
    BY <2>8
  <2> QED BY <1>1, <2>1, <2>2, <2>4, <2>5, <2>6, <2>7, <2>8
          DEF Next, Work, cmd_erase, cmd_program, Command, FeedByte, vars
<1>2. IInv /\ [Next]_vars => [\A c \in BootCells : flash'.cells[c] = flash.cells[c]]_vars
  BY <1>1
<1> QED BY <1>2, Invariance, PTL DEF Spec, BootloaderIntact
=============================================================================
