----------------------------- MODULE Bootloader -----------------------------
(***************************************************************************)
(* The command line of the bootloader and everything a line of input can   *)
(* reach: the erase and program commands (src/cli.c), the hex parser, the  *)
(* decryption and the half-word packing behind program mode                *)
(* (hex_parser/hex_parser.c, src/stm_hex.c), the flash controller, and     *)
(* power cycles at any moment.                                             *)
(*                                                                         *)
(* The main loop is the only thread that touches this state.  It hands one *)
(* complete line at a time to cli_process; a handler that reports more to  *)
(* come is called again before the next line is read.  A hex line is       *)
(* processed in steps no larger than one flash operation, so that a power  *)
(* cycle can fall between any two of them or inside one.                   *)
(***************************************************************************)
EXTENDS FlashController, StmHex

CONSTANTS
  Lines,             \* the lines the host may send
  BlockLen,          \* AES_BLOCKLEN
  Decrypt(_, _, _),  \* Decrypt(n, i, b): byte b xor byte i of key-stream block n
  FlashFaults,       \* the faults of FlashController that may occur
  MallocMayFail,     \* whether malloc may return NULL
  FactoryCells,      \* the flash as the programmer leaves it at the factory
  TornWords,         \* what an interrupted erase or write may leave in a cell
  MaxBlocks          \* bound: key-stream blocks used in one session

(***************************************************************************)
(* What hex_parser_feed and cli_process tell apart in a line.  "offset" is *)
(* an extended segment or linear address record and addr its shifted       *)
(* value; "start" the start address records; "bad" is any other text,      *)
(* malformed records included.  data is still encrypted.  canon says of an *)
(* end-of-file record that its text is ":00000001FF".                      *)
(***************************************************************************)
Kinds == {"data", "offset", "start", "eof", "bad", "erase", "program"}
Line == [kind : Kinds, addr : Addr, data : Seq(Byte), canon : BOOLEAN]

DataLine(a, d) == [kind |-> "data", addr |-> a, data |-> d, canon |-> FALSE]
OffsetLine(o)  == [kind |-> "offset", addr |-> o, data |-> <<>>, canon |-> FALSE]
EofLine(c)     == [kind |-> "eof", addr |-> 0, data |-> <<>>, canon |-> c]
TextLine(k)    == [kind |-> k, addr |-> 0, data |-> <<>>, canon |-> FALSE]

NoLine == [kind |-> "bad", addr |-> 0, data |-> <<>>, canon |-> TRUE]

ASSUME BootloaderAssumption ==
  /\ Lines \subseteq Line \ {NoLine}
  /\ BlockLen \in Nat \ {0}
  /\ \A n \in 0 .. MaxBlocks, i \in 0 .. BlockLen - 1, b \in Byte : Decrypt(n, i, b) \in Byte
  /\ FlashFaults \subseteq Faults
  /\ MallocMayFail \in BOOLEAN
  /\ FactoryCells \in [Cells -> Word]
  /\ TornWords \subseteq Word
  /\ MaxBlocks \in Nat

VARIABLES
  flash,      \* the flash controller
  running,    \* which program the core executes: "boot" or "app"
  mode,       \* command_mode: "command" or "program"
  job,        \* pxCommand: the command that has more to do, or "none"
  eraseAddr,  \* erase_addr of cmd_erase, 0 between commands
  status,     \* program_status: "NA", "empty", "ok" or "error"
  line,       \* the hex line in hex_parser_feed, or NoLine
  rec,        \* bytes of its record not yet fed to the packer
  recAddr,    \* address of the first of them
  words,      \* half-words the packer has yet to write
  even,       \* even_valid, even_addr, even_data
  addrOffs,   \* addr_offs of hex_parser_feed
  ctr,        \* key-stream blocks used since AES_init_ctx_iv
  image,      \* history: what this session has fed, by address
  clean,      \* history: no byte was pending and no fault has happened
  orderly     \* history: every line so far belongs to a well-formed file

cliVars  == <<mode, job, eraseAddr, status>>
feedVars == <<line, rec, recAddr, words>>
hexVars  == <<even, addrOffs, ctr>>
histVars == <<image, clean, orderly>>
vars == <<flash, running, cliVars, feedVars, hexVars, histVars>>

NoByte  == -1
NoImage == [a \in Addr |-> NoByte]

InApp(a) == a >= AppFirst /\ a <= AppLast

Init ==
  /\ flash = [cells |-> FactoryCells, locked |-> TRUE, flags |-> {}]
  /\ running \in {"boot", "app"}
  /\ mode = "command" /\ job = "none" /\ eraseAddr = 0 /\ status = "NA"
  /\ line = NoLine /\ rec = <<>> /\ recAddr = 0 /\ words = <<>>
  /\ even = NoEven /\ addrOffs = 0 /\ ctr = 0
  /\ image = NoImage /\ clean = TRUE /\ orderly = TRUE

\* The main loop waits for a line.
Idle == running = "boot" /\ job = "none" /\ line = NoLine

FaultChoices == {"none"} \cup FlashFaults

(***************************************************************************)
(* cmd_erase and cmd_program.  One call erases one page; the call that     *)
(* finds no page left ends the command, and program then opens a session.  *)
(***************************************************************************)
StartsErase   == eraseAddr = 0
EraseFrom     == IF StartsErase THEN AppFirst ELSE eraseAddr
ErasingFlash  == IF StartsErase THEN FLASH_ClearFlag(FLASH_Unlock(flash)) ELSE flash

\* Mutant: a page counted only if another follows it.
PagesLeftButLast == EraseFrom + PageSize <= AppLast

PagesLeft     == EraseFrom <= AppLast

\* Mutant: a page that could not be erased is tried again.
RetryPageStep ==
  \E fault \in FaultChoices :
    LET clear == PageClean(flash.cells, EraseFrom) IN
    /\ PagesLeft
    /\ flash' = IF clear THEN ErasingFlash
                ELSE FLASH_ErasePage(ErasingFlash, EraseFrom, fault)
    /\ eraseAddr' = EraseFrom + (IF clear \/ Ready(flash') THEN PageSize ELSE 0)
    /\ image' = NoImage
    /\ clean' = ((StartsErase \/ clean) /\ fault = "none")
    /\ UNCHANGED <<running, mode, job, status, feedVars, hexVars, orderly>>

ErasePageStep ==
  \E fault \in FaultChoices :
    /\ PagesLeft
    /\ eraseAddr' = EraseFrom + PageSize
    /\ IF PageClean(flash.cells, EraseFrom)
       THEN /\ fault = "none"
            /\ flash' = ErasingFlash
       ELSE flash' = FLASH_ErasePage(ErasingFlash, EraseFrom, fault)
    /\ image' = NoImage
    /\ clean' = ((StartsErase \/ clean) /\ fault = "none")
    /\ UNCHANGED <<running, mode, job, status, feedVars, hexVars, orderly>>

EraseDone ==
  /\ ~PagesLeft
  /\ job' = "none"
  /\ eraseAddr' = 0
  /\ image' = NoImage

FinishErase ==
  /\ EraseDone
  /\ flash' = FLASH_Lock(ErasingFlash)
  /\ UNCHANGED <<running, mode, status, feedVars, hexVars, clean, orderly>>

\* Mutant: the prompt is printed but no session opens.
PromptOnly ==
  /\ EraseDone
  /\ flash' = FLASH_Lock(ErasingFlash)
  /\ status' = "empty"
  /\ UNCHANGED <<running, mode, feedVars, hexVars, clean, orderly>>

FinishProgram ==
  /\ EraseDone
  /\ flash' = FLASH_Unlock(FLASH_Lock(ErasingFlash))
  /\ mode' = "program"
  /\ status' = "empty"
  /\ ctr' = 0
  /\ clean' = ((StartsErase \/ clean) /\ ~even.valid)
  /\ orderly' = TRUE
  /\ UNCHANGED <<running, feedVars, even, addrOffs>>

cmd_erase   == job = "erase" /\ (ErasePageStep \/ FinishErase)
cmd_program == job = "program" /\ (ErasePageStep \/ FinishProgram)

\* A line in command mode: FreeRTOS_CLIProcessCommand finds the command and
\* then calls its handler until the handler is done.  Lines that name no
\* command, and commands other than these two, leave this state alone.
Command(l) ==
  /\ Idle /\ mode = "command"
  /\ l.kind \in {"erase", "program"}
  /\ job' = l.kind
  /\ UNCHANGED <<flash, running, mode, eraseAddr, status, feedVars, hexVars, histVars>>

(***************************************************************************)
(* A line in program mode: hex_parser_feed up to the first byte handed to  *)
(* the packer.                                                             *)
(***************************************************************************)
\* Mutant: the way out of a session forgets FLASH_Lock.
EndUnlocked(f, result) ==
  /\ flash' = f
  /\ mode' = "command"
  /\ status' = result
  /\ line' = NoLine /\ rec' = <<>> /\ recAddr' = 0 /\ words' = <<>>

EndSession(f, result) ==
  /\ flash' = FLASH_Lock(f)
  /\ mode' = "command"
  /\ status' = result
  /\ line' = NoLine /\ rec' = <<>> /\ recAddr' = 0 /\ words' = <<>>

Decrypted(data) ==
  [i \in 1 .. Len(data) |->
     Decrypt(ctr + ((i - 1) \div BlockLen), (i - 1) % BlockLen, data[i])]
BlocksOf(data) == (Len(data) + BlockLen - 1) \div BlockLen

\* Mutant: the sum of offset and address computed in more than 32 bits.
RecordAddrWide(l) == addrOffs + l.addr

RecordAddr(l) == (addrOffs + l.addr) % AddrSpace

FeedData(l) ==
  /\ l.kind = "data"
  /\ ctr + BlocksOf(l.data) <= MaxBlocks
  /\ line' = l
  /\ rec' = Decrypted(l.data)
  /\ recAddr' = RecordAddr(l)
  /\ ctr' = ctr + BlocksOf(l.data)
  /\ UNCHANGED <<flash, cliVars, words, even, addrOffs, histVars>>

FeedEof(l) ==
  /\ l.kind = "eof"
  /\ line' = l
  /\ words' = WordsOnFinish(even)
  /\ even' = EvenOnFinish(even)
  /\ addrOffs' = 0
  /\ orderly' = (orderly /\ l.canon)
  /\ UNCHANGED <<flash, cliVars, rec, recAddr, ctr, image, clean>>

FeedOffset(l) ==
  /\ l.kind = "offset"
  /\ addrOffs' = l.addr
  /\ UNCHANGED <<flash, cliVars, feedVars, even, ctr, histVars>>

\* Mutant: a line that does not parse is skipped.
Skip(l) ==
  /\ l.kind \in {"bad", "erase", "program"}
  /\ orderly' = FALSE
  /\ UNCHANGED <<flash, cliVars, feedVars, hexVars, image, clean>>

\* Mutant: the session ends without a verdict.
RejectSilently(l) ==
  /\ \/ l.kind \in {"bad", "erase", "program"}
     \/ l.kind = "data" /\ MallocMayFail
  /\ EndSession(flash, status)
  /\ orderly' = FALSE
  /\ UNCHANGED <<job, eraseAddr, hexVars, image, clean>>

Reject(l) ==
  /\ \/ l.kind \in {"bad", "erase", "program"}
     \/ l.kind = "data" /\ MallocMayFail
  /\ EndSession(flash, "error")
  /\ orderly' = FALSE
  /\ UNCHANGED <<job, eraseAddr, hexVars, image, clean>>

\* A start address record is accepted and has no effect.
HexLine(l) ==
  /\ Idle /\ mode = "program"
  /\ FeedData(l) \/ FeedEof(l) \/ FeedOffset(l) \/ Reject(l)
  /\ UNCHANGED running

(***************************************************************************)
(* new_data and on_flash_word: one byte to the packer, or one half-word to *)
(* the flash.                                                              *)
(***************************************************************************)
Follows(a) == \A x \in Addr : image[x] # NoByte => x < a

FeedByte ==
  /\ line # NoLine /\ words = <<>> /\ rec # <<>>
  /\ words' = WordsOnByte(even, recAddr, Head(rec))
  /\ even' = EvenOnByte(even, recAddr, Head(rec))
  /\ rec' = Tail(rec)
  /\ recAddr' = (recAddr + 1) % AddrSpace
  /\ image' = [image EXCEPT ![recAddr] = Head(rec)]
  /\ orderly' = (orderly /\ InApp(recAddr) /\ Follows(recAddr))
  /\ UNCHANGED <<flash, running, cliVars, line, addrOffs, ctr, clean>>

\* Mutant: the last half-word left out.
WritableButLast(a)  == a >= AppFirst /\ a < AppLast - 1

Writable(a) == a >= AppFirst /\ a < AppLast

WriteWord ==
  \E fault \in FaultChoices :
    LET w == Head(words)
        f == FLASH_ProgramHalfWord(flash, w.addr, w.word, fault)
    IN
    /\ words # <<>>
    /\ \/ /\ Writable(w.addr)
          /\ ProgramCompletes(flash, w.addr, w.word, fault)
          /\ flash' = f
          /\ words' = Tail(words)
          /\ UNCHANGED <<mode, status, line, rec, recAddr>>
       \/ /\ Writable(w.addr)
          /\ ~ProgramCompletes(flash, w.addr, w.word, fault)
          /\ EndSession(f, "error")
       \/ /\ ~Writable(w.addr) /\ fault = "none"
          /\ EndSession(flash, "error")
    /\ clean' = (clean /\ fault = "none")
    /\ UNCHANGED <<running, job, eraseAddr, hexVars, image, orderly>>

\* hex_parser_feed has returned true; only the canonical text of the
\* end-of-file record ends the session.
EndLine ==
  /\ line # NoLine /\ words = <<>> /\ rec = <<>>
  /\ IF line.kind = "eof" /\ line.canon
     THEN EndSession(flash, "ok")
     ELSE /\ line' = NoLine /\ recAddr' = 0
          /\ UNCHANGED <<flash, mode, status, rec, words>>
  /\ UNCHANGED <<running, job, eraseAddr, hexVars, histVars>>

(***************************************************************************)
(* A power cycle.  RAM and the controller's registers return to their      *)
(* reset values; the flash keeps what it holds, except that an erase or a  *)
(* write in progress may leave anything in the cells it was changing.      *)
(***************************************************************************)
Overwritten(S) ==
  {[c \in Cells |-> IF c \in S THEN t[c] ELSE flash.cells[c]] : t \in [S -> TornWords]}

CellsAfterReset ==
  {flash.cells}
  \cup (IF job # "none" /\ PagesLeft /\ ~PageClean(flash.cells, EraseFrom)
        THEN Overwritten(PageCells(EraseFrom)) ELSE {})
  \cup (IF words # <<>> /\ Writable(Head(words).addr)
        THEN Overwritten({Head(words).addr}) ELSE {})

PowerCycle ==
  \E cells \in CellsAfterReset, program \in {"boot", "app"} :
    /\ flash' = [cells |-> cells, locked |-> TRUE, flags |-> {}]
    /\ running' = program
    /\ mode' = "command" /\ job' = "none" /\ eraseAddr' = 0 /\ status' = "NA"
    /\ line' = NoLine /\ rec' = <<>> /\ recAddr' = 0 /\ words' = <<>>
    /\ even' = NoEven /\ addrOffs' = 0 /\ ctr' = 0
    /\ image' = NoImage /\ clean' = TRUE /\ orderly' = TRUE

\* What the core does on its own.
Work == cmd_erase \/ cmd_program \/ FeedByte \/ WriteWord \/ EndLine

Next ==
  \/ \E l \in Lines : Command(l) \/ HexLine(l)
  \/ Work
  \/ PowerCycle

\* The main loop never blocks once it has a line, so it keeps working on it.
Spec == Init /\ [][Next]_vars /\ WF_vars(Work)

-----------------------------------------------------------------------------
(***************************************************************************)
(* Properties.                                                             *)
(***************************************************************************)

\* Every variable holds a value the C objects it stands for can hold.
TypeOK ==
  /\ flash \in Controller
  /\ running \in {"boot", "app"}
  /\ mode \in {"command", "program"}
  /\ job \in {"none", "erase", "program"}
  /\ eraseAddr \in Addr
  /\ status \in {"NA", "empty", "ok", "error"}
  /\ line \in Lines \cup {NoLine}
  /\ rec \in Seq(Byte) /\ recAddr \in Addr
  /\ words \in Seq(HalfWord)
  /\ even \in EvenByte
  /\ addrOffs \in Addr
  /\ ctr \in 0 .. MaxBlocks
  /\ image \in [Addr -> Byte \cup {NoByte}]
  /\ clean \in BOOLEAN /\ orderly \in BOOLEAN

\* The flash is unlocked exactly while an erase is under way or a session is
\* open: every FLASH_Unlock meets its FLASH_Lock on every path out of
\* cmd_erase, cmd_program and cli_process (src/cli.c), errors included.
LockDiscipline == flash.locked <=> (mode = "command" /\ eraseAddr = 0)

\* No step changes a cell of the bootloader itself, whatever addresses the
\* records carry, whichever pages are erased and wherever power fails:
\* bl_data_get_app_first_addr, the range check of on_flash_word and the
\* page walk of cmd_erase agree on where the application begins.
BootloaderIntact ==
  [][\A c \in BootCells : flash'.cells[c] = flash.cells[c]]_vars

\* Half of a half-word, and the byte of the flash at an address.
Half(w, odd) == IF odd THEN w.hi ELSE w.lo
ByteAt(a)    == Half(flash.cells[a - (a % 2)], IsOdd(a))

\* "Program OK!" means that every byte the session was fed is in the flash,
\* at its address: no half-word was dropped between the hex parser, the
\* pending even byte and the flash controller, and a byte fed twice was
\* either written twice with the same effect or reported as an error.
ProgramOKMeansWritten ==
  status = "ok" =>
    \A a \in Addr : image[a] # NoByte => InApp(a) /\ ByteAt(a) = image[a]

\* ... and, when the session began with nothing pending and no fault of the
\* flash, the application area holds nothing else.
ProgramOKMeansOnlyWritten ==
  status = "ok" /\ clean /\ job = "none" =>
    \A a \in AppFirst .. AppLast : image[a] = NoByte => ByteAt(a) = FF

\* A file whose records ascend through the application area is never turned
\* down by a session that began with nothing pending, if the flash and
\* malloc do their work: the packer never asks for a half-word twice.
WellFormedFileAccepted ==
  [][status # "error" /\ status' = "error" => ~(clean' /\ orderly')]_vars

\* An erase that met no fault leaves every cell of the application erased.
EraseClearsApplication ==
  [][job # "none" /\ job' = "none" /\ ~PagesLeft /\ clean
       => \A c \in AppCells : flash'.cells[c] = Blank]_vars

\* Between sessions the parser and the packer hold nothing of an earlier
\* one, unless it ended in an error: then even_valid and addr_offs survive
\* into the next, since stm_hex_set_callback resets neither.
LeftoversOnlyAfterError ==
  mode = "command" /\ status # "error" => ~even.valid /\ addrOffs = 0

\* The main loop gets back to reading input: an erase runs out of pages and
\* a hex line out of bytes, whatever the flash reports.
Busy == job # "none" \/ line # NoLine
LineCompletes == Busy ~> ~Busy

\* To the person who programs the device the bootloader is a Flasher.  No
\* step outside an erase or a session changes the application area, a step
\* inside one changes a page or a half-word of it, and verdicts are given at
\* the end of a session only.
Phase == IF mode = "program" THEN "receiving" ELSE IF job = "none" THEN "idle" ELSE "erasing"
App   == [c \in AppCells |-> flash.cells[c]]

F == INSTANCE Flasher WITH phase <- Phase, verdict <- status, fed <- image, app <- App

ImplementsFlasher == F!Spec

-----------------------------------------------------------------------------
(***************************************************************************)
(* The inductive invariant behind LockDiscipline, BootloaderIntact and     *)
(* ProgramOKMeansWritten.                                                  *)
(***************************************************************************)

\* How the phases of the command line exclude each other.
PhaseInv ==
  /\ LockDiscipline
  /\ eraseAddr # 0 => job # "none" /\ eraseAddr >= AppFirst
  /\ job # "none" => mode = "command"
  /\ line # NoLine => mode = "program"
  /\ line = NoLine => rec = <<>> /\ words = <<>>
  /\ line.kind = "eof" => rec = <<>> /\ ~even.valid
  /\ mode = "program" => status = "empty"

\* Half-words lie at even addresses, and no two that wait at the same one.
HalfWordsApart ==
  /\ even.valid => ~IsOdd(even.addr)
  /\ \A i \in 1 .. Len(words) : ~IsOdd(words[i].addr)
  /\ \A i, j \in 1 .. Len(words) : i # j => words[i].addr # words[j].addr

\* A byte of the session is on its way or in the flash.
IsPending(a) == even.valid /\ even.addr = a
Waits(a)     == \E i \in 1 .. Len(words) :
                  /\ words[i].addr = a - (a % 2)
                  /\ Half(words[i].word, IsOdd(a)) = image[a]
Stored(a)    == InApp(a) /\ ByteAt(a) = image[a]

FedBytesHeld == \A a \in Addr : image[a] # NoByte => IsPending(a) \/ Waits(a) \/ Stored(a)

\* The byte kept for an even address is the one the session last fed there,
\* unless an earlier session left it.
PendingIsLast == even.valid => image[even.addr] \in {NoByte, even.data}

\* Each half of a half-word waiting to be written is the byte the session
\* fed there last, or has been superseded by the pending byte, or is the
\* 0xFF that stands for a neighbour the session did not feed with it.
WordsExplained ==
  \A i \in 1 .. Len(words), a \in Addr :
    words[i].addr = a - (a % 2) /\ image[a] # NoByte =>
      \/ Half(words[i].word, IsOdd(a)) = image[a]
      \/ IsPending(a)
      \/ Half(words[i].word, IsOdd(a)) = FF /\ Stored(a)

SessionInv == mode = "program" => PendingIsLast /\ WordsExplained /\ FedBytesHeld

IInv == TypeOK /\ PhaseInv /\ HalfWordsApart /\ SessionInv /\ ProgramOKMeansWritten
=============================================================================
