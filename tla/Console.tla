------------------------------- MODULE Console -------------------------------
(***************************************************************************)
(* The console behind the serial line: line editing in the main loop       *)
(* (src/main.c), the command interpreter (FreeRTOS_CLI.c) and the command  *)
(* handlers of src/cli.c, with the statics each of them keeps between two  *)
(* calls.  A handler gives its answer in pieces, one per call.  What erase *)
(* and program do to the flash is Bootloader's; here a record in a session *)
(* is accepted or refused.                                                 *)
(***************************************************************************)
EXTENDS ConsoleText, FiniteSetsExt

CONSTANTS
  BufSize,     \* the size of command_buf, 523
  StatusSize,  \* the size of program_status, 256
  Stack        \* what command_buf may hold before anything is typed

\* The longest line fits into the buffer with its terminator.
ASSUME ConsoleAssumption ==
  /\ BufSize \in Nat \ {0} /\ StatusSize \in Nat \ {0}
  /\ \A l \in Lines : Len(l) < BufSize
  /\ \A i \in DOMAIN Commands : Len(Commands[i].name) < BufSize
  /\ Stack \subseteq [0 .. BufSize - 1 -> Character]

VARIABLES
  edited,         \* history: the line as the user sees it
  commandBuf,     \* command_buf
  commandBufPos,  \* command_buf_pos
  answering,      \* the main loop is in its do-while
  output,         \* what was last written: an echo, or cOutputBuffer
  pxCommand,      \* FreeRTOS_CLIProcessCommand: the command with more to say, or 0
  helpNext,       \* prvHelpCommand: the command to describe next, or 0
  iteration,      \* cmd_info
  erasePage,      \* cmd_erase: erase_addr as a page number, or 0
  commandMode,    \* command_mode
  programStatus   \* program_status, as the texts appended to it

lineVars == <<edited, commandBuf, commandBufPos>>
cliVars  == <<pxCommand, helpNext, iteration, erasePage, commandMode, programStatus>>
vars == <<lineVars, answering, output, cliVars>>

Init ==
  /\ edited = <<>> /\ commandBuf \in Stack /\ commandBufPos = 0
  /\ answering = FALSE /\ output = Nothing
  /\ pxCommand = 0 /\ helpNext = 0 /\ iteration = 0 /\ erasePage = 0
  /\ commandMode = TRUE /\ programStatus = <<Note("NA", <<>>)>>

(***************************************************************************)
(* Line editing.  The user types one of Lines, or begins to.  A line feed  *)
(* and a NUL change nothing, and nor does a backspace on an empty line.    *)
(***************************************************************************)
Store(ch) == commandBuf' = [commandBuf EXCEPT ![commandBufPos] = ch]

Type(ch) ==
  /\ ~answering /\ CanBe(Append(edited, ch))
  /\ edited' = Append(edited, ch)
  /\ output' = Echo(ch)
  /\ Store(ch) /\ commandBufPos' = commandBufPos + 1
  /\ UNCHANGED <<answering, cliVars>>

\* Mutant: a backspace is only echoed.
BackspaceEcho ==
  /\ ~answering /\ commandBufPos # 0
  /\ edited' = SubSeq(edited, 1, Len(edited) - 1)
  /\ output' = Echo("BS")
  /\ UNCHANGED <<commandBuf, commandBufPos, answering, cliVars>>

Backspace ==
  /\ ~answering /\ commandBufPos # 0
  /\ edited' = SubSeq(edited, 1, Len(edited) - 1)
  /\ commandBufPos' = commandBufPos - 1
  /\ output' = Echo("BS")
  /\ UNCHANGED <<commandBuf, answering, cliVars>>

CarriageReturn ==
  /\ ~answering /\ edited \in Lines
  /\ edited' = <<>>
  /\ Store(NUL) /\ commandBufPos' = commandBufPos + 1
  /\ answering' = TRUE /\ output' = NewLine
  /\ UNCHANGED cliVars

(***************************************************************************)
(* The command interpreter reads command_buf up to the terminator; what is *)
(* behind it is left from longer lines, or from the stack.                 *)
(***************************************************************************)
Text ==
  LET end == Min({i \in 0 .. BufSize - 1 : commandBuf[i] = NUL})
  IN  [i \in 1 .. end |-> commandBuf[i - 1]]

\* Mutant: the byte behind the name is not looked at.
PrefixMatches(i) == \A k \in 1 .. Len(Commands[i].name) : commandBuf[k - 1] = Commands[i].name[k]

\* The byte behind the name may be a stale one: then strncmp fails.
Matches(i) ==
  LET name == Commands[i].name
  IN  /\ commandBuf[Len(name)] \in {Space, NUL}
      /\ \A k \in 1 .. Len(name) : commandBuf[k - 1] = name[k]

\* The command being answered, as a set of at most one.
Current ==
  IF pxCommand # 0 THEN {pxCommand}
  ELSE {i \in DOMAIN Commands : Matches(i) /\ \A j \in 1 .. i - 1 : ~Matches(j)}

\* An int8_t.
Wrap8(n) == ((n + 128) % 256) - 128

\* Words after the first, counted by the spaces behind words.
prvGetNumberOfParameters ==
  LET text == Text
      Count[i \in 0 .. Len(text)] ==
        IF i = 0 THEN [n |-> 0, space |-> FALSE]
        ELSE LET acc == Count[i - 1]
             IN  IF text[i] # Space THEN [n |-> acc.n, space |-> FALSE]
                 ELSE [n |-> IF acc.space THEN acc.n ELSE Wrap8(acc.n + 1), space |-> TRUE]
      all == Count[Len(text)]
  IN  IF all.space THEN Wrap8(all.n - 1) ELSE all.n

(***************************************************************************)
(* The handlers.  more is what they return: pdTRUE to be called again.     *)
(***************************************************************************)
\* Mutant: the end of the list is its beginning.
HelpStartsOver(more) ==
  LET at == IF helpNext = 0 THEN 1 ELSE helpNext
  IN  /\ more
      /\ helpNext' = IF at # Len(Commands) THEN at + 1 ELSE 1
      /\ output' = Piece("help", at)
      /\ UNCHANGED <<iteration, erasePage, commandMode, programStatus>>

prvHelpCommand(more) ==
  LET at == IF helpNext = 0 THEN 1 ELSE helpNext
  IN  /\ more <=> at # Len(Commands)
      /\ helpNext' = IF more THEN at + 1 ELSE 0
      /\ output' = Piece("help", at)
      /\ UNCHANGED <<iteration, erasePage, commandMode, programStatus>>

\* Mutant: the last piece does not end the answer.
InfoRunsOn(more) ==
  /\ more <=> iteration < InfoPieces
  /\ iteration' = IF more THEN iteration + 1 ELSE 0
  /\ output' = Piece("info", iteration + 1)
  /\ UNCHANGED <<helpNext, erasePage, commandMode, programStatus>>

cmd_info(more) ==
  /\ more <=> iteration < InfoPieces - 1
  /\ iteration' = IF more THEN iteration + 1 ELSE 0
  /\ output' = Piece("info", iteration + 1)
  /\ UNCHANGED <<helpNext, erasePage, commandMode, programStatus>>

EraseFrom == IF erasePage = 0 THEN 1 ELSE erasePage

\* Mutant: erase_addr is not cleared at the end of the walk.
EraseStays(more, caller) ==
  /\ more <=> EraseFrom <= Pages
  /\ erasePage' = IF more THEN EraseFrom + 1 ELSE EraseFrom
  /\ output' = Piece(caller, EraseFrom)
  /\ UNCHANGED <<helpNext, iteration>>

cmd_erase(more, caller) ==
  /\ more <=> EraseFrom <= Pages
  /\ erasePage' = IF more THEN EraseFrom + 1 ELSE 0
  /\ output' = Piece(caller, EraseFrom)
  /\ UNCHANGED <<helpNext, iteration>>

\* Mutant: the status is not emptied.
ProgramKeepsStatus(more) ==
  /\ cmd_erase(more, "program")
  /\ commandMode' = (more /\ commandMode) /\ UNCHANGED programStatus

\* A session begins with an empty status.
cmd_program(more) ==
  /\ cmd_erase(more, "program")
  /\ IF more THEN UNCHANGED <<commandMode, programStatus>>
     ELSE commandMode' = FALSE /\ programStatus' = <<>>

cmd_status(more) ==
  /\ ~more
  /\ output' = Report(programStatus)
  /\ UNCHANGED <<helpNext, iteration, erasePage, commandMode, programStatus>>

Handler(does, more) ==
  CASE does = "help"    -> prvHelpCommand(more)
    [] does = "info"    -> cmd_info(more)
    [] does = "erase"   -> cmd_erase(more, "erase") /\ UNCHANGED <<commandMode, programStatus>>
    [] does = "program" -> cmd_program(more)
    [] does = "status"  -> cmd_status(more)

\* The main loop calls again, or takes the next line.
Return(more) ==
  /\ answering' = more
  /\ commandBufPos' = IF more THEN commandBufPos ELSE 0
  /\ UNCHANGED <<edited, commandBuf>>

Refuse(why) ==
  /\ Return(FALSE) /\ output' = Piece(why, 1) /\ pxCommand' = 0
  /\ UNCHANGED <<helpNext, iteration, erasePage, commandMode, programStatus>>

WrongParameters(c) ==
  pxCommand = 0 /\ prvGetNumberOfParameters # Commands[c].params

FreeRTOS_CLIProcessCommand ==
  /\ answering /\ commandMode
  /\ \/ Current = {} /\ Refuse("unknown")
     \/ \E c \in Current :
          \/ WrongParameters(c) /\ Refuse("parameters")
          \/ /\ ~WrongParameters(c)
             /\ \E more \in BOOLEAN :
                  /\ Handler(Commands[c].does, more)
                  /\ pxCommand' = IF more THEN c ELSE 0
                  /\ Return(more)

(***************************************************************************)
(* A line in a session: cli_process with command_mode FALSE.  Records that *)
(* the parser accepts may still be refused by on_flash_word.               *)
(***************************************************************************)
Accepted ==
  /\ Accepts(Text)
  /\ IF Ends(Text)
     THEN commandMode' = TRUE /\ programStatus' = Append(programStatus, Note("Program OK", <<>>))
     ELSE UNCHANGED <<commandMode, programStatus>>

Refused ==
  /\ commandMode' = TRUE
  /\ \E cause \in Causes :
       programStatus' = programStatus \o cause \o <<Note("Program Error", Text)>>

cli_process ==
  /\ answering /\ ~commandMode
  /\ Accepted \/ Refused
  /\ output' = Nothing
  /\ Return(FALSE)
  /\ UNCHANGED <<pxCommand, helpNext, iteration, erasePage>>

Answer == FreeRTOS_CLIProcessCommand \/ cli_process

Next == (\E ch \in Chars : Type(ch)) \/ Backspace \/ CarriageReturn \/ Answer

\* A call of cli_process returns, and the main loop calls it until it is
\* done: nothing else runs in between but the interrupt.
Spec == Init /\ [][Next]_vars /\ WF_vars(Answer)

-----------------------------------------------------------------------------
(***************************************************************************)
(* Properties.                                                             *)
(***************************************************************************)
TypeOK ==
  /\ edited \in Seq(Character)
  /\ commandBuf \in [0 .. BufSize - 1 -> Character] /\ commandBufPos \in 0 .. BufSize
  /\ answering \in BOOLEAN /\ commandMode \in BOOLEAN
  /\ pxCommand \in 0 .. Len(Commands) /\ helpNext \in 0 .. Len(Commands)
  /\ iteration \in 0 .. InfoPieces - 1 /\ erasePage \in 0 .. Pages + 1

\* The main loop does not compare command_buf_pos with the size of
\* command_buf (main.c:83, 103).  It stays below it all the same, whatever
\* is typed and taken back, as long as no line is longer than the buffer
\* less its terminator; the longest record the parser accepts is that long.
BufferIndexInBounds == ~answering => commandBufPos < BufSize

\* Between two lines no handler is in the middle of its answer: pxCommand,
\* the position in the list of commands, iteration and erase_addr are all
\* back at their start, so that no command goes on with another's.
NothingLeftOver ==
  ~answering => pxCommand = 0 /\ helpNext = 0 /\ iteration = 0 /\ erasePage = 0

\* What is still to be said: the next piece of a handler's answer up to its
\* last one.
NextPiece(does) ==
  CASE does = "help"   -> IF helpNext = 0 THEN 1 ELSE helpNext
    [] does = "info"   -> iteration + 1
    [] does = "status" -> 1
    [] OTHER           -> EraseFrom
LastPiece(does) ==
  CASE does = "help"   -> Len(Commands)
    [] does = "info"   -> InfoPieces
    [] does = "status" -> 1
    [] OTHER           -> Pages + 1

PiecesLeft(does) ==
  [k \in 1 .. LastPiece(does) - NextPiece(does) + 1 |-> Piece(does, NextPiece(does) + k - 1)]

Remaining ==
  LET c == CHOOSE c \in Current : TRUE
  IN  IF ~answering THEN <<>>
      ELSE IF ~commandMode THEN <<Record(Text)>>
      ELSE IF Current = {} THEN <<Piece("unknown", 1)>>
      ELSE IF WrongParameters(c) THEN <<Piece("parameters", 1)>>
      ELSE PiecesLeft(Commands[c].does)

LineInBuffer == IF answering THEN <<>> ELSE [i \in 1 .. commandBufPos |-> commandBuf[i - 1]]

S == INSTANCE Shell
       WITH line <- LineInBuffer, said <- output, todo <- Remaining, report <- programStatus

\* The console is the one Shell describes: it reads the line the user sees,
\* whatever was in the buffer before, and answers it whole and once.
ImplementsShell == S!Spec

\* What that takes of the constants: no name of a command is empty or has a
\* space in it, and no two are the same; and no line has more words than the
\* int8_t of prvGetNumberOfParameters counts.
NamesApart ==
  \A i \in DOMAIN Commands :
    /\ Len(Commands[i].name) # 0
    /\ \A k \in 1 .. Len(Commands[i].name) : Commands[i].name[k] # Space
    /\ \A j \in DOMAIN Commands : Commands[j].name = Commands[i].name => j = i

FewWords == \A l \in Lines : S!Words(l) < 128

\* And finishes it: a handler that asks to be called again gets to its last
\* piece, wherever its static was.
AnswerFinished == S!AnswerFinished

\* The lengths of the texts; an address has at most eight digits.
NoteLength(note) ==
  CASE note.of = "NA" -> 7
    [] note.of = "Flash error" -> 18 + 8 + 2
    [] note.of = "Access out of app" -> 21 + 8 + 2
    [] note.of = "Program OK" -> 15
    [] note.of = "Program Error" -> 19 + Len(note.text) + 4

StatusLength ==
  LET UpTo[i \in 0 .. Len(programStatus)] ==
        IF i = 0 THEN 0 ELSE UpTo[i - 1] + NoteLength(programStatus[i])
  IN  UpTo[Len(programStatus)]

\* The texts appended to program_status leave room for its terminator,
\* session after session, unless the record that was refused is longer than
\* the array less 55 bytes.
StatusTerminated ==
  (\A i \in DOMAIN programStatus : Len(programStatus[i].text) <= StatusSize - 55)
    => StatusLength < StatusSize
=============================================================================
