--------------------------- MODULE Console_proofs ---------------------------
(***************************************************************************)
(* For every size of the buffer, every set of lines that fit into it and   *)
(* every list of commands: the index into command_buf stays in bounds, no  *)
(* handler leaves anything of its answer to the next line, the status      *)
(* keeps its terminator, and the console is the one Shell describes.       *)
(***************************************************************************)
EXTENDS Console, SequenceTheorems, FiniteSetTheorems, WellFoundedInduction, TLAPS

\* What is in the buffer before the carriage return is as long as what the
\* user sees.
PositionInv ==
  /\ answering => edited = <<>>
  /\ ~answering => commandBufPos = Len(edited)
  /\ Len(edited) < BufSize

\* A handler is in the middle of its answer only while its command runs, and
\* a command runs only in command mode.
StaticsInv ==
  /\ pxCommand # 0 => answering /\ commandMode
  /\ helpNext # 0 => pxCommand # 0 /\ Commands[pxCommand].does = "help"
  /\ iteration # 0 => pxCommand # 0 /\ Commands[pxCommand].does = "info"
  /\ erasePage # 0 => pxCommand # 0 /\ Commands[pxCommand].does \in {"erase", "program"}

IInv == TypeOK /\ PositionInv /\ StaticsInv

LEMMA Sizes ==
  /\ Len(Commands) \in Nat /\ DOMAIN Commands = 1 .. Len(Commands)
  /\ \A c \in DOMAIN Commands : Commands[c].does \in Handlers
  /\ BufSize \in Nat \ {0} /\ Pages \in Nat /\ InfoPieces \in Nat \ {0}
  /\ Lines \subseteq Seq(Character)
<1> DEFINE Entry == [name : Seq(Character \ {NUL}), params : Nat, does : Handlers]
<1>1. Commands \in Seq(Entry)
  BY TextAssumption
<1>2. Len(Commands) \in Nat /\ DOMAIN Commands = 1 .. Len(Commands)
      /\ \A c \in 1 .. Len(Commands) : Commands[c] \in Entry
  <2> HIDE DEF Entry
  <2> QED BY <1>1
<1>3. \A c \in DOMAIN Commands : Commands[c].does \in Handlers
  BY <1>2
<1>4. Lines \subseteq Seq(Character)
  <2> SUFFICES ASSUME NEW l \in Lines PROVE l \in Seq(Character) OBVIOUS
  <2>1. l \in Seq(Character \ {NUL, "CR", "LF", "BS"})
    BY TextAssumption
  <2> QED BY <2>1
<1> QED BY <1>2, <1>3, <1>4, ConsoleAssumption, TextAssumption

\* A text that can still become a line is shorter than the buffer.
LEMMA TextFits == ASSUME NEW text \in Seq(Character), CanBe(text)
                  PROVE  Len(text) < BufSize
<1>1. PICK l \in Lines : Len(text) <= Len(l)
  BY DEF CanBe
<1>2. Len(l) < BufSize /\ Len(l) \in Nat
  BY ConsoleAssumption, TextAssumption
<1> QED BY <1>1, <1>2, ConsoleAssumption

\* Storing a character keeps the buffer a buffer.
LEMMA StoreType == ASSUME TypeOK, NEW ch \in Character, Store(ch)
                   PROVE  commandBuf' \in [0 .. BufSize - 1 -> Character]
BY DEF Store, TypeOK

LEMMA CharsAreCharacters == Chars \subseteq Character
<1> SUFFICES ASSUME NEW l \in Lines, NEW i \in DOMAIN l PROVE l[i] \in Character
  BY DEF Chars
<1> QED BY TextAssumption

LEMMA InitIInv == Init => IInv
<1> SUFFICES ASSUME Init PROVE IInv OBVIOUS
<1>1. TypeOK
  <2>1. commandBuf \in [0 .. BufSize - 1 -> Character] /\ edited \in Seq(Character)
    BY ConsoleAssumption DEF Init
  <2>2. 0 \in 0 .. BufSize /\ 0 \in 0 .. Len(Commands) /\ 0 \in 0 .. InfoPieces - 1
        /\ 0 \in 0 .. Pages + 1
    BY Sizes
  <2> QED BY <2>1, <2>2 DEF Init, TypeOK
<1>2. PositionInv
  BY ConsoleAssumption DEF Init, PositionInv
<1>3. StaticsInv
  BY DEF Init, StaticsInv
<1> QED BY <1>1, <1>2, <1>3 DEF IInv

LEMMA TypeStep == ASSUME IInv, NEW ch \in Chars, Type(ch) PROVE IInv'
<1>0. ch \in Character
  BY CharsAreCharacters
<1>1. edited' \in Seq(Character) /\ Len(edited') = Len(edited) + 1
  BY <1>0 DEF IInv, TypeOK, Type
<1>2. Len(edited') < BufSize
  BY <1>1, TextFits DEF Type
<1>3. commandBuf' \in [0 .. BufSize - 1 -> Character]
  BY <1>0, StoreType DEF IInv, Type
<1>4. commandBufPos' = Len(edited') /\ commandBufPos' \in 0 .. BufSize
  BY <1>1, <1>2, ConsoleAssumption DEF IInv, TypeOK, PositionInv, Type
<1>5. TypeOK'
  BY <1>1, <1>3, <1>4 DEF IInv, TypeOK, Type, cliVars
<1>6. PositionInv'
  BY <1>2, <1>4 DEF IInv, PositionInv, Type
<1>7. StaticsInv'
  BY DEF IInv, StaticsInv, Type, cliVars
<1> QED BY <1>5, <1>6, <1>7 DEF IInv

LEMMA BackspaceStep == ASSUME IInv, Backspace PROVE IInv'
<1>1. Len(edited) \in Nat \ {0} /\ edited \in Seq(Character)
  BY DEF IInv, TypeOK, PositionInv, Backspace
<1>2. edited' \in Seq(Character) /\ Len(edited') = Len(edited) - 1
  <2>1. edited' = SubSeq(edited, 1, Len(edited) - 1)
    BY DEF Backspace
  <2>2. \A i \in 1 .. Len(edited) - 1 : edited[i] \in Character
    BY <1>1
  <2>3. /\ SubSeq(edited, 1, Len(edited) - 1) \in Seq(Character)
        /\ Len(SubSeq(edited, 1, Len(edited) - 1)) = Len(edited) - 1
    <3> DEFINE n == Len(edited) - 1
    <3>1. 1 \in Int /\ n \in Int /\ n >= 0
      BY <1>1
    <3> HIDE DEF n
    <3>2. /\ SubSeq(edited, 1, n) \in Seq(Character)
          /\ Len(SubSeq(edited, 1, n)) = IF 1 <= n THEN n - 1 + 1 ELSE 0
      BY <2>2, <3>1, SubSeqProperties DEF n
    <3>3. (IF 1 <= n THEN n - 1 + 1 ELSE 0) = n
      BY <3>1
    <3> QED BY <3>2, <3>3 DEF n
  <2> QED BY <2>1, <2>3
<1>3. commandBufPos' = Len(edited') /\ Len(edited') < BufSize /\ commandBufPos' \in 0 .. BufSize
  BY <1>1, <1>2, ConsoleAssumption DEF IInv, TypeOK, PositionInv, Backspace
<1>4. TypeOK'
  BY <1>2, <1>3 DEF IInv, TypeOK, Backspace, cliVars
<1>5. PositionInv'
  BY <1>3 DEF PositionInv, Backspace
<1>6. StaticsInv'
  BY DEF IInv, StaticsInv, Backspace, cliVars
<1> QED BY <1>4, <1>5, <1>6 DEF IInv

LEMMA CarriageReturnStep == ASSUME IInv, CarriageReturn PROVE IInv'
<1>1. commandBuf' \in [0 .. BufSize - 1 -> Character]
  BY StoreType, TextAssumption DEF IInv, CarriageReturn
<1>2. commandBufPos' \in 0 .. BufSize
  BY ConsoleAssumption DEF IInv, TypeOK, PositionInv, CarriageReturn
<1>3. TypeOK'
  BY <1>1, <1>2 DEF IInv, TypeOK, CarriageReturn, cliVars
<1>4. PositionInv'
  BY ConsoleAssumption DEF PositionInv, CarriageReturn
<1>5. StaticsInv'
  BY DEF IInv, StaticsInv, CarriageReturn, cliVars
<1> QED BY <1>3, <1>4, <1>5 DEF IInv

\* The main loop after a call: the position is zero or unchanged.
LEMMA ReturnPosition ==
  ASSUME IInv, answering, NEW more \in BOOLEAN, Return(more)
  PROVE  /\ PositionInv' /\ edited' \in Seq(Character) /\ answering' = more
         /\ commandBuf' \in [0 .. BufSize - 1 -> Character] /\ commandBufPos' \in 0 .. BufSize
BY ConsoleAssumption DEF IInv, TypeOK, PositionInv, Return

\* No command is running when one is refused.
LEMMA RefuseStep ==
  ASSUME IInv, answering, pxCommand = 0, NEW why, Refuse(why)
  PROVE  IInv'
<1>1. PositionInv' /\ edited' \in Seq(Character) /\ answering' = FALSE
      /\ commandBuf' \in [0 .. BufSize - 1 -> Character] /\ commandBufPos' \in 0 .. BufSize
  BY ReturnPosition DEF Refuse
<1>2. TypeOK'
  BY <1>1 DEF IInv, TypeOK, Refuse
<1>3. StaticsInv'
  BY DEF IInv, StaticsInv, Refuse
<1> QED BY <1>1, <1>2, <1>3 DEF IInv

\* A handler moves only its own static, and puts it back when it is done.
LEMMA HandlerStep ==
  ASSUME IInv, answering, commandMode, NEW c \in DOMAIN Commands, pxCommand \in {0, c},
         NEW more \in BOOLEAN, Handler(Commands[c].does, more),
         pxCommand' = (IF more THEN c ELSE 0), Return(more)
  PROVE  IInv'
<1> DEFINE does == Commands[c].does
<1>0. does \in Handlers /\ c \in 1 .. Len(Commands) /\ Len(Commands) \in Nat
  BY Sizes
<1>1. PositionInv' /\ edited' \in Seq(Character) /\ answering' = more
      /\ commandBuf' \in [0 .. BufSize - 1 -> Character] /\ commandBufPos' \in 0 .. BufSize
  BY ReturnPosition
<1>2. pxCommand' \in 0 .. Len(Commands)
  BY <1>0
<1>3. /\ helpNext' \in 0 .. Len(Commands) /\ iteration' \in 0 .. InfoPieces - 1
      /\ erasePage' \in 0 .. Pages + 1
      /\ commandMode' \in BOOLEAN /\ (more => commandMode')
      /\ (helpNext' # 0 => more /\ does = "help")
      /\ (iteration' # 0 => more /\ does = "info")
      /\ (erasePage' # 0 => more /\ does \in {"erase", "program"})
  <2>1. CASE does = "help"
    <3>1. prvHelpCommand(more)
      BY <2>1 DEF Handler
    <3> DEFINE at == IF helpNext = 0 THEN 1 ELSE helpNext
    <3>2. at \in 1 .. Len(Commands)
      BY <1>0 DEF IInv, TypeOK
    <3>3. /\ more <=> at # Len(Commands)
          /\ helpNext' = IF more THEN at + 1 ELSE 0
          /\ UNCHANGED <<iteration, erasePage, commandMode, programStatus>>
      BY <3>1 DEF prvHelpCommand
    <3>4. helpNext' \in 0 .. Len(Commands) /\ (helpNext' # 0 => more)
      <4> HIDE DEF at
      <4> QED BY <3>2, <3>3, <1>0
    <3> QED BY <2>1, <3>3, <3>4, <1>0 DEF IInv, TypeOK, StaticsInv
  <2>2. CASE does = "info"
    <3>1. cmd_info(more)
      BY <2>2 DEF Handler
    <3>2. CASE more
      BY <2>2, <3>1, <3>2, <1>0, Sizes DEF cmd_info, IInv, TypeOK, StaticsInv
    <3>3. CASE ~more
      BY <2>2, <3>1, <3>3, <1>0, Sizes DEF cmd_info, IInv, TypeOK, StaticsInv
    <3> QED BY <3>2, <3>3
  <2>3. CASE does = "erase"
    <3>1. cmd_erase(more, "erase") /\ UNCHANGED <<commandMode, programStatus>>
      BY <2>3 DEF Handler
    <3> QED BY <2>3, <3>1, <1>0, Sizes
            DEF cmd_erase, EraseFrom, IInv, TypeOK, StaticsInv
  <2>4. CASE does = "program"
    <3>1. cmd_program(more)
      BY <2>4 DEF Handler
    <3>2. CASE more
      BY <2>4, <3>1, <3>2, <1>0, Sizes DEF cmd_program, cmd_erase, EraseFrom, IInv, TypeOK, StaticsInv
    <3>3. CASE ~more
      BY <2>4, <3>1, <3>3, <1>0, Sizes DEF cmd_program, cmd_erase, EraseFrom, IInv, TypeOK, StaticsInv
    <3> QED BY <3>2, <3>3
  <2>5. CASE does = "status"
    <3>1. cmd_status(more)
      BY <2>5 DEF Handler
    <3> QED BY <2>5, <3>1, <1>0 DEF cmd_status, IInv, TypeOK, StaticsInv
  <2> QED BY <1>0, <2>1, <2>2, <2>3, <2>4, <2>5 DEF Handlers
<1>4. TypeOK'
  BY <1>1, <1>2, <1>3 DEF TypeOK
<1>5. StaticsInv'
  BY <1>0, <1>1, <1>3 DEF StaticsInv
<1> QED BY <1>1, <1>4, <1>5 DEF IInv

LEMMA ProcessCommandStep == ASSUME IInv, FreeRTOS_CLIProcessCommand PROVE IInv'
<1>0. answering /\ commandMode
  BY DEF FreeRTOS_CLIProcessCommand
<1>1. CASE Current = {} /\ Refuse("unknown")
  <2>1. pxCommand = 0
    BY <1>1 DEF Current
  <2> QED BY <1>0, <1>1, <2>1, RefuseStep
<1>2. ASSUME NEW c \in Current, WrongParameters(c), Refuse("parameters") PROVE IInv'
  BY <1>0, <1>2, RefuseStep DEF WrongParameters
<1>3. ASSUME NEW c \in Current, NEW more \in BOOLEAN, Handler(Commands[c].does, more),
             pxCommand' = (IF more THEN c ELSE 0), Return(more)
      PROVE  IInv'
  <2>1. c \in DOMAIN Commands /\ pxCommand \in {0, c}
    BY TextAssumption DEF Current, IInv, TypeOK
  <2> QED BY <1>0, <1>3, <2>1, HandlerStep
<1> QED BY <1>1, <1>2, <1>3 DEF FreeRTOS_CLIProcessCommand

LEMMA RecordStep == ASSUME IInv, cli_process PROVE IInv'
<1>1. PositionInv' /\ edited' \in Seq(Character) /\ answering' = FALSE
      /\ commandBuf' \in [0 .. BufSize - 1 -> Character] /\ commandBufPos' \in 0 .. BufSize
  BY ReturnPosition DEF cli_process
<1>2. pxCommand' = 0 /\ helpNext' = 0 /\ iteration' = 0 /\ erasePage' = 0
  BY DEF cli_process, IInv, StaticsInv
<1>3. commandMode' \in BOOLEAN
  BY DEF cli_process, Accepted, Refused, IInv, TypeOK
<1>4. TypeOK'
  <2>1. 0 \in 0 .. Len(Commands) /\ 0 \in 0 .. InfoPieces - 1 /\ 0 \in 0 .. Pages + 1
    BY Sizes
  <2> QED BY <1>1, <1>2, <1>3, <2>1 DEF TypeOK
<1>5. StaticsInv'
  BY <1>2 DEF StaticsInv
<1> QED BY <1>1, <1>4, <1>5 DEF IInv

\* Every reachable state satisfies the inductive invariant.
THEOREM Invariance == Spec => []IInv
<1>1. IInv /\ [Next]_vars => IInv'
  <2> SUFFICES ASSUME IInv, [Next]_vars PROVE IInv' OBVIOUS
  <2>1. CASE UNCHANGED vars
    BY <2>1 DEF IInv, TypeOK, PositionInv, StaticsInv, vars, lineVars, cliVars
  <2>2. CASE Next
    BY <2>2, TypeStep, BackspaceStep, CarriageReturnStep, ProcessCommandStep, RecordStep
       DEF Next, Answer
  <2> QED BY <2>1, <2>2
<1> QED BY InitIInv, <1>1, PTL DEF Spec

\* The index into command_buf stays in bounds whatever is typed and taken
\* back, for every size of the buffer that the longest line fits into.
THEOREM BufferIndexHolds == Spec => []BufferIndexInBounds
<1>1. IInv => BufferIndexInBounds
  BY DEF IInv, PositionInv, BufferIndexInBounds
<1> QED BY <1>1, Invariance, PTL

\* No handler leaves its static to the next line, for every list of commands.
THEOREM NothingLeftOverHolds == Spec => []NothingLeftOver
<1>1. IInv => NothingLeftOver
  BY DEF IInv, StaticsInv, NothingLeftOver
<1> QED BY <1>1, Invariance, PTL

\* Every variable holds a value its C object can hold, for every size of the
\* buffer, every set of lines and every list of commands.
THEOREM TypeCorrect == Spec => []TypeOK
<1>1. IInv => TypeOK
  BY DEF IInv
<1> QED BY <1>1, Invariance, PTL

(***************************************************************************)
(* The status.  While a session is open it is empty, so that no more than  *)
(* the two notes of one failure are ever appended to it; and the text that *)
(* is read is the part of the buffer before its first NUL.                 *)
(***************************************************************************)
Verdicts(texts) ==
  \/ texts = <<Note("NA", <<>>)>> \/ texts = <<Note("Program OK", <<>>)>>
  \/ \E text \in Seq(Character) :
       \/ texts = <<Note("Program Error", text)>>
       \/ texts = <<Note("Flash error", <<>>), Note("Program Error", text)>>
       \/ texts = <<Note("Access out of app", <<>>), Note("Program Error", text)>>

StatusInv ==
  /\ answering => \E i \in 0 .. BufSize - 1 : commandBuf[i] = NUL
  /\ ~commandMode => programStatus = <<>>
  /\ commandMode => Verdicts(programStatus)

LEMMA Least ==
  ASSUME NEW T, T \subseteq Nat, T # {}
  PROVE  \E x \in T : \A y \in T : x <= y
<1>1. OpToRel(<, Nat) = {p \in Nat \X Nat : p[1] < p[2]}
  BY Zenon DEF OpToRel
<1>2. PICK x \in T : \A y \in T : ~ (<<y, x>> \in OpToRel(<, Nat))
  BY NatLessThanWellFounded, WFMin, Zenon
<1>3. ASSUME NEW y \in T PROVE x <= y
  <2>1. x \in Nat /\ y \in Nat
    OBVIOUS
  <2>2. ~ (<<y, x>> \in {p \in Nat \X Nat : p[1] < p[2]})
    BY <1>1, <1>2, Zenon
  <2>3. ~ (y < x)
    BY <2>1, <2>2, Zenon
  <2> QED BY <2>1, <2>3
<1> QED BY <1>3

\* The text in a buffer, up to its first NUL.
TextOf(buf) ==
  LET end == Min({i \in 0 .. BufSize - 1 : buf[i] = NUL})
  IN  [i \in 1 .. end |-> buf[i - 1]]

LEMMA TextOfIs ==
  ASSUME NEW buf \in [0 .. BufSize - 1 -> Character],
         \E i \in 0 .. BufSize - 1 : buf[i] = NUL
  PROVE  /\ TextOf(buf) \in Seq(Character) /\ Len(TextOf(buf)) \in 0 .. BufSize - 1
         /\ buf[Len(TextOf(buf))] = NUL
         /\ \A i \in 1 .. Len(TextOf(buf)) :
              TextOf(buf)[i] = buf[i - 1] /\ TextOf(buf)[i] # NUL
<1> DEFINE T == {i \in 0 .. BufSize - 1 : buf[i] = NUL}
           e == Min(T)
<1>1. T \subseteq Nat /\ T # {} /\ BufSize \in Nat
  BY ConsoleAssumption
<1>2. \E x \in T : \A y \in T : x <= y
  BY <1>1, Least
<1>3. e \in T /\ \A y \in T : e <= y
  <2> HIDE DEF T
  <2>1. e = CHOOSE x \in T : \A y \in T : x <= y
    BY DEF Min
  <2> QED BY <1>2, <2>1
<1>4. TextOf(buf) = [i \in 1 .. e |-> buf[i - 1]]
  BY DEF TextOf
<1>5. e \in 0 .. BufSize - 1 /\ buf[e] = NUL /\ e \in Nat
  BY <1>1, <1>3
<1>6. \A i \in 1 .. e : i - 1 \in 0 .. BufSize - 1 /\ ~ (e <= i - 1)
  BY <1>1, <1>5
<1>7. \A i \in 1 .. e : buf[i - 1] \in Character /\ buf[i - 1] # NUL
  BY <1>3, <1>6
<1> HIDE DEF e, T
<1>8. TextOf(buf) \in Seq(Character) /\ Len(TextOf(buf)) = e
  BY <1>4, <1>5, <1>7
<1> QED BY <1>4, <1>5, <1>7, <1>8

LEMMA TextIs ==
  ASSUME TypeOK, \E i \in 0 .. BufSize - 1 : commandBuf[i] = NUL
  PROVE  /\ Text \in Seq(Character) /\ Len(Text) \in 0 .. BufSize - 1
         /\ commandBuf[Len(Text)] = NUL
         /\ \A i \in 1 .. Len(Text) : Text[i] = commandBuf[i - 1] /\ Text[i] # NUL
<1>1. Text = TextOf(commandBuf)
  BY DEF Text, TextOf
<1>2. commandBuf \in [0 .. BufSize - 1 -> Character]
  BY DEF TypeOK
<1> QED BY <1>1, <1>2, TextOfIs

LEMMA Joined ==
  ASSUME NEW x, NEW y
  PROVE  /\ Append(<<>>, x) = <<x>> /\ <<>> \o <<>> \o <<x>> = <<x>>
         /\ <<>> \o <<y>> \o <<x>> = <<y, x>>
<1> DEFINE Both == {x, y}
<1>1. x \in Both /\ y \in Both
  OBVIOUS
<1>2. <<>> \in Seq(Both) /\ <<x>> \in Seq(Both) /\ <<y>> \in Seq(Both) /\ <<y, x>> \in Seq(Both)
  BY <1>1
<1> HIDE DEF Both
<1>3. <<>> \o <<>> = <<>> /\ <<>> \o <<y>> = <<y>> /\ <<>> \o <<x>> = <<x>>
  BY <1>2, ConcatEmptySeq
<1>4. Append(<<>>, x) = <<x>>
  BY <1>1, <1>2, <1>3, AppendIsConcat
<1>5. <<y>> \o <<x>> = <<y, x>>
  <2> DEFINE c == <<y>> \o <<x>>
             d == <<y, x>>
  <2>1. c \in Seq(Both) /\ Len(c) = 2 /\ c[1] = y /\ c[2] = x
    BY <1>2
  <2>2. d \in Seq(Both) /\ Len(d) = 2 /\ d[1] = y /\ d[2] = x
    BY <1>2
  <2> HIDE DEF c, d
  <2>3. \A i \in 1 .. Len(c) : c[i] = d[i]
    BY <2>1, <2>2
  <2>4. c = d
    BY <2>1, <2>2, <2>3, SeqEqual
  <2> QED BY <2>4 DEF c, d
<1> QED BY <1>3, <1>4, <1>5

LEMMA HandlerStatus ==
  ASSUME NEW does \in Handlers, NEW more \in BOOLEAN, Handler(does, more)
  PROVE  UNCHANGED <<commandMode, programStatus>> \/ (commandMode' = FALSE /\ programStatus' = <<>>)
<1>1. CASE does = "help"
  BY <1>1 DEF Handler, prvHelpCommand
<1>2. CASE does = "info"
  BY <1>2 DEF Handler, cmd_info
<1>3. CASE does = "erase"
  BY <1>3 DEF Handler
<1>4. CASE does = "program"
  BY <1>4 DEF Handler, cmd_program
<1>5. CASE does = "status"
  BY <1>5 DEF Handler, cmd_status
<1> QED BY <1>1, <1>2, <1>3, <1>4, <1>5 DEF Handlers

LEMMA CurrentIs ==
  ASSUME TypeOK, NEW c \in Current
  PROVE  c \in DOMAIN Commands /\ pxCommand \in {0, c}
BY Sizes DEF Current, TypeOK

LEMMA StatusStep == IInv /\ StatusInv /\ [Next]_vars => StatusInv'
<1> SUFFICES ASSUME IInv, StatusInv, [Next]_vars PROVE StatusInv' OBVIOUS
<1>1. ASSUME NEW ch \in Chars, Type(ch) PROVE StatusInv'
  BY <1>1 DEF Type, cliVars, StatusInv
<1>2. CASE Backspace
  BY <1>2 DEF Backspace, cliVars, StatusInv
<1>3. CASE CarriageReturn
  <2>1. commandBufPos \in 0 .. BufSize - 1
    BY <1>3, ConsoleAssumption DEF CarriageReturn, IInv, TypeOK, PositionInv
  <2>2. commandBuf'[commandBufPos] = NUL
    BY <1>3, <2>1 DEF CarriageReturn, Store, IInv, TypeOK
  <2> QED BY <1>3, <2>1, <2>2 DEF CarriageReturn, cliVars, StatusInv
<1>4. CASE FreeRTOS_CLIProcessCommand
  <2>1. answering /\ commandMode /\ commandBuf' = commandBuf
    BY <1>4 DEF FreeRTOS_CLIProcessCommand, Refuse, Return
  <2>2. UNCHANGED <<commandMode, programStatus>> \/ (commandMode' = FALSE /\ programStatus' = <<>>)
    <3>1. CASE \E why : Refuse(why)
      BY <3>1 DEF Refuse
    <3>2. ASSUME NEW c \in Current, NEW more \in BOOLEAN, Handler(Commands[c].does, more)
          PROVE  UNCHANGED <<commandMode, programStatus>>
                 \/ (commandMode' = FALSE /\ programStatus' = <<>>)
      <4>1. Commands[c].does \in Handlers
        BY CurrentIs, Sizes DEF IInv
      <4> QED BY <3>2, <4>1, HandlerStatus
    <3> QED BY <1>4, <3>1, <3>2 DEF FreeRTOS_CLIProcessCommand
  <2> QED BY <2>1, <2>2 DEF StatusInv
<1>5. CASE cli_process
  <2>1. answering /\ ~commandMode /\ programStatus = <<>> /\ commandBuf' = commandBuf
        /\ answering' = FALSE
    BY <1>5 DEF cli_process, Return, StatusInv
  <2>2. Text \in Seq(Character)
    BY <2>1, TextIs DEF IInv, StatusInv
  <2>3. CASE Accepted
    <3>1. \/ UNCHANGED <<commandMode, programStatus>>
          \/ commandMode' = TRUE /\ programStatus' = <<Note("Program OK", <<>>)>>
      BY <2>1, <2>3, Joined DEF Accepted
    <3>2. CASE UNCHANGED <<commandMode, programStatus>>
      BY <2>1, <3>2 DEF StatusInv
    <3>3. CASE commandMode' = TRUE /\ programStatus' = <<Note("Program OK", <<>>)>>
      <4>1. Verdicts(programStatus')
        BY <3>3 DEF Verdicts
      <4> QED BY <2>1, <3>3, <4>1 DEF StatusInv
    <3> QED BY <3>1, <3>2, <3>3
  <2>4. CASE Refused
    <3> DEFINE error == Note("Program Error", Text)
    <3>1. PICK cause \in Causes : programStatus' = <<>> \o cause \o <<error>>
      BY <2>1, <2>4 DEF Refused
    <3>2. \/ cause = <<>> \/ cause = <<Note("Flash error", <<>>)>>
          \/ cause = <<Note("Access out of app", <<>>)>>
      BY DEF Causes
    <3> HIDE DEF error
    <3>3. \/ programStatus' = <<error>>
          \/ programStatus' = <<Note("Flash error", <<>>), error>>
          \/ programStatus' = <<Note("Access out of app", <<>>), error>>
      BY <3>1, <3>2, Joined
    <3>4. Verdicts(programStatus')
      BY <2>2, <3>3 DEF Verdicts, error
    <3> QED BY <2>1, <2>4, <3>4 DEF Refused, StatusInv
  <2> QED BY <1>5, <2>3, <2>4 DEF cli_process
<1>6. CASE UNCHANGED vars
  BY <1>6 DEF vars, lineVars, cliVars, StatusInv
<1> QED BY <1>1, <1>2, <1>3, <1>4, <1>5, <1>6 DEF Next, Answer

\* The length of one note and of two.
LEMMA LengthOfNotes ==
  ASSUME Len(programStatus) \in {1, 2},
         \A i \in 1 .. Len(programStatus) : NoteLength(programStatus[i]) \in Nat
  PROVE  StatusLength = NoteLength(programStatus[1])
                        + (IF Len(programStatus) = 2 THEN NoteLength(programStatus[2]) ELSE 0)
<1> DEFINE n == Len(programStatus)
           a == NoteLength(programStatus[1])
           b == NoteLength(programStatus[2])
           Is(f) == f = [i \in 0 .. n |-> IF i = 0 THEN 0
                                          ELSE f[i - 1] + NoteLength(programStatus[i])]
           g == [i \in 0 .. n |-> IF i = 0 THEN 0 ELSE IF i = 1 THEN a ELSE a + b]
<1>1. Is(g)
  <2>1. \A i \in 0 .. n : g[i] = IF i = 0 THEN 0 ELSE IF i = 1 THEN a ELSE a + b
    OBVIOUS
  <2>2. \A i \in 0 .. n : i = 0 \/ i = 1 \/ i = 2
    OBVIOUS
  <2> QED BY <2>1, <2>2
<1>2. StatusLength = (CHOOSE f : Is(f))[n]
  BY DEF StatusLength
<1>3. Is(CHOOSE f : Is(f))
  BY <1>1, Zenon
<1>4. ASSUME NEW f, Is(f) PROVE f[n] = a + (IF n = 2 THEN b ELSE 0)
  <2>1. f[0] = 0
    BY <1>4
  <2>2. f[1] = a
    BY <1>4, <2>1
  <2>3. n = 2 => f[2] = a + b
    BY <1>4, <2>2
  <2> QED BY <2>2, <2>3
<1> QED BY <1>2, <1>3, <1>4

\* What a status of one note, and of two, is made of.
LEMMA OneNote ==
  ASSUME NEW n1, programStatus = <<n1>>
  PROVE  Len(programStatus) = 1 /\ programStatus[1] = n1 /\ 1 \in DOMAIN programStatus
OBVIOUS

LEMMA TwoNotes ==
  ASSUME NEW n1, NEW n2, programStatus = <<n1, n2>>
  PROVE  /\ Len(programStatus) = 2 /\ programStatus[1] = n1 /\ programStatus[2] = n2
         /\ 2 \in DOMAIN programStatus
OBVIOUS

LEMMA NoteFields ==
  ASSUME NEW w, NEW t
  PROVE  Note(w, t).of = w /\ Note(w, t).text = t
BY DEF Note

\* The length of each note.
LEMMA NoteLengthIs ==
  ASSUME NEW t
  PROVE  /\ NoteLength(Note("NA", t)) = 7 /\ NoteLength(Note("Program OK", t)) = 15
         /\ NoteLength(Note("Flash error", t)) = 28
         /\ NoteLength(Note("Access out of app", t)) = 31
         /\ NoteLength(Note("Program Error", t)) = 19 + Len(t) + 4
BY DEF NoteLength, Note

\* Some note has all but 54 bytes of the length.
LEMMA StatusLengthIs ==
  ASSUME StatusInv
  PROVE  \/ StatusLength = 0
         \/ \E i \in DOMAIN programStatus :
              /\ Len(programStatus[i].text) \in Nat /\ StatusLength \in Nat
              /\ StatusLength <= 54 + Len(programStatus[i].text)
<1>1. CASE programStatus = <<>>
  <2> DEFINE Is(f) == f = [i \in 0 .. 0 |-> IF i = 0 THEN 0
                                            ELSE f[i - 1] + NoteLength(programStatus[i])]
  <2>1. StatusLength = (CHOOSE f : Is(f))[0]
    BY <1>1 DEF StatusLength
  <2>2. Is([i \in 0 .. 0 |-> 0])
    OBVIOUS
  <2>3. Is(CHOOSE f : Is(f))
    BY <2>2, Zenon
  <2> QED BY <2>1, <2>3
<1>2. ASSUME NEW n1, Len(n1.text) \in Nat, programStatus = <<n1>>,
             NoteLength(n1) \in Nat, NoteLength(n1) <= 54 + Len(n1.text)
      PROVE  /\ 1 \in DOMAIN programStatus /\ Len(programStatus[1].text) \in Nat
             /\ StatusLength \in Nat /\ StatusLength <= 54 + Len(programStatus[1].text)
  <2>1. Len(programStatus) = 1 /\ programStatus[1] = n1 /\ 1 \in DOMAIN programStatus
    BY <1>2, OneNote
  <2>2. \A i \in 1 .. Len(programStatus) : NoteLength(programStatus[i]) \in Nat
    BY <1>2, <2>1
  <2>3. StatusLength = NoteLength(programStatus[1]) + 0
    BY <2>1, <2>2, LengthOfNotes
  <2> QED BY <1>2, <2>1, <2>3
<1>3. ASSUME NEW n1, NEW n2, Len(n2.text) \in Nat, programStatus = <<n1, n2>>,
             NoteLength(n1) \in {28, 31}, NoteLength(n2) = 23 + Len(n2.text)
      PROVE  /\ 2 \in DOMAIN programStatus /\ Len(programStatus[2].text) \in Nat
             /\ StatusLength \in Nat /\ StatusLength <= 54 + Len(programStatus[2].text)
  <2>1. /\ Len(programStatus) = 2 /\ programStatus[1] = n1 /\ programStatus[2] = n2
        /\ 2 \in DOMAIN programStatus
    BY <1>3, TwoNotes
  <2>2. \A i \in 1 .. Len(programStatus) : NoteLength(programStatus[i]) \in Nat
    BY <1>3, <2>1
  <2>3. StatusLength = NoteLength(programStatus[1]) + NoteLength(programStatus[2])
    BY <2>1, <2>2, LengthOfNotes
  <2> QED BY <1>3, <2>1, <2>3
<1>4. CASE programStatus = <<Note("NA", <<>>)>>
  <2> DEFINE n1 == Note("NA", <<>>)
  <2>1. n1.text = <<>>
    BY NoteFields, Zenon
  <2>2. NoteLength(n1) = 7
    BY NoteLengthIs, Zenon
  <2> HIDE DEF n1
  <2>3. Len(n1.text) = 0
    BY <2>1
  <2>4. programStatus = <<n1>>
    BY <1>4 DEF n1
  <2> QED BY <1>2, <2>2, <2>3, <2>4
<1>5. CASE programStatus = <<Note("Program OK", <<>>)>>
  <2> DEFINE n1 == Note("Program OK", <<>>)
  <2>1. n1.text = <<>>
    BY NoteFields, Zenon
  <2>2. NoteLength(n1) = 15
    BY NoteLengthIs, Zenon
  <2> HIDE DEF n1
  <2>3. Len(n1.text) = 0
    BY <2>1
  <2>4. programStatus = <<n1>>
    BY <1>5 DEF n1
  <2> QED BY <1>2, <2>2, <2>3, <2>4
<1>6. ASSUME NEW t \in Seq(Character),
             \/ programStatus = <<Note("Program Error", t)>>
             \/ programStatus = <<Note("Flash error", <<>>), Note("Program Error", t)>>
             \/ programStatus = <<Note("Access out of app", <<>>), Note("Program Error", t)>>
      PROVE  \E i \in DOMAIN programStatus :
              /\ Len(programStatus[i].text) \in Nat /\ StatusLength \in Nat
              /\ StatusLength <= 54 + Len(programStatus[i].text)
  <2> DEFINE error == Note("Program Error", t)
             flash == Note("Flash error", <<>>)
             access == Note("Access out of app", <<>>)
  <2>1. Len(t) \in Nat
    OBVIOUS
  <2>2. error.text = t
    BY NoteFields, Zenon
  <2>3. NoteLength(error) = 19 + Len(t) + 4
    BY NoteLengthIs, Zenon
  <2>4. NoteLength(flash) = 28 /\ NoteLength(access) = 31
    BY NoteLengthIs
  <2> HIDE DEF error, flash, access
  <2>5. \/ programStatus = <<error>> \/ programStatus = <<flash, error>>
        \/ programStatus = <<access, error>>
    BY <1>6 DEF error, flash, access
  <2>6. Len(error.text) \in Nat /\ NoteLength(error) = 23 + Len(error.text)
    BY <2>1, <2>2, <2>3
  <2>7. NoteLength(error) \in Nat /\ NoteLength(error) <= 54 + Len(error.text)
    BY <2>6
  <2> QED BY <1>2, <1>3, <2>4, <2>5, <2>6, <2>7
<1>7. programStatus = <<>> \/ Verdicts(programStatus)
  BY DEF StatusInv
<1> QED BY <1>1, <1>2, <1>3, <1>4, <1>5, <1>6, <1>7 DEF Verdicts

\* The texts appended to program_status leave room for its terminator, for
\* every size of the array and every line, as long as the line refused is not
\* longer than the array less 55 bytes.
THEOREM StatusHolds == Spec => []StatusTerminated
<1>1. Init => StatusInv
  BY DEF Init, StatusInv, Verdicts
<1>2. ASSUME StatusInv PROVE StatusTerminated
  <2>0. StatusSize \in Nat \ {0}
    BY ConsoleAssumption
  <2>1. CASE StatusLength = 0
    BY <2>0, <2>1 DEF StatusTerminated
  <2>2. CASE \E i \in DOMAIN programStatus :
              /\ Len(programStatus[i].text) \in Nat /\ StatusLength \in Nat
              /\ StatusLength <= 54 + Len(programStatus[i].text)
    <3>1. PICK i \in DOMAIN programStatus :
              /\ Len(programStatus[i].text) \in Nat /\ StatusLength \in Nat
              /\ StatusLength <= 54 + Len(programStatus[i].text)
      BY <2>2
    <3>2. Len(programStatus[i].text) <= StatusSize - 55 => StatusLength < StatusSize
      BY <2>0, <3>1
    <3> QED BY <3>2, Zenon DEF StatusTerminated
  <2> QED BY <1>2, <2>1, <2>2, StatusLengthIs
<1> QED BY <1>1, <1>2, Invariance, StatusStep, PTL DEF Spec

-----------------------------------------------------------------------------
(***************************************************************************)
(* Shell.  What is in the buffer is what the user sees, and while it is    *)
(* answered it is one of the lines.                                        *)
(***************************************************************************)
EditInv ==
  /\ ~answering => \A i \in 1 .. Len(edited) : commandBuf[i - 1] = edited[i]
  /\ answering => Text \in Lines

LEMMA SameSequence ==
  ASSUME NEW D, NEW s \in Seq(D), NEW t \in Seq(D), Len(s) = Len(t),
         \A i \in 1 .. Len(s) : s[i] = t[i]
  PROVE  s = t
BY SeqEqual

LEMMA BeginningIs ==
  ASSUME NEW D, NEW s, NEW n \in Nat, \A i \in 1 .. n : s[i] \in D
  PROVE  /\ SubSeq(s, 1, n) \in Seq(D) /\ Len(SubSeq(s, 1, n)) = n
         /\ \A i \in 1 .. n : SubSeq(s, 1, n)[i] = s[i]
<1>1. /\ SubSeq(s, 1, n) \in Seq(D)
      /\ Len(SubSeq(s, 1, n)) = IF 1 <= n THEN n - 1 + 1 ELSE 0
      /\ \A i \in 1 .. n - 1 + 1 : SubSeq(s, 1, n)[i] = s[1 + i - 1]
  BY SubSeqProperties
<1>2. (IF 1 <= n THEN n - 1 + 1 ELSE 0) = n /\ n - 1 + 1 = n
  OBVIOUS
<1> QED BY <1>1, <1>2

LEMMA LineIs ==
  ASSUME IInv, EditInv, ~answering
  PROVE  LineInBuffer = edited
<1>1. edited \in Seq(Character) /\ commandBufPos = Len(edited)
      /\ LineInBuffer = [i \in 1 .. commandBufPos |-> commandBuf[i - 1]]
  BY DEF IInv, TypeOK, PositionInv, LineInBuffer
<1>2. edited = [i \in 1 .. Len(edited) |-> edited[i]]
  BY <1>1
<1>3. [i \in 1 .. Len(edited) |-> commandBuf[i - 1]] = [i \in 1 .. Len(edited) |-> edited[i]]
  BY DEF EditInv
<1> QED BY <1>1, <1>2, <1>3

\* The line that is entered is the text that is answered.
LEMMA Entered ==
  ASSUME IInv, EditInv, CarriageReturn
  PROVE  Text' = edited
<1> DEFINE p == Len(edited)
           t == Text'
<1>1. /\ edited \in Seq(Character) /\ p \in Nat /\ p < BufSize /\ BufSize \in Nat
      /\ ~answering /\ edited \in Lines /\ commandBuf \in [0 .. BufSize - 1 -> Character]
      /\ commandBuf' = [commandBuf EXCEPT ![p] = NUL]
  <2>1. commandBufPos = p
    BY DEF IInv, PositionInv, CarriageReturn
  <2>2. commandBuf' = [commandBuf EXCEPT ![p] = NUL]
    BY <2>1 DEF CarriageReturn, Store
  <2> QED BY <2>1, <2>2, ConsoleAssumption DEF IInv, TypeOK, PositionInv, CarriageReturn
<1>2. commandBuf' \in [0 .. BufSize - 1 -> Character] /\ commandBuf'[p] = NUL
      /\ p \in 0 .. BufSize - 1
  BY <1>1, TextAssumption
<1>3. ASSUME NEW i \in 1 .. p PROVE commandBuf'[i - 1] = edited[i] /\ edited[i] # NUL
  <2>1. i - 1 \in 0 .. BufSize - 1 /\ i - 1 # p
    BY <1>1
  <2>2. edited[i] # NUL
    <3>1. edited \in Seq(Character \ {NUL, "CR", "LF", "BS"})
      BY <1>1, TextAssumption
    <3> QED BY <3>1
  <2> QED BY <1>1, <2>1, <2>2 DEF EditInv
<1>4. t = TextOf(commandBuf')
  BY DEF Text, TextOf
<1>5. /\ t \in Seq(Character) /\ Len(t) \in 0 .. BufSize - 1
      /\ commandBuf'[Len(t)] = NUL
      /\ \A i \in 1 .. Len(t) : t[i] = commandBuf'[i - 1] /\ t[i] # NUL
  BY <1>2, <1>4, TextOfIs
<1> HIDE DEF p, t
<1>6. Len(t) = p
  <2>1. ~(Len(t) < p)
    <3> SUFFICES ASSUME Len(t) < p PROVE FALSE OBVIOUS
    <3>1. Len(t) + 1 \in 1 .. p /\ (Len(t) + 1) - 1 = Len(t)
      BY <1>1, <1>5
    <3> QED BY <1>3, <1>5, <3>1
  <2>2. ~(p < Len(t))
    <3> SUFFICES ASSUME p < Len(t) PROVE FALSE OBVIOUS
    <3>1. p + 1 \in 1 .. Len(t) /\ (p + 1) - 1 = p
      BY <1>1, <1>5
    <3> QED BY <1>2, <1>5, <3>1
  <2> QED BY <1>1, <1>5, <2>1, <2>2
<1>7. \A i \in 1 .. Len(t) : t[i] = edited[i]
  BY <1>3, <1>5, <1>6
<1>8. Len(t) = Len(edited)
  BY <1>6 DEF p
<1>9. t = edited
  BY <1>1, <1>5, <1>7, <1>8, SameSequence
<1> QED BY <1>9 DEF t

LEMMA EditStep == IInv /\ EditInv /\ [Next]_vars => EditInv'
<1> SUFFICES ASSUME IInv, EditInv, [Next]_vars PROVE EditInv' OBVIOUS
<1>1. ASSUME NEW ch \in Chars, Type(ch) PROVE EditInv'
  <2> DEFINE n == Len(edited)
  <2>1. edited \in Seq(Character) /\ n \in Nat /\ n < BufSize /\ BufSize \in Nat
        /\ commandBuf \in [0 .. BufSize - 1 -> Character] /\ ~answering /\ ~answering'
        /\ edited' = Append(edited, ch) /\ commandBuf' = [commandBuf EXCEPT ![n] = ch]
    <3>1. commandBufPos = n
      BY <1>1 DEF IInv, PositionInv, Type
    <3>2. commandBuf' = [commandBuf EXCEPT ![n] = ch]
      BY <1>1, <3>1 DEF Type, Store
    <3> QED BY <1>1, <3>1, <3>2, ConsoleAssumption DEF IInv, TypeOK, PositionInv, Type
  <2>2. ch \in Character
    BY CharsAreCharacters
  <2>3. Len(edited') = n + 1 /\ edited'[n + 1] = ch
        /\ \A i \in 1 .. n : edited'[i] = edited[i]
    BY <2>1, <2>2
  <2> HIDE DEF n
  <2>4. ASSUME NEW i \in 1 .. n + 1 PROVE commandBuf'[i - 1] = edited'[i]
    <3>1. CASE i = n + 1
      BY <2>1, <2>3, <3>1
    <3>2. CASE i # n + 1
      <4>1. i \in 1 .. n /\ i - 1 \in 0 .. BufSize - 1 /\ i - 1 # n
        BY <2>1, <3>2
      <4>2. commandBuf[i - 1] = edited[i]
        BY <2>1, <4>1 DEF EditInv, n
      <4> QED BY <2>1, <2>3, <4>1, <4>2
    <3> QED BY <3>1, <3>2
  <2> QED BY <2>1, <2>3, <2>4 DEF EditInv
<1>2. CASE Backspace
  <2> DEFINE n == Len(edited) - 1
  <2>1. edited \in Seq(Character) /\ n \in Nat /\ ~answering /\ ~answering'
        /\ edited' = SubSeq(edited, 1, n) /\ commandBuf' = commandBuf
    BY <1>2 DEF IInv, TypeOK, PositionInv, Backspace
  <2>2. Len(edited') = n /\ \A i \in 1 .. n : edited'[i] = edited[i]
    <3>1. \A i \in 1 .. n : edited[i] \in Character
      BY <2>1
    <3> HIDE DEF n
    <3> QED BY <2>1, <3>1, BeginningIs
  <2> HIDE DEF n
  <2>3. \A i \in 1 .. n : i \in 1 .. Len(edited)
    BY <2>1 DEF n
  <2> QED BY <2>1, <2>2, <2>3 DEF EditInv
<1>3. CASE CarriageReturn
  BY <1>3, Entered DEF CarriageReturn, EditInv
<1>4. CASE Answer
  <2>1. commandBuf' = commandBuf /\ edited' = <<>> /\ answering
    BY <1>4 DEF Answer, FreeRTOS_CLIProcessCommand, cli_process, Refuse, Return, IInv,
                PositionInv
  <2>2. Text' = Text /\ Len(edited') = 0
    BY <2>1 DEF Text
  <2> QED BY <2>1, <2>2 DEF EditInv
<1>5. CASE UNCHANGED vars
  BY <1>5 DEF vars, lineVars, EditInv, Text
<1> QED BY <1>1, <1>2, <1>3, <1>4, <1>5 DEF Next

(***************************************************************************)
(* The command of a line.  The interpreter compares each name with the     *)
(* buffer, Shell with the line.                                            *)
(***************************************************************************)
\* The name is the first word of the text.
Heads(name, text) ==
  /\ Len(name) <= Len(text)
  /\ \A k \in 1 .. Len(name) : text[k] = name[k]
  /\ Len(name) # Len(text) => text[Len(name) + 1] = Space

LEMMA NameIs ==
  ASSUME NEW c \in DOMAIN Commands
  PROVE  /\ Commands[c].name \in Seq(Character) /\ Len(Commands[c].name) \in Nat
         /\ Len(Commands[c].name) < BufSize
         /\ \A k \in 1 .. Len(Commands[c].name) : Commands[c].name[k] # NUL
<1> DEFINE Entry == [name : Seq(Character \ {NUL}), params : Nat, does : Handlers]
           name == Commands[c].name
<1>1. Commands \in Seq(Entry) /\ Len(name) < BufSize
  BY TextAssumption, ConsoleAssumption
<1>2. Commands[c] \in Entry
  <2> HIDE DEF Entry
  <2> QED BY <1>1
<1>3. name \in Seq(Character \ {NUL})
  BY <1>2
<1> HIDE DEF name
<1>4. name \in Seq(Character) /\ Len(name) \in Nat
      /\ \A k \in 1 .. Len(name) : name[k] # NUL
  BY <1>3
<1> QED BY <1>1, <1>4 DEF name

LEMMA MatchesIs ==
  ASSUME TypeOK, \E i \in 0 .. BufSize - 1 : commandBuf[i] = NUL, NEW c \in DOMAIN Commands
  PROVE  Matches(c) <=> Heads(Commands[c].name, Text)
<1> DEFINE name == Commands[c].name
           m == Len(name)
           t == Text
           n == Len(t)
<1>1. m \in Nat /\ m < BufSize /\ \A k \in 1 .. m : name[k] # NUL
  BY NameIs
<1>2. n \in 0 .. BufSize - 1 /\ commandBuf[n] = NUL
      /\ \A i \in 1 .. n : t[i] = commandBuf[i - 1] /\ t[i] # NUL
  BY TextIs
<1>3. BufSize \in Nat /\ Space # NUL
  BY ConsoleAssumption DEF Space, NUL
<1>4. Matches(c) <=> /\ commandBuf[m] \in {Space, NUL}
                     /\ \A k \in 1 .. m : commandBuf[k - 1] = name[k]
  BY DEF Matches
<1> HIDE DEF name, m, t, n
<1>5. ASSUME Matches(c) PROVE Heads(name, t)
  <2>1. m <= n
    <3> SUFFICES ASSUME n < m PROVE FALSE BY <1>1, <1>2
    <3>1. n + 1 \in 1 .. m /\ (n + 1) - 1 = n
      BY <1>1, <1>2
    <3>2. commandBuf[(n + 1) - 1] = name[n + 1] /\ name[n + 1] # NUL
      BY <1>1, <1>4, <1>5, <3>1
    <3> QED BY <1>2, <3>1, <3>2
  <2>2. \A k \in 1 .. m : k \in 1 .. n
    BY <1>1, <1>2, <2>1
  <2>3. \A k \in 1 .. m : t[k] = name[k]
    BY <1>2, <1>4, <1>5, <2>2
  <2>4. m # n => t[m + 1] = Space
    <3> SUFFICES ASSUME m # n PROVE t[m + 1] = Space OBVIOUS
    <3>1. m + 1 \in 1 .. n /\ (m + 1) - 1 = m
      BY <1>1, <1>2, <2>1
    <3>2. t[m + 1] = commandBuf[m] /\ t[m + 1] # NUL
      BY <1>2, <3>1
    <3> QED BY <1>4, <1>5, <3>2
  <2> QED BY <2>1, <2>3, <2>4 DEF Heads, m, n
<1>6. ASSUME Heads(name, t) PROVE Matches(c)
  <2>1. m <= n /\ (\A k \in 1 .. m : t[k] = name[k]) /\ (m # n => t[m + 1] = Space)
    BY <1>6 DEF Heads, m, n
  <2>2. \A k \in 1 .. m : k \in 1 .. n
    BY <1>1, <1>2, <2>1
  <2>3. \A k \in 1 .. m : commandBuf[k - 1] = name[k]
    BY <1>2, <2>1, <2>2
  <2>4. m # n => commandBuf[m] = Space
    <3> SUFFICES ASSUME m # n PROVE commandBuf[m] = Space OBVIOUS
    <3>1. m + 1 \in 1 .. n /\ (m + 1) - 1 = m
      BY <1>1, <1>2, <2>1
    <3> QED BY <1>2, <2>1, <3>1
  <2> QED BY <1>2, <1>4, <2>3, <2>4
<1> QED BY <1>5, <1>6 DEF name, t

LEMMA HeadsIs ==
  ASSUME NEW name \in Seq(Character), NEW text \in Seq(Character), Len(name) # 0
  PROVE  Heads(name, text) <=>
           \/ text = name
           \/ \E n \in 1 .. Len(text) - 1 : SubSeq(text, 1, n) = name /\ text[n + 1] = Space
<1> DEFINE m == Len(name)
<1>1. m \in Nat /\ m >= 1 /\ Len(text) \in Nat
  OBVIOUS
<1>2. ASSUME Heads(name, text), Len(name) = Len(text) PROVE text = name
  BY <1>2, SameSequence DEF Heads
<1>3. ASSUME Heads(name, text), Len(name) # Len(text)
      PROVE  \E n \in 1 .. Len(text) - 1 : SubSeq(text, 1, n) = name /\ text[n + 1] = Space
  <2>1. m \in 1 .. Len(text) - 1 /\ text[m + 1] = Space
    BY <1>1, <1>3 DEF Heads
  <2>2. \A i \in 1 .. m : text[i] \in Character
    BY <2>1, <1>1
  <2>3. /\ SubSeq(text, 1, m) \in Seq(Character) /\ Len(SubSeq(text, 1, m)) = m
        /\ \A i \in 1 .. m : SubSeq(text, 1, m)[i] = text[i]
    <3> HIDE DEF m
    <3> QED BY <1>1, <2>2, BeginningIs
  <2>4. SubSeq(text, 1, m) = name
    <3> DEFINE b == SubSeq(text, 1, m)
    <3>1. \A i \in 1 .. Len(b) : b[i] = name[i]
      BY <1>3, <2>3 DEF Heads
    <3>2. b \in Seq(Character) /\ Len(b) = Len(name)
      BY <2>3
    <3> HIDE DEF b
    <3>3. b = name
      BY <3>1, <3>2, SameSequence
    <3> QED BY <3>3 DEF b
  <2> QED BY <2>1, <2>4
<1>4. ASSUME text = name PROVE Heads(name, text)
  BY <1>4 DEF Heads
<1>5. ASSUME NEW n \in 1 .. Len(text) - 1, SubSeq(text, 1, n) = name, text[n + 1] = Space
      PROVE  Heads(name, text)
  <2>1. n \in Nat /\ n <= Len(text) /\ \A i \in 1 .. n : text[i] \in Character
    BY <1>1
  <2>2. Len(name) = n /\ \A i \in 1 .. n : name[i] = text[i]
    BY <1>5, <2>1, BeginningIs
  <2> QED BY <1>5, <2>1, <2>2 DEF Heads
<1> QED BY <1>2, <1>3, <1>4, <1>5

\* A text has one first word.
LEMMA HeadsOnce ==
  ASSUME NEW a \in Seq(Character), NEW b \in Seq(Character), NEW text \in Seq(Character),
         Heads(a, text), Heads(b, text),
         \A k \in 1 .. Len(a) : a[k] # Space,
         \A k \in 1 .. Len(b) : b[k] # Space
  PROVE  a = b
<1>1. Len(a) \in Nat /\ Len(b) \in Nat /\ Len(text) \in Nat
  OBVIOUS
<1>2. ~(Len(a) < Len(b))
  <2> SUFFICES ASSUME Len(a) < Len(b) PROVE FALSE OBVIOUS
  <2>1. Len(a) + 1 \in 1 .. Len(b) /\ Len(a) # Len(text)
    BY <1>1 DEF Heads
  <2> QED BY <2>1 DEF Heads
<1>3. ~(Len(b) < Len(a))
  <2> SUFFICES ASSUME Len(b) < Len(a) PROVE FALSE OBVIOUS
  <2>1. Len(b) + 1 \in 1 .. Len(a) /\ Len(b) # Len(text)
    BY <1>1 DEF Heads
  <2> QED BY <2>1 DEF Heads
<1>4. Len(a) = Len(b)
  BY <1>1, <1>2, <1>3
<1>5. \A k \in 1 .. Len(a) : a[k] = b[k]
  BY <1>4 DEF Heads
<1> QED BY <1>4, <1>5, SameSequence

\* The command the interpreter finds is the one Shell finds.
LEMMA CommandFound ==
  ASSUME TypeOK, \E i \in 0 .. BufSize - 1 : commandBuf[i] = NUL, NamesApart, pxCommand = 0
  PROVE  \/ Current = {} /\ S!Named(Text) = {}
         \/ \E c \in DOMAIN Commands : Current = {c} /\ S!Named(Text) = {Commands[c]}
<1> DEFINE t == Text
<1>1. t \in Seq(Character)
  BY TextIs
<1>2. ASSUME NEW c \in DOMAIN Commands PROVE Matches(c) <=> Heads(Commands[c].name, t)
  BY MatchesIs
<1>3. ASSUME NEW c \in DOMAIN Commands
      PROVE  Heads(Commands[c].name, t) <=>
               \/ t = Commands[c].name
               \/ \E n \in 1 .. Len(t) - 1 :
                    SubSeq(t, 1, n) = Commands[c].name /\ t[n + 1] = Space
  <2> DEFINE name == Commands[c].name
  <2>1. name \in Seq(Character) /\ Len(name) # 0
    BY NameIs DEF NamesApart
  <2> HIDE DEF name, t
  <2> QED BY <1>1, <2>1, HeadsIs DEF name
<1>4. S!Named(t) = {Commands[c] : c \in {d \in DOMAIN Commands : Heads(Commands[d].name, t)}}
  <2> HIDE DEF t
  <2>1. \A r : r \in S!Named(t) <=>
                 /\ r \in {Commands[i] : i \in DOMAIN Commands}
                 /\ \/ t = r.name
                    \/ \E n \in 1 .. Len(t) - 1 : SubSeq(t, 1, n) = r.name /\ t[n + 1] = Space
    BY DEF S!Named, S!Space, Space
  <2>2. \A r : r \in S!Named(t) <=>
                 r \in {Commands[c] : c \in {d \in DOMAIN Commands : Heads(Commands[d].name, t)}}
    <3> DEFINE Q(name) == \/ t = name
                          \/ \E n \in 1 .. Len(t) - 1 :
                               SubSeq(t, 1, n) = name /\ t[n + 1] = Space
    <3>1. \A c \in DOMAIN Commands : Heads(Commands[c].name, t) <=> Q(Commands[c].name)
      BY <1>3
    <3>2. \A r : r \in S!Named(t) <=>
                   r \in {Commands[i] : i \in DOMAIN Commands} /\ Q(r.name)
      BY <2>1
    <3> HIDE DEF Q
    <3> SUFFICES ASSUME NEW r
                 PROVE  (r \in {Commands[i] : i \in DOMAIN Commands} /\ Q(r.name)) <=>
                          r \in {Commands[c] :
                                 c \in {d \in DOMAIN Commands : Heads(Commands[d].name, t)}}
      BY <3>2, Zenon
    <3>3. (r \in {Commands[i] : i \in DOMAIN Commands} /\ Q(r.name)) <=>
            \E i \in DOMAIN Commands : r = Commands[i] /\ Q(Commands[i].name)
      BY Zenon
    <3> QED BY <3>1, <3>3, Zenon
  <2> QED BY <2>2, Zenon
<1>5. ASSUME NEW c \in DOMAIN Commands, NEW d \in DOMAIN Commands,
             Heads(Commands[c].name, t), Heads(Commands[d].name, t)
      PROVE  c = d
  <2> DEFINE a == Commands[c].name
             b == Commands[d].name
  <2>1. a \in Seq(Character) /\ b \in Seq(Character)
        /\ (\A k \in 1 .. Len(a) : a[k] # Space) /\ \A k \in 1 .. Len(b) : b[k] # Space
    BY NameIs DEF NamesApart
  <2>2. Heads(a, t) /\ Heads(b, t)
    BY <1>5
  <2> HIDE DEF a, b, t
  <2>3. a = b
    BY <1>1, <2>1, <2>2, HeadsOnce
  <2> QED BY <2>3 DEF a, b, NamesApart
<1>6. Current = {i \in DOMAIN Commands : Matches(i) /\ \A j \in 1 .. i - 1 : ~Matches(j)}
  BY DEF Current
<1>7. CASE \A c \in DOMAIN Commands : ~Heads(Commands[c].name, t)
  <2>1. Current = {}
    BY <1>2, <1>6, <1>7
  <2>2. S!Named(t) = {}
    <3> HIDE DEF t
    <3> QED BY <1>4, <1>7, Zenon
  <2> QED BY <2>1, <2>2
<1>8. ASSUME NEW c \in DOMAIN Commands, Heads(Commands[c].name, t)
      PROVE  Current = {c} /\ S!Named(t) = {Commands[c]}
  <2>1. c \in 1 .. Len(Commands) /\ DOMAIN Commands = 1 .. Len(Commands) /\ Len(Commands) \in Nat
    BY Sizes
  <2>2. \A j \in 1 .. c - 1 : j \in DOMAIN Commands /\ j # c
    BY <2>1
  <2>3. \A j \in DOMAIN Commands : Matches(j) <=> j = c
    BY <1>2, <1>5, <1>8
  <2>4. Current = {c}
    <3> HIDE DEF t
    <3> QED BY <1>6, <2>2, <2>3, Zenon
  <2>5. S!Named(t) = {Commands[c]}
    <3>1. {d \in DOMAIN Commands : Heads(Commands[d].name, t)} = {c}
      BY <1>5, <1>8
    <3> HIDE DEF t
    <3> QED BY <1>4, <3>1, Zenon
  <2> QED BY <2>4, <2>5
<1> QED BY <1>7, <1>8

(***************************************************************************)
(* The parameters.  The interpreter counts the spaces behind words in an   *)
(* int8_t, Shell counts the words.                                         *)
(***************************************************************************)
WordStarts(text, k) == {i \in 1 .. k : text[i] # Space /\ (i = 1 \/ text[i - 1] = Space)}
WordsTo(text, k)    == Cardinality(WordStarts(text, k))

LEMMA WordsToIs ==
  ASSUME NEW text, NEW k \in Nat
  PROVE  /\ IsFiniteSet(WordStarts(text, k)) /\ WordsTo(text, k) \in Nat
         /\ WordsTo(text, 0) = 0
         /\ WordsTo(text, k + 1) =
              WordsTo(text, k)
              + (IF text[k + 1] # Space /\ (k = 0 \/ text[k] = Space) THEN 1 ELSE 0)
<1>1. WordStarts(text, k) \in SUBSET (1 .. k) /\ IsFiniteSet(1 .. k)
  BY FS_Interval DEF WordStarts
<1>2. IsFiniteSet(WordStarts(text, k)) /\ WordsTo(text, k) \in Nat
  BY <1>1, FS_Subset, FS_CardinalityType DEF WordsTo
<1>3. WordsTo(text, 0) = 0
  <2>1. WordStarts(text, 0) = {}
    BY DEF WordStarts
  <2> QED BY <2>1, FS_EmptySet DEF WordsTo
<1>4. 1 .. k + 1 = (1 .. k) \cup {k + 1} /\ ~(k + 1 \in 1 .. k) /\ (k + 1) - 1 = k
      /\ (k + 1 = 1 <=> k = 0)
  OBVIOUS
<1> DEFINE A == WordStarts(text, k)
           B == WordStarts(text, k + 1)
           starts == text[k + 1] # Space /\ (k = 0 \/ text[k] = Space)
<1>5. CASE starts
  <2>1. B = A \cup {k + 1} /\ ~(k + 1 \in A)
    BY <1>4, <1>5 DEF WordStarts
  <2> HIDE DEF A, B
  <2>2. Cardinality(B) = Cardinality(A) + 1
    BY <1>2, <2>1, FS_AddElement DEF A
  <2> QED BY <1>2, <1>3, <1>5, <2>2 DEF A, B, WordsTo
<1>6. CASE ~starts
  <2>1. B = A
    BY <1>4, <1>6 DEF WordStarts
  <2> QED BY <1>2, <1>3, <1>6, <2>1 DEF WordsTo
<1> QED BY <1>2, <1>3, <1>5, <1>6

LEMMA WordsToGrows ==
  ASSUME NEW text, NEW k \in Nat, NEW n \in Nat, k <= n
  PROVE  WordsTo(text, k) <= WordsTo(text, n)
<1>1. WordStarts(text, k) \in SUBSET WordStarts(text, n)
  BY DEF WordStarts
<1>2. IsFiniteSet(WordStarts(text, n))
  BY WordsToIs
<1> QED BY <1>1, <1>2, FS_Subset DEF WordsTo

LEMMA WrapSmall ==
  ASSUME NEW n \in 0 .. 127
  PROVE  Wrap8(n) = n
BY DEF Wrap8

\* The words behind which there is a space, once k characters are read.
Ended(text, k) ==
  IF k = 0 THEN 0 ELSE IF text[k] = Space THEN WordsTo(text, k) ELSE WordsTo(text, k) - 1

CountStep(text, k, acc) ==
  IF text[k] # Space THEN [n |-> acc.n, space |-> FALSE]
  ELSE [n |-> IF acc.space THEN acc.n ELSE Wrap8(acc.n + 1), space |-> TRUE]

After(text, k) == [n |-> Ended(text, k), space |-> (k # 0 /\ text[k] = Space)]

LEMMA EndedStep ==
  ASSUME NEW text \in Seq(Character), NEW k \in 1 .. Len(text), text[1] # Space,
         WordsTo(text, Len(text)) < 128
  PROVE  After(text, k) = CountStep(text, k, After(text, k - 1))
<1> DEFINE j == k - 1
           w == WordsTo(text, k)
           v == WordsTo(text, j)
<1>1. j \in Nat /\ k \in Nat /\ k = j + 1 /\ k # 0 /\ (k = 1 <=> j = 0)
      /\ Len(text) \in Nat /\ k <= Len(text)
  OBVIOUS
<1>2. /\ v \in Nat /\ w \in Nat /\ (j = 0 => v = 0)
      /\ w = v + (IF text[k] # Space /\ (j = 0 \/ text[j] = Space) THEN 1 ELSE 0)
  <2>1. v \in Nat /\ WordsTo(text, 0) = 0
        /\ WordsTo(text, j + 1) =
             v + (IF text[j + 1] # Space /\ (j = 0 \/ text[j] = Space) THEN 1 ELSE 0)
    BY <1>1, WordsToIs
  <2>2. w \in Nat
    BY <1>1, WordsToIs
  <2> HIDE DEF j
  <2> QED BY <1>1, <2>1, <2>2
<1>3. w <= 127
  <2>1. w <= WordsTo(text, Len(text)) /\ WordsTo(text, Len(text)) \in Nat
    BY <1>1, WordsToGrows, WordsToIs
  <2> QED BY <1>2, <2>1
<1>4. w >= 1
  <2>1. WordsTo(text, 1) = 0 + 1
    <3>1. WordsTo(text, 0) = 0
          /\ WordsTo(text, 0 + 1) =
               WordsTo(text, 0) + (IF text[0 + 1] # Space /\ (0 = 0 \/ text[0] = Space) THEN 1 ELSE 0)
      BY WordsToIs
    <3> QED BY <3>1
  <2>2. WordsTo(text, 1) <= w
    BY <1>1, WordsToGrows
  <2> QED BY <1>2, <2>1, <2>2
<1> HIDE DEF w, v, j
<1>5. Ended(text, k) = IF text[k] = Space THEN w ELSE w - 1
  BY <1>1 DEF Ended, w
<1>6. Ended(text, j) = IF j = 0 THEN 0 ELSE IF text[j] = Space THEN v ELSE v - 1
  BY DEF Ended, v
<1>7. After(text, k) = [n |-> Ended(text, k), space |-> (text[k] = Space)]
  BY <1>1 DEF After
<1>8. After(text, j).n = Ended(text, j) /\ After(text, j).space = (j # 0 /\ text[j] = Space)
  BY DEF After
<1>9. CASE text[k] # Space
  <2>1. Ended(text, k) = Ended(text, j)
    BY <1>2, <1>5, <1>6, <1>9
  <2> QED BY <1>7, <1>8, <1>9, <2>1 DEF CountStep, j
<1>10. CASE text[k] = Space
  <2>1. j # 0 /\ v = w
    BY <1>1, <1>2, <1>10
  <2>2. Ended(text, k) = IF text[j] = Space THEN Ended(text, j) ELSE Wrap8(Ended(text, j) + 1)
    <3>1. CASE text[j] = Space
      BY <1>5, <1>6, <1>10, <2>1, <3>1
    <3>2. CASE text[j] # Space
      <4>1. Ended(text, j) + 1 = w
        BY <1>2, <1>6, <2>1, <3>2
      <4>2. w \in 0 .. 127
        BY <1>2, <1>3
      <4>3. Wrap8(w) = w
        BY <4>2, WrapSmall, Zenon
      <4> QED BY <1>5, <1>10, <3>2, <4>1, <4>3
    <3> QED BY <3>1, <3>2
  <2> QED BY <1>7, <1>8, <1>10, <2>1, <2>2 DEF CountStep, j
<1> QED BY <1>9, <1>10

\* A line that begins with a word has one parameter less than words.
LEMMA ParametersIs ==
  ASSUME NEW t \in Seq(Character), Text = t, Len(t) # 0, t[1] # Space, S!Words(t) < 128
  PROVE  prvGetNumberOfParameters = S!Words(t) - 1
<1> DEFINE m == Len(t)
           Is(f) == f = [i \in 0 .. m |->
                           IF i = 0 THEN [n |-> 0, space |-> FALSE]
                           ELSE LET acc == f[i - 1]
                                IN  IF t[i] # Space THEN [n |-> acc.n, space |-> FALSE]
                                    ELSE [n |-> IF acc.space THEN acc.n ELSE Wrap8(acc.n + 1),
                                          space |-> TRUE]]
           g == [i \in 0 .. m |-> After(t, i)]
           all == (CHOOSE f : Is(f))[m]
<1>1. m \in Nat /\ m >= 1
  OBVIOUS
<1>2. S!Words(t) = WordsTo(t, m)
  <2>1. DOMAIN t = 1 .. m
    OBVIOUS
  <2>2. S!Words(t) = Cardinality(WordStarts(t, m))
    BY <2>1 DEF S!Words, S!Space, Space, WordStarts, S!Cardinality, Cardinality
  <2> QED BY <2>2 DEF WordsTo
<1>3. prvGetNumberOfParameters = IF all.space THEN Wrap8(all.n - 1) ELSE all.n
  BY DEF prvGetNumberOfParameters
<1>4. \A k \in 1 .. m : After(t, k) = CountStep(t, k, After(t, k - 1))
  BY <1>2, EndedStep
<1>5. After(t, 0) = [n |-> 0, space |-> FALSE]
  BY DEF After, Ended
<1>6. \A f : Is(f) <=> f = [i \in 0 .. m |-> IF i = 0 THEN [n |-> 0, space |-> FALSE]
                                             ELSE CountStep(t, i, f[i - 1])]
  BY DEF CountStep
<1> HIDE DEF Is
<1>7. Is(g)
  <2>1. \A i \in 0 .. m : i # 0 => i \in 1 .. m /\ i - 1 \in 0 .. m
    BY <1>1
  <2>2. \A i \in 0 .. m : g[i] = IF i = 0 THEN [n |-> 0, space |-> FALSE]
                                 ELSE CountStep(t, i, g[i - 1])
    BY <1>4, <1>5, <2>1
  <2> QED BY <1>6, <2>2
<1>8. ASSUME NEW f, Is(f) PROVE f[m] = After(t, m)
  <2> DEFINE Bad == {i \in 0 .. m : f[i] # After(t, i)}
  <2>1. /\ f[0] = [n |-> 0, space |-> FALSE]
        /\ \A i \in 1 .. m : f[i] = CountStep(t, i, f[i - 1])
    <3>1. f = [i \in 0 .. m |-> IF i = 0 THEN [n |-> 0, space |-> FALSE]
                                ELSE CountStep(t, i, f[i - 1])]
      BY <1>6, <1>8
    <3>2. 0 \in 0 .. m /\ \A i \in 1 .. m : i \in 0 .. m /\ i # 0
      BY <1>1
    <3> HIDE DEF m
    <3> QED BY <3>1, <3>2
  <2>2. Bad = {}
    <3> SUFFICES ASSUME Bad # {} PROVE FALSE OBVIOUS
    <3>1. Bad \subseteq Nat
      BY <1>1
    <3>2. PICK x \in Bad : \A y \in Bad : x <= y
      <4> HIDE DEF Bad
      <4> QED BY <3>1, Least
    <3>3. x \in 0 .. m /\ f[x] # After(t, x)
      OBVIOUS
    <3>4. x # 0
      BY <1>5, <2>1, <3>3
    <3>5. x \in 1 .. m /\ x - 1 \in 0 .. m /\ ~(x <= x - 1)
      BY <1>1, <3>3, <3>4
    <3>6. f[x - 1] = After(t, x - 1)
      BY <3>2, <3>5
    <3> QED BY <1>4, <2>1, <3>3, <3>5, <3>6
  <2> QED BY <1>1, <2>2
<1>9. all = After(t, m)
  BY <1>7, <1>8, Zenon
<1>10. all.n = Ended(t, m) /\ all.space = (t[m] = Space)
  BY <1>1, <1>9 DEF After
<1>11. Ended(t, m) = IF t[m] = Space THEN WordsTo(t, m) ELSE WordsTo(t, m) - 1
  BY <1>1 DEF Ended
<1>12. WordsTo(t, m) \in 1 .. 127
  <2>1. WordsTo(t, m) \in Nat /\ WordsTo(t, m) < 128
    BY <1>1, <1>2, WordsToIs
  <2>2. WordsTo(t, 1) = 0 + 1
    <3>1. WordsTo(t, 0) = 0
          /\ WordsTo(t, 0 + 1) =
               WordsTo(t, 0) + (IF t[0 + 1] # Space /\ (0 = 0 \/ t[0] = Space) THEN 1 ELSE 0)
      BY WordsToIs
    <3> QED BY <3>1
  <2>3. WordsTo(t, 1) <= WordsTo(t, m)
    BY <1>1, WordsToGrows
  <2> DEFINE w == WordsTo(t, m)
             v == WordsTo(t, 1)
  <2>4. w \in Nat /\ w < 128 /\ v = 0 + 1 /\ v <= w
    BY <2>1, <2>2, <2>3
  <2> HIDE DEF w, v
  <2>5. w \in 1 .. 127
    BY <2>4
  <2> QED BY <2>5 DEF w
<1>13. Wrap8(WordsTo(t, m) - 1) = WordsTo(t, m) - 1
  <2> DEFINE w == WordsTo(t, m)
  <2>1. w - 1 \in 0 .. 127
    <3> HIDE DEF w
    <3>1. \A x \in 1 .. 127 : x - 1 \in 0 .. 127
      OBVIOUS
    <3> QED BY <1>12, <3>1, Zenon DEF w
  <2> QED BY <2>1, WrapSmall, Zenon
<1> HIDE DEF all, m
<1> QED BY <1>2, <1>3, <1>10, <1>11, <1>13

(***************************************************************************)
(* The answer.  What a handler has still to say is what is left of its     *)
(* list of pieces, and at the start of a line it is the whole list.        *)
(***************************************************************************)
LEMMA HeadTailAre ==
  ASSUME NEW D, NEW s \in Seq(D), Len(s) # 0
  PROVE  /\ s # <<>> /\ Head(s) = s[1] /\ Tail(s) \in Seq(D) /\ Len(Tail(s)) = Len(s) - 1
         /\ \A i \in 1 .. Len(s) - 1 : Tail(s)[i] = s[i + 1]
<1>1. s # <<>> /\ Len(s) \in Nat
  OBVIOUS
<1>2. Tail(s) \in Seq(D) /\ Len(Tail(s)) = Len(s) - 1
      /\ \A i \in 1 .. Len(Tail(s)) : Tail(s)[i] = s[i + 1]
  BY <1>1, HeadTailProperties, Zenon
<1>3. Head(s) = s[1]
  OBVIOUS
<1> QED BY <1>1, <1>2, <1>3

LEMMA PiecesAre ==
  ASSUME NEW does, NEW a \in Nat, NEW b \in Nat, a <= b,
         NEW p, p = [k \in 1 .. b - a + 1 |-> Piece(does, a + k - 1)]
  PROVE  /\ p # <<>> /\ Head(p) = Piece(does, a)
         /\ Tail(p) = [k \in 1 .. b - (a + 1) + 1 |-> Piece(does, (a + 1) + k - 1)]
         /\ a = b => Tail(p) = <<>>
<1> DEFINE D == {Piece(does, i) : i \in Nat}
           n == b - a + 1
           q == [k \in 1 .. b - (a + 1) + 1 |-> Piece(does, (a + 1) + k - 1)]
<1>1. n \in Nat /\ n >= 1 /\ b - (a + 1) + 1 = n - 1 /\ n - 1 \in Nat
      /\ (a = b => n = 1)
  OBVIOUS
<1>2. \A k \in 1 .. n : a + k - 1 \in Nat
  OBVIOUS
<1>3. p \in Seq(D) /\ Len(p) = n /\ \A k \in 1 .. n : p[k] = Piece(does, a + k - 1)
  BY <1>1, <1>2
<1>4. \A k \in 1 .. n - 1 : (a + 1) + k - 1 \in Nat /\ (a + 1) + k - 1 = a + (k + 1) - 1
                            /\ k + 1 \in 1 .. n
  BY <1>1
<1>5. q \in Seq(D) /\ Len(q) = n - 1 /\ \A k \in 1 .. n - 1 : q[k] = Piece(does, a + (k + 1) - 1)
  BY <1>1, <1>4
<1> HIDE DEF D, n, q
<1>6. p # <<>> /\ Head(p) = p[1] /\ Tail(p) \in Seq(D) /\ Len(Tail(p)) = n - 1
      /\ \A k \in 1 .. n - 1 : Tail(p)[k] = p[k + 1]
  <2>1. p \in Seq(D) /\ Len(p) = n /\ Len(p) # 0
    BY <1>1, <1>3
  <2>2. /\ p # <<>> /\ Head(p) = p[1] /\ Tail(p) \in Seq(D) /\ Len(Tail(p)) = Len(p) - 1
        /\ \A i \in 1 .. Len(p) - 1 : Tail(p)[i] = p[i + 1]
    BY <2>1, HeadTailAre, Zenon
  <2> QED BY <2>1, <2>2, Zenon
<1>7. Tail(p) = q
  <2> DEFINE t == Tail(p)
  <2>1. t \in Seq(D) /\ Len(t) = Len(q) /\ \A k \in 1 .. Len(t) : t[k] = q[k]
    <3>1. t \in Seq(D) /\ Len(t) = n - 1 /\ \A k \in 1 .. n - 1 : t[k] = p[k + 1]
      BY <1>6
    <3> HIDE DEF t
    <3>2. \A k \in 1 .. n - 1 : p[k + 1] = q[k]
      BY <1>3, <1>4, <1>5
    <3> QED BY <1>5, <3>1, <3>2
  <2> HIDE DEF t
  <2>2. t = q
    BY <1>5, <2>1, SameSequence
  <2> QED BY <2>2 DEF t
<1>8. p[1] = Piece(does, a)
  <2>1. 1 \in 1 .. n /\ a + 1 - 1 = a
    BY <1>1
  <2> QED BY <1>3, <2>1
<1>9. a = b => Tail(p) = <<>>
  BY <1>1, <1>6
<1> QED BY <1>6, <1>7, <1>8, <1>9 DEF q

LEMMA SingleIs ==
  ASSUME NEW x
  PROVE  <<x>> # <<>> /\ Head(<<x>>) = x /\ Tail(<<x>>) = <<>>
OBVIOUS

\* The command being answered.
LEMMA TheCommand ==
  ASSUME TypeOK, NEW c \in Current
  PROVE  Current = {c} /\ (CHOOSE d \in Current : TRUE) = c
<1>1. Current = {c}
  <2>1. CASE pxCommand # 0
    BY <2>1 DEF Current
  <2>2. CASE pxCommand = 0
    <3>1. Current = {i \in DOMAIN Commands : Matches(i) /\ \A j \in 1 .. i - 1 : ~Matches(j)}
      BY <2>2 DEF Current
    <3>2. DOMAIN Commands = 1 .. Len(Commands) /\ Len(Commands) \in Nat
      BY Sizes
    <3>3. ASSUME NEW d \in Current PROVE d = c
      <4>1. c \in Nat /\ d \in Nat /\ c >= 1 /\ d >= 1
        BY <3>1, <3>2
      <4>2. ~(c \in 1 .. d - 1) /\ ~(d \in 1 .. c - 1)
        BY <3>1
      <4> QED BY <4>1, <4>2
    <3> QED BY <3>3
  <2> QED BY <2>1, <2>2
<1> QED BY <1>1

\* At the start of a line the whole answer is to be said.
LEMMA AnswerIs ==
  ASSUME NamesApart, FewWords
  PROVE  /\ IInv /\ StatusInv /\ EditInv
         /\ answering /\ pxCommand = 0 /\ helpNext = 0 /\ iteration = 0 /\ erasePage = 0
         => Remaining = S!Answer(Text)
<1> SUFFICES ASSUME IInv, StatusInv, EditInv, answering, pxCommand = 0, helpNext = 0,
                    iteration = 0, erasePage = 0
             PROVE  Remaining = S!Answer(Text)
  OBVIOUS
<1> DEFINE t == Text
<1>0. TypeOK /\ (\E i \in 0 .. BufSize - 1 : commandBuf[i] = NUL) /\ t \in Lines
  BY DEF IInv, StatusInv, EditInv
<1>1. t \in Seq(Character)
  BY <1>0, TextIs
<1>2. CASE ~commandMode
  BY <1>2 DEF Remaining, S!Answer, Record, S!Record
<1>3. CASE commandMode /\ Current = {} /\ S!Named(t) = {}
  BY <1>3 DEF Remaining, S!Answer, Piece, S!Piece
<1>4. ASSUME NEW c \in DOMAIN Commands, commandMode, Current = {c}, S!Named(t) = {Commands[c]}
      PROVE  Remaining = S!Answer(t)
  <2>1. (CHOOSE d \in Current : TRUE) = c /\ (CHOOSE r \in S!Named(t) : TRUE) = Commands[c]
    BY <1>4
  <2>2. prvGetNumberOfParameters = S!Words(t) - 1
    <3>1. Heads(Commands[c].name, t)
      <4>1. Matches(c)
        BY <1>4 DEF Current
      <4> QED BY <1>0, <4>1, MatchesIs
    <3>2. Len(Commands[c].name) \in Nat \ {0} /\ Commands[c].name[1] # Space
      BY NameIs DEF NamesApart
    <3>3. Len(t) # 0 /\ t[1] # Space
      <4> HIDE DEF t
      <4> QED BY <1>1, <3>1, <3>2 DEF Heads
    <3>4. S!Words(t) < 128
      BY <1>0 DEF FewWords
    <3> QED BY <1>1, <3>3, <3>4, ParametersIs
  <2>3. WrongParameters(c) <=> S!Words(t) - 1 # Commands[c].params
    BY <2>2 DEF WrongParameters
  <2> HIDE DEF t
  <2>4. CASE WrongParameters(c)
    <3>1. Remaining = <<Piece("parameters", 1)>>
      BY <1>4, <2>1, <2>4 DEF Remaining
    <3>2. S!Answer(t) = <<Piece("parameters", 1)>>
      BY <1>4, <2>1, <2>3, <2>4 DEF S!Answer, Piece, S!Piece
    <3> QED BY <3>1, <3>2
  <2>5. CASE ~WrongParameters(c)
    <3> DEFINE does == Commands[c].does
    <3>1. Remaining = PiecesLeft(does)
      BY <1>4, <2>1, <2>5 DEF Remaining
    <3>2. S!Answer(t) = [k \in 1 .. S!PieceCount[does] |-> Piece(does, k)]
      BY <1>4, <2>1, <2>3, <2>5 DEF S!Answer, Piece, S!Piece
    <3>3. does \in Handlers /\ Len(Commands) \in Nat /\ Pages \in Nat /\ InfoPieces \in Nat
      BY Sizes
    <3> HIDE DEF does
    <3>4. NextPiece(does) = 1
      BY <3>3 DEF NextPiece, EraseFrom, Handlers
    <3>5. LastPiece(does) = S!PieceCount[does] /\ LastPiece(does) \in Nat
      BY <3>3 DEF LastPiece, S!PieceCount, Handlers
    <3>6. PiecesLeft(does) = [k \in 1 .. LastPiece(does) - 1 + 1 |-> Piece(does, 1 + k - 1)]
      BY <3>4 DEF PiecesLeft
    <3> DEFINE m == LastPiece(does)
    <3> HIDE DEF m
    <3>7. m - 1 + 1 = m /\ \A k \in 1 .. m : 1 + k - 1 = k
      BY <3>5 DEF m
    <3>8. [k \in 1 .. m - 1 + 1 |-> Piece(does, 1 + k - 1)] = [k \in 1 .. m |-> Piece(does, k)]
      BY <3>7
    <3> QED BY <3>1, <3>2, <3>5, <3>6, <3>8 DEF m
  <2> QED BY <2>4, <2>5
<1>5. \/ Current = {} /\ S!Named(t) = {}
      \/ \E c \in DOMAIN Commands : Current = {c} /\ S!Named(t) = {Commands[c]}
  BY <1>0, CommandFound
<1> QED BY <1>2, <1>3, <1>4, <1>5

\* A handler writes its next piece, and asks to be called again unless it is
\* the last one.
LEMMA HandlerSays ==
  ASSUME IInv, NEW does \in Handlers, NEW more \in BOOLEAN, Handler(does, more),
         Len(Commands) # 0
  PROVE  /\ NextPiece(does) \in Nat /\ LastPiece(does) \in Nat
         /\ NextPiece(does) <= LastPiece(does)
         /\ more <=> NextPiece(does) # LastPiece(does)
         /\ more => NextPiece(does)' = NextPiece(does) + 1
         /\ output' = IF does = "status" THEN Report(programStatus)
                      ELSE Piece(does, NextPiece(does))
         /\ IF does = "program" /\ ~more THEN commandMode' = FALSE /\ programStatus' = <<>>
            ELSE UNCHANGED <<commandMode, programStatus>>
<1>0. Len(Commands) \in Nat /\ Pages \in Nat /\ InfoPieces \in Nat \ {0}
  BY Sizes
<1>1. CASE does = "help"
  <2>1. prvHelpCommand(more)
    BY <1>1 DEF Handler
  <2> DEFINE at == IF helpNext = 0 THEN 1 ELSE helpNext
  <2>2. NextPiece(does) = at /\ LastPiece(does) = Len(Commands)
        /\ NextPiece(does)' = IF helpNext' = 0 THEN 1 ELSE helpNext'
    BY <1>1 DEF NextPiece, LastPiece
  <2>3. at \in 1 .. Len(Commands)
    BY <1>0 DEF IInv, TypeOK
  <2>4. /\ more <=> at # Len(Commands)
        /\ helpNext' = IF more THEN at + 1 ELSE 0
        /\ output' = Piece("help", at)
        /\ UNCHANGED <<commandMode, programStatus>>
    BY <2>1 DEF prvHelpCommand
  <2> HIDE DEF at
  <2> QED BY <1>0, <1>1, <2>2, <2>3, <2>4
<1>2. CASE does = "info"
  <2>1. cmd_info(more)
    BY <1>2 DEF Handler
  <2>2. NextPiece(does) = iteration + 1 /\ LastPiece(does) = InfoPieces
        /\ NextPiece(does)' = iteration' + 1
    BY <1>2 DEF NextPiece, LastPiece
  <2>3. iteration \in 0 .. InfoPieces - 1
    BY DEF IInv, TypeOK
  <2>4. /\ more <=> iteration < InfoPieces - 1
        /\ iteration' = IF more THEN iteration + 1 ELSE 0
        /\ output' = Piece("info", iteration + 1)
        /\ UNCHANGED <<commandMode, programStatus>>
    BY <2>1 DEF cmd_info
  <2>5. (more <=> iteration + 1 # InfoPieces) /\ iteration + 1 <= InfoPieces
        /\ iteration + 1 \in Nat
    BY <1>0, <2>3, <2>4
  <2> QED BY <1>0, <1>2, <2>2, <2>4, <2>5
<1>3. CASE does \in {"erase", "program"}
  <2>1. /\ more <=> EraseFrom <= Pages
        /\ erasePage' = IF more THEN EraseFrom + 1 ELSE 0
        /\ output' = Piece(does, EraseFrom)
        /\ IF does = "program" /\ ~more THEN commandMode' = FALSE /\ programStatus' = <<>>
           ELSE UNCHANGED <<commandMode, programStatus>>
    <3>1. CASE does = "erase"
      BY <3>1 DEF Handler, cmd_erase
    <3>2. CASE does = "program"
      <4>1. cmd_program(more)
        BY <3>2 DEF Handler
      <4>2. cmd_erase(more, "program")
        BY <4>1 DEF cmd_program
      <4>3. IF more THEN UNCHANGED <<commandMode, programStatus>>
            ELSE commandMode' = FALSE /\ programStatus' = <<>>
        BY <4>1 DEF cmd_program
      <4> QED BY <3>2, <4>2, <4>3 DEF cmd_erase
    <3> QED BY <1>3, <3>1, <3>2
  <2>2. NextPiece(does) = EraseFrom /\ LastPiece(does) = Pages + 1
        /\ NextPiece(does)' = EraseFrom'
    BY <1>3 DEF NextPiece, LastPiece
  <2>3. EraseFrom \in 1 .. Pages + 1
    BY <1>0 DEF IInv, TypeOK, EraseFrom
  <2>4. EraseFrom' = IF erasePage' = 0 THEN 1 ELSE erasePage'
    BY DEF EraseFrom
  <2>5. does # "status"
    BY <1>3
  <2>6. (more <=> EraseFrom # Pages + 1) /\ EraseFrom \in Nat /\ EraseFrom <= Pages + 1
        /\ EraseFrom + 1 # 0
    BY <1>0, <2>1, <2>3
  <2>7. more => EraseFrom' = EraseFrom + 1
    BY <2>1, <2>4, <2>6
  <2> QED BY <1>0, <2>1, <2>2, <2>5, <2>6, <2>7
<1>4. CASE does = "status"
  <2>1. cmd_status(more)
    BY <1>4 DEF Handler
  <2>2. NextPiece(does) = 1 /\ LastPiece(does) = 1
    BY <1>4 DEF NextPiece, LastPiece
  <2> QED BY <1>4, <2>1, <2>2 DEF cmd_status
<1> QED BY <1>1, <1>2, <1>3, <1>4 DEF Handlers

LEMMA LineWhileAnswering ==
  ASSUME answering, NEW more \in BOOLEAN, Return(more)
  PROVE  UNCHANGED LineInBuffer
<1>1. LineInBuffer = <<>>
  BY DEF LineInBuffer
<1>2. CASE more
  BY <1>1, <1>2 DEF Return, LineInBuffer
<1>3. CASE ~more
  <2>1. commandBufPos' = 0 /\ answering' = FALSE
    BY <1>3 DEF Return
  <2>2. LineInBuffer' = [i \in 1 .. 0 |-> commandBuf'[i - 1]]
    BY <2>1 DEF LineInBuffer
  <2> QED BY <1>1, <2>2
<1> QED BY <1>2, <1>3

LEMMA RefuseSays ==
  ASSUME answering, commandMode, NEW why \in {"unknown", "parameters"}, Refuse(why),
         Remaining = <<Piece(why, 1)>>
  PROVE  S!SayPiece
<1>1. answering' = FALSE /\ output' = Piece(why, 1)
      /\ UNCHANGED <<commandMode, programStatus>> /\ Return(FALSE)
  BY DEF Refuse, Return
<1>2. Remaining' = <<>>
  BY <1>1 DEF Remaining
<1>3. /\ Piece(why, 1).of = why /\ Piece(why, 1) # S!Piece("program", Pages + 1)
      /\ why # "record" /\ why # "status"
  BY DEF Piece, S!Piece
<1>4. UNCHANGED LineInBuffer
  BY <1>1, LineWhileAnswering
<1>5. Remaining # <<>> /\ Head(Remaining) = Piece(why, 1) /\ Tail(Remaining) = <<>>
  BY SingleIs
<1> QED BY <1>1, <1>2, <1>3, <1>4, <1>5 DEF S!SayPiece

LEMMA ProcessCommandSays ==
  ASSUME IInv, FreeRTOS_CLIProcessCommand
  PROVE  S!SayPiece
<1>0. answering /\ commandMode /\ TypeOK
  BY DEF FreeRTOS_CLIProcessCommand, IInv
<1>1. CASE Current = {} /\ Refuse("unknown")
  <2>1. Remaining = <<Piece("unknown", 1)>>
    BY <1>0, <1>1 DEF Remaining
  <2> QED BY <1>0, <1>1, <2>1, RefuseSays
<1>2. ASSUME NEW c \in Current, WrongParameters(c), Refuse("parameters") PROVE S!SayPiece
  <2>1. Current # {} /\ (CHOOSE d \in Current : TRUE) = c
    BY <1>0, TheCommand
  <2>2. Remaining = <<Piece("parameters", 1)>>
    BY <1>0, <1>2, <2>1 DEF Remaining
  <2> QED BY <1>0, <1>2, <2>2, RefuseSays
<1>3. ASSUME NEW c \in Current, ~WrongParameters(c),
             NEW more \in BOOLEAN, Handler(Commands[c].does, more),
             pxCommand' = (IF more THEN c ELSE 0), Return(more)
      PROVE  S!SayPiece
  <2> DEFINE does == Commands[c].does
             a == NextPiece(does)
             b == LastPiece(does)
  <2>1. Current # {} /\ (CHOOSE d \in Current : TRUE) = c
    BY <1>0, TheCommand
  <2>2. c \in DOMAIN Commands /\ does \in Handlers /\ Len(Commands) # 0 /\ c # 0
    BY <1>0, CurrentIs, Sizes
  <2>3. Remaining = PiecesLeft(does)
    BY <1>0, <1>3, <2>1 DEF Remaining
  <2>4. PiecesLeft(does) = [k \in 1 .. b - a + 1 |-> Piece(does, a + k - 1)]
    BY DEF PiecesLeft
  <2>5. /\ a \in Nat /\ b \in Nat /\ a <= b
        /\ more <=> a # b
        /\ more => NextPiece(does)' = a + 1
        /\ output' = IF does = "status" THEN Report(programStatus) ELSE Piece(does, a)
        /\ IF does = "program" /\ ~more THEN commandMode' = FALSE /\ programStatus' = <<>>
           ELSE UNCHANGED <<commandMode, programStatus>>
    <3> HIDE DEF does
    <3> QED BY <1>3, <2>2, HandlerSays DEF does
  <2>6. answering' = more /\ UNCHANGED LineInBuffer
    BY <1>0, <1>3, LineWhileAnswering DEF Return
  <2>7. CASE more
    <3>1. Current' = {c} /\ ~WrongParameters(c)' /\ commandMode' = TRUE
      BY <1>0, <1>3, <2>2, <2>5, <2>7 DEF Current, WrongParameters
    <3>2. (CHOOSE d \in Current' : TRUE) = c
      BY <3>1
    <3>3. Remaining' = PiecesLeft(does)'
      BY <2>6, <2>7, <3>1, <3>2 DEF Remaining
    <3>4. PiecesLeft(does)' = [k \in 1 .. b - (a + 1) + 1 |-> Piece(does, (a + 1) + k - 1)]
      <4>1. LastPiece(does)' = b
        BY DEF LastPiece
      <4> QED BY <2>5, <2>7, <4>1 DEF PiecesLeft
    <3> HIDE DEF a, b, does
    <3>5. /\ Remaining # <<>> /\ Head(Remaining) = Piece(does, a)
          /\ Tail(Remaining) = [k \in 1 .. b - (a + 1) + 1 |-> Piece(does, (a + 1) + k - 1)]
      BY <2>3, <2>4, <2>5, PiecesAre
    <3>6. Tail(Remaining) = Remaining'
      BY <3>3, <3>4, <3>5
    <3>7. Piece(does, a).of = does /\ Piece(does, a).n = a /\ does # "record"
      BY <2>2 DEF Piece, Handlers
    <3>8. Head(Remaining) # S!Piece("program", Pages + 1)
      <4>1. does = "program" => b = Pages + 1
        BY DEF b, LastPiece
      <4> QED BY <2>5, <2>7, <3>5, <3>7, <4>1 DEF S!Piece
    <3>9. UNCHANGED <<commandMode, programStatus>>
      BY <2>5, <2>7
    <3> QED BY <2>5, <2>6, <3>5, <3>6, <3>7, <3>8, <3>9 DEF S!SayPiece, Report, S!Report
  <2>8. CASE ~more
    <3>1. Remaining' = <<>>
      BY <2>6, <2>8 DEF Remaining
    <3>2. does = "program" => b = Pages + 1
      BY DEF LastPiece
    <3> HIDE DEF a, b, does
    <3>3. Remaining # <<>> /\ Head(Remaining) = Piece(does, a) /\ Tail(Remaining) = <<>>
      BY <2>3, <2>4, <2>5, <2>8, PiecesAre
    <3>4. Piece(does, a).of = does /\ does # "record"
      BY <2>2 DEF Piece, Handlers
    <3>5. Head(Remaining) = S!Piece("program", Pages + 1) <=> does = "program"
      BY <2>5, <2>8, <3>2, <3>3 DEF S!Piece, Piece
    <3> QED BY <2>5, <2>6, <2>8, <3>1, <3>3, <3>4, <3>5 DEF S!SayPiece, Report, S!Report
  <2> QED BY <2>7, <2>8
<1> QED BY <1>1, <1>2, <1>3 DEF FreeRTOS_CLIProcessCommand

LEMMA AppendedNote ==
  ASSUME NEW x, NEW y
  PROVE  Append(<<>>, x) = <<x>> /\ Append(<<y>>, x) = <<y, x>>
<1> DEFINE Both == {x, y}
           c == Append(<<y>>, x)
           d == <<y, x>>
<1>1. <<y>> \in Seq(Both) /\ x \in Both /\ Len(<<y>>) = 1
  OBVIOUS
<1>2. c \in Seq(Both) /\ Len(c) = 2 /\ c[1] = y /\ c[2] = x
  BY <1>1
<1>3. d \in Seq(Both) /\ Len(d) = 2 /\ d[1] = y /\ d[2] = x
  BY <1>1
<1> HIDE DEF c, d, Both
<1>4. c = d
  <2>1. \A i \in 1 .. Len(c) : c[i] = d[i]
    BY <1>2, <1>3
  <2> QED BY <1>2, <1>3, <2>1, SameSequence
<1> QED BY <1>4, Joined DEF c, d

LEMMA RecordSays ==
  ASSUME IInv, StatusInv, cli_process
  PROVE  S!TakeRecord
<1>1. answering /\ ~commandMode /\ programStatus = <<>> /\ output' = Nothing /\ Return(FALSE)
      /\ answering' = FALSE
  BY DEF cli_process, Return, StatusInv
<1>2. Remaining = <<Record(Text)>> /\ Remaining' = <<>>
  BY <1>1 DEF Remaining
<1>3. Remaining # <<>> /\ Head(Remaining) = Record(Text)
  BY <1>2, SingleIs
<1>4. Head(Remaining).of = "record" /\ Head(Remaining).text = Text
  BY <1>3 DEF Record
<1>5. UNCHANGED LineInBuffer
  BY <1>1, LineWhileAnswering
<1> DEFINE t == Text
<1>6. \/ Accepts(t) /\ ~Ends(t) /\ UNCHANGED <<commandMode, programStatus>>
      \/ /\ Accepts(t) /\ Ends(t)
         /\ commandMode' = TRUE /\ programStatus' = <<S!Note("Program OK", <<>>)>>
      \/ /\ commandMode' = TRUE
         /\ \E cause \in S!Causes : programStatus' = Append(cause, S!Note("Program Error", t))
  <2>1. CASE Accepted
    <3>1. CASE ~Ends(t)
      BY <2>1, <3>1 DEF Accepted
    <3>2. CASE Ends(t)
      <4>1. commandMode' = TRUE /\ programStatus' = Append(<<>>, Note("Program OK", <<>>))
            /\ Accepts(t)
        BY <1>1, <2>1, <3>2 DEF Accepted
      <4>2. programStatus' = <<S!Note("Program OK", <<>>)>>
        BY <4>1, Joined DEF Note, S!Note
      <4> QED BY <3>2, <4>1, <4>2
    <3> QED BY <3>1, <3>2
  <2>2. CASE Refused
    <3> DEFINE error == Note("Program Error", t)
    <3>1. commandMode' = TRUE
      BY <2>2 DEF Refused
    <3>2. PICK cause \in Causes : programStatus' = <<>> \o cause \o <<error>>
      BY <1>1, <2>2 DEF Refused
    <3>3. \/ cause = <<>> \/ cause = <<Note("Flash error", <<>>)>>
          \/ cause = <<Note("Access out of app", <<>>)>>
      BY DEF Causes
    <3>4. programStatus' = Append(cause, error)
      <4> HIDE DEF error
      <4>1. CASE cause = <<>>
        BY <3>2, <4>1, Joined
      <4>2. ASSUME NEW y, cause = <<y>> PROVE programStatus' = Append(cause, error)
        <5>1. <<>> \o <<y>> \o <<error>> = <<y, error>> /\ Append(<<y>>, error) = <<y, error>>
          BY Joined, AppendedNote
        <5> QED BY <3>2, <4>2, <5>1
      <4> QED BY <3>3, <4>1, <4>2
    <3>5. cause \in S!Causes
      BY <3>3 DEF S!Causes, S!Note, Note
    <3>6. error = S!Note("Program Error", t)
      BY DEF Note, S!Note
    <3> QED BY <3>1, <3>4, <3>5, <3>6
  <2> QED BY <2>1, <2>2 DEF cli_process
<1> HIDE DEF t
<1>7. Head(Remaining).text = t
  BY <1>4 DEF t
<1> QED BY <1>1, <1>2, <1>3, <1>4, <1>5, <1>6, <1>7 DEF S!TakeRecord, S!Nothing, Nothing

\* The same two facts of the state after a step.
LEMMA LineNext == (IInv /\ EditInv /\ ~answering => LineInBuffer = edited)'
<1>1. IInv /\ EditInv /\ ~answering => LineInBuffer = edited
  BY LineIs
<1> QED BY <1>1, PTL

LEMMA AnswerNext ==
  (/\ NamesApart /\ FewWords /\ IInv /\ StatusInv /\ EditInv
   /\ answering /\ pxCommand = 0 /\ helpNext = 0 /\ iteration = 0 /\ erasePage = 0
   => Remaining = S!Answer(Text))'
<1>1. /\ NamesApart /\ FewWords /\ IInv /\ StatusInv /\ EditInv
      /\ answering /\ pxCommand = 0 /\ helpNext = 0 /\ iteration = 0 /\ erasePage = 0
      => Remaining = S!Answer(Text)
  BY AnswerIs
<1> QED BY <1>1, PTL

LEMMA TypeSays ==
  ASSUME IInv, EditInv, EditInv', IInv', NEW ch \in Chars, Type(ch)
  PROVE  S!Type(ch)
<1>1. ~answering /\ ~answering' /\ edited' = Append(edited, ch) /\ CanBe(Append(edited, ch))
      /\ output' = Echo(ch) /\ UNCHANGED <<commandMode, programStatus>>
  BY DEF Type, cliVars
<1>2. LineInBuffer = edited
  BY <1>1, LineIs
<1>3. LineInBuffer' = edited'
  BY <1>1, LineNext
<1>4. Remaining = <<>> /\ Remaining' = <<>>
  BY <1>1 DEF Remaining
<1>5. S!CanBe(Append(LineInBuffer, ch))
  BY <1>1, <1>2 DEF CanBe, S!CanBe
<1> QED BY <1>1, <1>2, <1>3, <1>4, <1>5 DEF S!Type, S!Echo, Echo

LEMMA BackspaceSays ==
  ASSUME IInv, EditInv, EditInv', IInv', Backspace
  PROVE  S!Backspace
<1>1. ~answering /\ ~answering' /\ edited' = SubSeq(edited, 1, Len(edited) - 1)
      /\ output' = Echo("BS") /\ UNCHANGED <<commandMode, programStatus>>
      /\ commandBufPos # 0
  BY DEF Backspace, cliVars
<1>2. LineInBuffer = edited
  BY <1>1, LineIs
<1>3. LineInBuffer' = edited'
  BY <1>1, LineNext
<1>4. Remaining = <<>> /\ Remaining' = <<>>
  BY <1>1 DEF Remaining
<1>5. edited # <<>>
  BY <1>1 DEF IInv, PositionInv
<1> QED BY <1>1, <1>2, <1>3, <1>4, <1>5 DEF S!Backspace, S!Echo, Echo

LEMMA EnterSays ==
  ASSUME NamesApart, FewWords
  PROVE  IInv /\ EditInv /\ IInv' /\ StatusInv' /\ EditInv' /\ CarriageReturn => S!Enter
<1> SUFFICES ASSUME IInv, EditInv, IInv', StatusInv', EditInv', CarriageReturn PROVE S!Enter
  OBVIOUS
<1>1. ~answering /\ answering' /\ edited \in Lines /\ output' = NewLine
      /\ UNCHANGED <<commandMode, programStatus>> /\ UNCHANGED cliVars
  BY DEF CarriageReturn, cliVars
<1>2. LineInBuffer = edited /\ LineInBuffer' = <<>>
  BY <1>1, LineIs DEF LineInBuffer
<1>3. Remaining = <<>>
  BY <1>1 DEF Remaining
<1>4. pxCommand' = 0 /\ helpNext' = 0 /\ iteration' = 0 /\ erasePage' = 0
  BY <1>1 DEF IInv, StaticsInv, cliVars
<1>5. Remaining' = S!Answer(Text)'
  BY <1>1, <1>4, AnswerNext
<1>6. Text' = edited
  BY Entered
<1>7. S!Answer(Text)' = S!Answer(edited)
  BY <1>1, <1>6 DEF S!Answer
<1> QED BY <1>1, <1>2, <1>3, <1>5, <1>7 DEF S!Enter, S!NewLine, NewLine

\* Each step is a step of Shell or leaves it alone.
LEMMA StepShell ==
  ASSUME NamesApart, FewWords
  PROVE  /\ IInv /\ StatusInv /\ EditInv
         /\ IInv' /\ StatusInv' /\ EditInv' /\ [Next]_vars
         => [S!Next]_(S!vars)
<1> SUFFICES ASSUME IInv, StatusInv, EditInv, IInv', StatusInv', EditInv', [Next]_vars
             PROVE  [S!Next]_(S!vars)
  OBVIOUS
<1>1. ASSUME NEW ch \in Chars, Type(ch) PROVE S!Next
  <2>1. S!Type(ch)
    BY <1>1, TypeSays
  <2>2. ch \in S!Chars
    BY DEF Chars, S!Chars
  <2> QED BY <2>1, <2>2 DEF S!Next
<1>2. CASE Backspace
  BY <1>2, BackspaceSays DEF S!Next
<1>3. CASE CarriageReturn
  BY <1>3, EnterSays DEF S!Next
<1>4. CASE FreeRTOS_CLIProcessCommand
  BY <1>4, ProcessCommandSays DEF S!Next, S!Say
<1>5. CASE cli_process
  BY <1>5, RecordSays DEF S!Next, S!Say
<1>6. CASE UNCHANGED vars
  <2>1. UNCHANGED <<commandBuf, commandBufPos, answering, output, commandMode, programStatus,
                    pxCommand, helpNext, iteration, erasePage>>
    BY <1>6 DEF vars, lineVars, cliVars
  <2>2. UNCHANGED <<Text, Current, prvGetNumberOfParameters>>
    BY <2>1 DEF Text, Current, Matches, prvGetNumberOfParameters
  <2>3. UNCHANGED LineInBuffer
    BY <2>1 DEF LineInBuffer
  <2>4. UNCHANGED Remaining
    BY <2>1, <2>2 DEF Remaining, WrongParameters, PiecesLeft, NextPiece, LastPiece, EraseFrom
  <2> QED BY <2>1, <2>3, <2>4 DEF S!vars
<1> QED BY <1>1, <1>2, <1>3, <1>4, <1>5, <1>6 DEF Next, Answer

LEMMA InitShell == Init => EditInv /\ S!Init
<1> SUFFICES ASSUME Init PROVE EditInv /\ S!Init OBVIOUS
<1>1. EditInv
  BY DEF Init, EditInv
<1>2. LineInBuffer = <<>>
  BY DEF Init, LineInBuffer
<1>3. Remaining = <<>>
  BY DEF Init, Remaining
<1> QED BY <1>1, <1>2, <1>3 DEF Init, S!Init, S!Nothing, Nothing, S!Note, Note

\* The console is Shell, for every size of the buffer, every set of lines that
\* fit into it and every list of commands whose names are words, no two the
\* same, as long as no line has more words than an int8_t counts: it reads the
\* line the user sees, whatever longer lines or the stack left behind it in
\* command_buf, and answers it whole and once.
THEOREM ShellImplemented == NamesApart /\ FewWords => (Spec => ImplementsShell)
<1> SUFFICES ASSUME NamesApart, FewWords PROVE Spec => ImplementsShell
  OBVIOUS
<1>1. Init => StatusInv
  BY DEF Init, StatusInv, Verdicts
<1>2. IInv /\ StatusInv /\ [Next]_vars => StatusInv'
  BY StatusStep
<1>3. IInv /\ EditInv /\ [Next]_vars => EditInv'
  BY EditStep
<1>4. /\ IInv /\ StatusInv /\ EditInv
      /\ IInv' /\ StatusInv' /\ EditInv' /\ [Next]_vars
      => [S!Next]_(S!vars)
  BY StepShell
<1> QED BY <1>1, <1>2, <1>3, <1>4, InitShell, Invariance, PTL DEF Spec, ImplementsShell, S!Spec
=============================================================================
