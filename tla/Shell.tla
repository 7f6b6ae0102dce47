-------------------------------- MODULE Shell --------------------------------
(***************************************************************************)
(* What the console promises: the user edits a line, and a complete line   *)
(* gets its whole answer, piece by piece, before the next character is     *)
(* looked at.  Console implements it.                                      *)
(***************************************************************************)
EXTENDS ConsoleText, FiniteSets

VARIABLES
  line,         \* the line being edited, as the user sees it
  said,         \* what was last written to the serial line
  todo,         \* the pieces of the answer still to be written
  commandMode,  \* FALSE while a file is being sent
  report        \* what the status command would say

vars == <<line, said, todo, commandMode, report>>

\* The command a line names: at most one.
Named(text) ==
  {c \in {Commands[i] : i \in DOMAIN Commands} :
     \/ text = c.name
     \/ \E n \in 1 .. Len(text) - 1 : SubSeq(text, 1, n) = c.name /\ text[n + 1] = Space}

Words(text) ==
  Cardinality({i \in DOMAIN text : text[i] # Space /\ (i = 1 \/ text[i - 1] = Space)})

PieceCount ==
  [help |-> Len(Commands), info |-> InfoPieces, erase |-> Pages + 1,
   program |-> Pages + 1, status |-> 1]

Answer(text) ==
  IF ~commandMode THEN <<Record(text)>>
  ELSE IF Named(text) = {} THEN <<Piece("unknown", 1)>>
  ELSE LET c == CHOOSE c \in Named(text) : TRUE
       IN  IF Words(text) - 1 # c.params THEN <<Piece("parameters", 1)>>
           ELSE [k \in 1 .. PieceCount[c.does] |-> Piece(c.does, k)]

Init ==
  /\ line = <<>> /\ said = Nothing /\ todo = <<>>
  /\ commandMode = TRUE /\ report = <<Note("NA", <<>>)>>

Type(ch) ==
  /\ todo = <<>> /\ CanBe(Append(line, ch))
  /\ line' = Append(line, ch) /\ said' = Echo(ch)
  /\ UNCHANGED <<todo, commandMode, report>>

Backspace ==
  /\ todo = <<>> /\ line # <<>>
  /\ line' = SubSeq(line, 1, Len(line) - 1) /\ said' = Echo("BS")
  /\ UNCHANGED <<todo, commandMode, report>>

Enter ==
  /\ todo = <<>> /\ line \in Lines
  /\ todo' = Answer(line) /\ line' = <<>> /\ said' = NewLine
  /\ UNCHANGED <<commandMode, report>>

\* A piece of a command's answer; the last piece of program opens a session.
SayPiece ==
  /\ todo # <<>> /\ Head(todo).of # "record"
  /\ todo' = Tail(todo)
  /\ said' = IF Head(todo).of = "status" THEN Report(report) ELSE Head(todo)
  /\ IF Head(todo) = Piece("program", Pages + 1)
     THEN commandMode' = FALSE /\ report' = <<>>
     ELSE UNCHANGED <<commandMode, report>>
  /\ UNCHANGED line

\* A record is answered with an empty string.  The session goes on, or it
\* ends and the report says how.
TakeRecord ==
  /\ todo # <<>> /\ Head(todo).of = "record"
  /\ todo' = <<>> /\ said' = Nothing
  /\ LET text == Head(todo).text
     IN  \/ Accepts(text) /\ ~Ends(text) /\ UNCHANGED <<commandMode, report>>
         \/ /\ Accepts(text) /\ Ends(text)
            /\ commandMode' = TRUE /\ report' = <<Note("Program OK", <<>>)>>
         \/ /\ commandMode' = TRUE
            /\ \E cause \in Causes : report' = Append(cause, Note("Program Error", text))
  /\ UNCHANGED line

Say  == SayPiece \/ TakeRecord
Next == (\E ch \in Chars : Type(ch)) \/ Backspace \/ Enter \/ Say

Spec == Init /\ [][Next]_vars

\* An answer that was begun is finished.
AnswerFinished == todo # <<>> ~> todo = <<>>
=============================================================================
