----------------------------- MODULE Procedure -----------------------------
(***************************************************************************)
(* The programming procedure of the README's "How to use", as an operator  *)
(* with a serial terminal follows it: give the command program, send the   *)
(* file line by line, ask for the status; if something went wrong on the   *)
(* way, start over.  The bootloader is Bootloader with a flash that works  *)
(* and no power cycle; what may go wrong is that the line of one record is *)
(* damaged on its way, at most MaxDamaged times.                           *)
(***************************************************************************)
EXTENDS Bootloader

CONSTANTS
  File,        \* the lines of the encrypted file, in order
  MaxTries,    \* bound: times the procedure is followed
  MaxDamaged   \* bound: lines damaged in all

ASSUME ProcedureAssumption ==
  /\ File \in Seq(Lines) /\ {TextLine("bad"), TextLine("program")} \subseteq Lines
  /\ MaxTries \in Nat /\ MaxDamaged \in Nat
  /\ FlashFaults = {} /\ ~MallocMayFail

VARIABLES
  phase,    \* of the operator: "ready", "prompt", "sending", "asked"
  next,     \* index in File of the next line to send
  tries,    \* times the procedure was started
  damaged,  \* lines damaged so far
  intact,   \* whether this try has sent every line undamaged
  answer    \* what the last status command printed

opVars  == <<phase, next, tries, damaged, intact, answer>>
allVars == <<vars, opVars>>

ProcInit ==
  /\ Init /\ running = "boot"
  /\ phase = "ready" /\ next = 1 /\ tries = 0 /\ damaged = 0
  /\ intact = TRUE /\ answer = "none"

\* A line reaches cli_process; in command mode one that names neither erase
\* nor program has no effect on the bootloader, and in program mode a start
\* address record has none.
Deliver(l) ==
  \/ Command(l)
  \/ HexLine(l)
  \/ /\ Idle
     /\ \/ mode = "command" /\ l.kind \notin {"erase", "program"}
        \/ mode = "program" /\ l.kind = "start"
     /\ UNCHANGED vars

\* cmd_status prints program_status; in program mode the word is read as a
\* hex line instead, and nothing is printed.
cmd_status == IF mode = "command" THEN status ELSE "none"

GiveProgram ==
  /\ phase \in {"ready", "asked"} /\ tries < MaxTries
  /\ Deliver(TextLine("program"))
  /\ phase' = "prompt" /\ next' = 1 /\ tries' = tries + 1
  /\ intact' = TRUE /\ answer' = "none"
  /\ UNCHANGED damaged

SeePrompt ==
  /\ phase = "prompt" /\ Idle /\ mode = "program"
  /\ phase' = "sending"
  /\ UNCHANGED <<vars, next, tries, damaged, intact, answer>>

SendLine ==
  /\ phase = "sending" /\ next <= Len(File)
  /\ \/ Deliver(File[next]) /\ UNCHANGED <<damaged, intact>>
     \/ /\ damaged < MaxDamaged
        /\ Deliver(TextLine("bad"))
        /\ damaged' = damaged + 1 /\ intact' = FALSE
  /\ next' = next + 1
  /\ UNCHANGED <<phase, tries, answer>>

AskStatus ==
  /\ phase = "sending" /\ next > Len(File)
  /\ answer' = cmd_status
  /\ Deliver(TextLine("bad"))
  /\ phase' = "asked"
  /\ UNCHANGED <<next, tries, damaged, intact>>

Operator == GiveProgram \/ SeePrompt \/ SendLine \/ AskStatus

ProcNext ==
  \/ Operator
  \/ Work /\ UNCHANGED opVars

\* The operator goes on with the procedure, and the core with its work.
ProcSpec == ProcInit /\ [][ProcNext]_allVars /\ WF_allVars(Operator) /\ WF_allVars(Work /\ UNCHANGED opVars)

-----------------------------------------------------------------------------
(***************************************************************************)
(* Which files the procedure is for.                                       *)
(***************************************************************************)

\* No line names a command, and the text that ends a session comes last.
HexFile ==
  \A i \in 1 .. Len(File) :
    /\ File[i].kind \notin {"erase", "program"}
    /\ File[i].kind = "eof" /\ File[i].canon => i = Len(File)

\* The address offset that stands when line i is read in a session that
\* began without one, and the addresses of a data record.
OffsetsBefore(i) == {j \in 1 .. i - 1 : File[j].kind = "offset"}
LastOffset(i)    == CHOOSE j \in OffsetsBefore(i) : \A k \in OffsetsBefore(i) : k <= j
OffsetAt(i)      == IF OffsetsBefore(i) = {} THEN 0 ELSE File[LastOffset(i)].addr
StartOf(i)       == (OffsetAt(i) + File[i].addr) % AddrSpace
EndOf(i)         == StartOf(i) + Len(File[i].data)
DataLines        == {i \in 1 .. Len(File) : File[i].kind = "data"}

\* Whole half-words in ascending order inside the application, every address
\* independent of what came before the file, and one end-of-file record as
\* the parser expects it.
WellMade ==
  /\ Len(File) > 0 /\ File[Len(File)] = EofLine(TRUE)
  /\ \A i \in 1 .. Len(File) - 1 : File[i].kind \in {"data", "offset", "start"}
  /\ \A i \in DataLines :
       /\ ~IsOdd(StartOf(i)) /\ ~IsOdd(EndOf(i))
       /\ AppFirst <= StartOf(i) /\ EndOf(i) <= AppLast + 1
       /\ OffsetsBefore(i) = {} => OffsetsBefore(Len(File)) = {}
  /\ \A i, j \in DataLines : i < j => EndOf(i) <= StartOf(j)

-----------------------------------------------------------------------------
\* README: "When file sent check flashing status by command status", which
\* answers "Program OK!".  A try whose lines all arrived undamaged gets that
\* answer, whatever happened in the tries before it.
FileSentStatusOk == phase = "asked" /\ intact => answer = "ok"

\* A try that lost a line to damage is never reported as a success, nor left
\* without an answer: the lines after the damaged one reach the command
\* interpreter, which must not take any of them for a command.
DamageReported == phase = "asked" /\ ~intact => answer = "error"

\* Every try comes to an answer.
TryAnswered == (phase = "prompt") ~> (phase = "asked")
=============================================================================
