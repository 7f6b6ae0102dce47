-------------------------- MODULE Procedure_proofs --------------------------
(***************************************************************************)
(* Proofs about Procedure, for every layout, every key stream, every       *)
(* number of tries and damaged lines.  A step of the procedure is a step   *)
(* of Bootloader, so SInv holds in it; TryInv says where a try stands and  *)
(* settles DamageReported for every HexFile.  FileInv says where the bytes *)
(* of a WellMade file are: always above what was fed and inside the        *)
(* application, so that by SInv the flash takes every half-word of them,   *)
(* and FileSentStatusOk follows.                                           *)
(***************************************************************************)
EXTENDS Procedure, Session_proofs, WellFoundedInduction

(***************************************************************************)
(* Where a try stands, whatever the file holds.                            *)
(***************************************************************************)
EndOfFile == line.kind = "eof" /\ line.canon

TryInv ==
  /\ running = "boot"
  /\ phase \in {"ready", "prompt", "sending", "asked"}
  /\ phase \in {"ready", "asked"} => mode = "command" /\ job = "none"
  /\ phase = "prompt" =>
       /\ intact /\ next = 1
       /\ job = "program" \/ (job = "none" /\ mode = "program" /\ line = NoLine)
  /\ phase = "sending" =>
       /\ job = "none" /\ next \in 1 .. Len(File) + 1
       /\ ~intact => mode = "command" /\ status = "error"
       /\ mode = "command" /\ next <= Len(File) => status = "error"
       /\ EndOfFile => next = Len(File) + 1
  /\ DamageReported

(***************************************************************************)
(* The steps.                                                              *)
(***************************************************************************)
LEMMA ProcedureTypes ==
  /\ Len(File) \in Nat /\ \A i \in 1 .. Len(File) : File[i] \in Lines /\ File[i] \in Line
  /\ TextLine("bad") \in Lines /\ TextLine("program") \in Lines
  /\ FaultChoices = {"none"} /\ ~MallocMayFail
BY ProcedureAssumption, ConstantTypes, ElementOfSeq, LenProperties DEF FaultChoices

\* What a line that reaches the bootloader can bring about.
Ignored(l) ==
  /\ \/ mode = "command" /\ l.kind \notin {"erase", "program"}
     \/ mode = "program" /\ l.kind = "start"
  /\ UNCHANGED vars
Taken(l) ==
  /\ mode = "program" /\ running' = running
  /\ FeedData(l) \/ FeedEof(l) \/ FeedOffset(l) \/ Reject(l)

LEMMA Delivered ==
  ASSUME NEW l, Deliver(l)
  PROVE  Idle /\ (Command(l) \/ Ignored(l) \/ Taken(l))
BY DEF Deliver, Ignored, Taken, Command, HexLine

LEMMA DeliverIsStep == ASSUME NEW l \in Lines, Deliver(l) PROVE [Next]_vars
BY DEF Deliver, Next

LEMMA ProcStepIsStep == ASSUME TryInv, [ProcNext]_allVars PROVE [Next]_vars
<1>1. CASE GiveProgram
  BY <1>1, ProcedureTypes, DeliverIsStep DEF GiveProgram
<1>2. CASE SeePrompt
  BY <1>2 DEF SeePrompt
<1>3. CASE SendLine
  <2>1. phase = "sending" /\ next \in 1 .. Len(File)
    BY <1>3, ProcedureTypes DEF SendLine, TryInv
  <2> QED BY <1>3, <2>1, ProcedureTypes, DeliverIsStep DEF SendLine
<1>4. CASE AskStatus
  BY <1>4, ProcedureTypes, DeliverIsStep DEF AskStatus
<1>5. CASE Work
  BY <1>5 DEF Next
<1>6. CASE UNCHANGED allVars
  BY <1>6 DEF allVars
<1> QED BY <1>1, <1>2, <1>3, <1>4, <1>5, <1>6 DEF ProcNext, Operator

(***************************************************************************)
(* A try whose lines were damaged.                                         *)
(***************************************************************************)
LEMMA InitTry == ProcInit => SInv /\ TryInv
BY InitSession DEF ProcInit, Init, TryInv, DamageReported

\* The line that ends a session is not among those a try has yet to send.
LEMMA SendTry ==
  ASSUME SInv, TryInv, HexFile, SendLine
  PROVE  TryInv'
<1>1. /\ phase = "sending" /\ phase' = phase /\ next \in 1 .. Len(File) /\ next' = next + 1
      /\ next' \in 1 .. Len(File) + 1 /\ (next' <= Len(File) => next <= Len(File))
      /\ running = "boot" /\ job = "none"
  BY ProcedureTypes DEF SendLine, TryInv
<1>2. \E l \in Lines : /\ Deliver(l) /\ l.kind \notin {"erase", "program"}
                       /\ l.kind = "eof" /\ l.canon => next' = Len(File) + 1
                       /\ intact' # intact => l.kind = "bad"
                       /\ ~intact' => ~intact \/ l.kind = "bad"
  <2>1. CASE Deliver(File[next]) /\ UNCHANGED <<damaged, intact>>
    BY <1>1, <2>1, ProcedureTypes DEF HexFile
  <2>2. CASE Deliver(TextLine("bad"))
    BY <2>2, ProcedureTypes DEF TextLine
  <2> QED BY <2>1, <2>2 DEF SendLine
<1>3. PICK l \in Lines : /\ Deliver(l) /\ l.kind \notin {"erase", "program"}
                         /\ l.kind = "eof" /\ l.canon => next' = Len(File) + 1
                         /\ ~intact' => ~intact \/ l.kind = "bad"
  BY <1>2
<1>4. Idle /\ (Command(l) \/ Ignored(l) \/ Taken(l)) /\ line.kind # "eof"
  <2>1. Deliver(l)
    BY <1>3
  <2>2. Idle /\ (Command(l) \/ Ignored(l) \/ Taken(l))
    BY <2>1, Delivered
  <2> QED BY <2>2, ConstantTypes DEF Idle
<1>5. ~intact => mode = "command" /\ status = "error"
  BY <1>1 DEF TryInv
<1>6. mode = "command" => status = "error"
  BY <1>1 DEF TryInv
<1> SUFFICES /\ job' = "none" /\ running' = "boot"
             /\ ~intact' => mode' = "command" /\ status' = "error"
             /\ mode' = "command" => status' = "error"
             /\ EndOfFile' => next' = Len(File) + 1
  BY <1>1 DEF TryInv, DamageReported
<1>7. CASE Ignored(l)
  <2>1. UNCHANGED <<job, running, mode, status, line>> /\ (l.kind = "bad" => mode = "command")
    BY <1>7 DEF Ignored, vars, cliVars, feedVars
  <2> QED BY <1>1, <1>3, <1>4, <1>5, <1>6, <2>1 DEF EndOfFile
<1>8. CASE Taken(l) /\ Reject(l)
  <2>1. mode' = "command" /\ status' = "error" /\ job' = job /\ running' = running /\ line' = NoLine
    BY <1>8 DEF Taken, Reject, EndSession
  <2> QED BY <1>1, <2>1, ConstantTypes DEF EndOfFile
<1>9. CASE Taken(l) /\ (FeedData(l) \/ FeedEof(l) \/ FeedOffset(l))
  <2>1. /\ mode = "program" /\ UNCHANGED <<mode, job, running>> /\ l.kind # "bad"
        /\ line' = l \/ line' = line
    BY <1>9 DEF Taken, FeedData, FeedEof, FeedOffset, cliVars, feedVars
  <2> QED BY <1>1, <1>3, <1>4, <1>5, <2>1 DEF EndOfFile
<1> QED BY <1>3, <1>4, <1>7, <1>8, <1>9 DEF Command, Taken

LEMMA WorkTry ==
  ASSUME SInv, TryInv, Work, UNCHANGED opVars
  PROVE  TryInv'
<1> USE DEF opVars
<1>1. CASE cmd_erase \/ cmd_program
  <2>1. phase = "prompt" /\ job = "program" /\ mode = "command" /\ line = NoLine
    BY <1>1 DEF cmd_erase, cmd_program, TryInv, SInv, IInv, PhaseInv
  <2>2. CASE ErasePageStep
    BY <2>1, <2>2 DEF ErasePageStep, TryInv, DamageReported, feedVars
  <2>3. CASE FinishProgram
    BY <2>1, <2>3 DEF FinishProgram, EraseDone, TryInv, DamageReported, feedVars
  <2> QED BY <1>1, <2>1, <2>2, <2>3 DEF cmd_erase, cmd_program
<1>2. CASE FeedByte \/ WriteWord \/ EndLine
  <2>1. line # NoLine /\ mode = "program"
    BY <1>2, HeadWord DEF FeedByte, WriteWord, EndLine, SInv, IInv, PhaseInv
  <2>2. phase = "sending" /\ intact /\ job = "none" /\ next \in 1 .. Len(File) + 1
    BY <2>1 DEF TryInv, SInv, IInv, PhaseInv
  <2>3. CASE UNCHANGED <<mode, job, running, line>>
    BY <2>1, <2>2, <2>3 DEF TryInv, DamageReported, EndOfFile
  <2>4. CASE mode' = "command" /\ status' = "error" /\ UNCHANGED <<job, running>> /\ line' = NoLine
    BY <2>2, <2>4, ConstantTypes DEF TryInv, DamageReported, EndOfFile
  <2>5. CASE EndLine
    <3>1. UNCHANGED <<job, running>> /\ line' = NoLine
      BY <2>5 DEF EndLine, EndSession
    <3>2. mode' = "command" => next = Len(File) + 1
      BY <2>1, <2>2, <2>5 DEF EndLine, TryInv, EndOfFile
    <3>3. next = Len(File) + 1 => ~ (next <= Len(File))
      BY ProcedureTypes
    <3> QED BY <2>2, <3>1, <3>2, <3>3, ConstantTypes DEF TryInv, DamageReported, EndOfFile
  <2> QED BY <1>2, <2>3, <2>4, <2>5 DEF FeedByte, WriteWord, EndSession, cliVars
<1> QED BY <1>1, <1>2 DEF Work

LEMMA StepTry == SInv /\ TryInv /\ HexFile /\ [ProcNext]_allVars => TryInv'
<1> SUFFICES ASSUME SInv, TryInv, HexFile, [ProcNext]_allVars PROVE TryInv' OBVIOUS
<1>1. CASE GiveProgram
  <2>1. phase' = "prompt" /\ next' = 1 /\ intact' /\ mode = "command"
    BY <1>1 DEF GiveProgram, TryInv
  <2>2. Command(TextLine("program"))
    BY <1>1, <2>1, Delivered DEF GiveProgram, Ignored, Taken, TextLine
  <2>3. job' = "program" /\ running' = running
    BY <2>2 DEF Command, TextLine
  <2> QED BY <2>1, <2>3 DEF TryInv, DamageReported
<1>2. CASE SeePrompt
  <2>1. phase = "prompt" /\ Idle /\ mode = "program" /\ phase' = "sending" /\ intact
        /\ next = 1 /\ UNCHANGED <<vars, next, intact>>
    BY <1>2 DEF SeePrompt, TryInv
  <2>2. 1 \in 1 .. Len(File) + 1
    BY ProcedureTypes
  <2> QED BY <2>1, <2>2, ConstantTypes
          DEF vars, cliVars, feedVars, Idle, TryInv, DamageReported, EndOfFile
<1>3. CASE SendLine
  BY <1>3, SendTry
<1>4. CASE AskStatus
  <2>1. /\ phase = "sending" /\ next > Len(File) /\ answer' = cmd_status /\ phase' = "asked"
        /\ intact' = intact /\ Deliver(TextLine("bad")) /\ job = "none" /\ running = "boot"
        /\ ~intact => mode = "command" /\ status = "error"
    BY <1>4 DEF AskStatus, TryInv
  <2>2. mode' = "command" /\ job' = "none" /\ running' = "boot"
    <3>1. CASE Ignored(TextLine("bad"))
      BY <2>1, <3>1 DEF Ignored, TextLine, vars, cliVars
    <3>2. CASE Reject(TextLine("bad")) /\ Taken(TextLine("bad"))
      BY <2>1, <3>2 DEF Reject, EndSession, Taken
    <3> QED BY <2>1, <3>1, <3>2, Delivered
            DEF TextLine, Command, Taken, FeedData, FeedEof, FeedOffset
  <2> QED BY <2>1, <2>2 DEF TryInv, DamageReported, cmd_status
<1>5. CASE Work /\ UNCHANGED opVars
  BY <1>5, WorkTry
<1>6. CASE UNCHANGED allVars
  BY <1>6 DEF allVars, opVars, vars, cliVars, feedVars, TryInv, DamageReported, EndOfFile
<1> QED BY <1>1, <1>2, <1>3, <1>4, <1>5, <1>6 DEF ProcNext, Operator

\* A try that lost a line to damage is answered "error", for every file whose
\* lines cannot be taken for commands and whose end-of-file record comes last.
THEOREM DamageReportedHolds == HexFile => (ProcSpec => []DamageReported)
<1> SUFFICES ASSUME HexFile PROVE ProcSpec => []DamageReported
  OBVIOUS
<1>1. SInv /\ TryInv /\ [ProcNext]_allVars => (SInv /\ TryInv)'
  BY StepTry, StepSession, ProcStepIsStep
<1>2. TryInv => DamageReported
  BY DEF TryInv
<1> QED BY <1>1, <1>2, InitTry, PTL DEF ProcSpec
(***************************************************************************)
(* Where the bytes of a well-made file are.                                *)
(***************************************************************************)
FedBelow(a) == \A x \in Addr : image[x] # NoByte => x < a

\* Between two lines.
BetweenLines ==
  /\ next <= Len(File)
  /\ \A i \in DataLines : i >= next => FedBelow(StartOf(i))

\* In a line.
InData ==
  /\ next - 1 \in DataLines /\ line = File[next - 1]
  /\ recAddr >= StartOf(next - 1) /\ recAddr + Len(rec) = EndOf(next - 1)
  /\ FedBelow(recAddr)
  /\ even.valid <=> IsOdd(recAddr)

InEof == next = Len(File) + 1 /\ line = EofLine(TRUE) /\ ~even.valid /\ words = <<>>

\* A session that has come to line next.
Receiving ==
  /\ mode = "program" /\ clean /\ orderly
  /\ \/ line = NoLine /\ BetweenLines
     \/ line # NoLine /\ (InData \/ InEof)
  /\ OffsetsBefore(next) # {} /\ ~InEof => addrOffs = OffsetAt(next)

FileInv ==
  /\ line = NoLine => ~even.valid
  /\ OffsetsBefore(Len(File)) = {} => addrOffs = 0
  /\ phase = "prompt" /\ job = "program" => StartsErase \/ clean
  /\ phase = "prompt" /\ job = "none" => clean /\ orderly /\ image = NoImage
  /\ phase = "sending" /\ intact =>
       \/ mode = "command" /\ next = Len(File) + 1 /\ status = "ok"
       \/ Receiving
  /\ FileSentStatusOk

(***************************************************************************)
(* The addresses of a file.                                                *)
(***************************************************************************)
LEMMA Least ==
  ASSUME NEW T, T \subseteq Nat, T # {}
  PROVE  \E x \in T : \A y \in T : x <= y
<1>1. OpToRel(<, Nat) = {p \in Nat \X Nat : p[1] < p[2]}
  BY Zenon DEF OpToRel
<1>2. PICK x \in T : \A y \in T : ~ (<<y, x>> \in OpToRel(<, Nat))
  BY NatLessThanWellFounded, WFMin, Zenon
<1>3. ASSUME NEW y \in T PROVE x <= y
  <2>1. x \in Nat /\ y \in Nat
    OBVIOUS
  <2>2. ~ (<<y, x>> \in {p \in Nat \X Nat : p[1] < p[2]})
    BY <1>1, <1>2, Zenon
  <2>3. ~ (y < x)
    BY <2>1, <2>2, Zenon
  <2> QED BY <2>1, <2>3
<1> QED BY <1>3

LEMMA LastOffsetIs ==
  ASSUME NEW i \in 1 .. Len(File), OffsetsBefore(i) # {}
  PROVE  LastOffset(i) \in OffsetsBefore(i) /\ \A k \in OffsetsBefore(i) : k <= LastOffset(i)
<1> DEFINE S == OffsetsBefore(i)
           T == {i - j : j \in S}
<1>0. S \subseteq 1 .. i - 1 /\ i \in Nat
  BY ProcedureTypes DEF OffsetsBefore
<1> HIDE DEF S
<1>1. T \subseteq Nat
  BY <1>0
<1>2. T # {}
  BY DEF S
<1> HIDE DEF T
<1>3. PICK x \in T : \A y \in T : x <= y
  BY <1>1, <1>2, Least
<1>4. PICK j \in S : x = i - j
  BY DEF T
<1>5. ASSUME NEW k \in S PROVE k <= j
  <2>1. i - k \in T
    BY DEF T
  <2>2. i - j <= i - k
    BY <1>3, <1>4, <2>1
  <2> QED BY <1>0, <2>2
<1>6. \E l \in S : \A k \in S : k <= l
  BY <1>5
<1> QED BY <1>6 DEF LastOffset, S

\* Only an offset record changes the offset.
LEMMA NextOffset ==
  ASSUME NEW i \in 1 .. Len(File) - 1
  PROVE  /\ i + 1 \in 1 .. Len(File) /\ i \in 1 .. Len(File)
         /\ File[i].kind = "offset" =>
              /\ OffsetsBefore(i + 1) # {} /\ OffsetAt(i + 1) = File[i].addr
              /\ OffsetsBefore(Len(File)) # {}
         /\ File[i].kind # "offset" =>
              /\ OffsetsBefore(i + 1) = OffsetsBefore(i) /\ OffsetAt(i + 1) = OffsetAt(i)
<1>1. i + 1 \in 1 .. Len(File) /\ i \in 1 .. Len(File) /\ i \in 1 .. (i + 1) - 1
      /\ (i + 1) - 1 = i /\ 1 .. i = (1 .. i - 1) \cup {i} /\ i \in 1 .. Len(File) - 1
  BY ProcedureTypes
<1>2. ASSUME File[i].kind = "offset"
      PROVE  /\ OffsetsBefore(i + 1) # {} /\ OffsetAt(i + 1) = File[i].addr
             /\ OffsetsBefore(Len(File)) # {}
  <2>1. i \in OffsetsBefore(i + 1) /\ i \in OffsetsBefore(Len(File))
    BY <1>1, <1>2 DEF OffsetsBefore
  <2>2. i <= LastOffset(i + 1) /\ LastOffset(i + 1) \in OffsetsBefore(i + 1)
    BY <1>1, <2>1, LastOffsetIs
  <2>3. LastOffset(i + 1) \in 1 .. i
    BY <1>1, <2>2 DEF OffsetsBefore
  <2>4. LastOffset(i + 1) = i
    BY <2>2, <2>3
  <2> QED BY <2>1, <2>4 DEF OffsetAt
<1>3. ASSUME File[i].kind # "offset"
      PROVE  OffsetsBefore(i + 1) = OffsetsBefore(i) /\ OffsetAt(i + 1) = OffsetAt(i)
  <2>1. OffsetsBefore(i + 1) = OffsetsBefore(i)
    BY <1>1, <1>3 DEF OffsetsBefore
  <2>2. LastOffset(i + 1) = LastOffset(i)
    BY <2>1, Zenon DEF LastOffset
  <2> QED BY <2>1, <2>2 DEF OffsetAt
<1> QED BY <1>1, <1>2, <1>3

LEMMA OffsetType ==
  ASSUME NEW i \in 1 .. Len(File)
  PROVE  OffsetAt(i) \in Addr
<1>1. CASE OffsetsBefore(i) = {}
  BY <1>1, ConstantTypes DEF OffsetAt
<1>2. CASE OffsetsBefore(i) # {}
  <2>1. LastOffset(i) \in 1 .. i - 1
    BY <1>2, LastOffsetIs DEF OffsetsBefore
  <2>2. LastOffset(i) \in 1 .. Len(File)
    BY <2>1, ProcedureTypes
  <2>3. File[LastOffset(i)] \in Line
    BY <2>2, ProcedureTypes
  <2> QED BY <1>2, <2>3, ConstantTypes DEF OffsetAt
<1> QED BY <1>1, <1>2

\* The addresses of a data record.
LEMMA DataLineIs ==
  ASSUME WellMade, NEW i \in DataLines
  PROVE  /\ i \in 1 .. Len(File) - 1 /\ File[i] \in Lines /\ File[i].kind = "data"
         /\ File[i].data \in Seq(Byte) /\ Len(File[i].data) \in Nat
         /\ StartOf(i) \in Nat /\ StartOf(i) \in Addr /\ EndOf(i) \in Nat
         /\ EndOf(i) = StartOf(i) + Len(File[i].data)
         /\ ~IsOdd(StartOf(i)) /\ ~IsOdd(EndOf(i))
         /\ AppFirst <= StartOf(i) /\ EndOf(i) <= AppLast + 1
<1>1. i \in 1 .. Len(File) /\ File[i].kind = "data"
  BY DEF DataLines
<1>2. i # Len(File)
  BY <1>1 DEF WellMade, EofLine
<1>3. i \in 1 .. Len(File) - 1
  BY <1>1, <1>2, ProcedureTypes
<1>4. File[i] \in Lines /\ File[i] \in Line
  BY <1>1, ProcedureTypes
<1>5. File[i].data \in Seq(Byte) /\ File[i].addr \in Addr /\ OffsetAt(i) \in Addr
  BY <1>1, <1>4, ConstantTypes, OffsetType
<1>6. Len(File[i].data) \in Nat
  BY <1>5, LenProperties
<1>7. OffsetAt(i) + File[i].addr \in Nat
  BY <1>5 DEF Addr
<1>8. StartOf(i) \in Addr
  BY <1>7, AddrWraps DEF StartOf
<1>9. StartOf(i) \in Nat
  BY <1>8 DEF Addr
<1>10. EndOf(i) = StartOf(i) + Len(File[i].data) /\ EndOf(i) \in Nat
  BY <1>6, <1>9 DEF EndOf
<1>11. /\ ~IsOdd(StartOf(i)) /\ ~IsOdd(EndOf(i))
       /\ AppFirst <= StartOf(i) /\ EndOf(i) <= AppLast + 1
  BY DEF WellMade
<1> QED BY <1>1, <1>3, <1>4, <1>5, <1>6, <1>8, <1>9, <1>10, <1>11

LEMMA MadeIsHex == WellMade => HexFile
<1> SUFFICES ASSUME WellMade, NEW i \in 1 .. Len(File)
             PROVE  /\ File[i].kind \notin {"erase", "program"}
                    /\ File[i].kind = "eof" /\ File[i].canon => i = Len(File)
  BY DEF HexFile
<1>1. CASE i = Len(File)
  BY <1>1 DEF WellMade, EofLine
<1>2. CASE i # Len(File)
  <2>1. i \in 1 .. Len(File) - 1
    BY <1>2, ProcedureTypes
  <2> QED BY <2>1 DEF WellMade
<1> QED BY <1>1, <1>2

(***************************************************************************)
(* A try whose lines all arrive.                                           *)
(***************************************************************************)
LEMMA InitFile == ProcInit => FileInv
BY DEF ProcInit, Init, NoEven, FileInv, FileSentStatusOk

\* Sending one line of the file.
LEMMA SendLineOfFile ==
  ASSUME SInv, FileInv, WellMade, next \in 1 .. Len(File), mode = "program",
         Receiving, Deliver(File[next]), next' = next + 1
  PROVE  /\ Receiving'
         /\ line' = NoLine => ~even'.valid
         /\ OffsetsBefore(Len(File)) = {} => addrOffs' = 0
<1> DEFINE l == File[next]
<1>1. /\ l \in Lines /\ l \in Line /\ l.kind \notin {"erase", "program", "bad"}
      /\ next # Len(File) => next \in 1 .. Len(File) - 1
                             /\ l.kind \in {"data", "offset", "start"}
      /\ next = Len(File) => l = EofLine(TRUE)
      /\ l # NoLine /\ next' - 1 = next
  <2>1. next # Len(File) => next \in 1 .. Len(File) - 1
    BY ProcedureTypes
  <2> QED BY <2>1, ProcedureTypes, ConstantTypes DEF WellMade, EofLine
<1>2. /\ Idle /\ (Ignored(l) \/ Taken(l)) /\ line = NoLine /\ ~even.valid /\ BetweenLines
      /\ clean /\ orderly /\ words = <<>>
      /\ OffsetsBefore(next) # {} => addrOffs = OffsetAt(next)
      /\ OffsetsBefore(Len(File)) = {} => addrOffs = 0
  <2>1. Idle /\ (Command(l) \/ Ignored(l) \/ Taken(l))
    BY Delivered
  <2>2. ~InEof
    BY <2>1, ConstantTypes DEF InEof, EofLine, Idle, NoLine
  <2> QED BY <2>1, <2>2 DEF Command, Idle, Receiving, FileInv, SInv, IInv, PhaseInv
<1>3. \A i \in DataLines : i >= next' => i >= next
  BY DEF DataLines
<1> HIDE DEF l
<1>4. CASE Ignored(l)
  <2>1. l.kind = "start" /\ UNCHANGED <<mode, clean, orderly, line, image, addrOffs, even>>
    BY <1>4 DEF Ignored, vars, cliVars, feedVars, hexVars, histVars
  <2>2. next # Len(File) /\ next' \in 1 .. Len(File)
        /\ OffsetsBefore(next') = OffsetsBefore(next) /\ OffsetAt(next') = OffsetAt(next)
    BY <1>1, <2>1, NextOffset DEF EofLine, l
  <2>3. BetweenLines'
    <3>1. next' <= Len(File)
      BY <2>2, ProcedureTypes
    <3>2. \A a : FedBelow(a) => FedBelow(a)'
      BY <2>1 DEF FedBelow
    <3>3. \A i \in DataLines : i >= next => FedBelow(StartOf(i))
      BY <1>2 DEF BetweenLines
    <3> QED BY <1>3, <3>1, <3>2, <3>3 DEF BetweenLines
  <2>4. mode' = "program" /\ clean' /\ orderly' /\ line' = NoLine /\ ~even'.valid
    BY <1>2, <2>1
  <2>5. OffsetsBefore(next)' # {} => addrOffs' = OffsetAt(next)'
    BY <1>2, <2>1, <2>2
  <2> QED BY <1>2, <2>1, <2>2, <2>3, <2>4, <2>5 DEF Receiving
<1>5. CASE Taken(l) /\ FeedData(l)
  <2>1. /\ l.kind = "data" /\ line' = l /\ recAddr' = RecordAddr(l) /\ rec' = Decrypted(l.data)
        /\ UNCHANGED <<mode, clean, orderly, image, addrOffs, even>>
    BY <1>5 DEF FeedData, cliVars, histVars
  <2>2. next # Len(File) /\ next \in DataLines
        /\ OffsetsBefore(next') = OffsetsBefore(next) /\ OffsetAt(next') = OffsetAt(next)
    BY <1>1, <2>1, NextOffset DEF EofLine, DataLines, l
  <2>3. addrOffs = OffsetAt(next)
    BY <1>2, <2>2 DEF WellMade, OffsetAt
  <2>4. recAddr' = StartOf(next)
    BY <2>1, <2>3 DEF RecordAddr, StartOf, l
  <2>5. Len(rec') = Len(l.data)
    <3>1. Len(l.data) \in Nat
      BY <2>2, DataLineIs DEF l
    <3> QED BY <2>1, <3>1 DEF Decrypted
  <2>6. StartOf(next) \in Nat /\ EndOf(next) = StartOf(next) + Len(l.data) /\ ~IsOdd(StartOf(next))
    BY <2>2, DataLineIs DEF l
  <2>7. FedBelow(StartOf(next))
    <3>1. next >= next
      BY ProcedureTypes
    <3> QED BY <1>2, <2>2, <3>1 DEF BetweenLines
  <2>8. recAddr' >= StartOf(next) /\ recAddr' + Len(rec') = EndOf(next)
    BY <2>4, <2>5, <2>6
  <2>9. FedBelow(recAddr)'
    BY <2>1, <2>4, <2>7 DEF FedBelow
  <2>10. InData'
    BY <1>1, <1>2, <2>1, <2>2, <2>4, <2>6, <2>8, <2>9 DEF InData, l
  <2>11. mode' = "program" /\ clean' /\ orderly' /\ line' # NoLine
    BY <1>1, <1>2, <1>5, <2>1 DEF Taken
  <2>12. OffsetsBefore(next)' # {} => addrOffs' = OffsetAt(next)'
    BY <2>1, <2>2, <2>3
  <2> QED BY <1>2, <2>1, <2>10, <2>11, <2>12 DEF Receiving
<1>6. CASE Taken(l) /\ FeedOffset(l)
  <2>1. /\ l.kind = "offset" /\ addrOffs' = l.addr
        /\ UNCHANGED <<mode, clean, orderly, image, line, even>>
    BY <1>6 DEF FeedOffset, cliVars, histVars, feedVars
  <2>2. next # Len(File) /\ next' \in 1 .. Len(File) /\ OffsetAt(next') = l.addr
        /\ OffsetsBefore(Len(File)) # {}
    BY <1>1, <2>1, NextOffset DEF EofLine, l
  <2>3. BetweenLines'
    <3>1. next' <= Len(File)
      BY <2>2, ProcedureTypes
    <3>2. \A a : FedBelow(a) => FedBelow(a)'
      BY <2>1 DEF FedBelow
    <3>3. \A i \in DataLines : i >= next => FedBelow(StartOf(i))
      BY <1>2 DEF BetweenLines
    <3> QED BY <1>3, <3>1, <3>2, <3>3 DEF BetweenLines
  <2>4. mode' = "program" /\ clean' /\ orderly' /\ line' = NoLine /\ ~even'.valid
    BY <1>2, <2>1
  <2>5. OffsetsBefore(next)' # {} => addrOffs' = OffsetAt(next)'
    BY <1>2, <2>1, <2>2
  <2> QED BY <1>2, <2>1, <2>2, <2>3, <2>4, <2>5 DEF Receiving
<1>7. CASE Taken(l) /\ FeedEof(l)
  <2>1. /\ l.kind = "eof" /\ line' = l /\ addrOffs' = 0 /\ words' = Flush(even)
        /\ even' = EvenOnFinish(even) /\ orderly' = (orderly /\ l.canon)
        /\ UNCHANGED <<mode, clean, image>>
    BY <1>7 DEF FeedEof, cliVars, WordsOnFinish
  <2>2. next = Len(File) /\ next' = Len(File) + 1 /\ l = EofLine(TRUE) /\ l.canon
    BY <1>1, <2>1 DEF EofLine
  <2>3. words' = <<>> /\ ~even'.valid
    BY <1>2, <2>1 DEF Flush, EvenOnFinish, SInv, IInv, TypeOK, EvenByte
  <2>4. InEof'
    BY <2>1, <2>2, <2>3 DEF InEof
  <2> QED BY <1>1, <1>2, <1>7, <2>1, <2>2, <2>4 DEF Receiving
<1>8. ~Reject(l)
  BY <1>1, ProcedureTypes DEF Reject
<1>9. Ignored(l) \/ (Taken(l) /\ (FeedData(l) \/ FeedEof(l) \/ FeedOffset(l)))
  BY <1>2, <1>8 DEF Taken
<1> QED BY <1>4, <1>5, <1>6, <1>7, <1>9

\* A byte of a line lies in the application, above everything fed before.
LEMMA FeedByteOfFile ==
  ASSUME SInv, FileInv, WellMade, next' = next, Receiving, FeedByte
  PROVE  Receiving' /\ line' # NoLine /\ addrOffs' = addrOffs
<1>1. /\ rec # <<>> /\ line # NoLine /\ line' = line /\ rec' = Tail(rec) /\ rec \in Seq(Byte)
      /\ recAddr' = (recAddr + 1) % AddrSpace
      /\ orderly' = (orderly /\ InApp(recAddr) /\ Follows(recAddr))
      /\ UNCHANGED <<mode, clean, addrOffs>>
  BY DEF FeedByte, cliVars, SInv, IInv, TypeOK
<1>2. InData /\ ~InEof /\ clean /\ orderly /\ mode = "program"
  BY <1>1 DEF Receiving, InEof, EofLine, SInv, IInv, PhaseInv
<1> DEFINE i == next - 1
<1>3. /\ i \in DataLines /\ line = File[i] /\ recAddr >= StartOf(i)
      /\ recAddr + Len(rec) = EndOf(i) /\ FedBelow(recAddr) /\ (even.valid <=> IsOdd(recAddr))
      /\ StartOf(i) \in Nat /\ EndOf(i) \in Nat
      /\ AppFirst <= StartOf(i) /\ EndOf(i) <= AppLast + 1
  BY <1>2, DataLineIs DEF InData
<1> HIDE DEF i
<1>4. Len(rec) \in Nat \ {0} /\ Len(rec') = Len(rec) - 1
  BY <1>1, EmptySeq, HeadTailProperties
<1>5. recAddr \in Nat /\ recAddr \in Addr
  BY FeedWords
<1>6. recAddr <= AppLast /\ recAddr >= AppFirst /\ recAddr + 1 < AddrSpace
  BY <1>3, <1>4, <1>5, LayoutTypes
<1>7. recAddr' = recAddr + 1
  BY <1>1, <1>5, <1>6, LayoutTypes
<1>8. orderly'
  BY <1>1, <1>2, <1>3, <1>6 DEF InApp, Follows, FedBelow
<1>9. FedBelow(recAddr)'
  <2> SUFFICES ASSUME NEW x \in Addr, image'[x] # NoByte PROVE x < recAddr'
    BY DEF FedBelow
  <2>1. Fed(x) \/ x = recAddr
    BY FeedWords DEF Fed
  <2>2. x \in Nat
    BY DEF Addr
  <2> QED BY <1>3, <1>5, <1>7, <2>1, <2>2 DEF FedBelow, Fed
<1>10. even'.valid <=> IsOdd(recAddr')
  <2>1. even'.valid <=> ~IsOdd(recAddr)
    BY FeedWords
  <2>2. ~IsOdd(recAddr) <=> IsOdd(recAddr + 1)
    BY <1>5 DEF IsOdd
  <2> QED BY <1>7, <2>1, <2>2
<1>11. recAddr' >= StartOf(i) /\ recAddr' + Len(rec') = EndOf(i)
  BY <1>3, <1>4, <1>5, <1>7
<1>12. InData'
  BY <1>1, <1>3, <1>9, <1>10, <1>11 DEF InData, i
<1>13. OffsetsBefore(next)' # {} => addrOffs' = OffsetAt(next)'
  BY <1>1, <1>2 DEF Receiving
<1> QED BY <1>1, <1>2, <1>8, <1>12, <1>13 DEF Receiving

\* By SInv the flash takes every half-word.
LEMMA WriteWordOfFile ==
  ASSUME SInv, FileInv, WellMade, next' = next, Receiving, WriteWord
  PROVE  Receiving' /\ line' = line /\ line # NoLine /\ UNCHANGED <<even, addrOffs>>
<1>1. words # <<>> /\ clean /\ orderly
  BY DEF WriteWord, Receiving
<1>2. /\ Writable(Head(words).addr)
      /\ ProgramCompletes(flash, Head(words).addr, Head(words).word, "none")
  BY <1>1, ExpectedWord
<1>3. /\ UNCHANGED <<mode, line, rec, recAddr, image, orderly, even, addrOffs>>
      /\ clean' = clean
  BY <1>1, <1>2, ProcedureTypes DEF WriteWord, hexVars
<1>4. line # NoLine
  BY <1>1 DEF SInv, IInv, PhaseInv
<1>5. InData /\ ~InEof
  BY <1>1, <1>4 DEF Receiving, InEof
<1>6. InData'
  BY <1>3, <1>5 DEF InData, FedBelow
<1>7. OffsetsBefore(next)' # {} => addrOffs' = OffsetAt(next)'
  BY <1>3, <1>5 DEF Receiving
<1>8. mode' = "program" /\ clean' /\ orderly' /\ line' # NoLine
  BY <1>1, <1>3, <1>4 DEF Receiving
<1> QED BY <1>3, <1>4, <1>6, <1>7, <1>8 DEF Receiving

\* The end of a line leaves no byte pending, that of the last one the verdict.
LEMMA EndLineOfFile ==
  ASSUME SInv, FileInv, WellMade, next \in Nat, next' = next, Receiving, EndLine
  PROVE  /\ Receiving' \/ (mode' = "command" /\ next' = Len(File) + 1 /\ status' = "ok")
         /\ ~even'.valid /\ addrOffs' = addrOffs
<1>1. /\ line # NoLine /\ words = <<>> /\ rec = <<>>
      /\ UNCHANGED <<even, addrOffs, image, clean, orderly>>
  BY DEF EndLine, hexVars, histVars
<1>2. CASE InEof
  <2>1. EndSession(flash, "ok")
    BY <1>2 DEF EndLine, InEof, EofLine
  <2> QED BY <1>1, <1>2, <2>1 DEF InEof, EndSession
<1>3. CASE InData
  <2> DEFINE i == next - 1
  <2>1. i \in DataLines /\ line = File[i] /\ recAddr + Len(rec) = EndOf(i) /\ FedBelow(recAddr)
        /\ (even.valid <=> IsOdd(recAddr))
    BY <1>3 DEF InData
  <2>2. i \in 1 .. Len(File) - 1 /\ line.kind = "data" /\ EndOf(i) \in Nat /\ ~IsOdd(EndOf(i))
    BY <2>1, DataLineIs
  <2> HIDE DEF i
  <2>3. recAddr \in Nat
    BY DEF SInv, IInv, TypeOK, Addr
  <2>4. recAddr = EndOf(i)
    <3>1. Len(rec) = 0
      BY <1>1
    <3> QED BY <2>1, <2>3, <3>1
  <2>5. ~even.valid
    BY <2>1, <2>2, <2>4
  <2>6. line' = NoLine /\ mode' = mode
    BY <2>2 DEF EndLine
  <2>7. BetweenLines'
    <3>1. next' <= Len(File) /\ next' \in Int /\ i < next'
      <4>1. next = i + 1
        BY DEF i
      <4> QED BY <2>2, <4>1, ProcedureTypes
    <3>2. ASSUME NEW j \in DataLines, j >= next' PROVE FedBelow(StartOf(j))'
      <4>1. j \in Nat /\ i \in Nat /\ i < j /\ StartOf(j) \in Nat
        BY <2>1, <3>1, <3>2, DataLineIs
      <4>2. recAddr <= StartOf(j)
        BY <2>1, <2>4, <4>1 DEF WellMade
      <4>3. ASSUME NEW x \in Addr, image'[x] # NoByte PROVE x < StartOf(j)
        <5>1. x < recAddr /\ x \in Nat
          BY <1>1, <2>1, <4>3 DEF FedBelow, Addr
        <5> QED BY <2>3, <4>1, <4>2, <5>1
      <4> QED BY <4>3 DEF FedBelow
    <3> QED BY <3>1, <3>2 DEF BetweenLines
  <2>8. OffsetsBefore(next)' # {} => addrOffs' = OffsetAt(next)'
    <3>1. ~InEof
      BY <2>2 DEF InEof, EofLine
    <3> QED BY <1>1, <3>1 DEF Receiving
  <2> QED BY <1>1, <2>5, <2>6, <2>7, <2>8 DEF Receiving
<1> QED BY <1>1, <1>2, <1>3 DEF Receiving

LEMMA WorkFile ==
  ASSUME SInv, TryInv, FileInv, WellMade, Work, UNCHANGED opVars
  PROVE  FileInv'
<1> USE DEF opVars
<1>1. CASE cmd_erase \/ cmd_program
  <2>1. phase = "prompt" /\ job = "program" /\ mode = "command" /\ line = NoLine /\ ~even.valid
    BY <1>1 DEF cmd_erase, cmd_program, TryInv, SInv, IInv, PhaseInv, FileInv
  <2>2. CASE ErasePageStep
    <3>1. clean' /\ UNCHANGED <<job, line, even, addrOffs>>
      BY <2>1, <2>2, ProcedureTypes DEF ErasePageStep, feedVars, hexVars, FileInv
    <3> QED BY <2>1, <3>1 DEF FileInv, FileSentStatusOk
  <2>3. CASE FinishProgram
    <3>1. /\ clean' /\ orderly' /\ image' = NoImage /\ job' = "none"
          /\ UNCHANGED <<line, even, addrOffs>>
      BY <2>1, <2>3 DEF FinishProgram, EraseDone, feedVars, FileInv
    <3> QED BY <2>1, <3>1 DEF FileInv, FileSentStatusOk
  <2> QED BY <1>1, <2>1, <2>2, <2>3 DEF cmd_erase, cmd_program
<1>2. CASE FeedByte \/ WriteWord \/ EndLine
  <2>1. line # NoLine /\ mode = "program"
    BY <1>2, HeadWord DEF FeedByte, WriteWord, EndLine, SInv, IInv, PhaseInv
  <2>2. phase = "sending" /\ intact /\ next \in Nat
    BY <2>1, ProcedureTypes DEF TryInv, SInv, IInv, PhaseInv
  <2>3. Receiving
    BY <2>1, <2>2 DEF FileInv
  <2>4. CASE FeedByte
    BY <2>2, <2>3, <2>4, FeedByteOfFile DEF FileInv, FileSentStatusOk
  <2>5. CASE WriteWord
    BY <2>2, <2>3, <2>5, WriteWordOfFile DEF FileInv, FileSentStatusOk
  <2>6. CASE EndLine
    BY <2>2, <2>3, <2>6, EndLineOfFile DEF FileInv, FileSentStatusOk
  <2> QED BY <1>2, <2>4, <2>5, <2>6
<1> QED BY <1>1, <1>2 DEF Work

\* A line the try does not end up with: what the session kept stays as it was.
LEMMA OtherLine ==
  ASSUME FileInv, NEW l, Deliver(l), l.kind \in {"bad", "program"} \/ mode = "command"
  PROVE  UNCHANGED <<even, addrOffs>> /\ ~even.valid
<1>1. Idle /\ (Command(l) \/ Ignored(l) \/ Taken(l))
  BY Delivered
<1>2. ~even.valid
  BY <1>1 DEF Idle, FileInv
<1> QED BY <1>1, <1>2 DEF Command, Ignored, Taken, FeedData, FeedEof, FeedOffset, Reject, hexVars, vars

LEMMA SendFile ==
  ASSUME SInv, TryInv, FileInv, WellMade, SendLine
  PROVE  FileInv'
<1>1. /\ phase = "sending" /\ phase' = phase /\ next \in 1 .. Len(File) /\ next' = next + 1
      /\ next # Len(File) + 1
  BY ProcedureTypes DEF SendLine, TryInv
<1>2. CASE Deliver(TextLine("bad")) /\ ~intact'
  <2>1. UNCHANGED <<even, addrOffs>> /\ ~even.valid
    BY <1>2, OtherLine DEF TextLine
  <2> QED BY <1>1, <1>2, <2>1 DEF FileInv, FileSentStatusOk
<1>3. CASE Deliver(File[next]) /\ intact' = intact /\ ~intact
  <2>1. UNCHANGED <<even, addrOffs>> /\ ~even.valid
    BY <1>1, <1>3, OtherLine DEF TryInv
  <2> QED BY <1>1, <1>3, <2>1 DEF FileInv, FileSentStatusOk
<1>4. CASE Deliver(File[next]) /\ intact' = intact /\ intact
  <2>1. Receiving
    BY <1>1, <1>4 DEF FileInv
  <2>2. /\ Receiving' /\ (line' = NoLine => ~even'.valid)
        /\ OffsetsBefore(Len(File)) = {} => addrOffs' = 0
    <3>1. mode = "program"
      BY <2>1 DEF Receiving
    <3> QED BY <1>1, <1>4, <2>1, <3>1, SendLineOfFile
  <2> QED BY <1>1, <2>2 DEF FileInv, FileSentStatusOk
<1> QED BY <1>2, <1>3, <1>4 DEF SendLine

LEMMA StepFile == SInv /\ TryInv /\ FileInv /\ WellMade /\ [ProcNext]_allVars => FileInv'
<1> SUFFICES ASSUME SInv, TryInv, FileInv, WellMade, [ProcNext]_allVars PROVE FileInv' OBVIOUS
<1>1. CASE GiveProgram
  <2>1. phase' = "prompt" /\ mode = "command"
    BY <1>1 DEF GiveProgram, TryInv
  <2>2. Idle /\ Command(TextLine("program"))
    BY <1>1, <2>1, Delivered DEF GiveProgram, Ignored, Taken, TextLine
  <2>3. job' = "program" /\ eraseAddr' = 0 /\ UNCHANGED <<line, even, addrOffs>>
    BY <2>2 DEF Command, TextLine, Idle, SInv, IInv, PhaseInv, feedVars, hexVars
  <2> QED BY <2>1, <2>3 DEF FileInv, FileSentStatusOk, StartsErase
<1>2. CASE SeePrompt
  <2>1. phase = "prompt" /\ Idle /\ mode = "program" /\ phase' = "sending" /\ next = 1
        /\ clean /\ orderly /\ image = NoImage /\ UNCHANGED <<vars, next, intact>>
    BY <1>2 DEF SeePrompt, TryInv, FileInv, Idle
  <2>2. UNCHANGED <<mode, clean, orderly, image, line, even, addrOffs>>
    BY <2>1 DEF vars, cliVars, feedVars, hexVars, histVars
  <2>3. BetweenLines'
    <3>1. 1 <= Len(File)
      BY ProcedureTypes DEF WellMade
    <3>2. \A x \in Addr : image'[x] = NoByte
      BY <2>1, <2>2 DEF NoImage
    <3> QED BY <2>1, <3>1, <3>2 DEF BetweenLines, FedBelow
  <2>4. OffsetsBefore(next') = {}
    BY <2>1 DEF OffsetsBefore
  <2>5. line' = NoLine /\ mode' = "program" /\ clean' /\ orderly' /\ ~even'.valid
    BY <2>1, <2>2 DEF Idle, FileInv
  <2>6. Receiving'
    BY <2>3, <2>4, <2>5 DEF Receiving
  <2> QED BY <2>1, <2>2, <2>5, <2>6 DEF FileInv, FileSentStatusOk
<1>3. CASE SendLine
  BY <1>3, SendFile
<1>4. CASE AskStatus
  <2>1. /\ phase = "sending" /\ next > Len(File) /\ answer' = cmd_status /\ phase' = "asked"
        /\ intact' = intact /\ Deliver(TextLine("bad")) /\ next' = next
    BY <1>4 DEF AskStatus
  <2>2. UNCHANGED <<even, addrOffs>> /\ ~even.valid /\ line = NoLine
    BY <2>1, OtherLine, Delivered DEF TextLine, Idle
  <2>3. intact => mode = "command" /\ status = "ok"
    <3>1. next \in Nat /\ ~ (next <= Len(File))
      BY <2>1, ProcedureTypes DEF TryInv
    <3> QED BY <2>1, <2>2, <3>1 DEF FileInv, Receiving, BetweenLines
  <2> QED BY <2>1, <2>2, <2>3 DEF FileInv, FileSentStatusOk, cmd_status
<1>5. CASE Work /\ UNCHANGED opVars
  BY <1>5, WorkFile
<1>6. CASE UNCHANGED allVars
  <2>1. /\ UNCHANGED <<mode, job, eraseAddr, status, line, rec, recAddr, words, even, addrOffs,
                       image, clean, orderly>>
        /\ UNCHANGED <<phase, next, intact, answer>>
    BY <1>6 DEF allVars, opVars, vars, cliVars, feedVars, hexVars, histVars
  <2>2. (BetweenLines => BetweenLines') /\ (InData => InData') /\ (InEof <=> InEof')
    BY <2>1 DEF BetweenLines, InData, InEof, FedBelow
  <2>3. Receiving => Receiving'
    BY <2>1, <2>2 DEF Receiving
  <2> QED BY <2>1, <2>3 DEF FileInv, FileSentStatusOk, StartsErase
<1> QED BY <1>1, <1>2, <1>3, <1>4, <1>5, <1>6 DEF ProcNext, Operator

\* A try whose lines all arrive is answered "ok", for every well-made file and
\* whatever happened in the tries before it.
THEOREM FileSentHolds == WellMade => (ProcSpec => []FileSentStatusOk)
<1> SUFFICES ASSUME WellMade PROVE ProcSpec => []FileSentStatusOk
  OBVIOUS
<1>1. SInv /\ TryInv /\ FileInv /\ [ProcNext]_allVars => (SInv /\ TryInv /\ FileInv)'
  BY MadeIsHex, StepTry, StepSession, ProcStepIsStep, StepFile
<1>2. FileInv => FileSentStatusOk
  BY DEF FileInv
<1> QED BY <1>1, <1>2, InitTry, InitFile, PTL DEF ProcSpec
=============================================================================
