--------------------------- MODULE StartUp_proofs ---------------------------
(***************************************************************************)
(* Proofs about StartUp: the invariants of Bootloader and Session_proofs   *)
(* hold once the start-up is over, wherever power failed before, and the   *)
(* read-out protection is set and stays.                                   *)
(***************************************************************************)
EXTENDS StartUp, Session_proofs

(***************************************************************************)
(* Between a reset and the command line nothing but the controller moves.  *)
(***************************************************************************)
Booting ==
  /\ TypeOK
  /\ mode = "command" /\ job = "none" /\ eraseAddr = 0 /\ status = "NA"
  /\ line = NoLine /\ rec = <<>> /\ words = <<>> /\ even = NoEven /\ image = NoImage

PowerInv ==
  /\ stage \in {"check", "erase", "program", "lock", "pin", "up"}
  /\ stage \in {"check", "pin"} => flash.locked
  /\ IF stage = "up" THEN SInv ELSE Booting

\* A start-up that ends with the flash locked hands over a bootloader in a
\* state its invariant allows.
LEMMA BootedInv == ASSUME Booting, flash.locked PROVE SInv
<1>1. PhaseInv
  BY ConstantTypes DEF Booting, PhaseInv, LockDiscipline, NoEven
<1>2. HalfWordsApart
  BY DEF Booting, HalfWordsApart, NoEven
<1>3. IInv
  BY <1>1, <1>2 DEF Booting, IInv, SessionInv, ProgramOKMeansWritten
<1>4. ErasedSoFar
  BY LayoutTypes, NextMultiple DEF Booting, ErasedSoFar, IsPage
<1> QED BY <1>3, <1>4 DEF Booting, SInv, CleanSession, ProgramOKMeansOnlyWritten

LEMMA InitBooting == Init => Booting /\ flash.locked
<1> SUFFICES ASSUME Init PROVE Booting /\ flash.locked OBVIOUS
<1>1. TypeOK
  BY InitInv DEF IInv
<1> QED BY <1>1 DEF Init, Booting

LEMMA ResetBooting ==
  ASSUME TypeOK, PowerCycle, \A cells \in CellsAfterReset : cells \in [Cells -> Word]
  PROVE  Booting' /\ flash'.locked
<1>1. flash' \in Controller /\ flash'.locked
  BY DEF PowerCycle, Controller
<1>2. NoImage \in [Addr -> Byte \cup {NoByte}]
  BY DEF NoImage
<1>3. <<>> \in Seq(Byte) /\ <<>> \in Seq(HalfWord)
  BY EmptySeq
<1>4. TypeOK'
  BY <1>1, <1>2, <1>3, ConstantTypes DEF PowerCycle, TypeOK
<1> QED BY <1>1, <1>4 DEF PowerCycle, Booting

LEMMA PowerFailsInv == ASSUME PowerInv, PowerFails PROVE PowerInv'
<1>1. PowerCycle /\ stage' = "check"
  BY DEF PowerFails
<1>2. CASE stage = "up"
  <2>1. TypeOK /\ \A cells \in CellsAfterReset : cells \in [Cells -> Word]
    BY <1>2, ResetCellsType DEF PowerInv, SInv, IInv
  <2> QED BY <1>1, <2>1, ResetBooting DEF PowerInv
<1>3. CASE stage # "up"
  <2>1. TypeOK /\ CellsAfterReset = {flash.cells}
    BY <1>3 DEF PowerInv, Booting, CellsAfterReset
  <2>2. flash.cells \in [Cells -> Word]
    BY <2>1 DEF TypeOK, Controller
  <2> QED BY <1>1, <2>1, <2>2, ResetBooting DEF PowerInv
<1> QED BY <1>2, <1>3

LEMMA StartInv == ASSUME PowerInv, Start PROVE PowerInv'
<1>0. stage # "up" /\ Booting /\ flash \in Controller
  BY DEF Start, CheckProtection, EraseOptions, ProgramOption, LockAgain, ReadBootPin, StepOf,
     PowerInv, Booting, TypeOK
<1>1. ASSUME flash' \in Controller, FlashOnly PROVE Booting'
  BY <1>0, <1>1 DEF FlashOnly, Booting, TypeOK, cliVars, feedVars, hexVars, histVars
<1>2. FLASH_Unlock(flash) \in Controller /\ FLASH_Lock(flash) \in Controller
      /\ FLASH_Lock(flash).locked
  BY <1>0, ControllerTypes, ControllerFrame, WordTypes, LayoutTypes
<1>3. ASSUME NEW fault \in OptionFaults, Failed(fault) PROVE flash' \in Controller
  BY <1>0, <1>3, OptionAssumption DEF Failed, Controller
<1>4. CASE CheckProtection
  <2>1. flash' \in Controller /\ FlashOnly /\ (stage' = "pin" => flash' = flash /\ stage = "check")
        /\ stage' \in {"pin", "erase"}
    BY <1>0, <1>2, <1>4 DEF CheckProtection, StepOf
  <2> QED BY <1>1, <2>1 DEF PowerInv
<1>5. CASE EraseOptions \/ ProgramOption
  <2>1. flash' \in Controller /\ FlashOnly /\ stage' \in {"program", "lock"}
    BY <1>0, <1>3, <1>5 DEF EraseOptions, ProgramOption, StepOf
  <2> QED BY <1>1, <2>1 DEF PowerInv
<1>6. CASE LockAgain
  <2>1. flash' \in Controller /\ flash'.locked /\ FlashOnly /\ stage' = "pin"
    BY <1>2, <1>6 DEF LockAgain, StepOf
  <2> QED BY <1>1, <2>1 DEF PowerInv
<1>7. CASE ReadBootPin
  <2>1. stage = "pin" /\ stage' = "up" /\ UNCHANGED vars
    BY <1>7 DEF ReadBootPin, StepOf
  <2>2. SInv
    BY <1>0, <2>1, BootedInv DEF PowerInv
  <2>3. SInv'
    BY <2>1, <2>2, StepSession
  <2> QED BY <2>1, <2>3 DEF PowerInv
<1> QED BY <1>4, <1>5, <1>6, <1>7 DEF Start

LEMMA PowerStep == PowerInv /\ [PowerNext]_powerVars => PowerInv'
<1> SUFFICES ASSUME PowerInv, [PowerNext]_powerVars PROVE PowerInv' OBVIOUS
<1>1. CASE RunLine \/ RunWork
  <2>1. stage = "up" /\ stage' = "up" /\ [Next]_vars
    BY <1>1 DEF RunLine, RunWork, Next, startVars
  <2> QED BY <2>1, StepSession DEF PowerInv
<1>2. CASE UNCHANGED powerVars
  <2>1. stage' = stage /\ UNCHANGED vars
    BY <1>2 DEF powerVars, startVars
  <2>2. SInv => SInv'
    BY <2>1, StepSession
  <2>3. Booting => Booting'
    BY <2>1 DEF vars, Booting, TypeOK, cliVars, feedVars, hexVars, histVars
  <2> QED BY <2>1, <2>2, <2>3 DEF PowerInv, vars
<1> QED BY <1>1, <1>2, StartInv, PowerFailsInv DEF PowerNext

LEMMA PowerInvariance == PowerSpec => []PowerInv
<1>1. PowerInit => PowerInv
  BY InitBooting DEF PowerInit, PowerInv
<1> QED BY <1>1, PowerStep, PTL DEF PowerSpec

(***************************************************************************)
(* The option byte.                                                        *)
(***************************************************************************)
OptionInv ==
  /\ protected => rdp # "key" /\ stage \in {"check", "pin", "up"}
  /\ stage \in {"lock", "pin", "up"} /\ undisturbed => protected \/ rdp = "zero"

\* What a step does to the option byte and the protection.
LEMMA OptionMoves ==
  ASSUME [PowerNext]_powerVars
  PROVE  \/ stage = "check" /\ stage' = "pin" /\ protected /\ protected' /\ rdp' = rdp
         \/ stage = "check" /\ stage' = "erase" /\ ~protected /\ ~protected'
         \/ stage = "erase" /\ stage' = "program" /\ (protected' <=> protected)
         \/ stage \in {"erase", "program"} /\ stage' = "lock" /\ (protected' <=> protected)
            /\ (undisturbed' => rdp' = "zero") /\ (protected' => rdp' = rdp \/ rdp' = "zero")
         \/ /\ \/ stage = "lock" /\ stage' = "pin"
               \/ stage = "pin" /\ stage' = "up"
               \/ stage' = stage
            /\ (protected' <=> protected) /\ (undisturbed' <=> undisturbed) /\ rdp' = rdp
         \/ stage' = "check" /\ (protected' <=> rdp' # "key") /\ undisturbed'
            /\ (rdp' = rdp \/ stage \in {"erase", "program"})
<1>1. CASE CheckProtection
  BY <1>1 DEF CheckProtection, StepOf
<1>2. CASE EraseOptions
  BY <1>2 DEF EraseOptions, StepOf, Failed
<1>3. CASE ProgramOption
  BY <1>3 DEF ProgramOption, StepOf, Failed
<1>4. CASE LockAgain \/ ReadBootPin
  BY <1>4 DEF LockAgain, ReadBootPin, StepOf
<1>5. CASE RunLine \/ RunWork \/ UNCHANGED powerVars
  BY <1>5 DEF RunLine, RunWork, startVars, powerVars
<1>6. CASE PowerFails
  BY <1>6 DEF PowerFails, OptionAfterReset
<1> QED BY <1>1, <1>2, <1>3, <1>4, <1>5, <1>6 DEF PowerNext, Start

LEMMA OptionStep == OptionInv /\ [PowerNext]_powerVars => OptionInv'
BY OptionMoves DEF OptionInv

(***************************************************************************)
(* The theorems.                                                           *)
(***************************************************************************)

\* Whatever the option bytes and the flash report, and wherever power fails,
\* the flash is locked when the boot pin is read, and the command line keeps
\* to its lock discipline.
THEOREM LockedAtStartHolds == PowerSpec => []LockedAtStart
<1>1. PowerInv => LockedAtStart
  BY DEF PowerInv, LockedAtStart, SInv, IInv, PhaseInv
<1> QED BY <1>1, PowerInvariance, PTL

\* A start-up without an error protects the flash from the next power cycle
\* on, and no power failure afterwards takes the protection away.
THEOREM ProtectionSetHolds == PowerSpec => ProtectionSet
<1>1. PowerInit => OptionInv
  BY DEF PowerInit, OptionInv
<1>2. OptionInv /\ [PowerNext]_powerVars => [Protecting => protected']_powerVars
  BY OptionMoves DEF OptionInv, Protecting
<1> QED BY <1>1, <1>2, OptionStep, PTL DEF PowerSpec, ProtectionSet

\* A well-formed file is accepted also after start-ups that failed and left
\* their error flags in the controller: the erase clears them.
THEOREM WellFormedAfterStart == PowerSpec => WellFormedFileAccepted
<1> DEFINE Refused == status # "error" /\ status' = "error"
<1>1. ASSUME PowerInv, [PowerNext]_powerVars, Refused PROVE ~(clean' /\ orderly')
  <2>1. CASE RunLine \/ RunWork
    <3>1. SInv /\ [Next]_vars
      BY <1>1, <2>1 DEF PowerInv, RunLine, RunWork, Next
    <3> QED BY <1>1, <3>1, NotRefused
  <2>2. CASE Start \/ UNCHANGED powerVars
    BY <1>1, <2>2 DEF Start, CheckProtection, EraseOptions, ProgramOption, LockAgain, ReadBootPin,
       FlashOnly, powerVars, vars, cliVars
  <2>3. CASE PowerFails
    BY <1>1, <2>3 DEF PowerFails, PowerCycle
  <2> QED BY <1>1, <2>1, <2>2, <2>3 DEF PowerNext
<1>2. PowerInv /\ [PowerNext]_powerVars => [Refused => ~(clean' /\ orderly')]_vars
  BY <1>1
<1> QED BY <1>2, PowerInvariance, PTL DEF PowerSpec, WellFormedFileAccepted
=============================================================================
