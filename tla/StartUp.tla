------------------------------ MODULE StartUp ------------------------------
(***************************************************************************)
(* What main does before the command line or the application runs: the     *)
(* read-out protection and the boot pin (src/main.c), with the option      *)
(* bytes of the flash behind it.  Bootloader's "running" is the program    *)
(* the boot pin selects; its actions begin when the start-up is over, and  *)
(* power may fail at any step of either.  This is the build without DEBUG. *)
(***************************************************************************)
EXTENDS Bootloader

CONSTANT OptionFaults   \* the errors an operation on the option bytes may report

ASSUME OptionAssumption == OptionFaults \subseteq ErrorFlags

VARIABLES
  stage,       \* where main is
  rdp,         \* the option byte: "key" (RDP_Key), "blank", "zero" or "torn"
  protected,   \* RDPRT of FLASH->OBR, which a reset loads from the option byte
  undisturbed  \* history: no error in this start-up

startVars == <<stage, rdp, protected, undisturbed>>
powerVars == <<vars, startVars>>

PowerInit ==
  /\ Init
  /\ stage = "check" /\ rdp = "key" /\ protected = FALSE /\ undisturbed = TRUE

StepOf(from, to) == stage = from /\ stage' = to
FlashOnly == UNCHANGED <<running, cliVars, feedVars, hexVars, histVars>>

\* FLASH_GetReadOutProtectionStatus, and FLASH_Unlock if it is RESET.
CheckProtection ==
  /\ \/ protected /\ StepOf("check", "pin") /\ UNCHANGED flash
     \/ ~protected /\ StepOf("check", "erase") /\ flash' = FLASH_Unlock(flash)
  /\ FlashOnly /\ UNCHANGED <<rdp, protected, undisturbed>>

\* FLASH_ReadOutProtection(ENABLE): all option bytes are erased, and then
\* RDP is written.  Only a controller without error flags starts.
Failed(fault) ==
  /\ flash' = [flash EXCEPT !.flags = @ \cup {fault}]
  /\ undisturbed' = FALSE
  /\ UNCHANGED rdp

EraseOptions ==
  /\ \/ StepOf("erase", "program") /\ Ready(flash) /\ rdp' = "blank"
        /\ UNCHANGED <<flash, undisturbed>>
     \/ StepOf("erase", "lock") /\ \E fault \in OptionFaults : Failed(fault)
  /\ FlashOnly /\ UNCHANGED protected

\* Mutant: protection is lifted where it should be set.
ProgramKey ==
  /\ StepOf("program", "lock")
  /\ \/ rdp' = "key" /\ UNCHANGED <<flash, undisturbed>>
     \/ \E fault \in OptionFaults : Failed(fault)
  /\ FlashOnly /\ UNCHANGED protected

ProgramOption ==
  /\ StepOf("program", "lock")
  /\ \/ rdp' = "zero" /\ UNCHANGED <<flash, undisturbed>>
     \/ \E fault \in OptionFaults : Failed(fault)
  /\ FlashOnly /\ UNCHANGED protected

\* Mutant: the flash is locked again only after a success.
LockAfterSuccess ==
  /\ StepOf("lock", "pin")
  /\ flash' = IF undisturbed THEN FLASH_Lock(flash) ELSE flash
  /\ FlashOnly /\ UNCHANGED <<rdp, protected, undisturbed>>

\* Whatever FLASH_ReadOutProtection returned.
LockAgain ==
  /\ StepOf("lock", "pin")
  /\ flash' = FLASH_Lock(flash)
  /\ FlashOnly /\ UNCHANGED <<rdp, protected, undisturbed>>

\* The jump to the application, or usb_cdc_start and cli_init.
ReadBootPin ==
  /\ StepOf("pin", "up")
  /\ UNCHANGED <<vars, rdp, protected, undisturbed>>

Start == CheckProtection \/ EraseOptions \/ ProgramOption \/ LockAgain \/ ReadBootPin

\* What an operation on the option byte may leave when power fails: any
\* value but the key counts as protection.
OptionAfterReset ==
  {rdp} \cup (IF stage = "erase" THEN {"blank", "torn"}
              ELSE IF stage = "program" THEN {"zero", "torn"} ELSE {})

PowerFails ==
  /\ PowerCycle
  /\ stage' = "check" /\ undisturbed' = TRUE
  /\ rdp' \in OptionAfterReset
  /\ protected' = (rdp' # "key")

RunLine == (\E l \in Lines : Command(l) \/ HexLine(l)) /\ stage = "up" /\ UNCHANGED startVars
RunWork == Work /\ stage = "up" /\ UNCHANGED startVars

PowerNext == Start \/ RunLine \/ RunWork \/ PowerFails

PowerSpec == PowerInit /\ [][PowerNext]_powerVars /\ WF_powerVars(Start) /\ WF_powerVars(RunWork)

-----------------------------------------------------------------------------
\* README: after the first power cycle "Flash protection is set at this
\* stage".  A start-up that met no error has protected the flash from the
\* next power cycle on, and from then on no start-up, complete or cut off by
\* a power failure between erasing the option bytes and writing RDP, leaves
\* the device unprotected.
Protecting == protected \/ (stage' = "check" /\ stage \in {"pin", "up"} /\ undisturbed)
ProtectionSet == [][Protecting => protected']_powerVars

\* Neither the bootloader nor the application starts with the flash unlocked,
\* and the bootloader keeps to LockDiscipline, also when the option bytes
\* could not be written and their error flags are still set.
LockedAtStart ==
  /\ stage \in {"check", "pin"} => flash.locked
  /\ stage = "up" => LockDiscipline
=============================================================================
