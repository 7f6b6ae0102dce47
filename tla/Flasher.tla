------------------------------- MODULE Flasher -------------------------------
(***************************************************************************)
(* What the bootloader promises the person who programs the device, of the *)
(* application area and the verdict: the area changes only page by page in *)
(* an erase and half-word by half-word in a session, a session is opened   *)
(* by an erase and closed with a verdict, and "ok" is said only of a file  *)
(* that is there.  Bootloader implements it.                               *)
(***************************************************************************)
EXTENDS FlashLayout

VARIABLES
  phase,    \* "idle", "erasing" or "receiving"
  verdict,  \* what the status command would say
  fed,      \* the bytes of the file received so far, by address
  app       \* the cells of the application area

flasherVars == <<phase, verdict, fed, app>>

Nothing == [a \in Addr |-> -1]

Init ==
  /\ phase = "idle" /\ verdict = "NA" /\ fed = Nothing
  /\ app \in [AppCells -> Word]

\* All cells but those in S keep what they hold.
OnlyIn(S) == app' \in [AppCells -> Word] /\ \A c \in AppCells \ S : app'[c] = app[c]
Pages     == {PageCells(a) : a \in AppFirst .. AppLast}

Begin ==
  /\ phase = "idle" /\ phase' = "erasing"
  /\ UNCHANGED <<verdict, fed, app>>

\* A page is erased, or is left as it is when the flash refuses.
ErasePage ==
  /\ phase = "erasing" /\ fed' = Nothing
  /\ UNCHANGED <<phase, verdict>>
  /\ \E P \in Pages : OnlyIn(P) /\ \A c \in P \cap AppCells : app'[c] \in {app[c], Blank}

FinishErase ==
  /\ phase = "erasing" /\ phase' = "idle"
  /\ fed' = Nothing
  /\ UNCHANGED <<verdict, app>>

OpenSession ==
  /\ phase = "erasing" /\ phase' = "receiving"
  /\ verdict' = "empty" /\ fed' = Nothing
  /\ UNCHANGED app

Receive ==
  /\ phase = "receiving"
  /\ UNCHANGED <<phase, verdict, app>>
  /\ \E a \in Addr, b \in Byte : fed' = [fed EXCEPT ![a] = b]

\* A cell is written once after an erase, and otherwise only to zero.
WriteCell ==
  \E c \in AppCells :
    /\ OnlyIn({c})
    /\ app[c] = Blank \/ app'[c] \in {app[c], Zero}

Write == phase = "receiving" /\ UNCHANGED <<phase, verdict, fed>> /\ WriteCell

ByteIn(cells, a) == IF a % 2 = 1 THEN cells[a - 1].hi ELSE cells[a].lo
FileIsThere ==
  \A a \in Addr : fed[a] # -1 => a >= AppFirst /\ a <= AppLast /\ ByteIn(app, a) = fed[a]

Accept ==
  /\ phase = "receiving" /\ phase' = "idle"
  /\ FileIsThere /\ verdict' = "ok"
  /\ UNCHANGED <<fed, app>>

\* An operation that was given up may still be carried out.
Refuse ==
  /\ phase = "receiving" /\ phase' = "idle"
  /\ verdict' = "error"
  /\ UNCHANGED fed
  /\ UNCHANGED app \/ WriteCell

\* What is being erased or written when power fails may hold anything; when
\* nothing is, nothing changes.
LosePower ==
  /\ phase' = "idle" /\ verdict' = "NA" /\ fed' = Nothing
  /\ \/ UNCHANGED app
     \/ phase = "erasing" /\ \E P \in Pages : OnlyIn(P)
     \/ phase = "receiving" /\ \E c \in AppCells : OnlyIn({c})

Next ==
  \/ Begin \/ ErasePage \/ FinishErase \/ OpenSession
  \/ Receive \/ Write \/ Accept \/ Refuse \/ LosePower

Spec == Init /\ [][Next]_flasherVars
=============================================================================
