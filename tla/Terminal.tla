------------------------------ MODULE Terminal ------------------------------
(***************************************************************************)
(* What the USB serial line promises the main loop and the person at the   *)
(* terminal: the bytes typed are read in order and once each, every one is *)
(* answered before the next is read, and the answers are shown in order.   *)
(* Each direction holds one packet at a time.  UsbCdc implements it.       *)
(***************************************************************************)
EXTENDS Integers, Sequences

CONSTANTS
  Input,     \* the bytes that will be typed
  PackSize,  \* bytes in a packet
  Reply(_)   \* Reply(ch): the strings the main loop writes in answer to ch

VARIABLES
  typed,     \* how many bytes of Input have left the host
  toDevice,  \* bytes on their way to the main loop
  strings,   \* strings the main loop has yet to write
  toHost,    \* the packet on its way to the host
  shown      \* bytes the terminal has shown

termVars == <<typed, toDevice, strings, toHost, shown>>

Init == typed = 0 /\ toDevice = <<>> /\ strings = <<>> /\ toHost = <<>> /\ shown = <<>>

Type ==
  \E n \in 1 .. PackSize :
    /\ toDevice = <<>> /\ typed + n <= Len(Input)
    /\ toDevice' = SubSeq(Input, typed + 1, typed + n)
    /\ typed' = typed + n
    /\ UNCHANGED <<strings, toHost, shown>>

Read ==
  /\ strings = <<>> /\ toDevice # <<>>
  /\ strings' = Reply(Head(toDevice))
  /\ toDevice' = Tail(toDevice)
  /\ UNCHANGED <<typed, toHost, shown>>

Write ==
  /\ strings # <<>> /\ toHost = <<>>
  /\ LET str == Head(strings) IN
     \E n \in 1 .. PackSize :
       /\ n <= Len(str)
       /\ toHost' = SubSeq(str, 1, n)
       /\ strings' = (IF n = Len(str) THEN <<>> ELSE <<SubSeq(str, n + 1, Len(str))>>)
                     \o Tail(strings)
  /\ UNCHANGED <<typed, toDevice, shown>>

Show ==
  /\ toHost # <<>>
  /\ shown' = shown \o toHost
  /\ toHost' = <<>>
  /\ UNCHANGED <<typed, toDevice, strings>>

Next == Type \/ Read \/ Write \/ Show

Spec == Init /\ [][Next]_termVars
=============================================================================
