------------------------------- MODULE UsbCdc -------------------------------
(***************************************************************************)
(* The USB serial line (src/usb/hw_config.c, src/usb/usb_conf.c): the main *)
(* loop, the USB interrupt and the host, which share five volatile         *)
(* variables and the registers of two bulk endpoints.                      *)
(*                                                                         *)
(* A step of the main loop is at most one access to something the          *)
(* interrupt shares: an increment is a load and a store, a comparison of   *)
(* two volatile variables two loads in either order, and the change of an  *)
(* endpoint status a load and a write of the bits to toggle.  The          *)
(* interrupt is never masked and runs to its end before the main loop      *)
(* goes on.                                                                *)
(***************************************************************************)
EXTENDS Integers, Sequences

CONSTANTS
  Byte,
  Input,           \* the bytes the host will send
  PackSize,        \* USB_CDC_EP1_PACK and USB_CDC_EP3_PACK, both 64
  Reply(_),        \* Reply(ch): the strings the main loop writes in answer to ch
  Configurations,  \* the values of SET_CONFIGURATION the host may use
  ZeroLength,      \* whether the host may send a packet without data
  MaxResets        \* bound: bus resets, the one on attachment included

ASSUME UsbAssumption ==
  /\ Byte # {}
  /\ Input \in Seq(Byte)
  /\ PackSize \in Nat \ {0}
  /\ \A ch \in Byte : Reply(ch) \in Seq(Seq(Byte) \ {<<>>})
  /\ Configurations \subseteq {0, 1}
  /\ ZeroLength \in BOOLEAN
  /\ MaxResets \in Nat

VARIABLES
  bus,      \* "detached", "reset" (ISTR_RESET pending), "default", "configured"
  resets,   \* bus resets so far
  ready,    \* usb_cdc_ready
  rxCnt,    \* usb_cdc_rx_cnt
  rxIdx,    \* usb_cdc_rx_idx
  rxData,   \* usb_cdc_rx_data
  txDone,   \* usb_cdc_tx_done
  ep1,      \* endpoint 1, to the host: STAT_TX, CTR_TX and packet memory
  ep3,      \* endpoint 3, from the host: STAT_RX, CTR_RX and packet memory
  pc,       \* where the main loop is
  reg,      \* a loaded counter or index
  stat,     \* a loaded endpoint status
  strings,  \* what the main loop has yet to write
  led,      \* the green LED
  typed,    \* how many bytes of Input the host has sent
  shown     \* what the host has received

driverVars == <<ready, rxCnt, rxIdx, rxData, txDone>>
mainVars   == <<pc, reg, stat, strings, led>>
hostVars   == <<typed, shown>>
vars == <<bus, resets, driverVars, ep1, ep3, mainVars, hostVars>>

\* The two status bits of an endpoint, as the set of those that are 1.
Status   == SUBSET {1, 2}
DISABLED == {}
NAK      == {2}
VALID    == {1, 2}

\* A write to the endpoint register toggles the status bits written as 1.
Differ(a, b) == (a \ b) \cup (b \ a)

\* Mutant: the status wanted is written as it is.
ToggleBlind(now, loaded, wanted) == Differ(now, wanted)

Toggle(now, loaded, wanted) == Differ(now, Differ(loaded, wanted))

Packet   == UNION {[1 .. n -> Byte] : n \in 0 .. PackSize}
Endpoint == [stat : Status, ctr : BOOLEAN, pma : Packet]
AnyByte  == CHOOSE b \in Byte : TRUE

Init ==
  /\ bus = "detached" /\ resets = 0
  /\ ready = FALSE /\ rxCnt = 0 /\ rxIdx = 0 /\ txDone = TRUE
  /\ rxData = [i \in 1 .. PackSize |-> AnyByte]
  /\ ep1 = [stat |-> DISABLED, ctr |-> FALSE, pma |-> <<>>]
  /\ ep3 = [stat |-> DISABLED, ctr |-> FALSE, pma |-> <<>>]
  /\ pc = "loop" /\ reg = 0 /\ stat = DISABLED /\ strings = <<>> /\ led = FALSE
  /\ typed = 0 /\ shown = <<>>

(***************************************************************************)
(* The host and the hardware of the device.                                *)
(***************************************************************************)

\* A bus reset disables the endpoints but keeps their CTR flags.
BusReset ==
  /\ resets < MaxResets /\ bus # "reset"
  /\ bus' = "reset" /\ resets' = resets + 1
  /\ ep1' = [ep1 EXCEPT !.stat = DISABLED]
  /\ ep3' = [ep3 EXCEPT !.stat = DISABLED]
  /\ UNCHANGED <<driverVars, mainVars, hostVars>>

SendPacket ==
  /\ bus = "configured" /\ ep3.stat = VALID
  /\ \E n \in (IF ZeroLength THEN 0 ELSE 1) .. PackSize :
       /\ typed + n <= Len(Input)
       /\ ep3' = [stat |-> NAK, ctr |-> TRUE, pma |-> SubSeq(Input, typed + 1, typed + n)]
       /\ typed' = typed + n
  /\ UNCHANGED <<bus, resets, driverVars, ep1, mainVars, shown>>

TakePacket ==
  /\ bus = "configured" /\ ep1.stat = VALID
  /\ shown' = shown \o ep1.pma
  /\ ep1' = [ep1 EXCEPT !.stat = NAK, !.ctr = TRUE]
  /\ UNCHANGED <<bus, resets, driverVars, ep3, mainVars, typed>>

(***************************************************************************)
(* The interrupt: USB_LP_CAN1_RX0_IRQHandler serves the completed          *)
(* transfers before a reset.                                               *)
(***************************************************************************)
InterruptPending == ep1.ctr \/ ep3.ctr \/ bus = "reset"

usb_cdc_on_tx_finish ==
  /\ ep1.ctr
  /\ ep1' = [ep1 EXCEPT !.ctr = FALSE]
  /\ txDone' = TRUE
  /\ UNCHANGED <<bus, resets, ready, rxCnt, rxIdx, rxData, ep3, mainVars, hostVars>>

usb_cdc_on_rx_data ==
  /\ ep3.ctr
  /\ rxCnt' = Len(ep3.pma)
  /\ rxIdx' = 0
  /\ rxData' = [i \in 1 .. PackSize |-> IF i <= rxCnt' THEN ep3.pma[i] ELSE rxData[i]]
  /\ ep3' = [ep3 EXCEPT !.ctr = FALSE, !.stat = IF rxCnt' = 0 THEN VALID ELSE @]
  /\ UNCHANGED <<bus, resets, ready, txDone, ep1, mainVars, hostVars>>

usb_cdc_reset ==
  /\ bus = "reset" /\ ~ep1.ctr /\ ~ep3.ctr
  /\ bus' = "default"
  /\ ready' = FALSE
  /\ ep1' = [ep1 EXCEPT !.stat = NAK]
  /\ ep3' = [ep3 EXCEPT !.stat = VALID]
  /\ UNCHANGED <<resets, rxCnt, rxIdx, rxData, txDone, mainVars, hostVars>>

\* A SET_CONFIGURATION request and the interrupt that serves it.
usb_cdc_set_configuration(cfg) ==
  /\ bus \in {"default", "configured"} /\ cfg \in Configurations
  /\ bus' = IF cfg # 0 THEN "configured" ELSE "default"
  /\ ready' = (ready \/ cfg # 0)
  /\ UNCHANGED <<resets, rxCnt, rxIdx, rxData, txDone, ep1, ep3, mainVars, hostVars>>

Interrupt == usb_cdc_on_tx_finish \/ usb_cdc_on_rx_data \/ usb_cdc_reset

(***************************************************************************)
(* The main loop.                                                          *)
(***************************************************************************)
Goto(from, to) == pc = from /\ pc' = to

SetLed ==
  /\ \/ Goto("loop", IF ready THEN "ledOn" ELSE "ledOff") /\ UNCHANGED led
     \/ Goto("ledOn", "getChar") /\ led' = TRUE
     \/ Goto("ledOff", "loop") /\ led' = FALSE
  /\ UNCHANGED <<driverVars, ep1, ep3, reg, stat, strings>>

\* usb_cdc_rx_cnt <= usb_cdc_rx_idx, from pc = from: the two loads in
\* either order.
CompareFrom(from, second) ==
  \/ Goto(from, second.idx) /\ reg' = rxCnt
  \/ Goto(from, second.cnt) /\ reg' = rxIdx

Compared(second, consumed, unread) ==
  /\ \/ Goto(second.idx, IF reg <= rxIdx THEN consumed ELSE unread)
     \/ Goto(second.cnt, IF rxCnt <= reg THEN consumed ELSE unread)
  /\ UNCHANGED reg

Waiting == [idx |-> "waitIdx", cnt |-> "waitCnt"]
Last    == [idx |-> "lastIdx", cnt |-> "lastCnt"]

\* usb_cdc_get_char returns 0, which the main loop ignores, when the line
\* is not ready; otherwise it waits for a byte.
EnterGetChar ==
  /\ Goto("getChar", IF ready THEN "wait" ELSE "loop")
  /\ UNCHANGED <<driverVars, ep1, ep3, reg, stat, strings, led>>

\* Mutant: a byte that is not there is waited for one comparison too few.
WaitOffByOne ==
  /\ \/ CompareFrom("wait", Waiting)
     \/ /\ \/ Goto("waitIdx", IF reg < rxIdx THEN "wait" ELSE "fetch")
           \/ Goto("waitCnt", IF rxCnt < reg THEN "wait" ELSE "fetch")
        /\ UNCHANGED reg
  /\ UNCHANGED <<driverVars, ep1, ep3, stat, strings, led>>

WaitForByte ==
  /\ \/ CompareFrom("wait", Waiting)
     \/ Compared(Waiting, "wait", "fetch")
  /\ UNCHANGED <<driverVars, ep1, ep3, stat, strings, led>>

FetchByte ==
  /\ \/ Goto("fetch", "load") /\ reg' = rxIdx /\ UNCHANGED strings
     \/ Goto("load", "incr") /\ strings' = Reply(rxData[reg + 1]) /\ UNCHANGED reg
  /\ UNCHANGED <<driverVars, ep1, ep3, stat, led>>

IncrementIndex ==
  /\ \/ Goto("incr", "store") /\ reg' = rxIdx /\ UNCHANGED rxIdx
     \/ Goto("store", "last") /\ rxIdx' = reg + 1 /\ UNCHANGED reg
  /\ UNCHANGED <<ready, rxCnt, rxData, txDone, ep1, ep3, stat, strings, led>>

\* Mutant: the endpoint is opened again before the packet is used up.
ReleaseEarly ==
  /\ CompareFrom("last", Last) \/ Compared(Last, "rxRead", "rxRead")
  /\ UNCHANGED <<driverVars, ep1, ep3, stat, strings, led>>

\* Mutant: the last byte of a packet is not noticed.
LastByteMissed ==
  /\ \/ CompareFrom("last", Last)
     \/ /\ \/ Goto("lastIdx", IF reg < rxIdx THEN "rxRead" ELSE "put")
           \/ Goto("lastCnt", IF rxCnt < reg THEN "rxRead" ELSE "put")
        /\ UNCHANGED reg
  /\ UNCHANGED <<driverVars, ep1, ep3, stat, strings, led>>

\* The endpoint receives again only when the packet is used up.
CheckLastByte ==
  /\ CompareFrom("last", Last) \/ Compared(Last, "rxRead", "put")
  /\ UNCHANGED <<driverVars, ep1, ep3, stat, strings, led>>

SetEPRxValid ==
  /\ \/ Goto("rxRead", "rxWrite") /\ stat' = ep3.stat /\ UNCHANGED ep3
     \/ /\ Goto("rxWrite", "put")
        /\ ep3' = [ep3 EXCEPT !.stat = Toggle(@, stat, VALID)]
        /\ UNCHANGED stat
  /\ UNCHANGED <<driverVars, ep1, reg, strings, led>>

usb_cdc_get_char ==
  EnterGetChar \/ WaitForByte \/ FetchByte \/ IncrementIndex \/ CheckLastByte \/ SetEPRxValid

\* usb_cdc_put_string and usb_cdc_put_char give up on a string when the
\* line is not ready.
NextString ==
  /\ \/ Goto("put", "loop") /\ strings = <<>> /\ UNCHANGED strings
     \/ Goto("put", "txWait") /\ strings # <<>> /\ ready /\ UNCHANGED strings
     \/ Goto("put", "put") /\ strings # <<>> /\ ~ready /\ strings' = Tail(strings)
  /\ UNCHANGED <<driverVars, ep1, ep3, reg, stat, led>>

\* Mutant: the packet memory is taken without waiting for the last packet.
ClaimAtOnce ==
  /\ \/ Goto("txWait", "claim") /\ UNCHANGED txDone
     \/ Goto("claim", "copy") /\ txDone' = FALSE
  /\ UNCHANGED <<ready, rxCnt, rxIdx, rxData, ep1, ep3, reg, stat, strings, led>>

ClaimTx ==
  /\ \/ Goto("txWait", "claim") /\ txDone /\ UNCHANGED txDone
     \/ Goto("claim", "copy") /\ txDone' = FALSE
  /\ UNCHANGED <<ready, rxCnt, rxIdx, rxData, ep1, ep3, reg, stat, strings, led>>

\* Mutant: the string written whole.
PackLenWhole(str) == Len(str)

PackLen(str) == IF Len(str) < PackSize THEN Len(str) ELSE PackSize

CopyPacket ==
  /\ Goto("copy", "txRead")
  /\ ep1' = [ep1 EXCEPT !.pma = SubSeq(Head(strings), 1, PackLen(Head(strings)))]
  /\ UNCHANGED <<driverVars, ep3, reg, stat, strings, led>>

AfterPacket ==
  LET str == Head(strings)
      rest == SubSeq(str, PackLen(str) + 1, Len(str))
  IN  (IF rest = <<>> THEN <<>> ELSE <<rest>>) \o Tail(strings)

SetEPTxValid ==
  /\ \/ Goto("txRead", "txWrite") /\ stat' = ep1.stat /\ UNCHANGED <<ep1, strings>>
     \/ /\ Goto("txWrite", "put")
        /\ ep1' = [ep1 EXCEPT !.stat = Toggle(@, stat, VALID)]
        /\ strings' = AfterPacket
        /\ UNCHANGED stat
  /\ UNCHANGED <<driverVars, ep3, reg, led>>

usb_cdc_write == NextString \/ ClaimTx \/ CopyPacket \/ SetEPTxValid

\* An interrupt that is pending runs before the main loop's next step.
Main ==
  /\ ~InterruptPending
  /\ SetLed \/ usb_cdc_get_char \/ usb_cdc_write
  /\ UNCHANGED <<bus, resets, hostVars>>

Host ==
  \/ BusReset \/ SendPacket \/ TakePacket
  \/ \E cfg \in Configurations : usb_cdc_set_configuration(cfg)

Next == Host \/ Interrupt \/ Main

\* The core executes the interrupt and the main loop; nothing is assumed of
\* the host.
DeviceSpec == Init /\ [][Next]_vars /\ WF_vars(Interrupt) /\ WF_vars(Main)

\* A host that attaches, configures the device, polls its endpoint and sends
\* its input.
AttachedSpec ==
  /\ DeviceSpec
  /\ WF_vars(BusReset /\ resets = 0)
  /\ WF_vars(usb_cdc_set_configuration(1) /\ bus = "default")
  /\ WF_vars(SendPacket) /\ WF_vars(TakePacket)

-----------------------------------------------------------------------------
(***************************************************************************)
(* Properties.                                                             *)
(***************************************************************************)
Places ==
  {"loop", "ledOn", "ledOff", "getChar", "wait", "waitIdx", "waitCnt", "fetch", "load",
   "incr", "store", "last", "lastIdx", "lastCnt", "rxRead", "rxWrite", "put", "txWait",
   "claim", "copy", "txRead", "txWrite"}

\* Every variable holds a value of its C type; the counters stay within the
\* buffer they index.
TypeOK ==
  /\ bus \in {"detached", "reset", "default", "configured"} /\ resets \in 0 .. MaxResets
  /\ ready \in BOOLEAN /\ txDone \in BOOLEAN /\ led \in BOOLEAN
  /\ rxCnt \in 0 .. PackSize /\ rxIdx \in 0 .. PackSize /\ reg \in 0 .. PackSize
  /\ rxData \in [1 .. PackSize -> Byte]
  /\ ep1 \in Endpoint /\ ep3 \in Endpoint /\ stat \in Status
  /\ pc \in Places
  /\ strings \in Seq(Seq(Byte) \ {<<>>})
  /\ typed \in 0 .. Len(Input) /\ shown \in Seq(Byte)

\* usb_cdc_get_char never indexes past usb_cdc_rx_data, even when a reset
\* or an empty packet lets the interrupt replace the counters between the
\* comparison, the load and the increment.
IndexInBounds == pc = "load" => reg < PackSize

\* The core and the bus never use the same packet memory at once: it is not
\* filled while the host may fetch it, nor open to the host while it holds a
\* packet usb_cdc_on_rx_data has yet to copy.
PacketMemoryOwned ==
  /\ pc = "copy" => ep1.stat # VALID
  /\ ep3.ctr => ep3.stat # VALID

\* What has been received and not read, and what the host may fetch.
Taken  == IF pc \in {"incr", "store"} THEN rxIdx + 1 ELSE rxIdx
Unread == IF ep3.ctr THEN ep3.pma ELSE SubSeq(rxData, Taken + 1, rxCnt)
InFlight == IF ep1.stat = VALID THEN ep1.pma ELSE <<>>

\* On a line that stays up, main loop and host never both wait: while
\* usb_cdc_tx_done is FALSE there is a packet for the host to fetch, a
\* completed transfer for the interrupt to serve, or the main loop is about to
\* open the endpoint; and when everything received is read, the host may send
\* or the main loop is about to let it.
NoHandoverLost ==
  /\ ~txDone => ep1.stat = VALID \/ ep1.ctr \/ pc \in {"copy", "txRead", "txWrite"}
  /\ ready /\ Unread = <<>> =>
       \/ ep3.stat = VALID
       \/ pc \in {"incr", "store", "last", "lastIdx", "lastCnt", "rxRead", "rxWrite"}

T == INSTANCE Terminal WITH toDevice <- Unread, toHost <- InFlight

\* On a line that stays up, the serial line is the one Terminal describes:
\* no byte is lost, doubled or overtaken between the host, the interrupt and
\* the main loop.
ImplementsTerminal == T!Spec

\* Everything the host sends is read and answered: neither side waits for
\* the other for good.
AllAnswered ==
  <>[](typed = Len(Input) /\ Unread = <<>> /\ strings = <<>> /\ InFlight = <<>>)

\* README: "Green LED on board should switch on which indicates CDC
\* connection."  When the connection is gone the LED does not stay on.
LedShowsConnection == (~ready /\ led) ~> (ready \/ ~led)
=============================================================================
