--------------------------- MODULE ControlEndpoint ---------------------------
(***************************************************************************)
(* Endpoint 0 of the USB device: the device library's control transfers    *)
(* (usb_int.c, usb_core.c), the device's answers (src/usb/usb_conf.c), and *)
(* the host that enumerates it.                                            *)
(*                                                                         *)
(* The interrupt takes a step for each access to what the bus shares: the  *)
(* packets go on while it runs.  A request is a record of the fields the   *)
(* library looks at; the two bytes of wValue and wIndex are v1, v0 and     *)
(* i1, i0.  A byte of an answer is a triple: where it is from, which       *)
(* version of that, and its place.                                         *)
(***************************************************************************)
EXTENDS Integers, Sequences

CONSTANTS
  Requests,       \* the requests the host makes
  PackSize,       \* USB_CDC_EP0_PACK and MaxPacketSize, 64
  DeviceSize,     \* the sizes of the descriptors: 18,
  ConfigSize,     \* 44
  StringSize,     \* and 4, 22, 34
  Aborts,         \* whether the host may give a transfer up
  Hurries,        \* whether it may send a SETUP the interrupt is not ready for
  MaxResets       \* bound: bus resets, the first one included

Byte8 == 0 .. 255
Request ==
  [type : {"device", "interface", "endpoint", "class"}, name : STRING, in : BOOLEAN,
   v1 : Byte8, v0 : Byte8, i1 : Byte8, i0 : Byte8, length : Nat]

\* Of the host it is assumed that a read request has the direction of a read:
\* to one with the other direction the library answers with DataStageOut,
\* which nothing the device is meant to serve needs and is left out.
GETs == {"GET_DESCRIPTOR", "GET_STATUS", "GET_CONFIGURATION", "GET_INTERFACE"}

\* What stands for no request.
None  == [type |-> "class", name |-> "none", in |-> FALSE,
          v1 |-> 0, v0 |-> 0, i1 |-> 0, i0 |-> 0, length |-> 0]

ASSUME ControlAssumption ==
  /\ Requests \subseteq Request /\ None \notin Requests
  /\ \A r \in Requests : r.name \in GETs => r.in
  /\ PackSize \in Nat /\ PackSize >= 2
  /\ DeviceSize \in Nat \ {0} /\ ConfigSize \in Nat \ {0}
  /\ StringSize \in [0 .. 2 -> Nat \ {0}]
  /\ Aborts \in BOOLEAN /\ Hurries \in BOOLEAN /\ MaxResets \in Nat

VARIABLES
  bus, resets,     \* "detached", "reset" (ISTR_RESET pending) or "up"
  daddr,           \* the address the device answers to
  ready,           \* usb_cdc_ready
  configuration,   \* Current_Configuration
  wakeup,          \* bit 5 of Current_Feature
  halted,          \* the halted bulk and interrupt endpoints
  control,         \* ControlState
  request,         \* the request being served
  length, offset,  \* Usb_wLength, Usb_wOffset
  copy,            \* CopyData
  zlp,             \* Data_Mul_MaxPacketSize
  ep0,             \* the registers and the packet memory of endpoint 0
  isr,             \* where the interrupt is
  loaded,          \* the register of endpoint 0 as it was last read
  istr,            \* wIstr: the direction of the transfer, and a reset
  save,            \* SaveRState and SaveTState
  host,            \* the host: its address for the device, request, stage, data
  before,          \* history: the device's state when the request was made
  hurried          \* history: that request came while an interrupt was due

deviceVars == <<daddr, ready, configuration, wakeup, halted>>
stageVars  == <<control, length, offset, copy, zlp>>
isrVars    == <<isr, loaded, istr, save>>
history    == <<before, hurried>>
vars == <<bus, resets, deviceVars, stageVars, request, ep0, isrVars, host, history>>

\* The two status bits of a direction, as the set of those that are 1.  A
\* write to the register toggles the bits written as 1.
Statuses == SUBSET {1, 2}
DISABLED == {}
STALL    == {1}
NAK      == {2}
VALID    == {1, 2}

Differ(a, b) == (a \ b) \cup (b \ a)

\* The status that is now, after a write computed for the one loaded.
Toggle(now, old, wanted) == Differ(now, Differ(old, wanted))

\* Forgotten once it is written back.
NoRegister == [rx |-> DISABLED, tx |-> DISABLED, ctrRx |-> FALSE, ctrTx |-> FALSE]

State == [configuration |-> configuration, wakeup |-> wakeup, address |-> daddr]
Quiet == isr = "idle" /\ ~ep0.ctrRx /\ ~ep0.ctrTx /\ bus = "up"

\* USB_Init and usb_cdc_init: ControlState 2 is IN_DATA.
Init ==
  /\ bus = "detached" /\ resets = 0
  /\ daddr = 0 /\ ready = FALSE /\ configuration = 0 /\ wakeup = FALSE /\ halted = {}
  /\ control = "IN_DATA" /\ length = 0 /\ offset = 0 /\ copy = "NULL" /\ zlp = FALSE
  /\ request = None
  /\ ep0 = [rx |-> DISABLED, tx |-> DISABLED, ctrRx |-> FALSE, ctrTx |-> FALSE,
            setup |-> FALSE, rxPacket |-> None, txPacket |-> <<>>]
  /\ isr = "idle" /\ loaded = NoRegister /\ istr = [rx |-> FALSE, reset |-> FALSE]
  /\ save = [rx |-> DISABLED, tx |-> DISABLED]
  /\ host = [address |-> 0, request |-> None, stage |-> "ok", data |-> <<>>]
  /\ before = State /\ hurried = FALSE

-----------------------------------------------------------------------------
(***************************************************************************)
(* What the device answers.                                                *)
(***************************************************************************)
ValueIs(r, v) == r.v1 = 0 /\ r.v0 = v
NoIndex(r)    == r.i1 = 0 /\ r.i0 = 0

\* The endpoint a request names, and whether usb_cdc_reset enables it.
Endpoint(r) == [number |-> r.i0 % 128, in |-> r.i0 >= 128]
EndpointUsed(r) ==
  Endpoint(r).number = 0 \/ Endpoint(r) \in [number : {1, 2}, in : {TRUE}]
                         \/ Endpoint(r) = [number |-> 3, in |-> FALSE]

\* The status of that endpoint is not DISABLED when the request is served.
\* Endpoint 0 is at work itself; a bus reset disables the others.
OwnStatus(e) == IF e.in THEN ep0.tx ELSE ep0.rx
EndpointEnabled(r) ==
  r.type = "endpoint" =>
    IF Endpoint(r).number = 0 THEN OwnStatus(Endpoint(r)) # DISABLED ELSE bus = "up"

\* The requests without data that NoData_Setup0 performs, in state s.
Performed(r, s) ==
  \/ r.type = "device" /\ r.name = "SET_CONFIGURATION"
     /\ r.v0 <= 1 /\ r.v1 = 0 /\ NoIndex(r)
  \/ r.type = "device" /\ r.name = "SET_ADDRESS"
     /\ r.v0 <= 127 /\ r.v1 = 0 /\ NoIndex(r) /\ s.configuration = 0
  \/ r.type = "device" /\ r.name = "SET_FEATURE" /\ r.v0 = 1 /\ NoIndex(r)
  \/ r.type = "device" /\ r.name = "CLEAR_FEATURE" /\ r.v0 = 1 /\ NoIndex(r) /\ s.wakeup
  \/ r.type = "interface" /\ r.name = "SET_INTERFACE"
     /\ s.configuration # 0 /\ NoIndex(r) /\ ValueIs(r, 0)
  \/ r.type = "endpoint" /\ r.name \in {"SET_FEATURE", "CLEAR_FEATURE"}
     /\ ValueIs(r, 0) /\ EndpointUsed(r) /\ s.configuration # 0
     /\ (r.name = "CLEAR_FEATURE" => r.i1 = 0)

\* The routine Data_Setup0 chooses for a request with data.
CopyRoutine(r, s) ==
  CASE r.name = "GET_DESCRIPTOR" /\ r.type = "device" /\ r.v1 = 1 -> "GetDeviceDescriptor"
    [] r.name = "GET_DESCRIPTOR" /\ r.type = "device" /\ r.v1 = 2 -> "GetConfigDescriptor"
    [] r.name = "GET_DESCRIPTOR" /\ r.type = "device" /\ r.v1 = 3 -> "GetStringDescriptor"
    [] /\ r.name = "GET_STATUS" /\ ValueIs(r, 0) /\ r.length = 2 /\ r.i1 = 0
       /\ \/ r.type = "device" /\ r.i0 = 0
          \/ r.type = "interface" /\ r.i0 = 0 /\ s.configuration # 0
          \/ r.type = "endpoint" /\ EndpointUsed(r) -> "GetStatus"
    [] r.name = "GET_CONFIGURATION" /\ r.type = "device" -> "GetConfiguration"
    [] r.name = "GET_INTERFACE" /\ r.type = "interface" /\ s.configuration # 0
       /\ ValueIs(r, 0) /\ NoIndex(r) /\ r.length = 1 -> "GetInterface"
    [] OTHER -> "NULL"

\* Mutant: the number of a string is not checked.
SizeOfUnchecked(c, r, old) ==
  CASE c = "GetDeviceDescriptor" -> DeviceSize
    [] c = "GetConfigDescriptor" -> ConfigSize
    [] c = "GetStringDescriptor" -> StringSize[r.v0 % 3]
    [] c = "GetStatus" -> 2
    [] OTHER -> 1

\* What CopyRoutine(0) sets Usb_wLength to; usb_cdc_get_str_descriptor
\* leaves it alone when there is no such string.
SizeOf(c, r, old) ==
  CASE c = "GetDeviceDescriptor" -> DeviceSize
    [] c = "GetConfigDescriptor" -> ConfigSize
    [] c = "GetStringDescriptor" -> IF r.v0 <= 2 THEN StringSize[r.v0] ELSE old
    [] c = "GetStatus" -> 2
    [] OTHER -> 1

\* Which version of the data CopyData returns; a string that does not exist
\* is read from a null pointer.
Version(c, r, s) ==
  CASE c = "GetStringDescriptor" -> IF r.v0 <= 2 THEN r.v0 ELSE -1
    [] c = "GetConfiguration" -> s.configuration
    [] c = "GetStatus" /\ r.type = "device" -> IF s.wakeup THEN 1 ELSE 0
    [] c = "GetStatus" /\ r.type = "endpoint" ->
         IF \/ Endpoint(r) \in halted
            \/ Endpoint(r).number = 0 /\ OwnStatus(Endpoint(r)) = STALL THEN 1 ELSE 0
    [] OTHER -> 0

Bytes(c, r, off, n) == [i \in 1 .. n |-> <<c, Version(c, r, State), off + i>>]

\* Mutant: the comparison the wrong way round.
Greater(a, b) == IF a > b THEN a ELSE b

Lesser(a, b) == IF a < b THEN a ELSE b

-----------------------------------------------------------------------------
(***************************************************************************)
(* The interrupt.  CTR_LP notes the endpoint's statuses and answers NAK    *)
(* while it works; what the handlers want them to be goes to SaveRState    *)
(* and SaveTState and is set at the end.                                   *)
(***************************************************************************)
\* Post0_Process: a stalled transfer stalls both directions.
Stalled == save' = [rx |-> STALL, tx |-> STALL] /\ control' = "STALLED"

\* Mutant: no packet of length zero is sent.
DataStageInNoZlp(n, off, last, more, c, r) ==
  IF n = 0 /\ last
  THEN /\ control' = "WAIT_STATUS_OUT"
       /\ save' = [save EXCEPT !.tx = STALL]
       /\ zlp' = more
       /\ UNCHANGED <<ep0, length, offset>>
  ELSE LET m == Lesser(n, PackSize)
       IN  /\ ep0' = [ep0 EXCEPT !.txPacket = Bytes(c, r, off, m)]
           /\ length' = n - m /\ offset' = off + m
           /\ control' = IF n <= PackSize THEN "LAST_IN_DATA" ELSE "IN_DATA"
           /\ save' = [rx |-> VALID, tx |-> VALID]
           /\ zlp' = more

\* Mutant: what a packet took is not subtracted.
DataStageInKeepsLength(n, off, last, more, c, r) ==
  LET m == Lesser(n, PackSize)
  IN  /\ ep0' = [ep0 EXCEPT !.txPacket = Bytes(c, r, off, m)]
      /\ length' = n /\ offset' = off + m
      /\ control' = IF n <= PackSize THEN "LAST_IN_DATA" ELSE "IN_DATA"
      /\ save' = [rx |-> VALID, tx |-> VALID]
      /\ zlp' = more

\* The next packet of an answer of which n bytes are left from off on.
DataStageIn(n, off, last, more, c, r) ==
  IF n = 0 /\ last
  THEN IF more
       THEN /\ ep0' = [ep0 EXCEPT !.txPacket = <<>>]
            /\ control' = "LAST_IN_DATA" /\ zlp' = FALSE
            /\ save' = [save EXCEPT !.tx = VALID]
            /\ UNCHANGED <<length, offset>>
       ELSE /\ control' = "WAIT_STATUS_OUT"
            /\ save' = [save EXCEPT !.tx = STALL]
            /\ zlp' = more
            /\ UNCHANGED <<ep0, length, offset>>
  ELSE LET m == Lesser(n, PackSize)
       IN  /\ ep0' = [ep0 EXCEPT !.txPacket = Bytes(c, r, off, m)]
           /\ length' = n - m /\ offset' = off + m
           /\ control' = IF n <= PackSize THEN "LAST_IN_DATA" ELSE "IN_DATA"
           /\ save' = [rx |-> VALID, tx |-> VALID]
           /\ zlp' = more

Standard_SetConfiguration(r) ==
  /\ configuration' = IF r.name = "SET_CONFIGURATION" THEN r.v0 ELSE configuration
  /\ ready' = (ready \/ (r.name = "SET_CONFIGURATION" /\ r.v0 # 0))

SetDeviceFeature(r) ==
  wakeup' = IF r.type = "device" /\ r.name \in {"SET_FEATURE", "CLEAR_FEATURE"}
            THEN r.name = "SET_FEATURE" ELSE wakeup

\* The halt of an endpoint other than 0.
SetEndPointFeature(r) ==
  halted' = IF r.type # "endpoint" \/ Endpoint(r).number = 0 THEN halted
            ELSE IF r.name = "SET_FEATURE" THEN halted \cup {Endpoint(r)}
            ELSE halted \ {Endpoint(r)}

\* Mutant: the address is set with the request.
PerformAtOnce(r) ==
  /\ Standard_SetConfiguration(r) /\ SetDeviceFeature(r) /\ SetEndPointFeature(r)
  /\ daddr' = IF r.name = "SET_ADDRESS" THEN r.v0 ELSE daddr

\* SET_INTERFACE can only set what is set.
Perform(r) ==
  /\ Standard_SetConfiguration(r) /\ SetDeviceFeature(r) /\ SetEndPointFeature(r)
  /\ UNCHANGED daddr

NoData_Setup0(r) ==
  /\ IF Performed(r, State) /\ EndpointEnabled(r)
     THEN /\ Perform(r)
          /\ control' = "WAIT_STATUS_IN"
          /\ save' = [save EXCEPT !.tx = VALID]
          /\ ep0' = [ep0 EXCEPT !.txPacket = <<>>]
     ELSE Stalled /\ UNCHANGED <<deviceVars, ep0>>
  /\ UNCHANGED <<length, offset, copy, zlp>>

\* Whether an answer ends with a packet of length zero: n bytes that fill
\* their packets, of the wanted.  When n is what is wanted, or more than a
\* packet but no multiple, the flag keeps the last transfer's value.
EndsEmpty(n, wanted) ==
  IF n < wanted
  THEN IF n < PackSize THEN FALSE ELSE zlp \/ n % PackSize = 0
  ELSE zlp

Routine(r) == IF EndpointEnabled(r) THEN CopyRoutine(r, State) ELSE "NULL"

\* Mutant: the answer is not cut to the length wanted.
Data_Setup0Whole(r) ==
  LET c == Routine(r)
      n == SizeOf(c, r, length)
  IN  /\ IF c = "NULL"
         THEN Stalled /\ UNCHANGED <<length, offset, copy, zlp, ep0>>
         ELSE copy' = c /\ DataStageIn(n, 0, FALSE, EndsEmpty(n, r.length), c, r)
      /\ UNCHANGED deviceVars

Data_Setup0(r) ==
  LET c == Routine(r)
      n == SizeOf(c, r, length)
  IN  /\ \/ c = "NULL" /\ Stalled /\ UNCHANGED <<length, offset, copy, zlp, ep0>>
         \/ /\ c # "NULL" /\ n = 0
            /\ Stalled /\ copy' = c /\ length' = 0 /\ offset' = 0 /\ UNCHANGED <<zlp, ep0>>
         \/ /\ c # "NULL" /\ n # 0
            /\ copy' = c
            /\ DataStageIn(Lesser(n, r.length), 0, FALSE, EndsEmpty(n, r.length), c, r)
      /\ UNCHANGED deviceVars

Setup0_Process ==
  LET r == ep0.rxPacket
  IN  /\ request' = r
      /\ \/ r.length = 0 /\ NoData_Setup0(r)
         \/ r.length # 0 /\ Data_Setup0(r)

\* An address takes effect when the host has seen the status.
In0_Process ==
  /\ IF control \in {"IN_DATA", "LAST_IN_DATA"}
     THEN /\ DataStageIn(length, offset, control = "LAST_IN_DATA", zlp, copy, request)
          /\ UNCHANGED <<daddr, copy>>
     ELSE /\ Stalled
          /\ daddr' = IF /\ control = "WAIT_STATUS_IN" /\ request.type = "device"
                         /\ request.name = "SET_ADDRESS"
                      THEN request.v0 ELSE daddr
          /\ UNCHANGED <<length, offset, copy, zlp, ep0>>
  /\ UNCHANGED <<ready, configuration, wakeup, halted, request>>

\* The status of an answer, or the host gives it up: with such a host OUT_DATA
\* is not reached.
Out0_Process ==
  Stalled /\ UNCHANGED <<length, offset, copy, zlp, ep0, deviceVars, request>>

\* wIstr names a packet from the host before one to the host.
Enter ==
  /\ isr = "idle" /\ (ep0.ctrRx \/ ep0.ctrTx)
  /\ isr' = "save"
  /\ istr' = [rx |-> ep0.ctrRx, reset |-> bus = "reset"]
  /\ UNCHANGED <<bus, resets, deviceVars, stageVars, request, ep0, loaded, save, host, history>>

SaveStatus ==
  /\ isr = "save" /\ isr' = "readForNak"
  /\ save' = [rx |-> ep0.rx, tx |-> ep0.tx]
  /\ UNCHANGED <<bus, resets, deviceVars, stageVars, request, ep0, loaded, istr, host, history>>

\* The register is read before each write.
ReadFor == [readForNak |-> "nak", readForClear |-> "clear", readForFeature |-> "feature",
            readForRestore |-> "restore"]
GetENDPOINT ==
  /\ isr \in DOMAIN ReadFor /\ isr' = ReadFor[isr]
  /\ loaded' = [rx |-> ep0.rx, tx |-> ep0.tx, ctrRx |-> ep0.ctrRx, ctrTx |-> ep0.ctrTx]
  /\ UNCHANGED <<bus, resets, deviceVars, stageVars, request, ep0, istr, save, host, history>>

\* SetEPRxTxStatus, which leaves the CTR flags alone.
SetStatus(rx, tx) ==
  /\ ep0' = [ep0 EXCEPT !.rx = Toggle(@, loaded.rx, rx), !.tx = Toggle(@, loaded.tx, tx)]
  /\ loaded' = NoRegister

SetNak ==
  /\ isr = "nak" /\ isr' = "readForClear"
  /\ SetStatus(NAK, NAK)
  /\ UNCHANGED <<bus, resets, deviceVars, stageVars, request, istr, save, host, history>>

\* A CTR flag is cleared by writing 0; the other one is written as it was
\* loaded, which clears it if it was set only since.
ClearCtr ==
  /\ isr = "clear"
  /\ isr' = IF ~istr.rx THEN "in0" ELSE IF ep0.setup THEN "setup0" ELSE "out0"
  /\ ep0' = [ep0 EXCEPT !.ctrRx = @ /\ loaded.ctrRx /\ ~istr.rx,
                        !.ctrTx = @ /\ loaded.ctrTx /\ istr.rx]
  /\ loaded' = NoRegister
  /\ UNCHANGED <<bus, resets, deviceVars, stageVars, request, istr, save, host, history>>

\* A request that halts endpoint 0, or clears its halt, writes to the register
\* the interrupt is at work with.
WritesOwn(r) ==
  /\ r.type = "endpoint" /\ Endpoint(r).number = 0 /\ r.length = 0
  /\ Performed(r, State) /\ EndpointEnabled(r)
  /\ r.name = "CLEAR_FEATURE" => OwnStatus(Endpoint(r)) = STALL

FeatureBegins ==
  /\ isr = "setup0" /\ WritesOwn(ep0.rxPacket)
  /\ isr' = "readForFeature" /\ request' = ep0.rxPacket
  /\ UNCHANGED <<bus, resets, deviceVars, stageVars, ep0, loaded, istr, save, host, history>>

\* The bus sees that status until the interrupt restores the saved one.
SetFeature ==
  /\ isr = "feature" /\ isr' = "readForRestore"
  /\ LET e      == Endpoint(request)
         wanted == IF request.name = "SET_FEATURE" THEN STALL ELSE VALID
     IN  ep0' = [ep0 EXCEPT !.rx = IF e.in THEN @ ELSE Toggle(@, loaded.rx, wanted),
                            !.tx = IF e.in THEN Toggle(@, loaded.tx, wanted) ELSE @,
                            !.txPacket = <<>>]
  /\ control' = "WAIT_STATUS_IN" /\ save' = [save EXCEPT !.tx = VALID]
  /\ loaded' = NoRegister
  /\ UNCHANGED <<bus, resets, deviceVars, length, offset, copy, zlp, request, istr, host,
                 history>>

Process ==
  /\ \/ isr = "setup0" /\ ~WritesOwn(ep0.rxPacket) /\ Setup0_Process
     \/ isr = "in0" /\ In0_Process
     \/ isr = "out0" /\ Out0_Process
  /\ isr' = "readForRestore"
  /\ UNCHANGED <<bus, resets, loaded, istr, host, history>>

\* Mutant: only the status for packets from the host is set.
RestoreRxOnly ==
  /\ isr = "restore" /\ isr' = IF istr.reset THEN "reset" ELSE "idle"
  /\ SetStatus(save.rx, NAK)
  /\ UNCHANGED <<bus, resets, deviceVars, stageVars, request, istr, save, host, history>>

\* CTR_LP returns after one packet of endpoint 0: a reset it saw with it is
\* served before the next.
Restore ==
  /\ isr = "restore" /\ isr' = IF istr.reset THEN "reset" ELSE "idle"
  /\ SetStatus(save.rx, save.tx)
  /\ UNCHANGED <<bus, resets, deviceVars, stageVars, request, istr, save, host, history>>

EnterReset ==
  /\ isr = "idle" /\ bus = "reset" /\ ~ep0.ctrRx /\ ~ep0.ctrTx
  /\ isr' = "reset"
  /\ UNCHANGED <<bus, resets, deviceVars, stageVars, request, ep0, loaded, istr, save, host,
                 history>>

\* Mutant: the address is kept.
ResetKeepsAddress ==
  /\ isr = "reset" /\ isr' = "idle" /\ bus' = "up"
  /\ ready' = FALSE /\ configuration' = 0 /\ wakeup' = FALSE /\ halted' = {}
  /\ ep0' = [ep0 EXCEPT !.rx = VALID, !.tx = STALL]
  /\ UNCHANGED <<resets, daddr, stageVars, request, loaded, istr, save, host, history>>

\* ControlState and what belongs to it keep their values.
usb_cdc_reset ==
  /\ isr = "reset" /\ isr' = "idle" /\ bus' = "up"
  /\ ready' = FALSE /\ configuration' = 0 /\ wakeup' = FALSE /\ halted' = {} /\ daddr' = 0
  /\ ep0' = [ep0 EXCEPT !.rx = VALID, !.tx = STALL]
  /\ UNCHANGED <<resets, stageVars, request, loaded, istr, save, host, history>>

Interrupt ==
  \/ Enter \/ SaveStatus \/ GetENDPOINT \/ SetNak \/ ClearCtr \/ FeatureBegins \/ SetFeature
  \/ Process \/ Restore \/ EnterReset \/ usb_cdc_reset

\* SetEPTxValid and SetEPRxValid of the main loop open an endpoint again.
MainLoopOpens ==
  /\ isr = "idle" /\ ready
  /\ \E e \in halted : halted' = halted \ {e}
  /\ UNCHANGED <<bus, resets, daddr, ready, configuration, wakeup, stageVars, request, ep0,
                 isrVars, host, history>>


(***************************************************************************)
(* The bus and the host.                                                   *)
(***************************************************************************)
\* A bus reset disables the endpoint but keeps its CTR flags.
BusReset ==
  /\ resets < MaxResets /\ bus # "reset"
  /\ bus' = "reset" /\ resets' = resets + 1
  /\ ep0' = [ep0 EXCEPT !.rx = DISABLED, !.tx = DISABLED]
  /\ host' = [address |-> 0, request |-> None, stage |-> "ok", data |-> <<>>]
  /\ before' = [configuration |-> 0, wakeup |-> FALSE, address |-> 0]
  /\ UNCHANGED <<deviceVars, stageVars, request, isrVars, hurried>>

Running   == host.stage \notin {"ok", "stall"}
Reachable == bus = "up" /\ host.address = daddr

FirstStage(r) ==
  IF r.length = 0 THEN "statusIn" ELSE IF r.in THEN "data" ELSE "dataOut"

\* A transfer that changes the device is given up by a bus reset only.
MayBegin ==
  /\ ~Running \/ (Aborts /\ host.request.in)
  /\ Quiet \/ Hurries

\* A SETUP packet is always taken, unless the last one is still there.
SendSetup(r) ==
  /\ Reachable /\ MayBegin /\ ~ep0.ctrRx
  /\ ep0' = [ep0 EXCEPT !.rx = NAK, !.tx = NAK, !.ctrRx = TRUE, !.setup = TRUE,
                        !.rxPacket = r]
  /\ host' = [host EXCEPT !.request = r, !.stage = FirstStage(r), !.data = <<>>]
  /\ before' = State /\ hurried' = ~Quiet
  /\ UNCHANGED <<bus, resets, deviceVars, stageVars, request, isrVars>>

\* An IN packet: the answer ends with a short packet or when it is complete.
TakeData ==
  /\ Reachable /\ host.stage = "data" /\ ep0.tx = VALID
  /\ ep0' = [ep0 EXCEPT !.tx = NAK, !.ctrTx = TRUE]
  /\ LET data == host.data \o ep0.txPacket
         over == Len(ep0.txPacket) < PackSize \/ Len(data) >= host.request.length
     IN  host' = [host EXCEPT !.data = data, !.stage = IF over THEN "statusOut" ELSE "data"]
  /\ UNCHANGED <<bus, resets, deviceVars, stageVars, request, isrVars, history>>

TakeStatus ==
  /\ Reachable /\ host.stage = "statusIn" /\ ep0.tx = VALID
  /\ ep0' = [ep0 EXCEPT !.tx = NAK, !.ctrTx = TRUE]
  /\ host' = [host EXCEPT !.stage = "ok",
                !.address = IF host.request.name = "SET_ADDRESS" THEN host.request.v0 ELSE @]
  /\ UNCHANGED <<bus, resets, deviceVars, stageVars, request, isrVars, history>>

\* An OUT packet: the status of an answer, or data the device may take.
SendOut ==
  /\ Reachable /\ host.stage \in {"statusOut", "dataOut"} /\ ep0.rx = VALID /\ ~ep0.ctrRx
  /\ ep0' = [ep0 EXCEPT !.rx = NAK, !.ctrRx = TRUE, !.setup = FALSE]
  /\ host' = [host EXCEPT !.stage = IF @ = "statusOut" THEN "ok" ELSE "statusIn"]
  /\ UNCHANGED <<bus, resets, deviceVars, stageVars, request, isrVars, history>>

SeeStall ==
  /\ Reachable
  /\ \/ host.stage \in {"data", "statusIn"} /\ ep0.tx = STALL
     \/ host.stage \in {"statusOut", "dataOut"} /\ ep0.rx = STALL
  /\ host' = [host EXCEPT !.stage = "stall"]
  /\ UNCHANGED <<bus, resets, deviceVars, stageVars, request, ep0, isrVars, history>>

Transfer == TakeData \/ TakeStatus \/ SendOut \/ SeeStall

Host == BusReset \/ Transfer \/ \E r \in Requests : SendSetup(r)

Next == Interrupt \/ MainLoopOpens \/ Host

\* The core runs the interrupt; a host that has begun a transfer goes on with
\* it.  Neither a request nor a reset has to come.
Spec == Init /\ [][Next]_vars /\ WF_vars(Interrupt) /\ WF_vars(Transfer)

-----------------------------------------------------------------------------
(***************************************************************************)
(* Properties.                                                             *)
(***************************************************************************)
Places   == {"idle", "save", "readForNak", "nak", "readForClear", "clear", "setup0", "in0",
             "out0", "readForFeature", "feature", "readForRestore", "restore", "reset"}
Register == [rx : Statuses, tx : Statuses, ctrRx : BOOLEAN, ctrTx : BOOLEAN]
Routines == {"NULL", "GetDeviceDescriptor", "GetConfigDescriptor", "GetStringDescriptor",
             "GetStatus", "GetConfiguration", "GetInterface"}

Controls == {"IN_DATA", "LAST_IN_DATA", "WAIT_STATUS_IN", "WAIT_STATUS_OUT", "STALLED"}
Stages   == {"data", "dataOut", "statusIn", "statusOut", "ok", "stall"}
Packets  == Requests \cup {None}
AnswerByte == Routines \X Int \X Nat
DeviceState == [configuration : {0, 1}, wakeup : BOOLEAN, address : 0 .. 127]

\* Every variable holds a value of its C type, lengths and offsets among
\* them; a packet fits into the packet memory and an address into DADDR.
TypeOK ==
  /\ bus \in {"detached", "reset", "up"} /\ resets \in 0 .. MaxResets
  /\ State \in DeviceState /\ ready \in BOOLEAN
  /\ halted \subseteq [number : 1 .. 3, in : BOOLEAN]
  /\ control \in Controls /\ request \in Packets
  /\ length \in Nat /\ offset \in Nat /\ copy \in Routines /\ zlp \in BOOLEAN
  /\ ep0 \in [rx : Statuses, tx : Statuses, ctrRx : BOOLEAN, ctrTx : BOOLEAN,
              setup : BOOLEAN, rxPacket : Packets, txPacket : Seq(AnswerByte)]
  /\ Len(ep0.txPacket) <= PackSize
  /\ isr \in Places /\ loaded \in Register /\ istr \in [rx : BOOLEAN, reset : BOOLEAN]
  /\ save \in [rx : Statuses, tx : Statuses]
  /\ host \in [address : Byte8, request : Packets, stage : Stages, data : Seq(AnswerByte)]
  /\ before \in DeviceState /\ hurried \in BOOLEAN

\* With descriptors shorter than a packet, as the device's are, no transfer
\* leaves a remainder in Usb_wLength or the mark for an empty packet behind,
\* whatever is given up or overtaken: a string that does not exist is
\* stalled, never read through the null pointer usb_cdc_get_str_descriptor
\* returns.
NothingLeftOver ==
  /\ length = 0 /\ ~zlp
  /\ copy = "GetStringDescriptor" => request.v0 <= 2 \/ control # "LAST_IN_DATA"

\* The routine and the length a request is answered with; of a string that
\* does not exist there is no answer.
Asked == host.request
Source ==
  IF CopyRoutine(Asked, before) = "GetStringDescriptor" /\ Asked.v0 > 2
  THEN "NULL" ELSE CopyRoutine(Asked, before)
Version0 == IF Asked.type = "endpoint" THEN 0 ELSE Version(Source, Asked, before)
Answer ==
  LET n == Lesser(SizeOf(Source, Asked, 0), Asked.length)
  IN  [i \in 1 .. n |-> <<Source, Version0, i>>]

\* What the host receives is the answer to its own request, byte by byte and
\* cut to the length it asked for, complete before the status: however many
\* packets it takes, whatever transfer was given up before.  (A halted
\* endpoint may be opened while its status is read.)
Received ==
  [i \in DOMAIN host.data |->
     IF Asked.type = "endpoint" THEN [host.data[i] EXCEPT ![2] = 0] ELSE host.data[i]]
DataIsAnswer ==
  ~hurried /\ Asked.in =>
    /\ Len(Received) <= Len(Answer) /\ Received = SubSeq(Answer, 1, Len(Received))
    /\ host.stage \in {"statusOut", "ok"} /\ Source # "NULL" => Received = Answer

\* A transfer is stalled when the device refuses the request, and then only;
\* but the halt of endpoint 0 for packets to the host is performed under a
\* STALL of that endpoint, which the host may see instead of the status.
Accepted == IF Asked.length = 0 THEN Performed(Asked, before) ELSE Source # "NULL"
StallsItself(r) ==
  r.type = "endpoint" /\ r.name = "SET_FEATURE" /\ Endpoint(r) = [number |-> 0, in |-> TRUE]
VerdictRight ==
  ~hurried /\ Asked # None =>
    /\ host.stage = "ok" => Accepted
    /\ host.stage = "stall" => ~Accepted \/ StallsItself(Asked)

\* When the interrupt has nothing to do, what the host was told has happened
\* and nothing else has; until the status of SET_ADDRESS the device keeps the
\* address the host still uses.
Effect ==
  [configuration |-> IF Asked.name = "SET_CONFIGURATION" THEN Asked.v0 ELSE before.configuration,
   wakeup |-> IF Asked.type = "device" /\ Asked.name \in {"SET_FEATURE", "CLEAR_FEATURE"}
              THEN Asked.name = "SET_FEATURE" ELSE before.wakeup,
   address |-> IF Asked.name = "SET_ADDRESS" THEN Asked.v0 ELSE before.address]
HostKnowsDevice ==
  bus = "up" /\ ~hurried =>
    /\ Running => daddr = host.address
    /\ Quiet /\ ~Running =>
         /\ State = IF host.stage = "ok" THEN Effect ELSE before
         /\ daddr = host.address
         /\ configuration # 0 => ready

\* A transfer the host does not give up comes to an end, by an answer, a stall
\* or a bus reset, once the interrupt has begun on its SETUP.
Begun == Running /\ ~hurried /\ ~(ep0.ctrRx /\ ep0.setup)
TransferEnds == Begun ~> ~Begun
=============================================================================
