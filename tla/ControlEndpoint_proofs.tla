----------------------- MODULE ControlEndpoint_proofs -----------------------
(***************************************************************************)
(* For every set of requests, every packet size and every length of the    *)
(* descriptors: the types, among them that an answer's packet fits into    *)
(* its memory and an address into the register; for descriptors shorter    *)
(* than a packet, that a transfer leaves nothing to the next; and, if what *)
(* is read exists, that the host gets the answer and the verdict that its  *)
(* request deserves, and device and host agree on what it changed.         *)
(***************************************************************************)
EXTENDS ControlEndpoint, SequenceTheorems, TLAPS

\* The address In0_Process is about to set was checked with the request.
AddressInv ==
  control = "WAIT_STATUS_IN" /\ request.type = "device" /\ request.name = "SET_ADDRESS"
    => request.v0 <= 127

\* The interrupt writes its own register for a request of an endpoint.
OwnPlaces == {"readForFeature", "feature"}
OwnInv    == isr \in OwnPlaces => request.type = "endpoint"

IInv == TypeOK /\ AddressInv /\ OwnInv

LEMMA Constants ==
  /\ PackSize \in Nat /\ PackSize >= 2 /\ DeviceSize \in Nat /\ ConfigSize \in Nat
  /\ \A i \in 0 .. 2 : StringSize[i] \in Nat
  /\ MaxResets \in Nat
BY ControlAssumption

LEMMA RequestFields ==
  \A r \in Packets : r.v0 \in Byte8 /\ r.i0 \in Byte8 /\ r.length \in Nat
<1>1. ASSUME NEW r \in Requests
      PROVE  r.v0 \in Byte8 /\ r.i0 \in Byte8 /\ r.length \in Nat
  <2>1. r \in Request
    BY ControlAssumption
  <2> QED BY <2>1 DEF Request
<1>2. None.v0 \in Byte8 /\ None.i0 \in Byte8 /\ None.length \in Nat
  BY DEF None, Byte8
<1> QED BY <1>1, <1>2 DEF Packets

LEMMA LesserType ==
  \A a, b \in Nat : Lesser(a, b) \in Nat /\ Lesser(a, b) <= a /\ Lesser(a, b) <= b
BY DEF Lesser

LEMMA StatusTypes ==
  /\ DISABLED \in Statuses /\ STALL \in Statuses /\ NAK \in Statuses /\ VALID \in Statuses
  /\ \A a, b, c \in Statuses : Toggle(a, b, c) \in Statuses
BY DEF Statuses, DISABLED, STALL, NAK, VALID, Toggle, Differ

LEMMA EmptyAnswer == <<>> \in Seq(AnswerByte) /\ Len(<<>>) = 0
OBVIOUS

LEMMA StateFields ==
  ASSUME TypeOK
  PROVE  configuration \in {0, 1} /\ wakeup \in BOOLEAN /\ daddr \in 0 .. 127
BY DEF TypeOK, State, DeviceState

LEMMA RoutineType ==
  \A r, s : CopyRoutine(r, s) \in Routines /\ Routine(r) \in Routines
BY DEF CopyRoutine, Routines, Routine

LEMMA SizeType ==
  ASSUME NEW c, NEW r \in Packets, NEW old \in Nat
  PROVE  SizeOf(c, r, old) \in Nat
BY Constants, RequestFields DEF SizeOf, Byte8

LEMMA VersionType ==
  ASSUME TypeOK, NEW c, NEW r \in Packets
  PROVE  Version(c, r, State) \in Int
<1>1. State.configuration = configuration /\ State.wakeup = wakeup
  BY DEF State
<1> QED BY <1>1, StateFields, RequestFields DEF Version, Byte8

\* A packet of m bytes is a sequence of that length.
LEMMA BytesType ==
  ASSUME TypeOK, NEW c \in Routines, NEW r \in Packets, NEW off \in Nat, NEW m \in Nat
  PROVE  Bytes(c, r, off, m) \in Seq(AnswerByte) /\ Len(Bytes(c, r, off, m)) = m
<1> DEFINE b == Bytes(c, r, off, m)
           v == Version(c, r, State)
<1>1. v \in Int
  BY VersionType
<1>2. b = [i \in 1 .. m |-> <<c, v, off + i>>]
  BY DEF Bytes
<1> HIDE DEF v
<1>3. \A i \in 1 .. m : <<c, v, off + i>> \in AnswerByte
  BY <1>1 DEF AnswerByte
<1> HIDE DEF b
<1>4. b \in [1 .. m -> AnswerByte]
  BY <1>2, <1>3
<1>5. b \in Seq(AnswerByte)
  BY <1>4, SeqDef
<1>6. Len(b) = m
  BY <1>4, <1>5, LenProperties
<1> QED BY <1>5, <1>6 DEF b

-----------------------------------------------------------------------------
(***************************************************************************)
(* Types.                                                                  *)
(***************************************************************************)
Ep0Type == [rx : Statuses, tx : Statuses, ctrRx : BOOLEAN, ctrTx : BOOLEAN,
            setup : BOOLEAN, rxPacket : Packets, txPacket : Seq(AnswerByte)]
SaveType == [rx : Statuses, tx : Statuses]

\* What a data stage does to the variables it changes.
StageTypes ==
  /\ control' \in Controls \ {"WAIT_STATUS_IN"}
  /\ length' \in Nat /\ offset' \in Nat /\ zlp' \in BOOLEAN
  /\ ep0' \in Ep0Type /\ Len(ep0'.txPacket) <= PackSize
  /\ save' \in SaveType

LEMMA StageType ==
  ASSUME TypeOK, NEW n \in Nat, NEW off \in Nat, NEW last, NEW more \in BOOLEAN,
         NEW c \in Routines, NEW r \in Packets, DataStageIn(n, off, last, more, c, r)
  PROVE  StageTypes
<1> DEFINE m == Lesser(n, PackSize)
           b == Bytes(c, r, off, m)
<1>1. m \in Nat /\ m <= n /\ m <= PackSize
  BY LesserType, Constants
<1>2. b \in Seq(AnswerByte) /\ Len(b) = m
  BY <1>1, BytesType
<1>3. ep0 \in Ep0Type /\ Len(ep0.txPacket) <= PackSize /\ save \in SaveType
      /\ length \in Nat /\ offset \in Nat
  BY DEF TypeOK, Ep0Type, SaveType
<1> HIDE DEF m, b
<1>4. CASE n = 0 /\ last /\ more
  <2>1. /\ ep0' = [ep0 EXCEPT !.txPacket = <<>>]
        /\ control' = "LAST_IN_DATA" /\ zlp' = FALSE
        /\ save' = [save EXCEPT !.tx = VALID] /\ length' = length /\ offset' = offset
    BY <1>4 DEF DataStageIn
  <2>2. ep0' \in Ep0Type /\ ep0'.txPacket = <<>>
    BY <1>3, <2>1, EmptyAnswer DEF Ep0Type
  <2>3. Len(ep0'.txPacket) <= PackSize
    BY <2>2, EmptyAnswer, Constants
  <2> QED BY <1>3, <2>1, <2>2, <2>3, StatusTypes DEF StageTypes, Controls, SaveType
<1>5. CASE n = 0 /\ last /\ ~more
  BY <1>3, <1>5, StatusTypes DEF DataStageIn, StageTypes, Controls, SaveType
<1>6. CASE ~(n = 0 /\ last)
  <2>1. /\ ep0' = [ep0 EXCEPT !.txPacket = b]
        /\ length' = n - m /\ offset' = off + m
        /\ control' \in {"LAST_IN_DATA", "IN_DATA"}
        /\ save' = [rx |-> VALID, tx |-> VALID] /\ zlp' = more
    BY <1>6 DEF DataStageIn, m, b
  <2>2. ep0' \in Ep0Type /\ ep0'.txPacket = b
    BY <1>2, <1>3, <2>1 DEF Ep0Type
  <2> QED BY <1>1, <1>2, <2>1, <2>2, StatusTypes DEF StageTypes, Controls, SaveType
<1> QED BY <1>4, <1>5, <1>6

LEMMA StalledType == ASSUME Stalled PROVE save' \in SaveType /\ control' = "STALLED"
BY StatusTypes DEF Stalled, SaveType

\* What a handler of the interrupt may change, and the types it keeps.
HandlerTypes ==
  /\ control' \in Controls /\ length' \in Nat /\ offset' \in Nat /\ zlp' \in BOOLEAN
  /\ copy' \in Routines /\ ep0' \in Ep0Type /\ Len(ep0'.txPacket) <= PackSize
  /\ save' \in SaveType /\ request' \in Packets
  /\ State' \in DeviceState /\ ready' \in BOOLEAN
  /\ halted' \subseteq [number : 1 .. 3, in : BOOLEAN]
  /\ AddressInv'

LEMMA OldTypes ==
  ASSUME TypeOK
  PROVE  /\ control \in Controls /\ length \in Nat /\ offset \in Nat /\ zlp \in BOOLEAN
         /\ copy \in Routines /\ ep0 \in Ep0Type /\ Len(ep0.txPacket) <= PackSize
         /\ save \in SaveType /\ request \in Packets /\ ep0.rxPacket \in Packets
         /\ configuration \in {0, 1} /\ wakeup \in BOOLEAN /\ daddr \in 0 .. 127
         /\ ready \in BOOLEAN /\ halted \subseteq [number : 1 .. 3, in : BOOLEAN]
<1>1. ep0 \in Ep0Type
  BY DEF TypeOK, Ep0Type
<1>2. ep0.rxPacket \in Packets
  BY <1>1 DEF Ep0Type
<1> QED BY <1>1, <1>2, StateFields DEF TypeOK, SaveType

LEMMA StateType ==
  ASSUME configuration' \in {0, 1}, wakeup' \in BOOLEAN, daddr' \in 0 .. 127
  PROVE  State' \in DeviceState
BY DEF State, DeviceState

LEMMA EndpointType ==
  ASSUME NEW e, \/ e \in [number : {1, 2}, in : {TRUE}]
                \/ e = [number |-> 3, in |-> FALSE]
  PROVE  e \in [number : 1 .. 3, in : BOOLEAN]
<1>1. CASE e \in [number : {1, 2}, in : {TRUE}]
  <2>1. e = [number |-> e.number, in |-> e.in] /\ e.number \in {1, 2} /\ e.in \in {TRUE}
    BY <1>1
  <2>2. e.in \in BOOLEAN
    BY <2>1
  <2>3. e.number \in 1 .. 3
    BY <2>1
  <2> QED BY <2>1, <2>2, <2>3
<1>2. CASE e = [number |-> 3, in |-> FALSE]
  BY <1>2
<1> QED BY <1>1, <1>2

\* A request that is performed leaves a legal state behind.
LEMMA PerformType ==
  ASSUME TypeOK, NEW r \in Packets, Performed(r, State), Perform(r)
  PROVE  /\ configuration' \in {0, 1} /\ wakeup' \in BOOLEAN /\ daddr' \in 0 .. 127
         /\ ready' \in BOOLEAN /\ halted' \subseteq [number : 1 .. 3, in : BOOLEAN]
<1>1. configuration' \in {0, 1}
  <2>1. r.name = "SET_CONFIGURATION" => r.v0 <= 1
    BY DEF Performed
  <2>2. r.v0 \in 0 .. 255
    BY RequestFields DEF Byte8
  <2>3. (configuration' = r.v0 /\ r.v0 <= 1) \/ configuration' = configuration
    BY <2>1 DEF Perform, Standard_SetConfiguration
  <2> QED BY <2>2, <2>3, StateFields
<1>2. ready' \in BOOLEAN
  BY OldTypes DEF Perform, Standard_SetConfiguration
<1>3. wakeup' \in BOOLEAN
  BY OldTypes DEF Perform, SetDeviceFeature
<1>4. daddr' \in 0 .. 127
  BY OldTypes DEF Perform
<1>5. halted' \subseteq [number : 1 .. 3, in : BOOLEAN]
  <2> DEFINE E == [number : 1 .. 3, in : BOOLEAN]
  <2>1. CASE r.type # "endpoint" \/ Endpoint(r).number = 0
    BY <2>1, OldTypes DEF Perform, SetEndPointFeature
  <2>2. CASE r.type = "endpoint" /\ Endpoint(r).number # 0
    <3>1. EndpointUsed(r)
      BY <2>2 DEF Performed
    <3>2. Endpoint(r) \in [number : {1, 2}, in : {TRUE}]
          \/ Endpoint(r) = [number |-> 3, in |-> FALSE]
      BY <2>2, <3>1 DEF EndpointUsed
    <3>3. Endpoint(r) \in E
      BY <3>2, EndpointType
    <3>4. halted' = halted \cup {Endpoint(r)} \/ halted' = halted \ {Endpoint(r)}
      BY <2>2 DEF Perform, SetEndPointFeature
    <3> QED BY <3>3, <3>4, OldTypes
  <2> QED BY <2>1, <2>2
<1> QED BY <1>1, <1>2, <1>3, <1>4, <1>5

LEMMA NoDataType ==
  ASSUME TypeOK, NEW r \in Packets, request' = r, NoData_Setup0(r)
  PROVE  HandlerTypes
<1>1. UNCHANGED <<length, offset, copy, zlp>>
  BY DEF NoData_Setup0
<1>2. CASE Performed(r, State) /\ EndpointEnabled(r)
  <2>1. /\ Perform(r) /\ control' = "WAIT_STATUS_IN"
        /\ save' = [save EXCEPT !.tx = VALID]
        /\ ep0' = [ep0 EXCEPT !.txPacket = <<>>]
    BY <1>2 DEF NoData_Setup0
  <2>2. ep0' \in Ep0Type /\ Len(ep0'.txPacket) <= PackSize
    <3>1. ep0' \in Ep0Type /\ ep0'.txPacket = <<>>
      BY <2>1, OldTypes, EmptyAnswer DEF Ep0Type
    <3> QED BY <3>1, EmptyAnswer, Constants
  <2>3. save' \in SaveType
    BY <2>1, OldTypes, StatusTypes DEF SaveType
  <2>4. AddressInv'
    BY <1>2 DEF AddressInv, Performed
  <2> QED BY <1>1, <1>2, <2>1, <2>2, <2>3, <2>4, PerformType, StateType, OldTypes
          DEF HandlerTypes, Controls
<1>3. CASE ~(Performed(r, State) /\ EndpointEnabled(r))
  <2>1. Stalled /\ UNCHANGED <<deviceVars, ep0>>
    BY <1>3 DEF NoData_Setup0
  <2> QED BY <1>1, <2>1, StalledType, StateType, OldTypes
          DEF HandlerTypes, deviceVars, Controls, AddressInv
<1> QED BY <1>2, <1>3

LEMMA DataType ==
  ASSUME TypeOK, NEW r \in Packets, request' = r, Data_Setup0(r)
  PROVE  HandlerTypes
<1> DEFINE c == Routine(r)
           n == SizeOf(c, r, length)
           e == EndsEmpty(n, r.length)
<1>1. c \in Routines /\ n \in Nat /\ r.length \in Nat /\ Lesser(n, r.length) \in Nat
  BY RoutineType, SizeType, RequestFields, LesserType, OldTypes
<1>2. e \in BOOLEAN
  BY OldTypes DEF EndsEmpty
<1>3. UNCHANGED deviceVars
  BY DEF Data_Setup0
<1>4. \/ /\ Stalled /\ zlp' = zlp /\ ep0' = ep0
         /\ \/ length' = length /\ offset' = offset /\ copy' = copy
            \/ copy' = c /\ length' = 0 /\ offset' = 0
      \/ copy' = c /\ DataStageIn(Lesser(n, r.length), 0, FALSE, e, c, r)
  BY DEF Data_Setup0
<1> HIDE DEF c, n, e
<1>5. State' \in DeviceState
  BY <1>3, StateType, OldTypes DEF deviceVars
<1>6. CASE /\ Stalled /\ zlp' = zlp /\ ep0' = ep0
           /\ \/ length' = length /\ offset' = offset /\ copy' = copy
              \/ copy' = c /\ length' = 0 /\ offset' = 0
  BY <1>1, <1>3, <1>5, <1>6, StalledType, OldTypes
     DEF HandlerTypes, deviceVars, Controls, AddressInv
<1>7. CASE copy' = c /\ DataStageIn(Lesser(n, r.length), 0, FALSE, e, c, r)
  <2>1. StageTypes
    BY <1>1, <1>2, <1>7, StageType
  <2> QED BY <1>1, <1>3, <1>5, <1>7, <2>1, OldTypes
          DEF HandlerTypes, StageTypes, deviceVars, AddressInv
<1> QED BY <1>4, <1>6, <1>7

LEMMA SetupType == ASSUME TypeOK, Setup0_Process PROVE HandlerTypes
<1>1. ep0.rxPacket \in Packets
  BY OldTypes
<1> QED BY <1>1, NoDataType, DataType DEF Setup0_Process

LEMMA InType == ASSUME IInv, In0_Process PROVE HandlerTypes
<1>1. TypeOK /\ UNCHANGED <<ready, configuration, wakeup, halted, request>>
  BY DEF IInv, In0_Process
<1>2. CASE control \in {"IN_DATA", "LAST_IN_DATA"}
  <2>1. /\ DataStageIn(length, offset, control = "LAST_IN_DATA", zlp, copy, request)
        /\ UNCHANGED <<daddr, copy>>
    BY <1>2 DEF In0_Process
  <2>2. StageTypes
    BY <1>1, <2>1, StageType, OldTypes
  <2> QED BY <1>1, <2>1, <2>2, StateType, OldTypes DEF HandlerTypes, StageTypes, AddressInv
<1>3. CASE control \notin {"IN_DATA", "LAST_IN_DATA"}
  <2>1. Stalled /\ UNCHANGED <<length, offset, copy, zlp, ep0>>
    BY <1>3 DEF In0_Process
  <2>2. daddr' \in 0 .. 127
    <3>1. CASE control = "WAIT_STATUS_IN" /\ request.type = "device"
               /\ request.name = "SET_ADDRESS"
      <4>1. daddr' = request.v0
        BY <1>3, <3>1 DEF In0_Process
      <4>2. request.v0 <= 127 /\ request.v0 \in Byte8
        BY <1>1, <3>1, OldTypes, RequestFields DEF IInv, AddressInv
      <4> QED BY <4>1, <4>2 DEF Byte8
    <3>2. CASE ~(control = "WAIT_STATUS_IN" /\ request.type = "device"
                 /\ request.name = "SET_ADDRESS")
      BY <1>1, <1>3, <3>2, OldTypes DEF In0_Process
    <3> QED BY <3>1, <3>2
  <2> QED BY <1>1, <2>1, <2>2, StateType, OldTypes, StalledType
          DEF HandlerTypes, Controls, AddressInv
<1> QED BY <1>2, <1>3

LEMMA OutType == ASSUME TypeOK, Out0_Process PROVE HandlerTypes
BY StateType, OldTypes, StalledType DEF Out0_Process, HandlerTypes, deviceVars, Controls, AddressInv

\* The rest of TypeOK: what the handlers leave alone.
FrameTypes ==
  /\ bus \in {"detached", "reset", "up"} /\ resets \in 0 .. MaxResets
  /\ isr \in Places /\ loaded \in Register /\ istr \in [rx : BOOLEAN, reset : BOOLEAN]
  /\ OwnInv
  /\ host \in [address : Byte8, request : Packets, stage : Stages, data : Seq(AnswerByte)]
  /\ before \in DeviceState /\ hurried \in BOOLEAN

LEMMA Assembled ==
  /\ HandlerTypes /\ FrameTypes' => IInv'
  /\ IInv => FrameTypes
  /\ TypeOK /\ UNCHANGED deviceVars => State' \in DeviceState /\ ready' \in BOOLEAN
       /\ halted' \subseteq [number : 1 .. 3, in : BOOLEAN]
  /\ IInv /\ UNCHANGED <<deviceVars, stageVars, request>> /\ FrameTypes'
       /\ ep0' \in Ep0Type /\ Len(ep0'.txPacket) <= PackSize /\ save' \in SaveType
     => IInv'
<1>1. HandlerTypes /\ FrameTypes' => IInv'
  BY DEF HandlerTypes, FrameTypes, IInv, TypeOK, Ep0Type, SaveType
<1>2. IInv => FrameTypes
  BY DEF IInv, TypeOK, FrameTypes
<1>3. TypeOK /\ UNCHANGED deviceVars => State' \in DeviceState /\ ready' \in BOOLEAN
        /\ halted' \subseteq [number : 1 .. 3, in : BOOLEAN]
  BY StateType, OldTypes DEF deviceVars
<1>4. IInv /\ UNCHANGED <<deviceVars, stageVars, request>> => AddressInv'
  BY DEF IInv, AddressInv, stageVars
<1>5. ASSUME IInv, UNCHANGED <<deviceVars, stageVars, request>>, FrameTypes',
             ep0' \in Ep0Type, Len(ep0'.txPacket) <= PackSize, save' \in SaveType
      PROVE  IInv'
  <2>1. TypeOK
    BY <1>5 DEF IInv
  <2>2. State' \in DeviceState /\ ready' \in BOOLEAN
        /\ halted' \subseteq [number : 1 .. 3, in : BOOLEAN]
    BY <1>3, <1>5, <2>1
  <2>3. /\ control' \in Controls /\ length' \in Nat /\ offset' \in Nat /\ zlp' \in BOOLEAN
        /\ copy' \in Routines /\ request' \in Packets
    BY <1>5, <2>1, OldTypes DEF stageVars
  <2>4. AddressInv'
    BY <1>4, <1>5
  <2>5. HandlerTypes
    BY <1>5, <2>2, <2>3, <2>4 DEF HandlerTypes
  <2> QED BY <1>1, <1>5, <2>5
<1> QED BY <1>1, <1>2, <1>3, <1>5

LEMMA NoRegisterType == NoRegister \in Register
BY StatusTypes DEF NoRegister, Register

LEMMA InitInv == Init => IInv
<1> SUFFICES ASSUME Init PROVE IInv OBVIOUS
<1>1. None \in Packets
  BY DEF Packets
<1>2. State \in DeviceState
  <2>1. configuration = 0 /\ wakeup = FALSE /\ daddr = 0
    BY DEF Init
  <2>2. configuration \in {0, 1} /\ daddr \in 0 .. 127
    BY <2>1
  <2>3. wakeup \in BOOLEAN
    BY <2>1
  <2> QED BY <2>2, <2>3 DEF State, DeviceState
<1>3. ep0 \in Ep0Type /\ ep0.txPacket = <<>>
  BY <1>1, EmptyAnswer, StatusTypes DEF Init, Ep0Type
<1>4. Len(ep0.txPacket) <= PackSize
  BY <1>3, EmptyAnswer, Constants
<1>5. host \in [address : Byte8, request : Packets, stage : Stages, data : Seq(AnswerByte)]
  BY <1>1, EmptyAnswer DEF Init, Byte8, Stages
<1>6. resets \in 0 .. MaxResets /\ halted \subseteq [number : 1 .. 3, in : BOOLEAN]
  BY Constants DEF Init
<1>7. save \in SaveType /\ istr \in [rx : BOOLEAN, reset : BOOLEAN] /\ isr \in Places
      /\ loaded \in Register
  BY StatusTypes, NoRegisterType DEF Init, SaveType, Places
<1>8. control \in Controls /\ copy \in Routines /\ length \in Nat /\ offset \in Nat
      /\ zlp \in BOOLEAN /\ ready \in BOOLEAN /\ request \in Packets
      /\ bus \in {"detached", "reset", "up"} /\ before \in DeviceState /\ hurried \in BOOLEAN
  BY <1>1, <1>2 DEF Init, Controls, Routines
<1>9. AddressInv /\ OwnInv
  BY DEF Init, AddressInv, OwnInv, OwnPlaces
<1> QED BY <1>2, <1>3, <1>4, <1>5, <1>6, <1>7, <1>8, <1>9
        DEF IInv, TypeOK, Ep0Type, SaveType

LEMMA SetStatusType ==
  ASSUME TypeOK, NEW rx \in Statuses, NEW tx \in Statuses, SetStatus(rx, tx)
  PROVE  ep0' \in Ep0Type /\ ep0'.txPacket = ep0.txPacket /\ loaded' \in Register
<1>1. ep0 \in Ep0Type /\ loaded \in Register
  BY DEF TypeOK, Ep0Type
<1>2. Toggle(ep0.rx, loaded.rx, rx) \in Statuses /\ Toggle(ep0.tx, loaded.tx, tx) \in Statuses
  BY <1>1, StatusTypes DEF Ep0Type, Register
<1> QED BY <1>1, <1>2, NoRegisterType DEF SetStatus, Ep0Type

\* The steps of the interrupt.
LEMMA InterruptInv == IInv /\ Interrupt => IInv'
<1> SUFFICES ASSUME IInv, Interrupt PROVE IInv' OBVIOUS
<1>0. TypeOK /\ FrameTypes
  BY Assembled DEF IInv
<1>1. CASE Enter
  <2>1. istr' \in [rx : BOOLEAN, reset : BOOLEAN] /\ isr' \in Places
    BY <1>0, <1>1, OldTypes DEF Enter, Ep0Type, Places
  <2>2. FrameTypes'
    BY <1>0, <1>1, <2>1 DEF Enter, FrameTypes, OwnInv, OwnPlaces, history
  <2>3. ep0' \in Ep0Type /\ Len(ep0'.txPacket) <= PackSize /\ save' \in SaveType
    BY <1>0, <1>1, OldTypes DEF Enter
  <2> QED BY <1>1, <2>2, <2>3, Assembled DEF Enter
<1>8. CASE SaveStatus
  <2>1. save' \in SaveType
    BY <1>0, <1>8, OldTypes DEF SaveStatus, Ep0Type, SaveType
  <2>2. FrameTypes'
    BY <1>0, <1>8 DEF SaveStatus, FrameTypes, OwnInv, OwnPlaces, history, Places
  <2>3. ep0' \in Ep0Type /\ Len(ep0'.txPacket) <= PackSize
    BY <1>0, <1>8, OldTypes DEF SaveStatus
  <2> QED BY <1>8, <2>1, <2>2, <2>3, Assembled DEF SaveStatus
<1>9. CASE GetENDPOINT
  <2>1. loaded' \in Register /\ isr' \in Places
        /\ (isr' \in OwnPlaces => isr \in OwnPlaces)
    BY <1>0, <1>9, OldTypes DEF GetENDPOINT, ReadFor, Ep0Type, Register, Places, OwnPlaces
  <2>2. FrameTypes'
    BY <1>0, <1>9, <2>1 DEF GetENDPOINT, FrameTypes, OwnInv, history
  <2>3. ep0' \in Ep0Type /\ Len(ep0'.txPacket) <= PackSize /\ save' \in SaveType
    BY <1>0, <1>9, OldTypes DEF GetENDPOINT
  <2> QED BY <1>9, <2>2, <2>3, Assembled DEF GetENDPOINT
<1>2. CASE SetNak
  <2>1. ep0' \in Ep0Type /\ ep0'.txPacket = ep0.txPacket /\ loaded' \in Register
    BY <1>0, <1>2, StatusTypes, SetStatusType DEF SetNak
  <2>2. Len(ep0'.txPacket) <= PackSize /\ save' \in SaveType
    BY <1>0, <1>2, <2>1, OldTypes DEF SetNak
  <2>3. FrameTypes'
    BY <1>0, <1>2, <2>1 DEF SetNak, FrameTypes, OwnInv, OwnPlaces, history, Places
  <2> QED BY <1>2, <2>1, <2>2, <2>3, Assembled DEF SetNak
<1>10. CASE FeatureBegins
  <2>1. isr' = "readForFeature" /\ request' = ep0.rxPacket /\ request'.type = "endpoint"
    BY <1>10 DEF FeatureBegins, WritesOwn
  <2>2. FrameTypes'
    BY <1>0, <1>10, <2>1 DEF FeatureBegins, FrameTypes, OwnInv, history, Places
  <2>3. AddressInv'
    BY <2>1 DEF AddressInv
  <2>4. HandlerTypes
    BY <1>0, <1>10, <2>1, <2>3, OldTypes, Assembled
       DEF FeatureBegins, stageVars, HandlerTypes
  <2> QED BY <2>2, <2>4, Assembled
<1>11. CASE SetFeature
  <2>1. ep0' \in Ep0Type /\ ep0'.txPacket = <<>>
    <3>1. ep0 \in Ep0Type /\ loaded \in Register
      BY <1>0, OldTypes DEF FrameTypes
    <3>2. \A w \in Statuses : Toggle(ep0.rx, loaded.rx, w) \in Statuses
                             /\ Toggle(ep0.tx, loaded.tx, w) \in Statuses
      BY <3>1, StatusTypes DEF Ep0Type, Register
    <3>3. \E rx, tx \in Statuses :
            ep0' = [ep0 EXCEPT !.rx = rx, !.tx = tx, !.txPacket = <<>>]
      BY <1>11, <3>1, <3>2, StatusTypes DEF SetFeature, Ep0Type
    <3> QED BY <3>1, <3>3, EmptyAnswer DEF Ep0Type
  <2>2. Len(ep0'.txPacket) <= PackSize
    BY <2>1, EmptyAnswer, Constants
  <2>3. save' \in SaveType
    BY <1>0, <1>11, OldTypes, StatusTypes DEF SetFeature, SaveType
  <2>4. AddressInv'
    BY <1>11 DEF SetFeature, AddressInv, IInv, OwnInv, OwnPlaces
  <2>5. HandlerTypes
    BY <1>0, <1>11, <2>1, <2>2, <2>3, <2>4, OldTypes, Assembled
       DEF SetFeature, HandlerTypes, Controls
  <2>6. FrameTypes'
    BY <1>0, <1>11, NoRegisterType
       DEF SetFeature, FrameTypes, OwnInv, OwnPlaces, history, Places
  <2> QED BY <2>5, <2>6, Assembled
<1>3. CASE ClearCtr
  <2>1. ep0' \in Ep0Type /\ ep0'.txPacket = ep0.txPacket
    BY <1>0, <1>3, OldTypes, NoRegisterType DEF ClearCtr, Ep0Type, FrameTypes, Register
  <2>2. Len(ep0'.txPacket) <= PackSize /\ save' \in SaveType
    BY <1>0, <1>3, <2>1, OldTypes DEF ClearCtr
  <2>3. isr' \in Places
    BY <1>3 DEF ClearCtr, Places
  <2>4. FrameTypes'
    BY <1>0, <1>3, <2>3, NoRegisterType DEF ClearCtr, FrameTypes, OwnInv, OwnPlaces, history
  <2> QED BY <1>3, <2>1, <2>2, <2>4, Assembled DEF ClearCtr
<1>4. CASE Process
  <2>1. HandlerTypes
    BY <1>0, <1>4, SetupType, InType, OutType DEF Process
  <2>2. FrameTypes'
    BY <1>0, <1>4 DEF Process, FrameTypes, OwnInv, OwnPlaces, history, Places
  <2> QED BY <2>1, <2>2, Assembled
<1>5. CASE Restore
  <2>0. save.rx \in Statuses /\ save.tx \in Statuses
    BY <1>0, OldTypes DEF SaveType
  <2>1. ep0' \in Ep0Type /\ ep0'.txPacket = ep0.txPacket /\ loaded' \in Register
    BY <1>0, <1>5, <2>0, SetStatusType DEF Restore
  <2>2. Len(ep0'.txPacket) <= PackSize /\ save' \in SaveType
    BY <1>0, <1>5, <2>1, OldTypes DEF Restore
  <2>3. isr' \in Places
    BY <1>5 DEF Restore, Places
  <2>4. FrameTypes'
    BY <1>0, <1>5, <2>1, <2>3 DEF Restore, FrameTypes, OwnInv, OwnPlaces, history
  <2> QED BY <1>5, <2>1, <2>2, <2>4, Assembled DEF Restore
<1>6. CASE EnterReset
  <2>1. FrameTypes'
    BY <1>0, <1>6 DEF EnterReset, FrameTypes, OwnInv, OwnPlaces, history, Places
  <2>2. ep0' \in Ep0Type /\ Len(ep0'.txPacket) <= PackSize /\ save' \in SaveType
    BY <1>0, <1>6, OldTypes DEF EnterReset
  <2> QED BY <1>6, <2>1, <2>2, Assembled DEF EnterReset
<1>7. CASE usb_cdc_reset
  <2>1. ep0' \in Ep0Type /\ ep0'.txPacket = ep0.txPacket
    BY <1>0, <1>7, OldTypes, StatusTypes DEF usb_cdc_reset, Ep0Type
  <2>2. Len(ep0'.txPacket) <= PackSize
    BY <1>0, <2>1, OldTypes
  <2>3. State' \in DeviceState
    <3>1. configuration' = 0 /\ wakeup' = FALSE /\ daddr' = 0
      BY <1>7 DEF usb_cdc_reset
    <3>2. configuration' \in {0, 1} /\ daddr' \in 0 .. 127
      BY <3>1
    <3>3. wakeup' \in BOOLEAN
      BY <3>1
    <3> QED BY <3>2, <3>3, StateType
  <2>4. FrameTypes'
    BY <1>0, <1>7 DEF usb_cdc_reset, FrameTypes, OwnInv, OwnPlaces, history, Places
  <2>5. AddressInv'
    BY <1>7 DEF usb_cdc_reset, stageVars, AddressInv, IInv
  <2>6. HandlerTypes
    BY <1>0, <1>7, <2>1, <2>2, <2>3, <2>5, OldTypes DEF usb_cdc_reset, stageVars, HandlerTypes
  <2> QED BY <2>4, <2>6, Assembled
<1> QED BY <1>1, <1>2, <1>3, <1>4, <1>5, <1>6, <1>7, <1>8, <1>9, <1>10, <1>11
    DEF Interrupt

LEMMA MainLoopInv == IInv /\ MainLoopOpens => IInv'
<1> SUFFICES ASSUME IInv, MainLoopOpens PROVE IInv' OBVIOUS
<1>0. TypeOK /\ FrameTypes
  BY Assembled DEF IInv
<1>1. halted' \subseteq [number : 1 .. 3, in : BOOLEAN]
  BY <1>0, OldTypes DEF MainLoopOpens
<1>2. State' \in DeviceState
  BY <1>0, StateType, OldTypes DEF MainLoopOpens
<1>3. AddressInv'
  BY DEF MainLoopOpens, stageVars, AddressInv, IInv
<1>4. HandlerTypes
  BY <1>0, <1>1, <1>2, <1>3, OldTypes DEF MainLoopOpens, stageVars, isrVars, HandlerTypes
<1>5. FrameTypes'
  BY <1>0 DEF MainLoopOpens, FrameTypes, OwnInv, isrVars, history
<1> QED BY <1>4, <1>5, Assembled

\* The steps of the host.
LEMMA HostInv == IInv /\ Host => IInv'
<1> SUFFICES ASSUME IInv, Host PROVE IInv' OBVIOUS
<1> DEFINE H == [address : Byte8, request : Packets, stage : Stages, data : Seq(AnswerByte)]
<1>0. TypeOK /\ FrameTypes /\ State \in DeviceState
  BY Assembled DEF IInv, TypeOK
<1>1. host \in H /\ ep0 \in Ep0Type
  BY <1>0, OldTypes DEF FrameTypes
<1>2. ASSUME BusReset PROVE IInv'
  <2>1. ep0' \in Ep0Type /\ ep0'.txPacket = ep0.txPacket
    BY <1>1, <1>2, StatusTypes DEF BusReset, Ep0Type
  <2>2. Len(ep0'.txPacket) <= PackSize /\ save' \in SaveType
    BY <1>0, <1>2, <2>1, OldTypes DEF BusReset, isrVars
  <2>3. host' \in H /\ before' \in DeviceState
    <3>1. None \in Packets
      BY DEF Packets
    <3>2. host' = [address |-> 0, request |-> None, stage |-> "ok", data |-> <<>>]
          /\ before' = [configuration |-> 0, wakeup |-> FALSE, address |-> 0]
      BY <1>2 DEF BusReset
    <3>3. host' \in H
      BY <3>1, <3>2, EmptyAnswer DEF Byte8, Stages
    <3> QED BY <3>2, <3>3 DEF DeviceState
  <2>4. resets' \in 0 .. MaxResets
    BY <1>0, <1>2, Constants DEF BusReset, FrameTypes
  <2>5. FrameTypes'
    BY <1>0, <1>2, <2>3, <2>4 DEF BusReset, FrameTypes, OwnInv, isrVars
  <2> QED BY <1>2, <2>1, <2>2, <2>5, Assembled DEF BusReset
<1>3. ASSUME NEW r \in Requests, SendSetup(r) PROVE IInv'
  <2>1. r \in Packets
    BY DEF Packets
  <2>2. ep0' \in Ep0Type /\ ep0'.txPacket = ep0.txPacket
    BY <1>1, <1>3, <2>1, StatusTypes DEF SendSetup, Ep0Type
  <2>3. Len(ep0'.txPacket) <= PackSize /\ save' \in SaveType
    BY <1>0, <1>3, <2>2, OldTypes DEF SendSetup, isrVars
  <2>4. FirstStage(r) \in Stages
    BY DEF FirstStage, Stages
  <2>5. host' \in H
    BY <1>1, <1>3, <2>1, <2>4, EmptyAnswer DEF SendSetup
  <2>6. before' \in DeviceState /\ hurried' \in BOOLEAN
    BY <1>0, <1>3 DEF SendSetup
  <2>7. FrameTypes'
    BY <1>0, <1>3, <2>5, <2>6 DEF SendSetup, FrameTypes, OwnInv, isrVars
  <2> QED BY <1>3, <2>2, <2>3, <2>7, Assembled DEF SendSetup
<1>4. ASSUME TakeData PROVE IInv'
  <2> DEFINE data == host.data \o ep0.txPacket
  <2>1. ep0' \in Ep0Type /\ ep0'.txPacket = ep0.txPacket
    BY <1>1, <1>4, StatusTypes DEF TakeData, Ep0Type
  <2>2. Len(ep0'.txPacket) <= PackSize /\ save' \in SaveType
    BY <1>0, <1>4, <2>1, OldTypes DEF TakeData, isrVars
  <2>3. data \in Seq(AnswerByte)
    <3>1. host.data \in Seq(AnswerByte) /\ ep0.txPacket \in Seq(AnswerByte)
      BY <1>1 DEF Ep0Type
    <3> QED BY <3>1, ConcatProperties
  <2>4. host' \in H
    <3>1. \E st \in Stages : host' = [host EXCEPT !.data = data, !.stage = st]
      <4> HIDE DEF data
      <4>1. \/ host' = [host EXCEPT !.data = data, !.stage = "statusOut"]
            \/ host' = [host EXCEPT !.data = data, !.stage = "data"]
        BY <1>4 DEF TakeData, data
      <4> QED BY <4>1 DEF Stages
    <3> HIDE DEF data
    <3> QED BY <1>1, <2>3, <3>1
  <2>5. FrameTypes'
    BY <1>0, <1>4, <2>4 DEF TakeData, FrameTypes, OwnInv, isrVars, history
  <2> QED BY <1>4, <2>1, <2>2, <2>5, Assembled DEF TakeData
<1>5. ASSUME TakeStatus PROVE IInv'
  <2>1. ep0' \in Ep0Type /\ ep0'.txPacket = ep0.txPacket
    BY <1>1, <1>5, StatusTypes DEF TakeStatus, Ep0Type
  <2>2. Len(ep0'.txPacket) <= PackSize /\ save' \in SaveType
    BY <1>0, <1>5, <2>1, OldTypes DEF TakeStatus, isrVars
  <2>3. host' \in H
    <3>1. host.request.v0 \in Byte8 /\ host.address \in Byte8
      BY <1>1, RequestFields
    <3>2. \E a \in Byte8 : host' = [host EXCEPT !.stage = "ok", !.address = a]
      BY <1>5, <3>1 DEF TakeStatus
    <3> QED BY <1>1, <3>2 DEF Stages
  <2>4. FrameTypes'
    BY <1>0, <1>5, <2>3 DEF TakeStatus, FrameTypes, OwnInv, isrVars, history
  <2> QED BY <1>5, <2>1, <2>2, <2>4, Assembled DEF TakeStatus
<1>6. ASSUME SendOut PROVE IInv'
  <2>1. ep0' \in Ep0Type /\ ep0'.txPacket = ep0.txPacket
    BY <1>1, <1>6, StatusTypes DEF SendOut, Ep0Type
  <2>2. Len(ep0'.txPacket) <= PackSize /\ save' \in SaveType
    BY <1>0, <1>6, <2>1, OldTypes DEF SendOut, isrVars
  <2>3. host' \in H
    BY <1>1, <1>6 DEF SendOut, Stages
  <2>4. FrameTypes'
    BY <1>0, <1>6, <2>3 DEF SendOut, FrameTypes, OwnInv, isrVars, history
  <2> QED BY <1>6, <2>1, <2>2, <2>4, Assembled DEF SendOut
<1>7. ASSUME SeeStall PROVE IInv'
  <2>1. host' \in H
    BY <1>1, <1>7 DEF SeeStall, Stages
  <2>2. FrameTypes'
    BY <1>0, <1>7, <2>1 DEF SeeStall, FrameTypes, OwnInv, isrVars, history
  <2>3. ep0' \in Ep0Type /\ Len(ep0'.txPacket) <= PackSize /\ save' \in SaveType
    BY <1>0, <1>7, OldTypes DEF SeeStall, isrVars
  <2> QED BY <1>7, <2>2, <2>3, Assembled DEF SeeStall
<1> QED BY <1>2, <1>3, <1>4, <1>5, <1>6, <1>7 DEF Host, Transfer

LEMMA StutterInv == IInv /\ UNCHANGED vars => IInv'
BY DEF IInv, TypeOK, AddressInv, OwnInv, State, vars, deviceVars, stageVars, isrVars, history

LEMMA Invariance == Spec => []IInv
<1>1. IInv /\ [Next]_vars => IInv'
  BY InterruptInv, MainLoopInv, HostInv, StutterInv DEF Next
<1> QED BY <1>1, InitInv, PTL DEF Spec

\* A packet fits into its memory and an address into its register, and every
\* length, offset and status stays one, whatever requests the host makes.
THEOREM TypeCorrect == Spec => []TypeOK
<1>1. IInv => TypeOK
  BY DEF IInv
<1> QED BY <1>1, Invariance, PTL

-----------------------------------------------------------------------------
(***************************************************************************)
(* Short descriptors.                                                      *)
(***************************************************************************)
\* A data stage is over with its first packet, so that a data stage still
\* waiting has not begun: ControlState is IN_DATA before the first transfer
\* only.
NothingStarted == control = "IN_DATA" => copy = "NULL"

LeftInv == TypeOK /\ zlp = FALSE /\ NothingLeftOver /\ NothingStarted

Short ==
  /\ 2 < PackSize /\ DeviceSize < PackSize /\ ConfigSize < PackSize
  /\ \A i \in 0 .. 2 : StringSize[i] < PackSize

\* A data stage with a string that exists.
LEMMA ShortStage ==
  ASSUME LeftInv, NEW n \in Nat, n <= PackSize, NEW off, NEW last, NEW c, NEW r,
         copy' = c, request' = r, c = "GetStringDescriptor" => r.v0 <= 2,
         DataStageIn(n, off, last, FALSE, c, r),
         n = 0 /\ last => length = 0
  PROVE  zlp' = FALSE /\ NothingLeftOver' /\ NothingStarted'
<1>1. Lesser(n, PackSize) = n
  BY Constants DEF Lesser
<1>2. CASE n = 0 /\ last
  BY <1>2 DEF DataStageIn, NothingLeftOver, NothingStarted
<1>3. CASE ~(n = 0 /\ last)
  <2>1. length' = n - n /\ control' = "LAST_IN_DATA" /\ zlp' = FALSE
    BY <1>1, <1>3 DEF DataStageIn
  <2>2. length' = 0
    BY <2>1
  <2> QED BY <2>1, <2>2 DEF NothingLeftOver, NothingStarted
<1> QED BY <1>2, <1>3

LEMMA ShortSetup ==
  ASSUME Short, LeftInv, Setup0_Process
  PROVE  zlp' = FALSE /\ NothingLeftOver' /\ NothingStarted'
<1> DEFINE r == ep0.rxPacket
           c == Routine(r)
           n == SizeOf(c, r, length)
<1>1. r \in Packets /\ request' = r /\ length = 0 /\ zlp = FALSE
  BY OldTypes DEF LeftInv, NothingLeftOver, Setup0_Process
<1>2. CASE NoData_Setup0(r)
  <2>1. UNCHANGED <<length, offset, copy, zlp>> /\ control' \in {"WAIT_STATUS_IN", "STALLED"}
    BY <1>2 DEF NoData_Setup0, Stalled
  <2> QED BY <1>1, <2>1 DEF NothingLeftOver, NothingStarted
<1>3. CASE Data_Setup0(r) /\ r.length # 0
  <2>1. r.length \in Nat /\ r.v0 \in Nat /\ n \in Nat
    BY <1>1, RequestFields, SizeType DEF Byte8
  <2>2. n < PackSize
    BY <1>1, <2>1, Constants DEF Short, SizeOf
  <2>3. n = 0 \/ c # "GetStringDescriptor" \/ r.v0 <= 2
    BY <1>1 DEF SizeOf
  <2>4. EndsEmpty(n, r.length) = FALSE
    BY <1>1, <2>2 DEF EndsEmpty
  <2>5. \/ length' = length /\ copy' = copy /\ zlp' = zlp /\ Stalled
        \/ n = 0 /\ length' = 0 /\ zlp' = zlp /\ Stalled
        \/ n # 0 /\ copy' = c
           /\ DataStageIn(Lesser(n, r.length), 0, FALSE, EndsEmpty(n, r.length), c, r)
    BY <1>3 DEF Data_Setup0
  <2> HIDE DEF c, n, r
  <2>6. CASE Stalled /\ length' = 0 /\ zlp' = FALSE
    BY <2>6 DEF Stalled, NothingLeftOver, NothingStarted
  <2>7. CASE n # 0 /\ copy' = c /\ DataStageIn(Lesser(n, r.length), 0, FALSE, FALSE, c, r)
    <3> DEFINE m == Lesser(n, r.length)
    <3>1. m \in Nat /\ m <= n
      BY <2>1, LesserType
    <3> HIDE DEF m
    <3>2. m <= PackSize
      BY <2>1, <2>2, <3>1, Constants
    <3> QED BY <1>1, <2>3, <2>7, <3>1, <3>2, ShortStage DEF m
  <2> QED BY <1>1, <2>4, <2>5, <2>6, <2>7
<1> QED BY <1>2, <1>3 DEF Setup0_Process

LEMMA ShortIn ==
  ASSUME LeftInv, In0_Process
  PROVE  zlp' = FALSE /\ NothingLeftOver' /\ NothingStarted'
<1>1. length = 0 /\ zlp = FALSE /\ request' = request
  BY DEF LeftInv, NothingLeftOver, In0_Process
<1>2. CASE control \in {"IN_DATA", "LAST_IN_DATA"}
  <2>1. DataStageIn(0, offset, control = "LAST_IN_DATA", FALSE, copy, request) /\ copy' = copy
    BY <1>1, <1>2 DEF In0_Process
  <2>2. copy = "GetStringDescriptor" => request.v0 <= 2
    BY <1>2 DEF LeftInv, NothingLeftOver, NothingStarted
  <2> DEFINE last == control = "LAST_IN_DATA"
  <2>3. DataStageIn(0, offset, last, FALSE, copy, request)
    BY <2>1
  <2>4. 0 \in Nat /\ 0 <= PackSize
    BY Constants
  <2> HIDE DEF last
  <2> QED BY <1>1, <2>1, <2>2, <2>3, <2>4, ShortStage
<1>3. CASE control \notin {"IN_DATA", "LAST_IN_DATA"}
  <2>1. Stalled /\ length' = length /\ zlp' = zlp
    BY <1>3 DEF In0_Process
  <2> QED BY <1>1, <2>1 DEF Stalled, NothingLeftOver, NothingStarted
<1> QED BY <1>2, <1>3

LEMMA ShortStep == Short /\ LeftInv /\ TypeOK' /\ [Next]_vars => LeftInv'
<1> SUFFICES ASSUME Short, LeftInv, TypeOK', [Next]_vars PROVE LeftInv' OBVIOUS
<1>1. CASE Process
  <2>1. CASE Out0_Process
    BY <2>1 DEF Out0_Process, Stalled, LeftInv, NothingLeftOver, NothingStarted
  <2> QED BY <1>1, <2>1, ShortSetup, ShortIn DEF Process, LeftInv
<1>4. CASE FeatureBegins
  <2>1. ep0.rxPacket.v0 = 0 /\ 0 <= 2
    BY <1>4 DEF FeatureBegins, WritesOwn, Performed, ValueIs
  <2> QED BY <1>4, <2>1
          DEF FeatureBegins, stageVars, LeftInv, NothingLeftOver, NothingStarted
<1>5. CASE SetFeature
  BY <1>5 DEF SetFeature, LeftInv, NothingLeftOver, NothingStarted
<1>2. ASSUME UNCHANGED <<stageVars, request>> PROVE LeftInv'
  BY <1>2 DEF stageVars, LeftInv, NothingLeftOver, NothingStarted
<1>3. Process \/ FeatureBegins \/ SetFeature \/ UNCHANGED <<stageVars, request>>
  BY DEF Next, Interrupt, Host, Transfer, Enter, SaveStatus, GetENDPOINT, SetNak, ClearCtr,
         Restore, EnterReset,
         usb_cdc_reset, MainLoopOpens, BusReset, SendSetup, TakeData, TakeStatus, SendOut,
         SeeStall, vars
<1> QED BY <1>1, <1>2, <1>3, <1>4, <1>5

\* With descriptors shorter than a packet nothing of a transfer is left for
\* the next, and a string that does not exist is never read: for every set of
\* requests, in every order, given up or overtaken, with bus resets anywhere.
THEOREM NothingLeftOverHolds == Short => (Spec => []NothingLeftOver)
<1> SUFFICES ASSUME Short PROVE Spec => []NothingLeftOver OBVIOUS
<1>1. Init => zlp = FALSE /\ NothingLeftOver /\ NothingStarted
  BY DEF Init, NothingLeftOver, NothingStarted
<1>2. TypeOK /\ zlp = FALSE /\ NothingLeftOver /\ NothingStarted => LeftInv
  BY DEF LeftInv
<1>3. LeftInv /\ TypeOK' /\ [Next]_vars => LeftInv'
  BY ShortStep
<1>4. LeftInv => NothingLeftOver
  BY DEF LeftInv
<1> QED BY <1>1, <1>2, <1>3, <1>4, TypeCorrect, PTL DEF Spec

-----------------------------------------------------------------------------
(***************************************************************************)
(* The transfer, phase by phase.  A transfer that began when the interrupt *)
(* had nothing to do is in one of the phases below until the next one      *)
(* begins or the bus is reset.                                             *)
(***************************************************************************)
Seeing   == {"save", "readForNak", "nak", "readForClear", "clear"}
Finished == {"idle", "readForRestore", "restore"}

\* Nothing is to be served.
NothingDue == isr \in Finished /\ ~ep0.ctrRx /\ ~ep0.ctrTx

\* The statuses of the endpoint before its packet is served, if they were a
\* and b when it arrived,
Held(a, b) ==
  /\ isr \in {"idle", "save", "readForNak", "nak"} => ep0.rx = a /\ ep0.tx = b
  /\ isr \in {"readForClear", "clear", "setup0", "in0"} => ep0.rx = NAK /\ ep0.tx = NAK
  /\ isr \in {"nak", "clear"} => loaded.rx = ep0.rx /\ loaded.tx = ep0.tx
  /\ isr \notin {"idle", "save"} => save = [rx |-> a, tx |-> b]

\* and after it, if they are to be a and b.
Given(a, b) ==
  /\ NothingDue
  /\ isr = "idle" => ep0.rx = a /\ ep0.tx = b
  /\ isr # "idle" => ep0.rx = NAK /\ ep0.tx = NAK /\ save = [rx |-> a, tx |-> b]
  /\ isr = "restore" => loaded.rx = NAK /\ loaded.tx = NAK

\* A SETUP packet, or the end of a packet to the host, that is to be served.
SetupPending ==
  \/ /\ isr \in {"idle"} \cup Seeing /\ ep0.setup /\ ep0.ctrRx /\ ~ep0.ctrTx
     /\ isr # "idle" => istr.rx
  \/ isr = "setup0" /\ ~ep0.ctrRx /\ ~ep0.ctrTx
InPending ==
  \/ /\ isr \in {"idle"} \cup Seeing /\ ~ep0.ctrRx /\ ep0.ctrTx
     /\ isr # "idle" => ~istr.rx
  \/ isr = "in0" /\ ~ep0.ctrRx /\ ~ep0.ctrTx

Unchanged == State = before /\ daddr = host.address

SetupData ==
  /\ Unchanged /\ host.stage = FirstStage(Asked) /\ host.data = <<>>
  /\ ep0.rxPacket = Asked
SetupDue == SetupData /\ SetupPending /\ Held(NAK, NAK)

RefusedData ==
  /\ Unchanged /\ host.stage \in {FirstStage(Asked), "stall"} /\ host.data = <<>>
  /\ ~Accepted /\ control = "STALLED"
Refused == RefusedData /\ Given(STALL, STALL)

\* A request without data: performed, its status taken, and served.
WithoutData == Accepted /\ Asked.length = 0 /\ host.data = <<>>
Served ==
  /\ WithoutData /\ request = Asked /\ control = "WAIT_STATUS_IN"
  /\ configuration = Effect.configuration /\ wakeup = Effect.wakeup
  /\ daddr = before.address

\* Endpoint 0 is to be halted; and what it bears after that, until the
\* interrupt ends, which is a STALL for the host if it was halted that way.
FeatureDueData ==
  /\ Unchanged /\ WithoutData /\ request = Asked /\ host.stage = "statusIn"
  /\ Asked.type = "endpoint" /\ Asked.name = "SET_FEATURE" /\ Endpoint(Asked).number = 0
FeatureDue ==
  /\ FeatureDueData /\ isr \in OwnPlaces /\ ~ep0.ctrRx /\ ~ep0.ctrTx
  /\ ep0.rx = NAK /\ ep0.tx = NAK /\ save = [rx |-> NAK, tx |-> NAK]
  /\ isr = "feature" => loaded.rx = NAK /\ loaded.tx = NAK
StatusGiven ==
  /\ NothingDue
  /\ isr = "idle" => ep0.rx = NAK /\ ep0.tx = VALID
  /\ isr # "idle" =>
       /\ ep0.rx \in {NAK, STALL} /\ ep0.tx \in {NAK, STALL}
       /\ ep0.tx = STALL => StallsItself(Asked)
       /\ save = [rx |-> NAK, tx |-> VALID]
  /\ isr = "restore" => loaded.rx = ep0.rx /\ loaded.tx = ep0.tx

StatusDueData ==
  /\ Served /\ daddr = host.address /\ host.stage \in {"statusIn", "stall"}
  /\ host.stage = "stall" => StallsItself(Asked)
StatusDue == StatusDueData /\ StatusGiven

StatusTakenData == Served /\ host.address = Effect.address /\ host.stage = "ok"
StatusTaken == StatusTakenData /\ InPending

DoneData ==
  /\ WithoutData /\ State = Effect /\ daddr = host.address
  /\ host.stage = "ok" /\ control = "STALLED"
Done == DoneData /\ NothingDue

\* A request that is answered: how long the answer is, and whether byte i of
\* it is b.
Total == Lesser(SizeOf(Source, Asked, 0), Asked.length)
ByteOfAnswer(b, i) ==
  (IF Asked.type = "endpoint" THEN [b EXCEPT ![2] = 0] ELSE b) = <<Source, Version0, i>>
DataRight ==
  /\ Len(host.data) <= Total
  /\ \A i \in 1 .. Len(host.data) : ByteOfAnswer(host.data[i], i)
PacketRight ==
  \A i \in 1 .. Len(ep0.txPacket) : ByteOfAnswer(ep0.txPacket[i], Len(host.data) + i)

WithData ==
  /\ Unchanged /\ Asked.in /\ Asked.length # 0 /\ Source # "NULL" /\ Asked.name \in GETs
  /\ DataRight

\* The answer ends with an empty packet.
EmptyLast == Total < Asked.length /\ Total >= PackSize /\ Total % PackSize = 0
Answering ==
  /\ WithData /\ copy = Source /\ request = Asked /\ host.stage = "data"
  /\ offset + length = Total /\ Len(host.data) % PackSize = 0
  /\ \/ control = "IN_DATA" /\ length # 0
     \/ control = "LAST_IN_DATA" /\ length = 0
OfferedData ==
  /\ Answering
  /\ Len(host.data) + Len(ep0.txPacket) = offset /\ PacketRight
  /\ control = "IN_DATA" => Len(ep0.txPacket) = PackSize
  /\ EmptyLast => zlp \/ (ep0.txPacket = <<>> /\ control = "LAST_IN_DATA")
Offered == OfferedData /\ Given(VALID, VALID)

TakenData ==
  /\ Answering
  /\ Len(host.data) = offset
  /\ (EmptyLast \/ control = "LAST_IN_DATA") => zlp
Taken == TakenData /\ InPending /\ Held(VALID, NAK)

\* The answer is complete: its last packet is to be served, the status is to
\* come, and it has been sent.
Complete == WithData /\ Len(host.data) = Total
LastTakenData ==
  /\ Complete /\ host.stage = "statusOut" /\ control = "LAST_IN_DATA" /\ length = 0
LastTaken == LastTakenData /\ InPending /\ Held(VALID, NAK)

StatusOutData == Complete /\ host.stage = "statusOut" /\ control # "WAIT_STATUS_IN"
StatusOutDue == StatusOutData /\ \E tx \in {VALID, STALL} : Given(VALID, tx)

AnsweredData ==
  Complete /\ host.stage = "ok" /\ control # "WAIT_STATUS_IN" /\ ~ep0.setup
Answered == AnsweredData /\ isr \notin {"setup0", "reset"} \cup OwnPlaces

Phases ==
  \/ SetupDue \/ Refused \/ FeatureDue \/ StatusDue \/ StatusTaken \/ Done
  \/ Offered \/ Taken \/ LastTaken \/ StatusOutDue \/ Answered

\* No transfer since the last bus reset: while the reset is due the interrupt
\* may be serving what came before it, one packet at most once it knows of
\* the reset, and after it what is left is at most a packet taken by the host
\* in a transfer that is over.
Leftover == ~ep0.ctrRx /\ (ep0.ctrTx => control = "STALLED")
SetupAlone ==
  /\ ep0.ctrRx /\ ep0.setup => ~ep0.ctrTx
  /\ isr = "setup0" => ~ep0.ctrTx
  /\ isr \in Seeing /\ istr.rx /\ ep0.setup => ~ep0.ctrTx
ResetDue ==
  /\ SetupAlone
  /\ isr # "idle" /\ istr.reset =>
       /\ isr \in Seeing => istr.rx = ep0.ctrRx
       /\ isr \in {"setup0", "in0", "out0"} \cup OwnPlaces => ~ep0.ctrRx
       /\ isr \in {"setup0", "in0"} \cup OwnPlaces => ~ep0.ctrTx
       /\ isr \in {"readForRestore", "restore"} => Leftover
  /\ isr = "reset" => Leftover
AfterReset ==
  /\ State = before /\ Leftover /\ isr \notin {"setup0", "out0", "reset"} \cup OwnPlaces
  /\ isr # "idle" => control = "STALLED" /\ ~istr.rx
NoTransfer ==
  /\ host.stage = "ok" /\ host.data = <<>> /\ host.address = 0
  /\ before = [configuration |-> 0, wakeup |-> FALSE, address |-> 0]
  /\ IF bus = "up" THEN AfterReset ELSE ResetDue

\* Of the bus and of the device whatever the host has done.
BusInv ==
  /\ isr # "idle" /\ istr.reset => bus = "reset"
  /\ isr = "reset" => bus = "reset"
  /\ Asked # None => bus = "up"
  /\ configuration # 0 => ready

TransferInv ==
  /\ BusInv
  /\ ~hurried => IF Asked = None THEN NoTransfer ELSE Phases

-----------------------------------------------------------------------------
\* The statuses are different, and a write to a register that has not changed
\* since it was read sets the status wanted.
LEMMA StatusFacts ==
  /\ VALID # NAK /\ VALID # STALL /\ NAK # STALL /\ NAK # DISABLED
  /\ VALID # DISABLED /\ STALL # DISABLED
<1>1. 1 \in VALID /\ 2 \in VALID /\ 1 \in STALL /\ 2 \notin STALL /\ 1 \notin NAK
      /\ 2 \in NAK /\ 1 \notin DISABLED /\ 2 \notin DISABLED
  BY DEF VALID, NAK, STALL, DISABLED
<1> QED BY <1>1, Zenon

LEMMA ToggleSame == \A a, b : Toggle(a, a, b) = b
BY DEF Toggle, Differ

\* What each of the small steps of the interrupt does to the endpoint.
LEMMA EnterIs ==
  ASSUME TypeOK, Enter
  PROVE  /\ isr = "idle" /\ isr' = "save" /\ (ep0.ctrRx \/ ep0.ctrTx)
         /\ istr'.rx = ep0.ctrRx /\ istr'.reset = (bus = "reset")
         /\ ep0' = ep0 /\ loaded' = loaded /\ save' = save
BY DEF Enter

LEMMA SaveStatusIs ==
  ASSUME TypeOK, SaveStatus
  PROVE  /\ isr = "save" /\ isr' = "readForNak" /\ save' = [rx |-> ep0.rx, tx |-> ep0.tx]
         /\ ep0' = ep0 /\ loaded' = loaded /\ istr' = istr
BY DEF SaveStatus

LEMMA GetENDPOINTIs ==
  ASSUME TypeOK, GetENDPOINT
  PROVE  /\ \/ isr = "readForNak" /\ isr' = "nak"
            \/ isr = "readForClear" /\ isr' = "clear"
            \/ isr = "readForFeature" /\ isr' = "feature"
            \/ isr = "readForRestore" /\ isr' = "restore"
         /\ loaded'.rx = ep0.rx /\ loaded'.tx = ep0.tx
         /\ ep0' = ep0 /\ save' = save /\ istr' = istr
BY DEF GetENDPOINT, ReadFor

\* The endpoint but for its statuses, and but for its flags.
EndpointKept ==
  /\ ep0'.setup = ep0.setup /\ ep0'.rxPacket = ep0.rxPacket /\ ep0'.txPacket = ep0.txPacket
FlagsKept == ep0'.ctrRx = ep0.ctrRx /\ ep0'.ctrTx = ep0.ctrTx
StatusesKept == ep0'.rx = ep0.rx /\ ep0'.tx = ep0.tx

LEMMA SetStatusIs ==
  ASSUME TypeOK, NEW rx, NEW tx, SetStatus(rx, tx)
  PROVE  /\ EndpointKept /\ FlagsKept
         /\ loaded.rx = ep0.rx /\ loaded.tx = ep0.tx => ep0'.rx = rx /\ ep0'.tx = tx
<1>1. ep0 \in Ep0Type
  BY DEF TypeOK, Ep0Type
<1>2. ep0' = [ep0 EXCEPT !.rx = Toggle(ep0.rx, loaded.rx, rx),
                         !.tx = Toggle(ep0.tx, loaded.tx, tx)]
  BY DEF SetStatus
<1>3. ep0'.rx = Toggle(ep0.rx, loaded.rx, rx) /\ ep0'.tx = Toggle(ep0.tx, loaded.tx, tx)
  BY <1>1, <1>2 DEF Ep0Type
<1>4. EndpointKept /\ FlagsKept
  BY <1>1, <1>2 DEF Ep0Type, EndpointKept, FlagsKept
<1> QED BY <1>3, <1>4, ToggleSame

LEMMA SetNakIs ==
  ASSUME TypeOK, SetNak
  PROVE  /\ isr = "nak" /\ isr' = "readForClear" /\ EndpointKept /\ FlagsKept
         /\ loaded.rx = ep0.rx /\ loaded.tx = ep0.tx => ep0'.rx = NAK /\ ep0'.tx = NAK
         /\ save' = save /\ istr' = istr
BY SetStatusIs DEF SetNak

LEMMA RestoreIs ==
  ASSUME TypeOK, Restore
  PROVE  /\ isr = "restore" /\ isr' = IF istr.reset THEN "reset" ELSE "idle"
         /\ EndpointKept /\ FlagsKept
         /\ loaded.rx = ep0.rx /\ loaded.tx = ep0.tx
              => ep0'.rx = save.rx /\ ep0'.tx = save.tx
         /\ save' = save /\ istr' = istr
BY SetStatusIs DEF Restore

LEMMA ClearCtrIs ==
  ASSUME TypeOK, ClearCtr
  PROVE  /\ isr = "clear"
         /\ isr' = IF ~istr.rx THEN "in0" ELSE IF ep0.setup THEN "setup0" ELSE "out0"
         /\ EndpointKept /\ StatusesKept /\ save' = save /\ istr' = istr
         /\ ep0'.ctrRx => ep0.ctrRx /\ ~istr.rx
         /\ ep0'.ctrTx => ep0.ctrTx /\ istr.rx
<1>1. ep0 \in Ep0Type
  BY DEF TypeOK, Ep0Type
<1>2. ep0' = [ep0 EXCEPT !.ctrRx = ep0.ctrRx /\ loaded.ctrRx /\ ~istr.rx,
                         !.ctrTx = ep0.ctrTx /\ loaded.ctrTx /\ istr.rx]
  BY DEF ClearCtr
<1>3. ep0'.ctrRx = (ep0.ctrRx /\ loaded.ctrRx /\ ~istr.rx)
      /\ ep0'.ctrTx = (ep0.ctrTx /\ loaded.ctrTx /\ istr.rx)
  BY <1>1, <1>2 DEF Ep0Type
<1>4. EndpointKept /\ StatusesKept
  BY <1>1, <1>2 DEF Ep0Type, EndpointKept, StatusesKept
<1> QED BY <1>3, <1>4 DEF ClearCtr

\* The steps of the interrupt that only see a packet in, or out again.
SeeIn == Enter \/ SaveStatus \/ GetENDPOINT \/ SetNak \/ ClearCtr
Minor == SeeIn \/ Restore

LEMMA SetupPendingStep ==
  ASSUME TypeOK, SetupPending, Minor
  PROVE  SetupPending'
<1>1. CASE Enter
  BY <1>1, EnterIs DEF SetupPending, Seeing
<1>2. CASE SaveStatus
  BY <1>2, SaveStatusIs DEF SetupPending, Seeing
<1>3. CASE GetENDPOINT
  BY <1>3, GetENDPOINTIs DEF SetupPending, Seeing
<1>4. CASE SetNak
  BY <1>4, SetNakIs DEF SetupPending, Seeing, EndpointKept, FlagsKept
<1>5. CASE ClearCtr
  BY <1>5, ClearCtrIs DEF SetupPending, Seeing, EndpointKept
<1>6. CASE Restore
  BY <1>6, RestoreIs DEF SetupPending, Seeing
<1> QED BY <1>1, <1>2, <1>3, <1>4, <1>5, <1>6 DEF Minor, SeeIn

LEMMA InPendingStep ==
  ASSUME TypeOK, InPending, Minor
  PROVE  InPending'
<1>1. CASE Enter
  BY <1>1, EnterIs DEF InPending, Seeing
<1>2. CASE SaveStatus
  BY <1>2, SaveStatusIs DEF InPending, Seeing
<1>3. CASE GetENDPOINT
  BY <1>3, GetENDPOINTIs DEF InPending, Seeing
<1>4. CASE SetNak
  BY <1>4, SetNakIs DEF InPending, Seeing, FlagsKept
<1>5. CASE ClearCtr
  BY <1>5, ClearCtrIs DEF InPending, Seeing
<1>6. CASE Restore
  BY <1>6, RestoreIs DEF InPending, Seeing
<1> QED BY <1>1, <1>2, <1>3, <1>4, <1>5, <1>6 DEF Minor, SeeIn

LEMMA HeldStep ==
  ASSUME TypeOK, NEW a, NEW b, Held(a, b), isr \in {"idle"} \cup Seeing, SeeIn
  PROVE  Held(a, b)'
<1>1. CASE Enter
  BY <1>1, EnterIs DEF Held
<1>2. CASE SaveStatus
  BY <1>2, SaveStatusIs DEF Held
<1>3. CASE GetENDPOINT
  BY <1>3, GetENDPOINTIs DEF Held, Seeing
<1>4. CASE SetNak
  BY <1>4, SetNakIs DEF Held
<1>5. CASE ClearCtr
  <2>1. isr = "clear" /\ isr' \in {"in0", "setup0", "out0"} /\ save' = save
        /\ ep0'.rx = ep0.rx /\ ep0'.tx = ep0.tx
    BY <1>5, ClearCtrIs DEF StatusesKept
  <2> QED BY <2>1 DEF Held
<1> QED BY <1>1, <1>2, <1>3, <1>4, <1>5 DEF SeeIn

\* After a packet has been served: only the statuses are to be set.
LEMMA NothingDueStep ==
  ASSUME TypeOK, NothingDue, isr # "idle" => ~istr.reset, Minor
  PROVE  NothingDue'
<1>1. ~Enter /\ ~SaveStatus /\ ~SetNak /\ ~ClearCtr
  BY EnterIs, SaveStatusIs, SetNakIs, ClearCtrIs DEF NothingDue, Finished
<1>2. CASE GetENDPOINT
  BY <1>2, GetENDPOINTIs DEF NothingDue, Finished
<1>3. CASE Restore
  BY <1>3, RestoreIs DEF NothingDue, Finished, FlagsKept
<1> QED BY <1>1, <1>2, <1>3 DEF Minor, SeeIn

LEMMA GivenStep ==
  ASSUME TypeOK, NEW a, NEW b, Given(a, b), isr # "idle" => ~istr.reset, Minor
  PROVE  Given(a, b)'
<1>1. ~Enter /\ ~SaveStatus /\ ~SetNak /\ ~ClearCtr
  BY EnterIs, SaveStatusIs, SetNakIs, ClearCtrIs DEF Given, NothingDue, Finished
<1>2. NothingDue'
  BY NothingDueStep DEF Given
<1>3. CASE GetENDPOINT
  BY <1>2, <1>3, GetENDPOINTIs DEF Given, NothingDue, Finished
<1>4. CASE Restore
  <2>1. isr = "restore" /\ isr' = "idle" /\ ep0'.rx = save.rx /\ ep0'.tx = save.tx
    BY <1>4, RestoreIs DEF Given
  <2>2. save = [rx |-> a, tx |-> b]
    BY <2>1 DEF Given
  <2> QED BY <1>2, <2>1, <2>2 DEF Given
<1> QED BY <1>1, <1>3, <1>4 DEF Minor, SeeIn

\* After a request without data has been performed.
LEMMA StatusGivenStep ==
  ASSUME TypeOK, StatusGiven, isr # "idle" => ~istr.reset, Minor, Asked' = Asked
  PROVE  StatusGiven'
<1>1. ~Enter /\ ~SaveStatus /\ ~SetNak /\ ~ClearCtr
  BY EnterIs, SaveStatusIs, SetNakIs, ClearCtrIs DEF StatusGiven, NothingDue, Finished
<1>2. NothingDue'
  BY NothingDueStep DEF StatusGiven
<1>3. CASE GetENDPOINT
  <2>1. isr = "readForRestore" /\ isr' = "restore"
    BY <1>3, GetENDPOINTIs DEF StatusGiven, NothingDue, Finished
  <2> QED BY <1>2, <1>3, <2>1, GetENDPOINTIs DEF StatusGiven
<1>4. CASE Restore
  <2>1. isr = "restore" /\ isr' = "idle" /\ ep0'.rx = save.rx /\ ep0'.tx = save.tx
    BY <1>4, RestoreIs DEF StatusGiven
  <2>2. save = [rx |-> NAK, tx |-> VALID]
    BY <2>1 DEF StatusGiven
  <2> QED BY <1>2, <2>1, <2>2 DEF StatusGiven
<1> QED BY <1>1, <1>3, <1>4 DEF Minor, SeeIn

-----------------------------------------------------------------------------
\* What a step leaves alone that neither serves a packet nor is the host's.
Frozen ==
  /\ host' = host /\ before' = before /\ hurried' = hurried /\ bus' = bus
  /\ configuration' = configuration /\ wakeup' = wakeup /\ daddr' = daddr
  /\ ready' = ready /\ control' = control /\ length' = length /\ offset' = offset
  /\ copy' = copy /\ zlp' = zlp /\ request' = request /\ EndpointKept

LEMMA MinorFrozen == ASSUME TypeOK, Minor PROVE Frozen
<1>1. EndpointKept
  BY EnterIs, SaveStatusIs, GetENDPOINTIs, SetNakIs, ClearCtrIs, RestoreIs
     DEF Minor, SeeIn, EndpointKept
<1> QED BY <1>1 DEF Frozen, Minor, SeeIn, Enter, SaveStatus, GetENDPOINT, SetNak, ClearCtr,
           Restore, deviceVars, stageVars, history

LEMMA MainLoopFrozen == ASSUME TypeOK, MainLoopOpens PROVE Frozen /\ UNCHANGED <<ep0, isrVars>>
BY DEF Frozen, MainLoopOpens, EndpointKept, stageVars, history

\* The answer is that of the request and of the state it was made in, even if
\* an endpoint is opened.
LEMMA AnswerSame ==
  ASSUME host'.request = host.request, before' = before
  PROVE  /\ Asked' = Asked /\ Source' = Source /\ Version0' = Version0 /\ Total' = Total
         /\ (Accepted <=> Accepted') /\ Effect' = Effect /\ (EmptyLast <=> EmptyLast')
<1>1. Asked' = Asked
  BY DEF Asked
<1>2. Source' = Source
  BY <1>1 DEF Source
<1>3. Version0' = Version0
  BY <1>1, <1>2 DEF Version0, Version
<1>4. Total' = Total
  BY <1>1, <1>2 DEF Total
<1>5. Accepted <=> Accepted'
  BY <1>1, <1>2 DEF Accepted
<1>6. Effect' = Effect
  BY <1>1 DEF Effect
<1>7. EmptyLast <=> EmptyLast'
  BY <1>1, <1>4 DEF EmptyLast
<1> QED BY <1>1, <1>2, <1>3, <1>4, <1>5, <1>6, <1>7

LEMMA ByteSame ==
  ASSUME host'.request = host.request, before' = before, NEW CONSTANT b, NEW CONSTANT i
  PROVE  ByteOfAnswer(b, i) <=> ByteOfAnswer(b, i)'
BY AnswerSame DEF ByteOfAnswer

LEMMA DataSame ==
  ASSUME host'.request = host.request, host'.data = host.data, before' = before
  PROVE  DataRight => DataRight'
<1>1. Source' = Source /\ Version0' = Version0 /\ Total' = Total /\ Asked' = Asked
  BY AnswerSame
<1> QED BY <1>1 DEF DataRight, ByteOfAnswer

LEMMA FrozenWithData ==
  ASSUME Frozen
  PROVE  /\ WithData => WithData'
         /\ PacketRight => PacketRight'
         /\ Unchanged => Unchanged'
         /\ Complete => Complete'
         /\ Answering => Answering'
         /\ Served => Served'
         /\ WithoutData => WithoutData'
<1>1. /\ Asked' = Asked /\ Source' = Source /\ Version0' = Version0 /\ Total' = Total
      /\ (Accepted <=> Accepted') /\ Effect' = Effect
  BY AnswerSame DEF Frozen
<1>2. DataRight => DataRight'
  BY DataSame DEF Frozen
<1>3. Unchanged => Unchanged'
  BY DEF Frozen, Unchanged, State
<1>4. WithData => WithData'
  BY <1>1, <1>2, <1>3 DEF WithData
<1>5. PacketRight => PacketRight'
  BY <1>1 DEF Frozen, EndpointKept, PacketRight, ByteOfAnswer
<1>6. Complete => Complete'
  BY <1>1, <1>4 DEF Complete, Frozen
<1>7. Answering => Answering'
  BY <1>1, <1>4 DEF Answering, Frozen
<1>8. WithoutData => WithoutData'
  BY <1>1 DEF WithoutData, Frozen
<1>9. Served => Served'
  BY <1>1, <1>8 DEF Served, Frozen
<1> QED BY <1>3, <1>4, <1>5, <1>6, <1>7, <1>8, <1>9

LEMMA FrozenData ==
  ASSUME Frozen
  PROVE  /\ SetupData => SetupData'
         /\ RefusedData => RefusedData'
         /\ FeatureDueData => FeatureDueData'
         /\ StatusDueData => StatusDueData'
         /\ StatusTakenData => StatusTakenData'
         /\ DoneData => DoneData'
         /\ OfferedData => OfferedData'
         /\ TakenData => TakenData'
         /\ LastTakenData => LastTakenData'
         /\ StatusOutData => StatusOutData'
         /\ AnsweredData => AnsweredData'
<1>1. /\ Asked' = Asked /\ (Accepted <=> Accepted') /\ Effect' = Effect
      /\ (EmptyLast <=> EmptyLast')
  BY AnswerSame DEF Frozen
<1>2. SetupData => SetupData'
  BY <1>1, FrozenWithData DEF SetupData, Frozen, EndpointKept, FirstStage
<1>3. RefusedData => RefusedData'
  BY <1>1, FrozenWithData DEF RefusedData, Frozen, FirstStage
<1>4. StatusDueData => StatusDueData'
  BY <1>1, FrozenWithData DEF StatusDueData, Frozen
<1>5. StatusTakenData => StatusTakenData'
  BY <1>1, FrozenWithData DEF StatusTakenData, Frozen
<1>6. DoneData => DoneData'
  BY <1>1, FrozenWithData DEF DoneData, Frozen, State
<1>7. OfferedData => OfferedData'
  BY <1>1, FrozenWithData DEF OfferedData, Frozen, EndpointKept
<1>8. TakenData => TakenData'
  BY <1>1, FrozenWithData DEF TakenData, Frozen
<1>9. LastTakenData => LastTakenData'
  BY <1>1, FrozenWithData DEF LastTakenData, Frozen
<1>10. StatusOutData => StatusOutData'
  BY <1>1, FrozenWithData DEF StatusOutData, Frozen
<1>11. AnsweredData => AnsweredData'
  BY <1>1, FrozenWithData DEF AnsweredData, Frozen, EndpointKept
<1>12. FeatureDueData => FeatureDueData'
  BY <1>1, FrozenWithData DEF FeatureDueData, Frozen
<1> QED BY <1>2, <1>3, <1>4, <1>5, <1>6, <1>7, <1>8, <1>9, <1>10, <1>11, <1>12

\* No phase is left by a step that only sees a packet in or out.
LEMMA PhasesMinor ==
  ASSUME TypeOK, BusInv, bus = "up", Phases, Minor
  PROVE  Phases'
<1>1. Frozen
  BY MinorFrozen
<1>2. isr # "idle" => ~istr.reset
  BY DEF BusInv
<1>3. CASE SetupDue
  <2>1. isr \in {"idle"} \cup Seeing /\ SeeIn
    <3>1. isr \in {"idle"} \cup Seeing \cup {"setup0"}
      BY <1>3 DEF SetupDue, SetupPending
    <3>2. isr # "setup0" /\ isr # "restore"
      BY <3>1, EnterIs, SaveStatusIs, GetENDPOINTIs, SetNakIs, ClearCtrIs, RestoreIs
         DEF Minor, SeeIn, Seeing
    <3> QED BY <3>1, <3>2, RestoreIs DEF Minor
  <2> QED BY <1>1, <1>3, <2>1, FrozenData, SetupPendingStep, HeldStep DEF SetupDue, Phases
<1>4. CASE Refused
  BY <1>1, <1>2, <1>4, FrozenData, GivenStep DEF Refused, Phases
<1>5. CASE StatusDue
  <2>1. Asked' = Asked
    BY <1>1 DEF Frozen, Asked
  <2> QED BY <1>1, <1>2, <1>5, <2>1, FrozenData, StatusGivenStep DEF StatusDue, Phases
<1>14. CASE FeatureDue
  <2>1. GetENDPOINT /\ isr = "readForFeature"
    BY <1>14, EnterIs, SaveStatusIs, GetENDPOINTIs, SetNakIs, ClearCtrIs, RestoreIs
       DEF Minor, SeeIn, FeatureDue, OwnPlaces
  <2>2. isr' = "feature" /\ loaded'.rx = ep0.rx /\ loaded'.tx = ep0.tx
        /\ ep0' = ep0 /\ save' = save
    BY <2>1, GetENDPOINTIs
  <2> QED BY <1>1, <1>14, <2>2, FrozenData DEF FeatureDue, OwnPlaces, Phases
<1>6. CASE StatusTaken
  BY <1>1, <1>6, FrozenData, InPendingStep DEF StatusTaken, Phases
<1>7. CASE Done
  BY <1>1, <1>2, <1>7, FrozenData, NothingDueStep DEF Done, Phases
<1>8. CASE Offered
  BY <1>1, <1>2, <1>8, FrozenData, GivenStep DEF Offered, Phases
<1>9. InPending => isr \in {"idle"} \cup Seeing /\ SeeIn
  <2>1. isr # "in0"
    BY EnterIs, SaveStatusIs, GetENDPOINTIs, SetNakIs, ClearCtrIs, RestoreIs DEF Minor, SeeIn
  <2> QED BY <2>1, RestoreIs DEF InPending, Minor, Seeing
<1>10. CASE Taken
  BY <1>1, <1>9, <1>10, FrozenData, InPendingStep, HeldStep DEF Taken, Phases
<1>11. CASE LastTaken
  BY <1>1, <1>9, <1>11, FrozenData, InPendingStep, HeldStep DEF LastTaken, Phases
<1>12. CASE StatusOutDue
  <2>1. PICK tx \in {VALID, STALL} : Given(VALID, tx)
    BY <1>12 DEF StatusOutDue
  <2>2. Given(VALID, tx)'
    BY <1>2, <2>1, GivenStep
  <2> QED BY <1>1, <1>12, <2>2, FrozenData DEF StatusOutDue, Phases
<1>13. CASE Answered
  <2>1. isr' \notin {"setup0", "reset"} \cup OwnPlaces
    <3>1. ~ep0.setup /\ isr # "readForFeature"
      BY <1>13 DEF Answered, AnsweredData, OwnPlaces
    <3> QED BY <1>2, <3>1, EnterIs, SaveStatusIs, GetENDPOINTIs, SetNakIs, ClearCtrIs, RestoreIs
            DEF Minor, SeeIn, OwnPlaces
  <2> QED BY <1>1, <1>13, <2>1, FrozenData DEF Answered, Phases
<1> QED BY <1>3, <1>4, <1>5, <1>6, <1>7, <1>8, <1>10, <1>11, <1>12, <1>13, <1>14
        DEF Phases

\* Nor by one that changes nothing of endpoint 0.
LEMMA PhasesFrozen ==
  ASSUME Phases, Frozen, UNCHANGED <<ep0, isrVars>>
  PROVE  Phases'
<1>1. isr' = isr /\ ep0' = ep0 /\ loaded' = loaded /\ istr' = istr /\ save' = save
  BY DEF isrVars
<1>2. /\ SetupPending => SetupPending'
      /\ InPending => InPending'
      /\ NothingDue => NothingDue'
  BY <1>1 DEF SetupPending, InPending, NothingDue
<1>3. ASSUME NEW a, NEW b PROVE (Held(a, b) => Held(a, b)') /\ (Given(a, b) => Given(a, b)')
  BY <1>1, <1>2 DEF Held, Given
<1>4. StatusOutDue => StatusOutDue'
  <2> SUFFICES ASSUME StatusOutDue PROVE StatusOutDue' OBVIOUS
  <2>1. PICK tx \in {VALID, STALL} : Given(VALID, tx)
    BY DEF StatusOutDue
  <2> QED BY <1>3, <2>1, FrozenData DEF StatusOutDue
<1>5. /\ SetupDue => SetupDue'
      /\ Refused => Refused'
      /\ StatusTaken => StatusTaken'
      /\ Done => Done'
      /\ Offered => Offered'
      /\ Taken => Taken'
      /\ LastTaken => LastTaken'
      /\ Answered => Answered'
  BY <1>1, <1>2, <1>3, FrozenData
     DEF SetupDue, Refused, StatusTaken, Done, Offered, Taken, LastTaken, Answered
<1>6. Asked' = Asked
  BY DEF Frozen, Asked
<1>7. (FeatureDue => FeatureDue') /\ (StatusDue => StatusDue')
  BY <1>1, <1>2, <1>6, FrozenData DEF FeatureDue, StatusDue, StatusGiven
<1> QED BY <1>4, <1>5, <1>7 DEF Phases

-----------------------------------------------------------------------------
(***************************************************************************)
(* Serving a packet.                                                       *)
(***************************************************************************)
LEMMA WholePackets ==
  /\ 0 % PackSize = 0
  /\ \A a \in Nat : a % PackSize = 0 => (a + PackSize) % PackSize = 0
<1>1. PackSize \in Nat /\ PackSize > 0
  BY Constants
<1>2. ASSUME NEW q \in Nat PROVE (PackSize * q) % PackSize = 0
  BY <1>1
<1>3. ASSUME NEW a \in Nat, a % PackSize = 0 PROVE (a + PackSize) % PackSize = 0
  <2> DEFINE q == a \div PackSize
  <2>1. q \in Nat /\ a = PackSize * q + (a % PackSize)
    BY <1>1
  <2> HIDE DEF q
  <2>2. a + PackSize = PackSize * (q + 1)
    BY <1>1, <1>3, <2>1
  <2> QED BY <1>2, <2>1, <2>2
<1> QED BY <1>1, <1>3

\* What a data stage offers: the next packet, or an empty one, or nothing.
LEMMA NextPacketIs ==
  ASSUME TypeOK, NEW n \in Nat, NEW off \in Nat, NEW last, NEW more \in BOOLEAN,
         NEW c \in Routines, NEW r \in Packets, DataStageIn(n, off, last, more, c, r),
         n # 0
  PROVE  /\ Lesser(n, PackSize) \in Nat /\ Lesser(n, PackSize) <= n
         /\ Lesser(n, PackSize) <= PackSize
         /\ ep0'.txPacket = Bytes(c, r, off, Lesser(n, PackSize))
         /\ Len(ep0'.txPacket) = Lesser(n, PackSize)
         /\ StatusesKept /\ FlagsKept
         /\ length' = n - Lesser(n, PackSize) /\ offset' = off + Lesser(n, PackSize)
         /\ zlp' = more /\ save' = [rx |-> VALID, tx |-> VALID]
         /\ n <= PackSize => control' = "LAST_IN_DATA" /\ Lesser(n, PackSize) = n
         /\ n > PackSize => control' = "IN_DATA" /\ Lesser(n, PackSize) = PackSize
<1> DEFINE m == Lesser(n, PackSize)
           b == Bytes(c, r, off, m)
<1>1. m \in Nat /\ m <= n /\ m <= PackSize
  BY LesserType, Constants
<1>2. Len(b) = m
  BY <1>1, BytesType
<1>3. (n <= PackSize => m = n) /\ (n > PackSize => m = PackSize)
  BY Constants DEF Lesser
<1>4. ep0 \in Ep0Type
  BY OldTypes
<1>5. /\ ep0' = [ep0 EXCEPT !.txPacket = b]
      /\ length' = n - m /\ offset' = off + m /\ zlp' = more
      /\ control' = IF n <= PackSize THEN "LAST_IN_DATA" ELSE "IN_DATA"
      /\ save' = [rx |-> VALID, tx |-> VALID]
  BY DEF DataStageIn
<1> HIDE DEF b, m
<1>6. ep0'.txPacket = b /\ StatusesKept /\ FlagsKept
  BY <1>4, <1>5 DEF Ep0Type, FlagsKept, StatusesKept
<1>7. (n <= PackSize => control' = "LAST_IN_DATA") /\ (n > PackSize => control' = "IN_DATA")
  BY <1>5, Constants
<1> QED BY <1>1, <1>2, <1>3, <1>5, <1>6, <1>7 DEF b, m

LEMMA LastPacketIs ==
  ASSUME TypeOK, NEW off, NEW more \in BOOLEAN, NEW c, NEW r,
         DataStageIn(0, off, TRUE, more, c, r)
  PROVE  /\ ep0'.rx = ep0.rx /\ ep0'.tx = ep0.tx /\ FlagsKept
         /\ ep0'.setup = ep0.setup /\ length' = length /\ offset' = offset
         /\ more => /\ ep0'.txPacket = <<>> /\ control' = "LAST_IN_DATA"
                    /\ save' = [save EXCEPT !.tx = VALID]
         /\ ~more => /\ ep0' = ep0 /\ control' = "WAIT_STATUS_OUT"
                     /\ save' = [save EXCEPT !.tx = STALL]
<1>1. ep0 \in Ep0Type
  BY OldTypes
<1>2. CASE more
  <2>1. /\ ep0' = [ep0 EXCEPT !.txPacket = <<>>] /\ control' = "LAST_IN_DATA"
        /\ save' = [save EXCEPT !.tx = VALID] /\ length' = length /\ offset' = offset
    BY <1>2 DEF DataStageIn
  <2> QED BY <1>1, <1>2, <2>1 DEF Ep0Type, FlagsKept
<1>3. CASE ~more
  BY <1>3 DEF DataStageIn, FlagsKept
<1> QED BY <1>2, <1>3

\* The bytes of the packet are those of the answer, from the place on that it
\* begins at.
LEMMA BytesAreAnswer ==
  ASSUME TypeOK, State = before, Asked \in Packets, NEW off \in Nat, NEW m \in Nat
  PROVE  \A i \in 1 .. m : ByteOfAnswer(Bytes(Source, Asked, off, m)[i], off + i)
<1> DEFINE v == Version(Source, Asked, before)
<1>1. Bytes(Source, Asked, off, m) = [i \in 1 .. m |-> <<Source, v, off + i>>]
  BY DEF Bytes
<1>2. Version0 = IF Asked.type = "endpoint" THEN 0 ELSE v
  BY DEF Version0
<1> HIDE DEF v
<1>3. ASSUME NEW i \in 1 .. m
      PROVE  ByteOfAnswer(Bytes(Source, Asked, off, m)[i], off + i)
  <2> DEFINE b == <<Source, v, off + i>>
  <2>1. Bytes(Source, Asked, off, m)[i] = b
    BY <1>1
  <2>2. [b EXCEPT ![2] = 0] = <<Source, 0, off + i>>
    OBVIOUS
  <2>3. ByteOfAnswer(b, off + i)
    BY <1>2, <2>2 DEF ByteOfAnswer
  <2> QED BY <2>1, <2>3
<1> QED BY <1>3

LEMMA GivenAfter ==
  ASSUME NEW a, NEW b, isr' = "readForRestore", FlagsKept, StatusesKept,
         ~ep0.ctrRx, ~ep0.ctrTx, ep0.rx = NAK, ep0.tx = NAK, save' = [rx |-> a, tx |-> b]
  PROVE  Given(a, b)'
BY DEF Given, NothingDue, Finished, FlagsKept, StatusesKept

LEMMA StateIs ==
  ASSUME State = before
  PROVE  /\ configuration = before.configuration /\ wakeup = before.wakeup
         /\ daddr = before.address
BY DEF State

\* A string that does not exist.
Missing == CopyRoutine(Asked, before) = "GetStringDescriptor" /\ Asked.v0 > 2

LEMMA AskedType == TypeOK /\ Asked # None => Asked \in Packets /\ Asked \in Requests
BY DEF TypeOK, Asked, Packets

LEMMA GetIsIn == \A r \in Requests : r.name \in GETs => r.in
BY ControlAssumption

LEMMA CopyIsGet == \A r, s : CopyRoutine(r, s) # "NULL" => r.name \in GETs
BY DEF CopyRoutine, GETs

\* A request that is refused.
LEMMA RefusedAfter ==
  ASSUME TypeOK, SetupDue, isr = "setup0", isr' = "readForRestore", host' = host,
         before' = before, UNCHANGED <<deviceVars, ep0>>, Stalled, ~Accepted
  PROVE  Refused'
<1>1. /\ Unchanged /\ host.stage = FirstStage(Asked) /\ host.data = <<>>
      /\ ~ep0.ctrRx /\ ~ep0.ctrTx /\ ep0.rx = NAK /\ ep0.tx = NAK
  BY DEF SetupDue, SetupData, SetupPending, Held, Seeing
<1>2. Given(STALL, STALL)'
  BY <1>1, GivenAfter DEF Stalled, FlagsKept, StatusesKept
<1>3. Asked' = Asked /\ ~Accepted'
  BY AnswerSame
<1>4. Unchanged'
  BY <1>1 DEF Unchanged, State, deviceVars
<1> QED BY <1>1, <1>2, <1>3, <1>4 DEF Refused, RefusedData, Stalled, FirstStage

\* While the interrupt answers NAK, and without a bus reset, an endpoint that
\* is used is enabled.
LEMMA EnabledIs ==
  ASSUME SetupDue, isr = "setup0", bus = "up", NEW r
  PROVE  /\ ep0.rx = NAK /\ ep0.tx = NAK /\ EndpointEnabled(r)
         /\ Routine(r) = CopyRoutine(r, State)
<1>1. ep0.rx = NAK /\ ep0.tx = NAK
  BY DEF SetupDue, Held
<1>2. EndpointEnabled(r)
  BY <1>1, StatusFacts DEF EndpointEnabled, OwnStatus
<1> QED BY <1>1, <1>2 DEF Routine

LEMMA NoDataServed ==
  ASSUME TypeOK, bus = "up", SetupDue, isr = "setup0", isr' = "readForRestore", host' = host,
         before' = before, request' = Asked, Asked.length = 0, NoData_Setup0(Asked)
  PROVE  StatusDue' \/ Refused'
<1>1. /\ State = before /\ daddr = host.address /\ host.data = <<>>
      /\ host.stage = FirstStage(Asked) /\ save = [rx |-> NAK, tx |-> NAK]
      /\ ~ep0.ctrRx /\ ~ep0.ctrTx /\ ep0.rx = NAK /\ ep0.tx = NAK
  BY DEF SetupDue, SetupData, SetupPending, Held, Seeing, Unchanged
<1>2. Accepted = Performed(Asked, State) /\ EndpointEnabled(Asked)
  BY <1>1, EnabledIs DEF Accepted
<1>3. CASE ~Performed(Asked, State)
  BY <1>2, <1>3, RefusedAfter DEF NoData_Setup0
<1>4. CASE Performed(Asked, State)
  <2>1. /\ Perform(Asked) /\ control' = "WAIT_STATUS_IN"
        /\ save' = [save EXCEPT !.tx = VALID] /\ ep0' = [ep0 EXCEPT !.txPacket = <<>>]
    BY <1>2, <1>4 DEF NoData_Setup0
  <2>2. ep0 \in Ep0Type
    BY OldTypes
  <2>3. FlagsKept /\ StatusesKept
    BY <2>1, <2>2 DEF Ep0Type, FlagsKept, StatusesKept
  <2>4. save' = [rx |-> NAK, tx |-> VALID]
    BY <1>1, <2>1
  <2>5. StatusGiven'
    <3>1. Given(NAK, VALID)'
      BY <1>1, <2>3, <2>4, GivenAfter
    <3> QED BY <1>1, <2>3, <3>1, StatusFacts DEF Given, StatusGiven, StatusesKept
  <2>6. /\ Asked' = Asked /\ Accepted' /\ Effect' = Effect
    BY <1>2, <1>4, AnswerSame
  <2>7. configuration' = Effect.configuration /\ wakeup' = Effect.wakeup
        /\ daddr' = before.address
    BY <1>1, <2>1, StateIs DEF Perform, Standard_SetConfiguration, SetDeviceFeature, Effect
  <2>8. Served'
    BY <1>1, <2>1, <2>6, <2>7 DEF Served, WithoutData
  <2>9. daddr' = host'.address /\ host'.stage = "statusIn"
    BY <1>1, <2>7, StateIs DEF FirstStage
  <2> QED BY <2>5, <2>8, <2>9 DEF StatusDue, StatusDueData
<1> QED BY <1>3, <1>4

\* The first packet of an answer is offered.
LEMMA FirstOffered ==
  ASSUME TypeOK, Asked # None, SetupDue, isr = "setup0", isr' = "readForRestore",
         host' = host, before' = before, request' = Asked, Asked.length # 0,
         UNCHANGED deviceVars, Source # "NULL", copy' = Source, Total # 0,
         DataStageIn(Total, 0, FALSE,
                     EndsEmpty(SizeOf(Source, Asked, 0), Asked.length), Source, Asked)
  PROVE  Offered'
<1> DEFINE more == EndsEmpty(SizeOf(Source, Asked, 0), Asked.length)
           m == Lesser(Total, PackSize)
<1>1. /\ State = before /\ daddr = host.address /\ host.data = <<>>
      /\ host.stage = FirstStage(Asked)
      /\ ~ep0.ctrRx /\ ~ep0.ctrTx /\ ep0.rx = NAK /\ ep0.tx = NAK
  BY DEF SetupDue, SetupData, SetupPending, Held, Seeing, Unchanged
<1>2. Asked \in Packets /\ Asked \in Requests /\ Asked.length \in Nat
  BY AskedType, RequestFields
<1>3. Source = CopyRoutine(Asked, before) /\ Source \in Routines
  BY RoutineType DEF Source
<1>4. Asked.name \in GETs /\ Asked.in
  BY <1>2, <1>3, CopyIsGet, GetIsIn
<1>5. SizeOf(Source, Asked, 0) \in Nat
  BY <1>2, SizeType
<1>6. Total \in Nat /\ Total <= SizeOf(Source, Asked, 0) /\ Total <= Asked.length
  BY <1>2, <1>5, LesserType DEF Total
<1>7. more \in BOOLEAN
  BY OldTypes DEF EndsEmpty
<1>8. EmptyLast => more
  <2>1. EmptyLast => Total = SizeOf(Source, Asked, 0)
    BY <1>2, <1>5 DEF EmptyLast, Total, Lesser
  <2>2. PackSize \in Nat
    BY Constants
  <2> QED BY <1>2, <1>5, <1>6, <2>1, <2>2 DEF EmptyLast, EndsEmpty
<1> HIDE DEF more
<1>9. /\ m \in Nat /\ m <= Total /\ m <= PackSize
      /\ ep0'.txPacket = Bytes(Source, Asked, 0, m) /\ Len(ep0'.txPacket) = m
      /\ StatusesKept /\ FlagsKept
      /\ length' = Total - m /\ offset' = 0 + m /\ zlp' = more
      /\ save' = [rx |-> VALID, tx |-> VALID]
      /\ Total <= PackSize => control' = "LAST_IN_DATA" /\ m = Total
      /\ Total > PackSize => control' = "IN_DATA" /\ m = PackSize
  <2>1. DataStageIn(Total, 0, FALSE, more, Source, Asked)
    BY DEF more
  <2>2. 0 \in Nat
    OBVIOUS
  <2>3. Asked \in Packets /\ Source \in Routines /\ Total \in Nat /\ Total # 0
    BY <1>2, <1>3, <1>6
  <2> QED BY <1>7, <2>1, <2>2, <2>3, NextPacketIs, ZenonT(60)
<1>10. /\ Asked' = Asked /\ Source' = Source /\ Version0' = Version0 /\ Total' = Total
       /\ (EmptyLast <=> EmptyLast')
  BY AnswerSame
<1>11. Given(VALID, VALID)'
  BY <1>1, <1>9, GivenAfter
<1>12. \A i \in 1 .. m : ByteOfAnswer(Bytes(Source, Asked, 0, m)[i], 0 + i)
  BY <1>1, <1>2, <1>9, BytesAreAnswer
<1> HIDE DEF m
<1>13. Len(host'.data) = 0
  BY <1>1
<1>14. PacketRight'
  BY <1>9, <1>10, <1>12, <1>13 DEF PacketRight, ByteOfAnswer
<1>15. DataRight'
  BY <1>6, <1>10, <1>13 DEF DataRight
<1>16. Unchanged'
  BY <1>1 DEF Unchanged, State, deviceVars
<1>17. WithData'
  BY <1>3, <1>4, <1>10, <1>15, <1>16 DEF WithData
<1>18. host'.stage = "data"
  BY <1>1, <1>4 DEF FirstStage
<1>19. PackSize \in Nat
  BY Constants
<1>20. /\ offset' + length' = Total
       /\ \/ control' = "IN_DATA" /\ length' # 0
          \/ control' = "LAST_IN_DATA" /\ length' = 0
       /\ control' = "IN_DATA" => Len(ep0'.txPacket) = PackSize
       /\ Len(host'.data) + Len(ep0'.txPacket) = offset'
  BY <1>6, <1>9, <1>13, <1>19
<1>21. Answering'
  BY <1>10, <1>13, <1>17, <1>18, <1>20, WholePackets DEF Answering
<1>22. EmptyLast' => zlp'
  BY <1>8, <1>9, <1>10
<1> QED BY <1>11, <1>14, <1>20, <1>21, <1>22 DEF Offered, OfferedData

LEMMA DataServed ==
  ASSUME TypeOK, bus = "up", Asked # None, SetupDue, isr = "setup0", isr' = "readForRestore",
         host' = host, before' = before, request' = Asked, Asked.length # 0,
         Data_Setup0(Asked), Missing => length = 0
  PROVE  Offered' \/ Refused'
<1> DEFINE c == CopyRoutine(Asked, State)
           n == SizeOf(c, Asked, length)
<1>1. State = before
  BY DEF SetupDue, SetupData, Unchanged
<1>2. Asked \in Packets /\ Asked.length \in Nat /\ Asked.v0 \in Nat
  BY AskedType, RequestFields DEF Byte8
<1>3. Accepted <=> Source # "NULL"
  BY DEF Accepted
<1>4. Missing => n = 0
  BY <1>1, <1>2 DEF Missing, SizeOf
<1>5. ~Missing => Source = c /\ n = SizeOf(c, Asked, 0) /\ n # 0
  <2>1. ~Missing => Source = c
    BY <1>1 DEF Missing, Source
  <2>2. ~Missing => \/ c # "GetStringDescriptor"
                    \/ Asked.v0 <= 2
    BY <1>1, <1>2 DEF Missing
  <2>3. \A i \in 0 .. 2 : StringSize[i] \in Nat \ {0}
    BY ControlAssumption
  <2> HIDE DEF c
  <2>4. ~Missing => n = SizeOf(c, Asked, 0)
    BY <2>2 DEF SizeOf
  <2>5. ~Missing => n # 0
    <3>1. CASE c # "GetStringDescriptor"
      BY <3>1, ControlAssumption DEF SizeOf
    <3>2. CASE c = "GetStringDescriptor"
      BY <1>2, <2>2, <2>3, <3>2 DEF SizeOf
    <3> QED BY <3>1, <3>2
  <2> QED BY <2>1, <2>4, <2>5
<1>6. Missing => Source = "NULL"
  BY DEF Missing, Source
<1>7. UNCHANGED deviceVars
  BY DEF Data_Setup0
<1>8. \/ c = "NULL" /\ Stalled /\ ep0' = ep0
      \/ n = 0 /\ Stalled /\ ep0' = ep0
      \/ c # "NULL" /\ n # 0 /\ copy' = c
         /\ DataStageIn(Lesser(n, Asked.length), 0, FALSE, EndsEmpty(n, Asked.length), c, Asked)
  BY EnabledIs DEF Data_Setup0
<1> HIDE DEF c, n
<1>9. CASE c = "NULL" /\ Stalled /\ ep0' = ep0
  <2>1. ~Accepted
    BY <1>3, <1>5, <1>6, <1>9
  <2> QED BY <1>7, <1>9, <2>1, RefusedAfter
<1>10. CASE n = 0 /\ Stalled /\ ep0' = ep0
  <2>1. ~Accepted
    BY <1>3, <1>5, <1>6, <1>10
  <2> QED BY <1>7, <1>10, <2>1, RefusedAfter
<1>11. CASE c # "NULL" /\ n # 0 /\ copy' = c
         /\ DataStageIn(Lesser(n, Asked.length), 0, FALSE, EndsEmpty(n, Asked.length), c, Asked)
  <2>1. Source = c /\ n = SizeOf(Source, Asked, 0) /\ Total = Lesser(n, Asked.length)
    BY <1>4, <1>5, <1>11 DEF Total
  <2>2. n \in Nat
    BY <1>2, <2>1, SizeType
  <2>3. Total # 0
    BY <1>2, <1>11, <2>1, <2>2 DEF Lesser
  <2>4. DataStageIn(Total, 0, FALSE, EndsEmpty(SizeOf(Source, Asked, 0), Asked.length),
                    Source, Asked)
    BY <1>11, <2>1
  <2> QED BY <1>7, <1>11, <2>1, <2>3, <2>4, FirstOffered
<1> QED BY <1>8, <1>9, <1>10, <1>11

LEMMA SetupServed ==
  ASSUME TypeOK, bus = "up", Asked # None, SetupDue, isr = "setup0", Process, Missing => length = 0
  PROVE  Phases'
<1>1. ep0.rxPacket = Asked
  BY DEF SetupDue, SetupData
<1>2. /\ request' = Asked /\ isr' = "readForRestore" /\ host' = host /\ before' = before
      /\ \/ Asked.length = 0 /\ NoData_Setup0(Asked)
         \/ Asked.length # 0 /\ Data_Setup0(Asked)
  BY <1>1 DEF Process, Setup0_Process, history
<1> QED BY <1>2, NoDataServed, DataServed DEF Phases

\* The halt of endpoint 0: begun, and written.
LEMMA FeatureIsBegun ==
  ASSUME TypeOK, bus = "up", Phases, FeatureBegins
  PROVE  FeatureDue'
<1>1. /\ isr = "setup0" /\ WritesOwn(ep0.rxPacket) /\ isr' = "readForFeature"
      /\ request' = ep0.rxPacket /\ host' = host /\ before' = before
      /\ UNCHANGED <<deviceVars, ep0, save>>
  BY DEF FeatureBegins, history
<1>2. SetupDue
  <2>1. ~NothingDue /\ ~InPending
    BY <1>1 DEF NothingDue, Finished, InPending, Seeing
  <2>2. ~Refused /\ ~FeatureDue /\ ~StatusDue /\ ~Done /\ ~Offered /\ ~StatusOutDue
    BY <1>1, <2>1 DEF Refused, FeatureDue, OwnPlaces, StatusDue, StatusGiven, Done, Offered,
                      StatusOutDue, Given
  <2>3. ~StatusTaken /\ ~Taken /\ ~LastTaken /\ ~Answered
    BY <1>1, <2>1 DEF StatusTaken, Taken, LastTaken, Answered
  <2> QED BY <2>2, <2>3 DEF Phases
<1>3. /\ Unchanged /\ State = before /\ host.stage = FirstStage(Asked) /\ host.data = <<>>
      /\ ep0.rxPacket = Asked /\ ~ep0.ctrRx /\ ~ep0.ctrTx
      /\ ep0.rx = NAK /\ ep0.tx = NAK /\ save = [rx |-> NAK, tx |-> NAK]
  BY <1>1, <1>2 DEF SetupDue, SetupData, SetupPending, Held, Seeing, Unchanged
<1>4. /\ Asked.type = "endpoint" /\ Endpoint(Asked).number = 0 /\ Asked.length = 0
      /\ Performed(Asked, State)
      /\ Asked.name = "CLEAR_FEATURE" => OwnStatus(Endpoint(Asked)) = STALL
  BY <1>1, <1>3 DEF WritesOwn
<1>5. Asked.name = "SET_FEATURE"
  BY <1>3, <1>4, StatusFacts DEF Performed, OwnStatus
<1>6. Asked' = Asked /\ (Accepted <=> Accepted')
  BY <1>1, AnswerSame
<1>7. WithoutData'
  BY <1>1, <1>3, <1>4, <1>6 DEF WithoutData, Accepted
<1>8. Unchanged'
  BY <1>1, <1>3 DEF Unchanged, State, deviceVars
<1>9. host'.stage = "statusIn"
  BY <1>1, <1>3, <1>4 DEF FirstStage
<1>10. Endpoint(Asked').number = 0
  BY <1>4, <1>6
<1>11. FeatureDueData'
  BY <1>1, <1>3, <1>4, <1>5, <1>6, <1>7, <1>8, <1>9, <1>10 DEF FeatureDueData, Endpoint
<1> QED BY <1>1, <1>3, <1>11 DEF FeatureDue, OwnPlaces

LEMMA FeatureIsSet ==
  ASSUME TypeOK, Phases, SetFeature
  PROVE  StatusDue'
<1>1. FeatureDue
  <2>1. isr = "feature"
    BY DEF SetFeature
  <2>2. ~NothingDue /\ ~InPending /\ ~SetupPending /\ ~Answered
    BY <2>1 DEF NothingDue, Finished, InPending, SetupPending, Seeing, Answered, OwnPlaces
  <2>3. ~Refused /\ ~StatusDue /\ ~Done /\ ~Offered /\ ~StatusOutDue
    BY <2>2 DEF Refused, StatusDue, StatusGiven, Done, Offered, StatusOutDue, Given
  <2>4. ~StatusTaken /\ ~Taken /\ ~LastTaken /\ ~SetupDue
    BY <2>2 DEF StatusTaken, Taken, LastTaken, SetupDue
  <2> QED BY <2>2, <2>3, <2>4 DEF Phases
<1>2. /\ isr = "feature" /\ ~ep0.ctrRx /\ ~ep0.ctrTx /\ ep0.rx = NAK /\ ep0.tx = NAK
      /\ loaded.rx = NAK /\ loaded.tx = NAK /\ save = [rx |-> NAK, tx |-> NAK]
      /\ Unchanged /\ State = before /\ WithoutData /\ request = Asked
      /\ host.stage = "statusIn" /\ Asked.type = "endpoint" /\ Asked.name = "SET_FEATURE"
      /\ Endpoint(Asked).number = 0
  BY <1>1 DEF SetFeature, FeatureDue, FeatureDueData, Unchanged
<1> DEFINE e == Endpoint(Asked)
<1>3. /\ isr' = "readForRestore" /\ control' = "WAIT_STATUS_IN"
      /\ save' = [save EXCEPT !.tx = VALID] /\ request' = Asked
      /\ host' = host /\ before' = before /\ UNCHANGED deviceVars
      /\ ep0' = [ep0 EXCEPT !.rx = IF e.in THEN NAK ELSE STALL,
                            !.tx = IF e.in THEN STALL ELSE NAK, !.txPacket = <<>>]
  <2>1. /\ (IF request.name = "SET_FEATURE" THEN STALL ELSE VALID) = STALL
        /\ Endpoint(request) = e
    BY <1>2
  <2>2. ep0' = [ep0 EXCEPT !.rx = IF e.in THEN @ ELSE Toggle(@, loaded.rx, STALL),
                           !.tx = IF e.in THEN Toggle(@, loaded.tx, STALL) ELSE @,
                           !.txPacket = <<>>]
    BY <2>1, Zenon DEF SetFeature
  <2>3. Toggle(ep0.rx, loaded.rx, STALL) = STALL /\ Toggle(ep0.tx, loaded.tx, STALL) = STALL
    BY <1>2, ToggleSame
  <2> HIDE DEF e
  <2>4. ep0' = [ep0 EXCEPT !.rx = IF e.in THEN NAK ELSE STALL,
                           !.tx = IF e.in THEN STALL ELSE NAK, !.txPacket = <<>>]
    BY <1>2, <2>2, <2>3
  <2> QED BY <1>2, <2>4 DEF SetFeature, history
<1>4. ep0 \in Ep0Type
  BY OldTypes
<1>5. /\ ~ep0'.ctrRx /\ ~ep0'.ctrTx
      /\ ep0'.rx = IF e.in THEN NAK ELSE STALL
      /\ ep0'.tx = IF e.in THEN STALL ELSE NAK
  <2> HIDE DEF e
  <2> QED BY <1>2, <1>3, <1>4 DEF Ep0Type
<1>6. e.in => StallsItself(Asked)
  BY <1>2 DEF StallsItself, Endpoint
<1>7. Asked' = Asked /\ (Accepted <=> Accepted') /\ Effect' = Effect
  BY <1>3, AnswerSame
<1>8. StallsItself(Asked) => StallsItself(Asked')
  BY <1>7
<1>9. StatusGiven'
  <2> HIDE DEF e
  <2> QED BY <1>2, <1>3, <1>5, <1>6, <1>7, StatusFacts
          DEF StatusGiven, NothingDue, Finished, StallsItself
<1>10. WithoutData'
  BY <1>2, <1>3, <1>7 DEF WithoutData
<1>11. configuration' = Effect.configuration /\ wakeup' = Effect.wakeup
       /\ daddr' = before.address
  BY <1>2, <1>3, StateIs DEF Effect, deviceVars
<1>12. Served'
  BY <1>3, <1>7, <1>10, <1>11 DEF Served
<1>13. daddr' = host'.address /\ host'.stage = "statusIn"
  BY <1>2, <1>3 DEF Unchanged, deviceVars
<1> QED BY <1>9, <1>12, <1>13 DEF StatusDue, StatusDueData

LEMMA ZlpType == TypeOK => zlp \in BOOLEAN /\ length \in Nat /\ offset \in Nat
BY OldTypes

\* The next packet of an answer is offered, or the empty one that ends it.
LEMMA TakenServed ==
  ASSUME TypeOK, Asked # None, Taken, isr = "in0", Process
  PROVE  Offered'
<1>1. /\ Unchanged /\ State = before /\ WithData /\ Source # "NULL"
      /\ copy = Source /\ request = Asked
      /\ host.stage = "data" /\ offset + length = Total
      /\ Len(host.data) % PackSize = 0 /\ Len(host.data) = offset
      /\ \/ control = "IN_DATA" /\ length # 0
         \/ control = "LAST_IN_DATA" /\ length = 0
      /\ (EmptyLast \/ control = "LAST_IN_DATA") => zlp
      /\ ~ep0.ctrRx /\ ~ep0.ctrTx /\ ep0.rx = NAK /\ ep0.tx = NAK
      /\ save = [rx |-> VALID, tx |-> NAK]
  BY DEF Taken, TakenData, Answering, WithData, Unchanged, InPending, Held, Seeing
<1>2. /\ isr' = "readForRestore" /\ host' = host /\ before' = before
      /\ UNCHANGED <<ready, configuration, wakeup, halted, request, daddr, copy>>
      /\ DataStageIn(length, offset, control = "LAST_IN_DATA", zlp, copy, request)
  BY <1>1 DEF Process, In0_Process, history
<1>3. Asked \in Packets /\ Source \in Routines
  BY <1>1, AskedType, RoutineType DEF Source
<1>4. /\ Asked' = Asked /\ Source' = Source /\ Version0' = Version0 /\ Total' = Total
      /\ (EmptyLast <=> EmptyLast')
  BY <1>2, AnswerSame
<1>5. Unchanged' /\ DataRight'
  BY <1>1, <1>2, DataSame DEF Unchanged, State, WithData
<1>6. WithData'
  BY <1>1, <1>4, <1>5 DEF WithData
<1>7. PackSize \in Nat
  BY Constants
<1>8. CASE control = "IN_DATA" /\ length # 0
  <2> DEFINE last == control = "LAST_IN_DATA"
             m == Lesser(length, PackSize)
  <2>1. DataStageIn(length, offset, last, zlp, Source, Asked)
    BY <1>1, <1>2
  <2>2. zlp \in BOOLEAN /\ length \in Nat /\ offset \in Nat /\ length # 0
    BY <1>8, ZlpType
  <2> HIDE DEF last
  <2>3. /\ m \in Nat /\ m <= length /\ m <= PackSize
        /\ ep0'.txPacket = Bytes(Source, Asked, offset, m) /\ Len(ep0'.txPacket) = m
        /\ StatusesKept /\ FlagsKept
        /\ length' = length - m /\ offset' = offset + m /\ zlp' = zlp
        /\ save' = [rx |-> VALID, tx |-> VALID]
        /\ length <= PackSize => control' = "LAST_IN_DATA" /\ m = length
        /\ length > PackSize => control' = "IN_DATA" /\ m = PackSize
    BY <1>3, <2>1, <2>2, NextPacketIs, ZenonT(60)
  <2> HIDE DEF m
  <2>4. Given(VALID, VALID)'
    BY <1>1, <1>2, <2>3, GivenAfter
  <2>5. \A i \in 1 .. m : ByteOfAnswer(Bytes(Source, Asked, offset, m)[i], offset + i)
    BY <1>1, <1>3, <2>2, <2>3, BytesAreAnswer
  <2>6. Len(host'.data) = offset
    BY <1>1, <1>2
  <2>7. PacketRight'
    BY <1>4, <2>3, <2>5, <2>6 DEF PacketRight, ByteOfAnswer
  <2>8. /\ offset' + length' = Total
        /\ \/ control' = "IN_DATA" /\ length' # 0
           \/ control' = "LAST_IN_DATA" /\ length' = 0
        /\ control' = "IN_DATA" => Len(ep0'.txPacket) = PackSize
        /\ Len(host'.data) + Len(ep0'.txPacket) = offset'
    BY <1>1, <1>7, <2>2, <2>3, <2>6
  <2>9. Answering'
    BY <1>1, <1>2, <1>4, <1>6, <2>8 DEF Answering
  <2>10. EmptyLast' => zlp'
    BY <1>1, <1>4, <2>3
  <2> QED BY <2>4, <2>7, <2>8, <2>9, <2>10 DEF Offered, OfferedData
<1>9. CASE control = "LAST_IN_DATA" /\ length = 0
  <2>1. DataStageIn(0, offset, TRUE, zlp, Source, Asked) /\ zlp
    BY <1>1, <1>2, <1>9
  <2>2. /\ StatusesKept /\ FlagsKept /\ length' = length /\ offset' = offset
        /\ ep0'.txPacket = <<>> /\ control' = "LAST_IN_DATA"
        /\ save' = [save EXCEPT !.tx = VALID]
    BY <2>1, ZlpType, LastPacketIs DEF StatusesKept
  <2>3. save' = [rx |-> VALID, tx |-> VALID]
    BY <1>1, <2>2
  <2>4. Given(VALID, VALID)'
    BY <1>1, <1>2, <2>2, <2>3, GivenAfter
  <2>5. Len(ep0'.txPacket) = 0
    BY <2>2
  <2>6. PacketRight'
    BY <2>5 DEF PacketRight
  <2>7. Answering'
    BY <1>1, <1>2, <1>4, <1>6, <1>9, <2>2 DEF Answering
  <2>8. Len(host'.data) + Len(ep0'.txPacket) = offset'
    BY <1>1, <1>2, <2>2, <2>5, ZlpType
  <2> QED BY <2>2, <2>4, <2>6, <2>7, <2>8 DEF Offered, OfferedData
<1> QED BY <1>1, <1>8, <1>9

\* The interrupt takes the end of the last packet for a request to go on.
LEMMA LastTakenServed ==
  ASSUME TypeOK, LastTaken, isr = "in0", Process
  PROVE  StatusOutDue'
<1>1. /\ Unchanged /\ Complete /\ WithData /\ host.stage = "statusOut"
      /\ control = "LAST_IN_DATA" /\ length = 0
      /\ ~ep0.ctrRx /\ ~ep0.ctrTx /\ ep0.rx = NAK /\ ep0.tx = NAK
      /\ save = [rx |-> VALID, tx |-> NAK]
  BY DEF LastTaken, LastTakenData, Complete, WithData, InPending, Held, Seeing
<1>2. /\ isr' = "readForRestore" /\ host' = host /\ before' = before
      /\ UNCHANGED <<ready, configuration, wakeup, halted, request, daddr, copy>>
      /\ DataStageIn(0, offset, TRUE, zlp, copy, request)
  BY <1>1 DEF Process, In0_Process, history
<1>3. /\ Asked' = Asked /\ Source' = Source /\ Total' = Total
  BY <1>2, AnswerSame
<1>4. Unchanged' /\ DataRight'
  BY <1>1, <1>2, DataSame DEF Unchanged, State, WithData
<1>5. Complete'
  BY <1>1, <1>2, <1>3, <1>4 DEF Complete, WithData
<1>6. /\ StatusesKept /\ FlagsKept /\ control' # "WAIT_STATUS_IN"
      /\ \E tx \in {VALID, STALL} : save' = [save EXCEPT !.tx = tx]
  BY <1>2, ZlpType, LastPacketIs DEF StatusesKept
<1>7. PICK tx \in {VALID, STALL} : save' = [save EXCEPT !.tx = tx]
  BY <1>6
<1>8. save' = [rx |-> VALID, tx |-> tx]
  BY <1>1, <1>7
<1>9. Given(VALID, tx)'
  BY <1>1, <1>2, <1>6, <1>8, GivenAfter
<1> QED BY <1>1, <1>2, <1>5, <1>6, <1>9 DEF StatusOutDue, StatusOutData

\* The status of a request without data has been taken: now an address is set.
LEMMA StatusTakenServed ==
  ASSUME TypeOK, StatusTaken, isr = "in0", Process
  PROVE  Done'
<1>1. /\ Served /\ host.address = Effect.address /\ host.stage = "ok"
      /\ ~ep0.ctrRx /\ ~ep0.ctrTx
  BY DEF StatusTaken, StatusTakenData, InPending, Seeing
<1>2. /\ WithoutData /\ request = Asked /\ control = "WAIT_STATUS_IN"
      /\ configuration = Effect.configuration /\ wakeup = Effect.wakeup
      /\ daddr = before.address
  BY <1>1 DEF Served
<1>3. /\ isr' = "readForRestore" /\ host' = host /\ before' = before /\ Stalled
      /\ ep0' = ep0 /\ configuration' = configuration /\ wakeup' = wakeup
      /\ daddr' = IF Asked.type = "device" /\ Asked.name = "SET_ADDRESS"
                  THEN Asked.v0 ELSE daddr
  BY <1>2 DEF Process, In0_Process, history
<1>4. Asked' = Asked /\ (Accepted <=> Accepted') /\ Effect' = Effect
  BY <1>3, AnswerSame
<1>5. Asked.name = "SET_ADDRESS" => Asked.type = "device"
  BY <1>2 DEF WithoutData, Accepted, Performed
<1>6. daddr' = Effect.address
  BY <1>2, <1>3, <1>5 DEF Effect
<1>7. State' = Effect
  BY <1>2, <1>3, <1>6 DEF State, Effect
<1>8. WithoutData'
  BY <1>2, <1>3, <1>4 DEF WithoutData
<1>9. NothingDue'
  BY <1>1, <1>3 DEF NothingDue, Finished
<1> QED BY <1>1, <1>3, <1>4, <1>6, <1>7, <1>8, <1>9 DEF Done, DoneData, Stalled

\* Nothing that is served after the status of an answer changes the device.
LEMMA AnsweredServed ==
  ASSUME TypeOK, Answered, Process
  PROVE  Answered'
<1>1. /\ Unchanged /\ Complete /\ WithData /\ host.stage = "ok"
      /\ control # "WAIT_STATUS_IN" /\ ~ep0.setup
      /\ isr \in {"in0", "out0"} /\ isr' = "readForRestore"
      /\ host' = host /\ before' = before
  BY DEF Answered, AnsweredData, Complete, WithData, Process, history
<1>2. /\ configuration' = configuration /\ wakeup' = wakeup /\ daddr' = daddr
      /\ \/ Stalled /\ ep0' = ep0
         \/ DataStageIn(length, offset, control = "LAST_IN_DATA", zlp, copy, request)
  BY <1>1 DEF Process, In0_Process, Out0_Process, deviceVars
<1>3. control' # "WAIT_STATUS_IN" /\ ~ep0'.setup
  <2>1. CASE Stalled /\ ep0' = ep0
    BY <1>1, <2>1 DEF Stalled
  <2>2. CASE DataStageIn(length, offset, control = "LAST_IN_DATA", zlp, copy, request)
    <3>1. ep0 \in Ep0Type
      BY OldTypes
    <3>2. \/ ep0' = ep0 \/ ep0' = [ep0 EXCEPT !.txPacket = <<>>]
          \/ ep0' = [ep0 EXCEPT !.txPacket
                       = Bytes(copy, request, offset, Lesser(length, PackSize))]
      BY <2>2 DEF DataStageIn
    <3>3. ep0'.setup = ep0.setup
      BY <3>1, <3>2 DEF Ep0Type
    <3>4. control' # "WAIT_STATUS_IN"
      BY <2>2 DEF DataStageIn
    <3> QED BY <1>1, <3>3, <3>4
  <2> QED BY <1>2, <2>1, <2>2
<1>4. /\ Asked' = Asked /\ Source' = Source /\ Total' = Total
  BY <1>1, AnswerSame
<1>5. Unchanged' /\ DataRight'
  BY <1>1, <1>2, DataSame DEF Unchanged, State, WithData
<1>6. Complete'
  BY <1>1, <1>4, <1>5 DEF Complete, WithData
<1> QED BY <1>1, <1>3, <1>6 DEF Answered, AnsweredData, OwnPlaces

LEMMA PhasesProcess ==
  ASSUME TypeOK, bus = "up", Asked # None, Phases, Process, Missing => length = 0
  PROVE  Phases'
<1>1. isr \in {"setup0", "in0", "out0"}
  BY DEF Process
<1>2. ~NothingDue
  BY <1>1 DEF NothingDue, Finished
<1>3. ~Refused /\ ~FeatureDue /\ ~StatusDue /\ ~Done /\ ~Offered /\ ~StatusOutDue
  BY <1>1, <1>2 DEF Refused, FeatureDue, OwnPlaces, StatusDue, StatusGiven, Done, Offered,
                    StatusOutDue, Given
<1>4. SetupPending => isr = "setup0"
  BY <1>1 DEF SetupPending, Seeing
<1>5. InPending => isr = "in0"
  BY <1>1 DEF InPending, Seeing
<1>6. CASE SetupDue
  BY <1>4, <1>6, SetupServed DEF SetupDue
<1>7. CASE StatusTaken
  BY <1>5, <1>7, StatusTakenServed DEF StatusTaken, Phases
<1>8. CASE Taken
  BY <1>5, <1>8, TakenServed DEF Taken, Phases
<1>9. CASE LastTaken
  BY <1>5, <1>9, LastTakenServed DEF LastTaken, Phases
<1>10. CASE Answered
  BY <1>10, AnsweredServed DEF Phases
<1> QED BY <1>3, <1>6, <1>7, <1>8, <1>9, <1>10 DEF Phases

-----------------------------------------------------------------------------
(***************************************************************************)
(* The host's steps.                                                       *)
(***************************************************************************)
LEMMA HeldIs ==
  ASSUME NEW a, NEW b, Held(a, b), isr \in {"idle", "setup0", "in0"} \cup Seeing
  PROVE  ep0.rx \in {a, NAK} /\ ep0.tx \in {b, NAK}
BY DEF Held, Seeing

LEMMA GivenIs ==
  ASSUME NEW a, NEW b, Given(a, b)
  PROVE  /\ ep0.rx \in {a, NAK} /\ ep0.tx \in {b, NAK}
         /\ ep0.rx # NAK \/ ep0.tx # NAK => isr = "idle"
         /\ isr = "idle" => ep0.rx = a /\ ep0.tx = b
BY DEF Given, NothingDue, Finished

\* What the host sees in each phase.
LEMMA PhaseSeen ==
  ASSUME Phases
  PROVE  \/ SetupDue /\ ep0.rx = NAK /\ ep0.tx = NAK
         \/ Refused /\ ep0.rx \in {STALL, NAK} /\ ep0.tx \in {STALL, NAK}
         \/ FeatureDue /\ host.stage = "statusIn" /\ ep0.rx = NAK /\ ep0.tx = NAK
         \/ StatusDue /\ host.stage \in {"statusIn", "stall"}
            /\ (ep0.tx = VALID => isr = "idle") /\ (ep0.tx = STALL => StallsItself(Asked))
         \/ Offered /\ host.stage = "data"
            /\ ep0.rx \in {VALID, NAK} /\ ep0.tx \in {VALID, NAK}
         \/ Taken /\ host.stage = "data" /\ ep0.rx \in {VALID, NAK} /\ ep0.tx = NAK
         \/ (LastTaken \/ StatusOutDue) /\ host.stage = "statusOut"
            /\ ep0.rx \in {VALID, NAK}
         \/ (StatusTaken \/ Done \/ Answered) /\ host.stage = "ok"
<1>1. ASSUME SetupDue PROVE ep0.rx = NAK /\ ep0.tx = NAK
  BY <1>1, HeldIs DEF SetupDue, SetupPending
<1>2. ASSUME Refused PROVE ep0.rx \in {STALL, NAK} /\ ep0.tx \in {STALL, NAK}
  BY <1>2, GivenIs DEF Refused
<1>3. ASSUME StatusDue
      PROVE  /\ host.stage \in {"statusIn", "stall"}
             /\ (ep0.tx = VALID => isr = "idle") /\ (ep0.tx = STALL => StallsItself(Asked))
  BY <1>3, StatusFacts DEF StatusDue, StatusDueData, StatusGiven
<1>10. ASSUME FeatureDue PROVE host.stage = "statusIn" /\ ep0.rx = NAK /\ ep0.tx = NAK
  BY <1>10 DEF FeatureDue, FeatureDueData
<1>4. ASSUME Offered
      PROVE  host.stage = "data" /\ ep0.rx \in {VALID, NAK} /\ ep0.tx \in {VALID, NAK}
  BY <1>4, GivenIs DEF Offered, OfferedData, Answering
<1>5. InPending => isr \in {"idle", "setup0", "in0"} \cup Seeing
  BY DEF InPending
<1>6. ASSUME Taken PROVE host.stage = "data" /\ ep0.rx \in {VALID, NAK} /\ ep0.tx = NAK
  BY <1>5, <1>6, HeldIs DEF Taken, TakenData, Answering
<1>7. ASSUME LastTaken PROVE host.stage = "statusOut" /\ ep0.rx \in {VALID, NAK}
  BY <1>5, <1>7, HeldIs DEF LastTaken, LastTakenData
<1>8. ASSUME StatusOutDue PROVE host.stage = "statusOut" /\ ep0.rx \in {VALID, NAK}
  <2>1. PICK tx \in {VALID, STALL} : Given(VALID, tx)
    BY <1>8 DEF StatusOutDue
  <2> QED BY <1>8, <2>1, GivenIs DEF StatusOutDue, StatusOutData
<1>9. StatusTaken \/ Done \/ Answered => host.stage = "ok"
  BY DEF StatusTaken, StatusTakenData, Done, DoneData, Answered, AnsweredData
<1> QED BY <1>1, <1>2, <1>3, <1>4, <1>6, <1>7, <1>8, <1>9, <1>10 DEF Phases

\* What a step of the transfer leaves alone.
LEMMA DeviceKept ==
  ASSUME UNCHANGED <<deviceVars, stageVars, request, isrVars, before>>,
         host'.request = host.request, host'.address = host.address
  PROVE  /\ State' = State
         /\ Unchanged => Unchanged'
         /\ configuration' = configuration /\ wakeup' = wakeup /\ daddr' = daddr
         /\ control' = control /\ length' = length /\ offset' = offset /\ copy' = copy
         /\ zlp' = zlp /\ request' = request
         /\ isr' = isr /\ loaded' = loaded /\ istr' = istr /\ save' = save
BY DEF deviceVars, stageVars, isrVars, State, Unchanged

\* A sequence and what is appended to it.
LEMMA Places2 ==
  \A a, b \in Nat : \A i \in 1 .. a + b : i \in 1 .. a \/ \E k \in 1 .. b : i = a + k
<1>1. ASSUME NEW a \in Nat, NEW b \in Nat, NEW i \in 1 .. a + b, i \notin 1 .. a
      PROVE  \E k \in 1 .. b : i = a + k
  <2>1. i - a \in 1 .. b /\ i = a + (i - a)
    BY <1>1
  <2> QED BY <2>1
<1> QED BY <1>1

LEMMA Joined ==
  ASSUME NEW s \in Seq(AnswerByte), NEW t \in Seq(AnswerByte)
  PROVE  /\ Len(s \o t) = Len(s) + Len(t) /\ Len(s) \in Nat /\ Len(t) \in Nat
         /\ \A i \in 1 .. Len(s) : (s \o t)[i] = s[i]
         /\ \A k \in 1 .. Len(t) : (s \o t)[Len(s) + k] = t[k]
<1>1. Len(s) \in Nat /\ Len(t) \in Nat
  BY LenProperties
<1>2. Len(s \o t) = Len(s) + Len(t)
  BY ConcatProperties
<1>3. \A i \in 1 .. Len(s) + Len(t) :
        (s \o t)[i] = IF i <= Len(s) THEN s[i] ELSE t[i - Len(s)]
  BY ConcatProperties
<1>4. ASSUME NEW i \in 1 .. Len(s) PROVE (s \o t)[i] = s[i]
  <2>1. i \in 1 .. Len(s) + Len(t) /\ i <= Len(s)
    BY <1>1
  <2> QED BY <1>3, <2>1
<1>5. ASSUME NEW k \in 1 .. Len(t) PROVE (s \o t)[Len(s) + k] = t[k]
  <2>1. Len(s) + k \in 1 .. Len(s) + Len(t) /\ ~(Len(s) + k <= Len(s))
        /\ Len(s) + k - Len(s) = k
    BY <1>1
  <2> QED BY <1>3, <2>1
<1> QED BY <1>1, <1>2, <1>4, <1>5

\* A packet of the answer is taken.
LEMMA DataTaken ==
  ASSUME TypeOK, Asked # None, Offered, TakeData
  PROVE  Taken' \/ LastTaken'
<1> DEFINE data == host.data \o ep0.txPacket
           over == Len(ep0.txPacket) < PackSize \/ Len(data) >= host.request.length
<1>1. ep0.tx = VALID /\ ep0' = [ep0 EXCEPT !.tx = NAK, !.ctrTx = TRUE]
      /\ host' = [host EXCEPT !.data = data, !.stage = IF over THEN "statusOut" ELSE "data"]
      /\ UNCHANGED <<deviceVars, stageVars, request, isrVars, before>>
  BY DEF TakeData, history
<1>2. ep0 \in Ep0Type
      /\ host \in [address : Byte8, request : Packets, stage : Stages, data : Seq(AnswerByte)]
  BY OldTypes DEF TypeOK
<1>3. isr = "idle" /\ ep0.rx = VALID /\ ~ep0.ctrRx
  BY <1>1, GivenIs, StatusFacts DEF Offered, Given, NothingDue
<1>4. ep0'.tx = NAK /\ ep0'.ctrTx = TRUE /\ ep0'.rx = VALID /\ ~ep0'.ctrRx
  BY <1>1, <1>2, <1>3 DEF Ep0Type
<1>5. host'.data = data /\ host'.request = host.request /\ host'.address = host.address
      /\ host'.stage = IF over THEN "statusOut" ELSE "data"
  <2> HIDE DEF data, over
  <2> QED BY <1>1, <1>2
<1>6. /\ Unchanged' /\ isr' = "idle" /\ control' = control /\ length' = length
      /\ offset' = offset /\ copy' = copy /\ zlp' = zlp /\ request' = request
  BY <1>1, <1>3, <1>5, DeviceKept DEF Offered, OfferedData, Answering, WithData
<1>7. /\ Asked' = Asked /\ Source' = Source /\ Version0' = Version0 /\ Total' = Total
      /\ (EmptyLast <=> EmptyLast')
  BY <1>1, <1>5, AnswerSame
<1>8. /\ WithData /\ copy = Source /\ request = Asked /\ host.stage = "data"
      /\ offset + length = Total /\ Len(host.data) % PackSize = 0
      /\ \/ control = "IN_DATA" /\ length # 0
         \/ control = "LAST_IN_DATA" /\ length = 0
      /\ Len(host.data) + Len(ep0.txPacket) = offset /\ PacketRight /\ DataRight
      /\ control = "IN_DATA" => Len(ep0.txPacket) = PackSize
      /\ EmptyLast => zlp \/ (ep0.txPacket = <<>> /\ control = "LAST_IN_DATA")
  BY DEF Offered, OfferedData, Answering, WithData
<1>9. host.data \in Seq(AnswerByte) /\ ep0.txPacket \in Seq(AnswerByte)
  BY <1>2 DEF Ep0Type
<1>10. /\ Len(data) = Len(host.data) + Len(ep0.txPacket)
       /\ \A i \in 1 .. Len(host.data) : data[i] = host.data[i]
       /\ \A k \in 1 .. Len(ep0.txPacket) : data[Len(host.data) + k] = ep0.txPacket[k]
  BY <1>9, Joined, Zenon
<1>11. Len(host.data) \in Nat /\ Len(ep0.txPacket) \in Nat /\ Len(ep0.txPacket) <= PackSize
       /\ offset \in Nat /\ length \in Nat /\ PackSize \in Nat /\ PackSize >= 2
  BY <1>9, OldTypes, Constants
<1>12. Asked.length \in Nat /\ Total \in Nat /\ Total <= Asked.length
  <2>1. Asked \in Packets
    BY AskedType
  <2>2. Asked.length \in Nat /\ SizeOf(Source, Asked, 0) \in Nat
    BY <2>1, RequestFields, SizeType
  <2> QED BY <2>2, LesserType DEF Total
<1>13. Len(data) = offset
  BY <1>8, <1>10
<1>14. \A i \in 1 .. Len(data) : ByteOfAnswer(data[i], i)
  <2> HIDE DEF data
  <2>1. ASSUME NEW i \in 1 .. Len(data) PROVE ByteOfAnswer(data[i], i)
    <3>1. CASE i \in 1 .. Len(host.data)
      BY <1>8, <1>10, <3>1 DEF DataRight
    <3>2. CASE \E k \in 1 .. Len(ep0.txPacket) : i = Len(host.data) + k
      BY <1>8, <1>10, <3>2 DEF PacketRight
    <3>3. i \in 1 .. Len(host.data) + Len(ep0.txPacket)
      BY <1>10, <2>1
    <3> QED BY <1>11, <3>1, <3>2, <3>3, Places2, Zenon
  <2> QED BY <2>1
<1> HIDE DEF data
<1>15. DataRight'
  <2>1. offset <= Total
    BY <1>8, <1>11, <1>12
  <2> QED BY <1>5, <1>7, <1>13, <1>14, <2>1 DEF DataRight, ByteOfAnswer
<1>16. WithData'
  BY <1>6, <1>7, <1>8, <1>15 DEF WithData
<1>17. InPending' /\ Held(VALID, NAK)'
  BY <1>4, <1>6 DEF InPending, Held
<1>18. CASE over
  <2>1. offset = Total /\ length = 0 /\ control = "LAST_IN_DATA"
    <3>1. Len(ep0.txPacket) < PackSize => control = "LAST_IN_DATA" /\ length = 0
      BY <1>8, <1>11
    <3>2. Len(data) >= Asked.length => length = 0
      BY <1>8, <1>11, <1>12, <1>13
    <3>3. length = 0
      BY <1>18, <3>1, <3>2 DEF Asked
    <3> QED BY <1>8, <1>11, <3>3
  <2>2. Complete'
    BY <1>5, <1>7, <1>13, <1>16, <2>1 DEF Complete
  <2>3. host'.stage = "statusOut" /\ control' = "LAST_IN_DATA" /\ length' = 0
    BY <1>5, <1>6, <1>18, <2>1
  <2> QED BY <1>17, <2>2, <2>3 DEF LastTaken, LastTakenData
<1>19. CASE ~over
  <2>1. Len(ep0.txPacket) = PackSize /\ offset < Asked.length
    <3>1. ~(Len(ep0.txPacket) < PackSize) /\ ~(Len(data) >= Asked.length)
      BY <1>19 DEF Asked
    <3> QED BY <1>11, <1>12, <1>13, <3>1
  <2>2. offset % PackSize = 0
    <3>1. offset = Len(host.data) + PackSize
      BY <1>8, <2>1
    <3> QED BY <1>8, <1>11, <3>1, WholePackets
  <2>3. host'.stage = "data"
    BY <1>5, <1>19
  <2>4. ep0.txPacket # <<>>
    BY <1>11, <2>1
  <2>5. (EmptyLast \/ control = "LAST_IN_DATA") => zlp
    <3>1. control = "LAST_IN_DATA" => EmptyLast
      <4>1. control = "LAST_IN_DATA" => Total = offset
        BY <1>8, <1>11
      <4>2. offset >= PackSize
        BY <1>8, <1>11, <2>1
      <4> QED BY <2>1, <2>2, <4>1, <4>2 DEF EmptyLast
    <3> QED BY <1>8, <2>4, <3>1
  <2>6. Answering'
    BY <1>5, <1>6, <1>7, <1>8, <1>13, <1>16, <2>2, <2>3 DEF Answering
  <2>7. Len(host'.data) = offset'
    BY <1>5, <1>6, <1>13
  <2> QED BY <1>6, <1>7, <1>17, <2>5, <2>6, <2>7 DEF Taken, TakenData
<1> QED BY <1>18, <1>19

\* The status is taken, sent, or a stall seen.
LEMMA StatusIsTaken ==
  ASSUME TypeOK, Asked # None, Phases, TakeStatus
  PROVE  StatusTaken'
<1>1. host.stage = "statusIn" /\ ep0.tx = VALID
      /\ ep0' = [ep0 EXCEPT !.tx = NAK, !.ctrTx = TRUE]
      /\ UNCHANGED <<deviceVars, stageVars, request, isrVars, before>>
  BY DEF TakeStatus, history
<1>2. StatusDue /\ isr = "idle"
  BY <1>1, PhaseSeen, StatusFacts
<1>3. ep0 \in Ep0Type
      /\ host \in [address : Byte8, request : Packets, stage : Stages, data : Seq(AnswerByte)]
  BY OldTypes DEF TypeOK
<1>4. isr = "idle" /\ ~ep0.ctrRx
  BY <1>2 DEF StatusDue, StatusGiven, NothingDue
<1>5. ep0'.ctrTx = TRUE /\ ~ep0'.ctrRx /\ isr' = "idle"
  BY <1>1, <1>3, <1>4 DEF Ep0Type, isrVars
<1>6. host'.request = host.request /\ host'.data = host.data /\ host'.stage = "ok"
      /\ host'.address = IF host.request.name = "SET_ADDRESS" THEN host.request.v0
                         ELSE host.address
  BY <1>3 DEF TakeStatus
<1>7. Served /\ daddr = host.address
  BY <1>2 DEF StatusDue, StatusDueData
<1>8. Asked' = Asked /\ Effect' = Effect /\ (Accepted <=> Accepted')
  BY <1>1, <1>6, AnswerSame
<1>9. Served'
  BY <1>1, <1>6, <1>7, <1>8 DEF Served, WithoutData, deviceVars, stageVars
<1>10. host'.address = Effect.address
  BY <1>6, <1>7 DEF Served, Effect, Asked
<1> QED BY <1>5, <1>6, <1>8, <1>9, <1>10 DEF StatusTaken, StatusTakenData, InPending

LEMMA StatusIsSent ==
  ASSUME TypeOK, Asked # None, Phases, SendOut
  PROVE  Answered'
<1>1. host.stage \in {"statusOut", "dataOut"} /\ ep0.rx = VALID
      /\ ep0' = [ep0 EXCEPT !.rx = NAK, !.ctrRx = TRUE, !.setup = FALSE]
      /\ UNCHANGED <<deviceVars, stageVars, request, isrVars, before>>
  BY DEF SendOut, history
<1>2. (LastTaken \/ StatusOutDue) /\ host.stage = "statusOut"
  BY <1>1, PhaseSeen, StatusFacts
<1>3. ep0 \in Ep0Type
      /\ host \in [address : Byte8, request : Packets, stage : Stages, data : Seq(AnswerByte)]
  BY OldTypes DEF TypeOK
<1>4. ~ep0'.setup
  BY <1>1, <1>3 DEF Ep0Type
<1>5. host'.request = host.request /\ host'.data = host.data /\ host'.stage = "ok"
      /\ host'.address = host.address
  BY <1>2, <1>3 DEF SendOut
<1>6. /\ isr' = isr /\ isr \notin {"setup0", "reset"} \cup OwnPlaces
      /\ Complete /\ control # "WAIT_STATUS_IN"
  <2>1. isr' = isr
    BY <1>1 DEF isrVars
  <2>2. CASE LastTaken
    BY <2>1, <2>2 DEF LastTaken, LastTakenData, InPending, Seeing, OwnPlaces
  <2>3. CASE StatusOutDue
    <3>1. PICK tx \in {VALID, STALL} : Given(VALID, tx)
      BY <2>3 DEF StatusOutDue
    <3> QED BY <2>1, <2>3, <3>1 DEF Given, NothingDue, Finished, OwnPlaces, StatusOutDue,
                                     StatusOutData
  <2> QED BY <1>2, <2>2, <2>3
<1>7. Asked' = Asked /\ Source' = Source /\ Total' = Total
  BY <1>1, <1>5, AnswerSame
<1>8. Unchanged' /\ control' = control
  BY <1>1, <1>5, <1>6, DeviceKept DEF Complete, WithData
<1>9. WithData'
  BY <1>1, <1>5, <1>6, <1>7, <1>8, DataSame DEF Complete, WithData
<1> QED BY <1>4, <1>5, <1>6, <1>7, <1>8, <1>9 DEF Answered, AnsweredData, Complete

LEMMA StallIsSeen ==
  ASSUME TypeOK, Asked # None, Phases, SeeStall
  PROVE  Refused' \/ StatusDue'
<1>1. /\ \/ host.stage \in {"data", "statusIn"} /\ ep0.tx = STALL
         \/ host.stage \in {"statusOut", "dataOut"} /\ ep0.rx = STALL
      /\ UNCHANGED <<deviceVars, stageVars, request, ep0, isrVars, before>>
  BY DEF SeeStall, history
<1>2. Refused \/ (StatusDue /\ StallsItself(Asked))
  BY <1>1, PhaseSeen, StatusFacts
<1>3. host \in [address : Byte8, request : Packets, stage : Stages, data : Seq(AnswerByte)]
  BY DEF TypeOK
<1>4. host'.request = host.request /\ host'.data = host.data /\ host'.stage = "stall"
      /\ host'.address = host.address
  BY <1>3 DEF SeeStall
<1>5. Asked' = Asked /\ (Accepted <=> Accepted') /\ Effect' = Effect
  BY <1>1, <1>4, AnswerSame
<1>6. CASE Refused
  <2>1. Unchanged' /\ control' = control /\ ~Accepted'
    BY <1>1, <1>4, <1>5, <1>6, DeviceKept DEF Refused, RefusedData
  <2>2. Given(STALL, STALL)'
    BY <1>1, <1>6 DEF Refused, Given, NothingDue, isrVars
  <2> QED BY <1>4, <1>6, <2>1, <2>2 DEF Refused, RefusedData
<1>7. CASE StatusDue /\ StallsItself(Asked)
  <2>1. Served'
    BY <1>1, <1>4, <1>5, <1>7
       DEF StatusDue, StatusDueData, Served, WithoutData, deviceVars, stageVars
  <2>2. daddr' = host'.address
    BY <1>1, <1>4, <1>7 DEF StatusDue, StatusDueData, deviceVars
  <2>3. StatusGiven'
    BY <1>1, <1>5, <1>7 DEF StatusDue, StatusGiven, NothingDue, isrVars
  <2>4. StallsItself(Asked')
    BY <1>5, <1>7
  <2> QED BY <1>4, <2>1, <2>2, <2>3, <2>4 DEF StatusDue, StatusDueData
<1> QED BY <1>2, <1>6, <1>7

\* A SETUP packet that comes when the interrupt has nothing to do begins a
\* transfer.
LEMMA SetupIsSent ==
  ASSUME TypeOK, NEW r \in Requests, SendSetup(r), ~hurried'
  PROVE  Asked' = r /\ Asked' # None /\ SetupDue'
<1>1. /\ Quiet /\ bus = "up" /\ host.address = daddr
      /\ ep0' = [ep0 EXCEPT !.rx = NAK, !.tx = NAK, !.ctrRx = TRUE, !.setup = TRUE,
                            !.rxPacket = r]
      /\ host' = [host EXCEPT !.request = r, !.stage = FirstStage(r), !.data = <<>>]
      /\ before' = State /\ UNCHANGED <<deviceVars, isrVars>>
  BY DEF SendSetup, Reachable
<1>2. isr' = "idle" /\ ~ep0.ctrTx
  BY <1>1 DEF Quiet, isrVars
<1>3. ep0 \in Ep0Type
      /\ host \in [address : Byte8, request : Packets, stage : Stages, data : Seq(AnswerByte)]
  BY OldTypes DEF TypeOK
<1>4. /\ ep0'.rx = NAK /\ ep0'.tx = NAK /\ ep0'.ctrRx = TRUE /\ ep0'.setup = TRUE
      /\ ep0'.rxPacket = r /\ ep0'.ctrTx = ep0.ctrTx
  BY <1>1, <1>3 DEF Ep0Type
<1>5. host'.request = r /\ host'.stage = FirstStage(r) /\ host'.data = <<>>
      /\ host'.address = host.address
  BY <1>1, <1>3
<1>6. r # None
  BY ControlAssumption
<1>7. Unchanged'
  BY <1>1, <1>5 DEF Unchanged, State, deviceVars
<1>8. SetupPending' /\ Held(NAK, NAK)'
  BY <1>2, <1>4 DEF SetupPending, Held
<1>9. Asked' = r
  BY <1>5 DEF Asked
<1> QED BY <1>4, <1>5, <1>6, <1>7, <1>8, <1>9 DEF SetupDue, SetupData, FirstStage

-----------------------------------------------------------------------------
(***************************************************************************)
(* The bus resets, and what follows them until the next transfer.          *)
(***************************************************************************)
LEMMA PhasesSetupAlone ==
  ASSUME Phases
  PROVE  SetupAlone
<1>1. ASSUME NothingDue PROVE SetupAlone
  BY <1>1 DEF NothingDue, Finished, SetupAlone, Seeing
<1>2. ASSUME NEW a, NEW b, Given(a, b) PROVE SetupAlone
  BY <1>1, <1>2 DEF Given
<1>3. ASSUME InPending PROVE SetupAlone
  BY <1>3 DEF InPending, SetupAlone, Seeing
<1>4. CASE SetupDue
  BY <1>4 DEF SetupDue, SetupPending, SetupAlone, Seeing
<1>5. CASE Refused \/ Offered \/ StatusOutDue
  BY <1>2, <1>5 DEF Refused, Offered, StatusOutDue
<1>9. CASE StatusDue
  BY <1>1, <1>9 DEF StatusDue, StatusGiven
<1>10. CASE FeatureDue
  BY <1>10 DEF FeatureDue, OwnPlaces, SetupAlone, Seeing
<1>6. CASE StatusTaken \/ Taken \/ LastTaken
  BY <1>3, <1>6 DEF StatusTaken, Taken, LastTaken
<1>7. CASE Done
  BY <1>1, <1>7 DEF Done
<1>8. CASE Answered
  BY <1>8 DEF Answered, AnsweredData, SetupAlone
<1> QED BY <1>4, <1>5, <1>6, <1>7, <1>8, <1>9, <1>10 DEF Phases

LEMMA ProcessIs ==
  ASSUME TypeOK, Process
  PROVE  /\ \/ isr = "setup0" /\ Setup0_Process
            \/ isr = "in0" /\ In0_Process
            \/ isr = "out0" /\ Out0_Process
         /\ isr' = "readForRestore" /\ istr' = istr /\ FlagsKept
         /\ ep0'.setup = ep0.setup /\ bus' = bus
<1>1. ep0 \in Ep0Type
  BY OldTypes
<1>2. ep0' = ep0 \/ \E p : ep0' = [ep0 EXCEPT !.txPacket = p]
  <2>1. ASSUME NEW n, NEW off, NEW last, NEW more, NEW c, NEW r,
               DataStageIn(n, off, last, more, c, r)
        PROVE  ep0' = ep0 \/ \E p : ep0' = [ep0 EXCEPT !.txPacket = p]
    BY <2>1 DEF DataStageIn
  <2>2. CASE Setup0_Process
    <3> DEFINE r == ep0.rxPacket
    <3>1. NoData_Setup0(r) \/ Data_Setup0(r)
      BY <2>2 DEF Setup0_Process
    <3>2. ASSUME NoData_Setup0(r) PROVE ep0' = ep0 \/ \E p : ep0' = [ep0 EXCEPT !.txPacket = p]
      BY <3>2 DEF NoData_Setup0
    <3>3. ASSUME Data_Setup0(r) PROVE ep0' = ep0 \/ \E p : ep0' = [ep0 EXCEPT !.txPacket = p]
      BY <2>1, <3>3 DEF Data_Setup0
    <3> QED BY <3>1, <3>2, <3>3
  <2>3. CASE In0_Process
    BY <2>1, <2>3 DEF In0_Process
  <2>4. CASE Out0_Process
    BY <2>4 DEF Out0_Process
  <2> QED BY <2>2, <2>3, <2>4 DEF Process
<1>3. ASSUME NEW p, ep0' = [ep0 EXCEPT !.txPacket = p]
      PROVE  FlagsKept /\ ep0'.setup = ep0.setup
  BY <1>1, <1>3 DEF Ep0Type, FlagsKept
<1>4. FlagsKept /\ ep0'.setup = ep0.setup
  BY <1>2, <1>3 DEF FlagsKept
<1> QED BY <1>4 DEF Process

\* The steps that serve a packet, and what the two of a halt leave alone.
Serve == FeatureBegins \/ SetFeature \/ Process

LEMMA FeatureIs ==
  ASSUME TypeOK, FeatureBegins \/ SetFeature
  PROVE  /\ \/ isr = "setup0" /\ isr' = "readForFeature" /\ control' = control
            \/ isr = "feature" /\ isr' = "readForRestore"
         /\ istr' = istr /\ FlagsKept /\ ep0'.setup = ep0.setup /\ bus' = bus
         /\ host' = host /\ UNCHANGED deviceVars
<1>1. CASE FeatureBegins
  BY <1>1 DEF FeatureBegins, FlagsKept, stageVars
<1>2. CASE SetFeature
  <2>1. ep0 \in Ep0Type
    BY OldTypes
  <2>2. \E rx, tx : ep0' = [ep0 EXCEPT !.rx = rx, !.tx = tx, !.txPacket = <<>>]
    BY <1>2 DEF SetFeature
  <2>3. FlagsKept /\ ep0'.setup = ep0.setup
    BY <2>1, <2>2 DEF Ep0Type, FlagsKept
  <2> QED BY <1>2, <2>3 DEF SetFeature
<1> QED BY <1>1, <1>2

\* A SETUP packet finds no packet to the host behind it.
LEMMA SetupAloneStep ==
  ASSUME TypeOK, SetupAlone, SeeIn \/ Restore \/ Serve \/ EnterReset
  PROVE  SetupAlone'
<1>1. CASE Enter
  BY <1>1, EnterIs DEF SetupAlone, Seeing
<1>2. CASE SaveStatus
  BY <1>2, SaveStatusIs DEF SetupAlone, Seeing
<1>3. CASE GetENDPOINT
  BY <1>3, GetENDPOINTIs DEF SetupAlone, Seeing
<1>4. CASE SetNak
  BY <1>4, SetNakIs DEF SetupAlone, Seeing, EndpointKept, FlagsKept
<1>5. CASE ClearCtr
  BY <1>5, ClearCtrIs DEF SetupAlone, Seeing, EndpointKept
<1>6. CASE Restore
  BY <1>6, RestoreIs DEF SetupAlone, Seeing, EndpointKept, FlagsKept
<1>7. CASE Process
  BY <1>7, ProcessIs DEF SetupAlone, Seeing, FlagsKept
<1>8. CASE EnterReset
  BY <1>8 DEF EnterReset, SetupAlone, Seeing
<1>9. CASE FeatureBegins \/ SetFeature
  BY <1>9, FeatureIs DEF SetupAlone, Seeing, FlagsKept
<1> QED BY <1>1, <1>2, <1>3, <1>4, <1>5, <1>6, <1>7, <1>8, <1>9 DEF SeeIn, Serve

\* The reset that is due.
LEMMA ResetDueStep ==
  ASSUME TypeOK, ResetDue, SeeIn \/ Restore \/ Serve \/ EnterReset
  PROVE  ResetDue'
<1>1. SetupAlone' /\ SetupAlone
  BY SetupAloneStep DEF ResetDue
<1>2. CASE Enter
  BY <1>1, <1>2, EnterIs DEF ResetDue, OwnPlaces, Seeing
<1>3. CASE SaveStatus
  BY <1>1, <1>3, SaveStatusIs DEF ResetDue, OwnPlaces, Seeing
<1>4. CASE GetENDPOINT
  <2>1. control' = control
    BY <1>4 DEF GetENDPOINT, stageVars
  <2> QED BY <1>1, <1>4, <2>1, GetENDPOINTIs DEF ResetDue, OwnPlaces, Seeing, Leftover
<1>5. CASE SetNak
  BY <1>1, <1>5, SetNakIs DEF ResetDue, OwnPlaces, Seeing, FlagsKept
<1>6. CASE ClearCtr
  BY <1>1, <1>6, ClearCtrIs DEF ResetDue, OwnPlaces, SetupAlone, Seeing
<1>7. CASE Restore
  <2>1. control' = control
    BY <1>7 DEF Restore, stageVars
  <2> QED BY <1>1, <1>7, <2>1, RestoreIs DEF ResetDue, OwnPlaces, Seeing, FlagsKept, Leftover
<1>8. CASE Process
  <2>1. istr.reset => ~ep0'.ctrRx /\ (ep0'.ctrTx => control' = "STALLED")
    <3>1. CASE isr = "out0" /\ Out0_Process
      BY <1>8, <3>1, ProcessIs DEF ResetDue, FlagsKept, Out0_Process, Stalled
    <3>2. CASE isr \in {"setup0", "in0"}
      BY <1>8, <3>2, ProcessIs DEF ResetDue, FlagsKept
    <3> QED BY <1>8, <3>1, <3>2, ProcessIs
  <2> QED BY <1>1, <1>8, <2>1, ProcessIs DEF ResetDue, OwnPlaces, Seeing, Leftover
<1>9. CASE EnterReset
  BY <1>1, <1>9 DEF EnterReset, ResetDue, OwnPlaces, Seeing, Leftover
<1>10. CASE FeatureBegins \/ SetFeature
  BY <1>1, <1>10, FeatureIs DEF ResetDue, OwnPlaces, SetupAlone, Seeing, Leftover, FlagsKept
<1> QED BY <1>2, <1>3, <1>4, <1>5, <1>6, <1>7, <1>8, <1>9, <1>10 DEF SeeIn, Serve

LEMMA AfterResetStep ==
  ASSUME TypeOK, BusInv, bus = "up", AfterReset, before' = before,
         SeeIn \/ Restore \/ Serve
  PROVE  AfterReset'
<1>1. ASSUME Minor PROVE State' = before' /\ control' = control
  BY <1>1, MinorFrozen DEF Frozen, State, AfterReset
<1>2. CASE Enter
  BY <1>1, <1>2, EnterIs DEF AfterReset, OwnPlaces, Leftover, Minor, SeeIn
<1>3. CASE SaveStatus
  BY <1>1, <1>3, SaveStatusIs DEF AfterReset, OwnPlaces, Leftover, Minor, SeeIn
<1>4. CASE GetENDPOINT
  BY <1>1, <1>4, GetENDPOINTIs DEF AfterReset, OwnPlaces, Leftover, Minor, SeeIn
<1>5. CASE SetNak
  BY <1>1, <1>5, SetNakIs DEF AfterReset, OwnPlaces, Leftover, Minor, SeeIn, FlagsKept
<1>6. CASE ClearCtr
  BY <1>1, <1>6, ClearCtrIs DEF AfterReset, OwnPlaces, Leftover, Minor, SeeIn
<1>7. CASE Restore
  BY <1>1, <1>7, RestoreIs DEF AfterReset, OwnPlaces, Leftover, Minor, FlagsKept, BusInv
<1>8. CASE Process
  <2>1. In0_Process /\ control = "STALLED" /\ ~istr.rx
    BY <1>8, ProcessIs DEF AfterReset, OwnPlaces
  <2>2. control' = "STALLED" /\ State' = State
    BY <2>1 DEF In0_Process, Stalled, State
  <2> QED BY <1>8, <2>1, <2>2, ProcessIs DEF AfterReset, OwnPlaces, Leftover, FlagsKept
<1>9. ~FeatureBegins /\ ~SetFeature
  BY FeatureIs DEF AfterReset, OwnPlaces
<1> QED BY <1>2, <1>3, <1>4, <1>5, <1>6, <1>7, <1>8, <1>9 DEF SeeIn, Serve

-----------------------------------------------------------------------------
(***************************************************************************)
(* The invariant.                                                          *)
(***************************************************************************)
LEMMA BusInvStep ==
  ASSUME TypeOK, BusInv, [Next]_vars
  PROVE  BusInv'
<1>1. CASE Minor \/ MainLoopOpens
  <2>1. Frozen
    BY <1>1, MinorFrozen, MainLoopFrozen
  <2>2. Asked' = Asked /\ bus' = bus /\ configuration' = configuration /\ ready' = ready
    BY <2>1 DEF Frozen, Asked
  <2>3. (isr' # "idle" /\ istr'.reset => bus = "reset") /\ (isr' = "reset" => bus = "reset")
    <3>1. CASE MainLoopOpens
      BY <3>1, MainLoopFrozen DEF BusInv, isrVars
    <3>2. CASE SeeIn
      BY <3>2, EnterIs, SaveStatusIs, GetENDPOINTIs, SetNakIs, ClearCtrIs DEF BusInv, SeeIn
    <3>3. CASE Restore
      BY <3>3, RestoreIs DEF BusInv
    <3> QED BY <1>1, <3>1, <3>2, <3>3 DEF Minor
  <2> QED BY <2>2, <2>3 DEF BusInv
<1>2. CASE Process
  <2>1. host' = host /\ bus' = bus /\ istr' = istr /\ isr' = "readForRestore"
        /\ isr # "idle"
    BY <1>2 DEF Process
  <2>2. configuration' # 0 => ready'
    <3>1. CASE Setup0_Process
      BY <3>1 DEF Setup0_Process, NoData_Setup0, Data_Setup0, Perform,
                  Standard_SetConfiguration, deviceVars, BusInv
    <3>2. CASE In0_Process
      BY <3>2 DEF In0_Process, BusInv
    <3>3. CASE Out0_Process
      BY <3>3 DEF Out0_Process, deviceVars, BusInv
    <3> QED BY <1>2, <3>1, <3>2, <3>3 DEF Process
  <2> QED BY <2>1, <2>2 DEF BusInv, Asked
<1>3. CASE EnterReset
  BY <1>3 DEF EnterReset, BusInv, Asked, deviceVars
<1>4. CASE usb_cdc_reset
  BY <1>4 DEF usb_cdc_reset, BusInv, Asked
<1>5. CASE BusReset
  <2>1. Asked' = None
    BY <1>5 DEF BusReset, Asked
  <2> QED BY <1>5, <2>1 DEF BusReset, BusInv, deviceVars, isrVars
<1>6. ASSUME NEW r \in Requests, SendSetup(r) PROVE BusInv'
  BY <1>6 DEF SendSetup, Reachable, BusInv, deviceVars, isrVars
<1>7. CASE Transfer
  <2>1. bus' = "up" /\ UNCHANGED <<bus, deviceVars, isrVars>>
    BY <1>7 DEF Transfer, TakeData, TakeStatus, SendOut, SeeStall, Reachable
  <2> QED BY <2>1 DEF BusInv, deviceVars, isrVars
<1>8. CASE UNCHANGED vars
  BY <1>8 DEF vars, deviceVars, isrVars, BusInv, Asked
<1>9. CASE FeatureBegins \/ SetFeature
  BY <1>9, FeatureIs DEF BusInv, Asked, deviceVars
<1> QED BY <1>1, <1>2, <1>3, <1>4, <1>5, <1>6, <1>7, <1>8, <1>9
        DEF Next, Interrupt, Host, Minor, SeeIn

\* A bus reset ends the transfer, or finds none.
LEMMA ResetsTransfer ==
  ASSUME TypeOK, TransferInv, ~hurried, BusReset
  PROVE  Asked' = None /\ NoTransfer'
<1>1. /\ bus # "reset" /\ bus' = "reset" /\ control' = control
      /\ ep0' = [ep0 EXCEPT !.rx = DISABLED, !.tx = DISABLED]
      /\ host' = [address |-> 0, request |-> None, stage |-> "ok", data |-> <<>>]
      /\ before' = [configuration |-> 0, wakeup |-> FALSE, address |-> 0]
      /\ isr' = isr /\ istr' = istr
  BY DEF BusReset, stageVars, isrVars
<1>2. FlagsKept /\ ep0'.setup = ep0.setup
  <2>1. ep0 \in Ep0Type
    BY OldTypes
  <2> QED BY <1>1, <2>1 DEF Ep0Type, FlagsKept
<1>3. Asked' = None
  BY <1>1 DEF Asked
<1>4. (isr # "idle" => ~istr.reset) /\ isr # "reset"
  BY <1>1 DEF TransferInv, BusInv
<1>5. SetupAlone
  <2>1. CASE Asked # None
    BY <2>1, PhasesSetupAlone DEF TransferInv
  <2>2. CASE Asked = None /\ bus = "up"
    BY <2>2 DEF TransferInv, NoTransfer, AfterReset, Leftover, SetupAlone, Seeing
  <2>3. CASE Asked = None /\ bus # "up"
    BY <2>3 DEF TransferInv, NoTransfer, ResetDue
  <2> QED BY <2>1, <2>2, <2>3
<1>6. ResetDue'
  BY <1>1, <1>2, <1>4, <1>5 DEF ResetDue, SetupAlone, FlagsKept
<1> QED BY <1>1, <1>3, <1>6 DEF NoTransfer

\* A step of the device between a bus reset and the next request.
LEMMA NoTransferStep ==
  ASSUME TypeOK, BusInv, NoTransfer, Interrupt \/ MainLoopOpens
  PROVE  NoTransfer'
<1>1. host' = host /\ before' = before
  BY DEF Interrupt, Enter, SaveStatus, GetENDPOINT, SetNak, ClearCtr, FeatureBegins,
         SetFeature, Process, Restore, EnterReset, usb_cdc_reset, MainLoopOpens, history
<1>2. CASE usb_cdc_reset
  <2>1. ep0 \in Ep0Type
    BY OldTypes
  <2>2. bus' = "up" /\ isr = "reset" /\ isr' = "idle" /\ control' = control
        /\ configuration' = 0 /\ wakeup' = FALSE /\ daddr' = 0
        /\ ep0' = [ep0 EXCEPT !.rx = VALID, !.tx = STALL]
    BY <1>2 DEF usb_cdc_reset, stageVars
  <2>3. FlagsKept
    BY <2>1, <2>2 DEF Ep0Type, FlagsKept
  <2>4. bus # "up"
    BY <2>2 DEF BusInv
  <2>5. Leftover'
    BY <2>2, <2>3, <2>4 DEF NoTransfer, ResetDue, Leftover, FlagsKept
  <2>6. State' = before'
    BY <1>1, <2>2 DEF NoTransfer, State
  <2> QED BY <1>1, <2>2, <2>5, <2>6 DEF NoTransfer, AfterReset, OwnPlaces
<1>3. CASE MainLoopOpens
  <2>1. Frozen /\ ep0' = ep0 /\ isr' = isr /\ istr' = istr
    BY <1>3, MainLoopFrozen DEF isrVars
  <2>2. State' = State /\ bus' = bus /\ control' = control
    BY <2>1 DEF Frozen, State
  <2> QED BY <1>1, <2>1, <2>2 DEF NoTransfer, AfterReset, ResetDue, SetupAlone, Leftover
<1>4. CASE EnterReset
  <2>1. bus' = bus /\ bus = "reset"
    BY <1>4 DEF EnterReset
  <2> QED BY <1>1, <1>4, <2>1, ResetDueStep DEF NoTransfer
<1>5. CASE SeeIn \/ Restore \/ Serve
  <2>1. bus' = bus
    BY <1>5 DEF SeeIn, Enter, SaveStatus, GetENDPOINT, SetNak, ClearCtr, Serve, FeatureBegins,
                SetFeature, Process, Restore
  <2>2. CASE bus = "up"
    BY <1>1, <1>5, <2>1, <2>2, AfterResetStep DEF NoTransfer
  <2>3. CASE bus # "up"
    BY <1>1, <1>5, <2>1, <2>3, ResetDueStep DEF NoTransfer
  <2> QED BY <2>2, <2>3
<1> QED BY <1>2, <1>3, <1>4, <1>5 DEF Interrupt, SeeIn, Serve

LEMMA TransferStep ==
  ASSUME TypeOK, TransferInv, [Next]_vars, Asked # None => (Missing => length = 0)
  PROVE  TransferInv'
<1>1. BusInv' /\ BusInv
  BY BusInvStep DEF TransferInv
<1> SUFFICES ASSUME ~hurried' PROVE IF Asked' = None THEN NoTransfer' ELSE Phases'
  BY <1>1 DEF TransferInv
<1>2. ASSUME NEW r \in Requests, SendSetup(r) PROVE Asked' # None /\ Phases'
  BY <1>2, SetupIsSent DEF Phases
<1>3. (\E r \in Requests : SendSetup(r)) \/ hurried' = hurried
  BY DEF Next, Interrupt, Enter, SaveStatus, GetENDPOINT, SetNak, ClearCtr, FeatureBegins,
         SetFeature, Process, Restore, EnterReset, usb_cdc_reset, MainLoopOpens, Host, BusReset, Transfer, TakeData,
         TakeStatus, SendOut, SeeStall, vars, history
<1>4. CASE BusReset
  <2>1. hurried' = hurried
    BY <1>4 DEF BusReset
  <2> QED BY <1>4, <2>1, ResetsTransfer
<1>5. CASE (Interrupt \/ MainLoopOpens \/ Transfer \/ UNCHANGED vars) /\ hurried' = hurried
  <2>1. Asked' = Asked
    <3>1. CASE Interrupt \/ MainLoopOpens \/ UNCHANGED vars
      BY <3>1 DEF Interrupt, Enter, SaveStatus, GetENDPOINT, SetNak, ClearCtr, FeatureBegins,
                  SetFeature, Process, Restore, EnterReset, usb_cdc_reset, MainLoopOpens, vars, Asked
    <3>2. CASE Transfer
      <4>1. host \in [address : Byte8, request : Packets, stage : Stages,
                      data : Seq(AnswerByte)]
        BY DEF TypeOK
      <4> QED BY <3>2, <4>1 DEF Transfer, TakeData, TakeStatus, SendOut, SeeStall, Asked
    <3> QED BY <1>5, <3>1, <3>2
  <2>2. CASE Asked = None
    <3>1. NoTransfer /\ ~Transfer
      BY <1>5, <2>2 DEF TransferInv, NoTransfer, Transfer, TakeData, TakeStatus, SendOut,
                        SeeStall
    <3>2. CASE Interrupt \/ MainLoopOpens
      BY <1>1, <2>1, <2>2, <3>1, <3>2, NoTransferStep
    <3>3. CASE UNCHANGED vars
      BY <2>1, <2>2, <3>1, <3>3
         DEF vars, deviceVars, stageVars, isrVars, history, NoTransfer, AfterReset, ResetDue,
             SetupAlone, Leftover, State
    <3> QED BY <1>5, <3>1, <3>2, <3>3
  <2>3. CASE Asked # None
    <3>1. Phases /\ bus = "up" /\ isr # "reset"
      BY <1>1, <1>5, <2>3 DEF TransferInv, BusInv
    <3>2. CASE Minor
      BY <1>1, <2>1, <2>3, <3>1, <3>2, PhasesMinor
    <3>3. CASE Process
      BY <2>1, <2>3, <3>1, <3>3, PhasesProcess
    <3>8. CASE FeatureBegins \/ SetFeature
      BY <2>1, <2>3, <3>1, <3>8, FeatureIsBegun, FeatureIsSet DEF Phases
    <3>4. CASE MainLoopOpens
      BY <2>1, <2>3, <3>1, <3>4, MainLoopFrozen, PhasesFrozen
    <3>5. CASE UNCHANGED vars
      <4>1. Frozen /\ UNCHANGED <<ep0, isrVars>>
        BY <3>5 DEF vars, deviceVars, stageVars, history, Frozen, EndpointKept
      <4> QED BY <2>1, <2>3, <3>1, <4>1, PhasesFrozen
    <3>6. CASE Transfer
      <4>1. CASE TakeData
        <5>1. Offered
          BY <3>1, <4>1, PhaseSeen, StatusFacts DEF TakeData
        <5> QED BY <2>1, <2>3, <4>1, <5>1, DataTaken DEF Phases
      <4> QED BY <2>1, <2>3, <3>1, <3>6, <4>1, StatusIsTaken, StatusIsSent, StallIsSeen
              DEF Transfer, Phases
    <3>7. ~EnterReset /\ ~usb_cdc_reset
      BY <3>1 DEF EnterReset, usb_cdc_reset
    <3> QED BY <1>5, <3>2, <3>3, <3>4, <3>5, <3>6, <3>7, <3>8 DEF Interrupt, Minor, SeeIn
  <2> QED BY <2>2, <2>3
<1> QED BY <1>2, <1>3, <1>4, <1>5 DEF Next, Host

LEMMA TransferInit == Init => TransferInv
<1> SUFFICES ASSUME Init PROVE TransferInv OBVIOUS
<1>1. Asked = None /\ bus = "detached" /\ isr = "idle" /\ configuration = 0
      /\ ~ep0.ctrRx /\ ~ep0.ctrTx
  BY DEF Init, Asked
<1>2. BusInv
  BY <1>1 DEF BusInv
<1>3. ResetDue
  BY <1>1 DEF ResetDue, SetupAlone, Seeing
<1>4. NoTransfer
  BY <1>1, <1>3 DEF Init, NoTransfer, State
<1> QED BY <1>1, <1>2, <1>4 DEF TransferInv

\* What is read exists: either the descriptors are shorter than a packet, as
\* the device's are, so that a string that does not exist is stalled, or the
\* host asks for none that does not exist.
Readable ==
  \/ Short
  \/ \A r \in Requests :
       r.type = "device" /\ r.name = "GET_DESCRIPTOR" /\ r.v1 = 3 => r.v0 <= 2

LEMMA TransferHolds == Readable => (Spec => []TransferInv)
<1> SUFFICES ASSUME Readable PROVE Spec => []TransferInv OBVIOUS
<1>1. Spec => [](Short => length = 0)
  <2>1. CASE Short
    <3>1. NothingLeftOver => (Short => length = 0)
      BY DEF NothingLeftOver
    <3>2. Spec => []NothingLeftOver
      BY <2>1, NothingLeftOverHolds
    <3> QED BY <3>1, <3>2, PTL
  <2>2. CASE ~Short
    <3>1. Short => length = 0
      BY <2>2
    <3> QED BY <3>1, PTL
  <2> QED BY <2>1, <2>2
<1>2. TypeOK /\ (Short => length = 0) => (Asked # None => (Missing => length = 0))
  <2> SUFFICES ASSUME TypeOK, Short => length = 0, Asked # None, Missing PROVE length = 0
    OBVIOUS
  <2>1. Asked \in Requests /\ Asked.v0 \in Nat
    BY AskedType, RequestFields DEF Byte8
  <2>2. Asked.type = "device" /\ Asked.name = "GET_DESCRIPTOR" /\ Asked.v1 = 3
        /\ Asked.v0 > 2
    BY DEF Missing, CopyRoutine
  <2> QED BY <2>1, <2>2 DEF Readable
<1>3. TypeOK /\ (Short => length = 0) /\ TransferInv /\ [Next]_vars => TransferInv'
  BY <1>2, TransferStep
<1> QED BY <1>1, <1>3, TransferInit, TypeCorrect, PTL DEF Spec

-----------------------------------------------------------------------------
(***************************************************************************)
(* What the host may rely on.                                              *)
(***************************************************************************)
\* A sequence that begins another.
LEMMA Prefix ==
  ASSUME NEW D, NEW f, NEW g, NEW m \in Nat, NEW n \in Nat, m <= n,
         f \in [1 .. m -> D], g \in [1 .. n -> D], \A i \in 1 .. m : f[i] = g[i]
  PROVE  Len(f) = m /\ Len(g) = n /\ f = SubSeq(g, 1, m) /\ (m = n => f = g)
<1>1. f \in Seq(D) /\ Len(f) = m /\ g \in Seq(D) /\ Len(g) = n
  BY IsASeq, LenProperties
<1>2. SubSeq(g, 1, m) = [i \in 1 .. m |-> g[i]]
  <2>1. SubSeq(g, 1, m) = [i \in 1 .. (m - 1) + 1 |-> g[i + 1 - 1]]
    BY <1>1
  <2>2. (m - 1) + 1 = m /\ \A i \in 1 .. m : i + 1 - 1 = i
    OBVIOUS
  <2> QED BY <2>1, <2>2
<1>3. f = [i \in 1 .. m |-> f[i]] /\ g = [i \in 1 .. n |-> g[i]]
  OBVIOUS
<1>4. f = SubSeq(g, 1, m)
  BY <1>2, <1>3
<1> QED BY <1>1, <1>3, <1>4

\* The answer to a request without data is empty.
LEMMA NoAnswer ==
  ASSUME TypeOK, Asked.length = 0, host.data = <<>>
  PROVE  Total = 0 /\ Answer = <<>> /\ Received = <<>>
<1>1. Asked \in Packets
  BY DEF TypeOK, Asked
<1>2. SizeOf(Source, Asked, 0) \in Nat
  BY <1>1, SizeType
<1>3. Total = 0
  BY <1>2 DEF Total, Lesser
<1>4. Answer = [i \in 1 .. Total |-> <<Source, Version0, i>>]
  BY DEF Answer, Total
<1>5. Received = <<>>
  BY DEF Received
<1> QED BY <1>3, <1>4, <1>5

LEMMA AnswerReceived ==
  ASSUME TypeOK, DataRight
  PROVE  /\ Len(Received) <= Len(Answer) /\ Received = SubSeq(Answer, 1, Len(Received))
         /\ Len(host.data) = Total => Received = Answer
<1>1. Asked \in Packets /\ host.data \in Seq(AnswerByte)
  BY DEF TypeOK, Asked
<1>2. Total \in Nat
  <2>1. SizeOf(Source, Asked, 0) \in Nat /\ Asked.length \in Nat
    BY <1>1, SizeType, RequestFields
  <2> QED BY <2>1, LesserType DEF Total
<1> DEFINE m == Len(host.data)
           f == [i \in 1 .. m |-> <<Source, Version0, i>>]
           g == [i \in 1 .. Total |-> <<Source, Version0, i>>]
           D == {Source} \X {Version0} \X Nat
<1>3. m \in Nat /\ DOMAIN host.data = 1 .. m
  BY <1>1, LenProperties
<1>4. Received = f
  <2>1. \A i \in 1 .. m : (IF Asked.type = "endpoint" THEN [host.data[i] EXCEPT ![2] = 0]
                           ELSE host.data[i]) = <<Source, Version0, i>>
    BY DEF DataRight, ByteOfAnswer
  <2> QED BY <1>3, <2>1 DEF Received
<1>5. Answer = g
  BY DEF Answer, Total
<1>6. m <= Total
  BY DEF DataRight
<1>7. f \in [1 .. m -> D] /\ g \in [1 .. Total -> D]
  OBVIOUS
<1>8. \A i \in 1 .. m : f[i] = g[i]
  BY <1>2, <1>3, <1>6
<1>9. Len(f) = m /\ Len(g) = Total /\ f = SubSeq(g, 1, m) /\ (m = Total => f = g)
  <2> HIDE DEF m, f, g, D
  <2> QED BY <1>2, <1>3, <1>6, <1>7, <1>8, Prefix
<1> HIDE DEF m, f, g, D
<1> QED BY <1>4, <1>5, <1>6, <1>9 DEF m

\* Each phase is one of a request without data, of a refusal or of an answer.
LEMMA PhaseKinds ==
  ASSUME Phases
  PROVE  \/ /\ SetupDue \/ Refused
            /\ host.data = <<>> /\ host.stage \notin {"statusOut", "ok"}
         \/ FeatureDue \/ StatusDue \/ StatusTaken \/ Done
         \/ (Offered \/ Taken) /\ WithData /\ host.stage = "data"
         \/ (LastTaken \/ StatusOutDue) /\ Complete /\ host.stage = "statusOut"
         \/ Answered /\ Complete /\ host.stage = "ok"
BY DEF Phases, SetupDue, SetupData, Refused, RefusedData, FirstStage, Offered, OfferedData,
       Taken, TakenData, Answering, LastTaken, LastTakenData, StatusOutDue, StatusOutData,
       Answered, AnsweredData

LEMMA WithoutDataPhases ==
  FeatureDue \/ StatusDue \/ StatusTaken \/ Done
    => WithoutData /\ (host.stage = "stall" => StallsItself(Asked))
BY DEF FeatureDue, FeatureDueData, StatusDue, StatusDueData, StatusTaken, StatusTakenData,
       Served, Done, DoneData

\* The host is given the answer to its own request, byte by byte and cut to
\* the length it asked for, whatever packets it is cut into and whatever was
\* given up before: for every set of requests and every length of the
\* descriptors and the packets, with bus resets anywhere.
THEOREM DataHolds == Readable => (Spec => []DataIsAnswer)
<1> SUFFICES ASSUME Readable PROVE Spec => []DataIsAnswer OBVIOUS
<1>1. TypeOK /\ TransferInv => DataIsAnswer
  <2> SUFFICES ASSUME TypeOK, TransferInv, ~hurried, Asked.in
               PROVE  /\ Len(Received) <= Len(Answer)
                      /\ Received = SubSeq(Answer, 1, Len(Received))
                      /\ host.stage \in {"statusOut", "ok"} /\ Source # "NULL"
                           => Received = Answer
    BY DEF DataIsAnswer
  <2>1. Phases
    BY DEF TransferInv, None
  <2>2. Len(<<>>) = 0
    OBVIOUS
  <2>3. CASE host.data = <<>> /\ host.stage \notin {"statusOut", "ok"}
    <3>1. DataRight
      <4>1. Total \in Nat
        <5>1. Asked \in Packets
          BY DEF TypeOK, Asked
        <5>2. SizeOf(Source, Asked, 0) \in Nat /\ Asked.length \in Nat
          BY <5>1, SizeType, RequestFields
        <5> QED BY <5>2, LesserType DEF Total
      <4> QED BY <2>2, <2>3, <4>1 DEF DataRight
    <3> QED BY <2>3, <3>1, AnswerReceived
  <2>4. CASE WithoutData
    <3>1. Received = <<>> /\ Answer = <<>>
      BY <2>4, NoAnswer DEF WithoutData
    <3> QED BY <3>1
  <2>5. CASE WithData /\ (host.stage = "data" \/ Complete)
    BY <2>5, AnswerReceived DEF WithData, Complete
  <2> QED BY <2>1, <2>3, <2>4, <2>5, PhaseKinds, WithoutDataPhases DEF Complete
<1> QED BY <1>1, TransferHolds, TypeCorrect, PTL

\* What the host is told is what the device did: a transfer ends well only when
\* the device performs or answers the request and is stalled only when it
\* refuses it, for every set of requests; the halt of endpoint 0 for packets to
\* the host, during which the endpoint bears that STALL, is the one exception.
THEOREM VerdictHolds == Readable => (Spec => []VerdictRight)
<1> SUFFICES ASSUME Readable PROVE Spec => []VerdictRight OBVIOUS
<1>1. TypeOK /\ TransferInv => VerdictRight
  <2> SUFFICES ASSUME TransferInv, ~hurried, Asked # None
               PROVE  /\ host.stage = "ok" => Accepted
                      /\ host.stage = "stall" => ~Accepted \/ StallsItself(Asked)
    BY DEF VerdictRight
  <2>1. Phases
    BY DEF TransferInv
  <2>2. WithData => Accepted
    BY DEF WithData, Accepted
  <2>3. SetupDue => host.stage # "stall"
    BY DEF SetupDue, SetupData, FirstStage
  <2>4. Refused => ~Accepted
    BY DEF Refused, RefusedData
  <2>5. WithoutData => Accepted
    BY DEF WithoutData
  <2> QED BY <2>1, <2>2, <2>3, <2>4, <2>5, PhaseKinds, WithoutDataPhases DEF Complete
<1> QED BY <1>1, TransferHolds, TypeCorrect, PTL

\* When the interrupt has nothing to do the device's address, configuration
\* and features are what the host's last request left, and while a transfer
\* runs the device keeps the address the host uses: for every set of requests.
THEOREM HostKnowsHolds == Readable => (Spec => []HostKnowsDevice)
<1> SUFFICES ASSUME Readable PROVE Spec => []HostKnowsDevice OBVIOUS
<1>1. TypeOK /\ TransferInv => HostKnowsDevice
  <2> SUFFICES ASSUME TypeOK, TransferInv, bus = "up", ~hurried
               PROVE  /\ Running => daddr = host.address
                      /\ Quiet /\ ~Running =>
                           /\ State = IF host.stage = "ok" THEN Effect ELSE before
                           /\ daddr = host.address
                           /\ configuration # 0 => ready
    BY DEF HostKnowsDevice
  <2>1. configuration # 0 => ready
    BY DEF TransferInv, BusInv
  <2>2. before \in DeviceState
    BY DEF TypeOK
  <2>3. Asked.name \in GETs \cup {"none"} => Effect = before
    <3>1. Asked.name \in GETs \cup {"none"}
            => Effect = [configuration |-> before.configuration, wakeup |-> before.wakeup,
                         address |-> before.address]
      BY DEF Effect, GETs
    <3> QED BY <2>2, <3>1 DEF DeviceState
  <2>4. CASE Asked = None
    <3>1. State = before /\ host.stage = "ok" /\ host.address = 0 /\ before.address = 0
      BY <2>4 DEF TransferInv, NoTransfer, AfterReset
    <3>2. Effect = before
      BY <2>3, <2>4 DEF None
    <3> QED BY <2>1, <3>1, <3>2, StateIs DEF Running
  <2>5. CASE Asked # None
    <3>1. Phases
      BY <2>5 DEF TransferInv
    <3>2. CASE SetupDue
      <4>1. daddr = host.address /\ Running
        BY <3>2 DEF SetupDue, SetupData, Unchanged, FirstStage, Running
      <4> QED BY <4>1
    <3>3. CASE Refused
      BY <2>1, <3>3 DEF Refused, RefusedData, Unchanged, FirstStage, Running
    <3>4. CASE StatusDue
      <4>1. CASE host.stage = "statusIn"
        BY <3>4, <4>1 DEF StatusDue, StatusDueData, Running
      <4>2. CASE host.stage = "stall"
        <5>1. /\ StallsItself(Asked) /\ daddr = host.address /\ daddr = before.address
              /\ configuration = Effect.configuration /\ wakeup = Effect.wakeup
          BY <3>4, <4>2 DEF StatusDue, StatusDueData, Served
        <5>2. configuration = before.configuration /\ wakeup = before.wakeup
          BY <5>1 DEF StallsItself, Effect
        <5>3. State = before
          BY <2>2, <5>1, <5>2 DEF State, DeviceState
        <5> QED BY <2>1, <4>2, <5>1, <5>3 DEF Running
      <4> QED BY <3>4, <4>1, <4>2 DEF StatusDue, StatusDueData
    <3>8. CASE FeatureDue
      BY <3>8 DEF FeatureDue, FeatureDueData, Unchanged, Running
    <3>5. CASE StatusTaken
      <4>1. ~Running /\ ~Quiet
        BY <3>5 DEF StatusTaken, StatusTakenData, InPending, Running, Quiet
      <4> QED BY <4>1
    <3>6. CASE Done
      BY <2>1, <3>6 DEF Done, DoneData, Running
    <3>7. CASE WithData /\ (host.stage \in {"data", "statusOut"} \/ host.stage = "ok")
      BY <2>1, <2>3, <3>7 DEF WithData, Unchanged, Running
    <3> QED BY <3>1, <3>2, <3>3, <3>4, <3>5, <3>6, <3>7, <3>8, PhaseKinds
            DEF Complete
  <2> QED BY <2>4, <2>5
<1> QED BY <1>1, TransferHolds, TypeCorrect, PTL
=============================================================================
