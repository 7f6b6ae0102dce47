---------------------------- MODULE UsbCdc_proofs ----------------------------
(***************************************************************************)
(* For every input, packet size, set of answers and number of bus resets:  *)
(* the types, the index into the receive buffer and the ownership of the   *)
(* packet memories.  And for a line that is not reset once it is attached, *)
(* and a host that sends no empty packets: main loop and host never both   *)
(* wait, and the serial line implements Terminal.                          *)
(***************************************************************************)
EXTENDS UsbCdc, SequenceTheorems, TLAPS

\* A byte is there when it is fetched, also if an interrupt has replaced the
\* counters since they were compared: it can only have set the index to 0.
IndexInv ==
  /\ pc = "waitCnt" => rxIdx <= reg
  /\ pc \in {"fetch", "load", "incr"} => rxIdx < PackSize
  /\ pc \in {"load", "store"} => reg < PackSize

\* While usb_cdc_tx_done is TRUE the host has nothing to fetch; the main loop
\* fills the packet memory only after it has set it to FALSE.
TxInv ==
  /\ txDone => ep1.stat # VALID /\ ~ep1.ctr
  /\ ep1.ctr => ep1.stat # VALID
  /\ pc = "claim" => txDone
  /\ pc \in {"copy", "txRead", "txWrite"} => ~txDone /\ ep1.stat # VALID /\ ~ep1.ctr

RxInv == ep3.ctr => ep3.stat # VALID

\* There is a string to write while one is being written.
WriteInv == pc \in {"txWait", "claim", "copy", "txRead", "txWrite"} => strings # <<>>

IInv == TypeOK /\ IndexInv /\ TxInv /\ RxInv /\ WriteInv

-----------------------------------------------------------------------------
(***************************************************************************)
(* Sequences.                                                              *)
(***************************************************************************)
Strings == Seq(Seq(Byte) \ {<<>>})

LEMMA Constants ==
  /\ PackSize \in Nat /\ PackSize >= 1 /\ MaxResets \in Nat
  /\ Input \in Seq(Byte) /\ Len(Input) \in Nat
  /\ AnyByte \in Byte /\ ZeroLength \in BOOLEAN
  /\ \A ch \in Byte : Reply(ch) \in Strings
<1>1. PackSize \in Nat /\ PackSize >= 1 /\ MaxResets \in Nat /\ Input \in Seq(Byte)
      /\ ZeroLength \in BOOLEAN
  BY UsbAssumption
<1>2. Len(Input) \in Nat
  BY <1>1, LenProperties
<1>3. AnyByte \in Byte
  BY UsbAssumption DEF AnyByte
<1>4. \A ch \in Byte : Reply(ch) \in Strings
  BY UsbAssumption DEF Strings
<1> QED BY <1>1, <1>2, <1>3, <1>4

\* A packet is a sequence of at most PackSize bytes.
LEMMA PacketIsSeq ==
  ASSUME NEW p \in Packet
  PROVE  p \in Seq(Byte) /\ Len(p) \in 0 .. PackSize
<1>1. PICK n \in 0 .. PackSize : p \in [1 .. n -> Byte]
  BY DEF Packet
<1>2. n \in Nat
  BY <1>1, Constants
<1>3. p \in Seq(Byte)
  BY <1>1, <1>2, SeqDef
<1>4. Len(p) = n
  BY <1>1, <1>2, <1>3, LenProperties
<1> QED BY <1>3, <1>4

LEMMA SeqIsPacket ==
  ASSUME NEW p \in Seq(Byte), Len(p) <= PackSize
  PROVE  p \in Packet
<1>1. Len(p) \in 0 .. PackSize /\ p \in [1 .. Len(p) -> Byte]
  BY LenProperties, Constants
<1> QED BY <1>1 DEF Packet

LEMMA EmptyPacket == <<>> \in Packet /\ <<>> \in Seq(Byte) /\ <<>> \in Strings
<1> DEFINE e == <<>>
<1>1. e \in Seq(Byte) /\ Len(e) = 0 /\ e \in Strings
  BY EmptySeq DEF Strings
<1> HIDE DEF e
<1>2. Len(e) <= PackSize
  BY <1>1, Constants
<1>3. e \in Packet
  BY <1>1, <1>2, SeqIsPacket
<1> QED BY <1>1, <1>3 DEF e

\* A piece of a sequence of bytes.
LEMMA Piece ==
  ASSUME NEW s \in Seq(Byte), NEW a \in Nat, NEW b \in Nat, a <= b, b <= Len(s)
  PROVE  /\ SubSeq(s, a + 1, b) \in Seq(Byte)
         /\ Len(SubSeq(s, a + 1, b)) = b - a
         /\ \A i \in 1 .. b - a : SubSeq(s, a + 1, b)[i] = s[a + i]
<1>1. \A i \in a + 1 .. b : s[i] \in Byte
  BY ElementOfSeq, LenProperties
<1>2. /\ SubSeq(s, a + 1, b) \in Seq(Byte)
      /\ Len(SubSeq(s, a + 1, b)) = IF a + 1 <= b THEN b - (a + 1) + 1 ELSE 0
      /\ \A i \in 1 .. b - (a + 1) + 1 : SubSeq(s, a + 1, b)[i] = s[a + 1 + i - 1]
  <2>1. a + 1 \in Int /\ b \in Int
    OBVIOUS
  <2> QED BY <1>1, <2>1, SubSeqProperties
<1>3. Len(SubSeq(s, a + 1, b)) = b - a
  BY <1>2
<1>4. b - (a + 1) + 1 = b - a /\ \A i \in Int : a + 1 + i - 1 = a + i
  OBVIOUS
<1>5. \A i \in 1 .. b - a : SubSeq(s, a + 1, b)[i] = s[a + i]
  BY <1>2, <1>4
<1> QED BY <1>2, <1>3, <1>5

\* The string being written, its first packet and what is left of it.
LEMMA HeadString ==
  ASSUME strings \in Strings, strings # <<>>
  PROVE  LET str == Head(strings) IN
         /\ str \in Seq(Byte) /\ str # <<>> /\ Len(str) \in Nat /\ Len(str) >= 1
         /\ PackLen(str) \in 1 .. PackSize /\ PackLen(str) <= Len(str)
         /\ Tail(strings) \in Strings
<1> DEFINE str == Head(strings)
<1>1. str \in Seq(Byte) \ {<<>>} /\ Tail(strings) \in Strings
  BY HeadTailProperties DEF Strings
<1> HIDE DEF str
<1>2. Len(str) \in Nat \ {0}
  BY <1>1, EmptySeq
<1>3. PackLen(str) \in 1 .. PackSize /\ PackLen(str) <= Len(str)
  BY <1>2, Constants DEF PackLen
<1> QED BY <1>1, <1>2, <1>3 DEF str

LEMMA FirstPacket ==
  ASSUME strings \in Strings, strings # <<>>
  PROVE  LET p == SubSeq(Head(strings), 1, PackLen(Head(strings)))
         IN  p \in Packet /\ p \in Seq(Byte) /\ p # <<>>
<1> DEFINE str == Head(strings)
           n   == PackLen(str)
           p   == SubSeq(str, 1, n)
<1>1. str \in Seq(Byte) /\ n \in 1 .. PackSize /\ n <= Len(str) /\ Len(str) \in Nat
  BY HeadString
<1> HIDE DEF str, n
<1>2. SubSeq(str, 0 + 1, n) \in Seq(Byte) /\ Len(SubSeq(str, 0 + 1, n)) = n - 0
  BY <1>1, Constants, Piece
<1>3. p \in Seq(Byte) /\ Len(p) = n
  BY <1>1, <1>2
<1> HIDE DEF p
<1>4. p # <<>>
  <2>1. n # 0
    BY <1>1
  <2> QED BY <1>3, <2>1, EmptySeq
<1>5. p \in Packet
  BY <1>1, <1>3, SeqIsPacket, Constants
<1> QED BY <1>3, <1>4, <1>5 DEF p, n, str

LEMMA AfterPacketType ==
  ASSUME strings \in Strings, strings # <<>>
  PROVE  AfterPacket \in Strings
<1> DEFINE str  == Head(strings)
           n    == PackLen(str)
           rest == SubSeq(str, n + 1, Len(str))
           S    == Seq(Byte) \ {<<>>}
<1>1. str \in Seq(Byte) /\ n \in 1 .. PackSize /\ n <= Len(str) /\ Len(str) \in Nat
      /\ Tail(strings) \in Strings
  BY HeadString
<1> HIDE DEF str, n
<1>2. rest \in Seq(Byte)
  BY <1>1, Constants, Piece
<1> HIDE DEF rest
<1>3. rest # <<>> => <<rest>> \in Seq(S)
  BY <1>2
<1>4. (IF rest = <<>> THEN <<>> ELSE <<rest>>) \in Seq(S)
  BY <1>3, EmptySeq
<1>5. (IF rest = <<>> THEN <<>> ELSE <<rest>>) \o Tail(strings) \in Seq(S)
  <2> DEFINE first == IF rest = <<>> THEN <<>> ELSE <<rest>>
  <2>1. first \in Seq(S) /\ Tail(strings) \in Seq(S)
    BY <1>1, <1>4 DEF Strings
  <2> HIDE DEF first, S
  <2>2. first \o Tail(strings) \in Seq(S)
    BY <2>1, ConcatProperties
  <2> QED BY <2>2 DEF first
<1> QED BY <1>5 DEF AfterPacket, Strings, rest, n, str, S

-----------------------------------------------------------------------------
(***************************************************************************)
(* The invariant, step by step.                                            *)
(***************************************************************************)
LEMMA InitInv == Init => IInv
<1> SUFFICES ASSUME Init PROVE IInv OBVIOUS
<1>1. ep1 \in Endpoint /\ ep3 \in Endpoint /\ stat \in Status /\ ep1.stat = {} /\ ep3.ctr = FALSE
      /\ ep1.ctr = FALSE
  BY EmptyPacket DEF Init, Endpoint, Status, DISABLED
<1>2. rxData \in [1 .. PackSize -> Byte] /\ rxCnt \in 0 .. PackSize /\ rxIdx \in 0 .. PackSize
      /\ reg \in 0 .. PackSize /\ typed \in 0 .. Len(Input) /\ resets \in 0 .. MaxResets
  BY Constants DEF Init
<1>3. strings \in Strings /\ shown \in Seq(Byte)
  BY EmptyPacket DEF Init
<1>4. pc \in Places /\ bus = "detached" /\ ready \in BOOLEAN /\ txDone \in BOOLEAN
      /\ led \in BOOLEAN
  BY DEF Init, Places
<1>5. TypeOK
  BY <1>1, <1>2, <1>3, <1>4 DEF TypeOK, Strings
<1>6. pc = "loop"
  BY DEF Init
<1>7. {} # VALID
  BY DEF VALID
<1> QED BY <1>1, <1>5, <1>6, <1>7 DEF IInv, IndexInv, TxInv, RxInv, WriteInv

LEMMA Fields ==
  ASSUME TypeOK
  PROVE  /\ ep1.stat \in Status /\ ep1.ctr \in BOOLEAN /\ ep1.pma \in Packet
         /\ ep3.stat \in Status /\ ep3.ctr \in BOOLEAN /\ ep3.pma \in Packet
         /\ strings \in Strings
BY DEF TypeOK, Endpoint, Strings

\* A step of the host or the interrupt leaves the main loop alone, but may
\* set the index to 0.
LEMMA OtherStep ==
  ASSUME IInv, UNCHANGED mainVars, rxIdx' = rxIdx \/ rxIdx' = 0,
         bus' \in {"detached", "reset", "default", "configured"}, resets' \in 0 .. MaxResets,
         ready' \in BOOLEAN, txDone' \in BOOLEAN, rxCnt' \in 0 .. PackSize,
         rxData' \in [1 .. PackSize -> Byte], ep1' \in Endpoint, ep3' \in Endpoint,
         typed' \in 0 .. Len(Input), shown' \in Seq(Byte), TxInv', RxInv'
  PROVE  IInv'
<1>1. rxIdx' \in 0 .. PackSize
  BY Constants DEF IInv, TypeOK
<1>2. TypeOK'
  BY <1>1 DEF IInv, TypeOK, mainVars
<1>3. IndexInv'
  BY Constants DEF IInv, TypeOK, IndexInv, mainVars
<1>4. WriteInv'
  BY DEF IInv, WriteInv, mainVars
<1> QED BY <1>2, <1>3, <1>4 DEF IInv

LEMMA StatusValues == {} # VALID /\ NAK # VALID /\ {NAK, VALID, DISABLED} \subseteq Status
BY DEF VALID, NAK, DISABLED, Status

LEMMA BusResetInv == IInv /\ BusReset => IInv'
<1> SUFFICES ASSUME IInv, BusReset PROVE IInv' OBVIOUS
<1>1. ep1' = [ep1 EXCEPT !.stat = {}] /\ ep3' = [ep3 EXCEPT !.stat = {}]
  BY DEF BusReset, DISABLED
<1>2. ep1 \in Endpoint /\ ep3 \in Endpoint
  BY DEF IInv, TypeOK
<1>3. ep1' \in Endpoint /\ ep3' \in Endpoint /\ ep1'.stat = {} /\ ep3'.stat = {}
      /\ ep1'.ctr = ep1.ctr
  BY <1>1, <1>2 DEF Endpoint, Status
<1>4. resets' \in 0 .. MaxResets
  BY Constants DEF BusReset, IInv, TypeOK
<1>5. TxInv' /\ RxInv'
  BY <1>3, StatusValues DEF BusReset, IInv, TxInv, RxInv, driverVars, mainVars
<1> QED BY <1>3, <1>4, <1>5, OtherStep DEF BusReset, driverVars, hostVars, IInv, TypeOK

LEMMA SendPacketInv == IInv /\ SendPacket => IInv'
<1> SUFFICES ASSUME IInv, SendPacket PROVE IInv' OBVIOUS
<1>1. PICK n \in (IF ZeroLength THEN 0 ELSE 1) .. PackSize :
        /\ typed + n <= Len(Input)
        /\ ep3' = [stat |-> NAK, ctr |-> TRUE, pma |-> SubSeq(Input, typed + 1, typed + n)]
        /\ typed' = typed + n
  BY DEF SendPacket
<1>2. n \in 0 .. PackSize /\ typed \in Nat
  BY <1>1, Constants DEF IInv, TypeOK
<1>3. SubSeq(Input, typed + 1, typed + n) \in Packet
  <2>1. typed + n \in Nat /\ typed <= typed + n /\ typed + n - typed = n
    BY <1>2, Constants
  <2>2. SubSeq(Input, typed + 1, typed + n) \in Seq(Byte)
        /\ Len(SubSeq(Input, typed + 1, typed + n)) = n
    BY <1>1, <1>2, <2>1, Piece, Constants
  <2>3. n <= PackSize
    BY <1>2, Constants
  <2> QED BY <2>2, <2>3, SeqIsPacket
<1>4. ep3' \in Endpoint /\ ep3'.stat = NAK
  BY <1>1, <1>3, StatusValues DEF Endpoint
<1>5. typed' \in 0 .. Len(Input)
  BY <1>1, <1>2, Constants
<1>6. TxInv' /\ RxInv'
  BY <1>4, StatusValues DEF SendPacket, IInv, TxInv, RxInv, driverVars, mainVars
<1> QED BY <1>4, <1>5, <1>6, OtherStep DEF SendPacket, driverVars, IInv, TypeOK

LEMMA TakePacketInv == IInv /\ TakePacket => IInv'
<1> SUFFICES ASSUME IInv, TakePacket PROVE IInv' OBVIOUS
<1>1. ep1' = [ep1 EXCEPT !.stat = NAK, !.ctr = TRUE] /\ ep1 \in Endpoint /\ ep1.stat = VALID
  BY DEF TakePacket, IInv, TypeOK
<1>2. ep1' \in Endpoint /\ ep1'.stat = NAK /\ ep1'.ctr = TRUE
  BY <1>1, StatusValues DEF Endpoint
<1>3. shown' \in Seq(Byte)
  <2>1. ep1.pma \in Seq(Byte) /\ shown \in Seq(Byte)
    BY Fields, PacketIsSeq DEF IInv, TypeOK
  <2> QED BY <2>1, ConcatProperties DEF TakePacket
<1>4. TxInv'
  BY <1>1, <1>2, StatusValues DEF TakePacket, IInv, TxInv, driverVars, mainVars
<1>5. RxInv'
  BY DEF TakePacket, IInv, RxInv
<1> QED BY <1>2, <1>3, <1>4, <1>5, OtherStep DEF TakePacket, driverVars, IInv, TypeOK

LEMMA ConfigurationInv ==
  ASSUME IInv, NEW cfg \in Configurations, usb_cdc_set_configuration(cfg)
  PROVE  IInv'
<1>1. TxInv' /\ RxInv'
  BY DEF usb_cdc_set_configuration, IInv, TxInv, RxInv, mainVars
<1>2. ready' \in BOOLEAN
  BY DEF usb_cdc_set_configuration, IInv, TypeOK
<1>3. bus' \in {"detached", "reset", "default", "configured"}
  BY DEF usb_cdc_set_configuration
<1> QED BY <1>1, <1>2, <1>3, OtherStep
        DEF usb_cdc_set_configuration, hostVars, IInv, TypeOK

LEMMA TxFinishInv == IInv /\ usb_cdc_on_tx_finish => IInv'
<1> SUFFICES ASSUME IInv, usb_cdc_on_tx_finish PROVE IInv' OBVIOUS
<1>1. ep1' = [ep1 EXCEPT !.ctr = FALSE] /\ ep1 \in Endpoint /\ ep1.ctr
  BY DEF usb_cdc_on_tx_finish, IInv, TypeOK
<1>2. ep1' \in Endpoint /\ ep1'.stat = ep1.stat /\ ep1'.ctr = FALSE
  BY <1>1 DEF Endpoint
<1>3. TxInv' /\ RxInv'
  BY <1>1, <1>2 DEF usb_cdc_on_tx_finish, IInv, TxInv, RxInv, mainVars
<1> QED BY <1>2, <1>3, OtherStep DEF usb_cdc_on_tx_finish, hostVars, IInv, TypeOK

LEMMA RxDataInv == IInv /\ usb_cdc_on_rx_data => IInv'
<1> SUFFICES ASSUME IInv, usb_cdc_on_rx_data PROVE IInv' OBVIOUS
<1>1. ep3.pma \in Seq(Byte) /\ Len(ep3.pma) \in 0 .. PackSize
  BY Fields, PacketIsSeq DEF IInv
<1>2. rxCnt' \in 0 .. PackSize /\ rxIdx' = 0
  BY <1>1 DEF usb_cdc_on_rx_data
<1>3. rxData' \in [1 .. PackSize -> Byte]
  <2>1. \A i \in 1 .. PackSize : i <= Len(ep3.pma) => ep3.pma[i] \in Byte
    BY <1>1, ElementOfSeq, Constants
  <2>2. \A i \in 1 .. PackSize : rxData[i] \in Byte
    BY DEF IInv, TypeOK
  <2> QED BY <2>1, <2>2 DEF usb_cdc_on_rx_data
<1>4. ep3' \in Endpoint /\ ep3'.ctr = FALSE
  <2>1. \E st \in Status : ep3' = [ep3 EXCEPT !.ctr = FALSE, !.stat = st]
    <3>1. ep3.stat \in Status /\ VALID \in Status
      BY Fields, StatusValues DEF IInv
    <3> QED BY <3>1 DEF usb_cdc_on_rx_data
  <2>2. ep3 \in Endpoint
    BY DEF IInv, TypeOK
  <2> QED BY <2>1, <2>2 DEF Endpoint
<1>5. TxInv' /\ RxInv'
  BY <1>4 DEF usb_cdc_on_rx_data, IInv, TxInv, RxInv, mainVars
<1> QED BY <1>2, <1>3, <1>4, <1>5, OtherStep DEF usb_cdc_on_rx_data, hostVars, IInv, TypeOK

LEMMA ResetInv == IInv /\ usb_cdc_reset => IInv'
<1> SUFFICES ASSUME IInv, usb_cdc_reset PROVE IInv' OBVIOUS
<1>1. ep1' = [ep1 EXCEPT !.stat = NAK] /\ ep3' = [ep3 EXCEPT !.stat = VALID]
      /\ ep1 \in Endpoint /\ ep3 \in Endpoint /\ ~ep1.ctr /\ ~ep3.ctr
  BY DEF usb_cdc_reset, IInv, TypeOK
<1>2. ep1' \in Endpoint /\ ep3' \in Endpoint /\ ep1'.stat = NAK
      /\ (ep1'.ctr <=> ep1.ctr) /\ (ep3'.ctr <=> ep3.ctr)
  BY <1>1, StatusValues DEF Endpoint
<1>3. TxInv' /\ RxInv'
  BY <1>1, <1>2, StatusValues DEF usb_cdc_reset, IInv, TxInv, RxInv, mainVars
<1> QED BY <1>2, <1>3, OtherStep DEF usb_cdc_reset, hostVars, IInv, TypeOK

\* A step of the main loop leaves the bus and the host alone.
LEMMA MainStep ==
  ASSUME IInv, UNCHANGED <<bus, resets, hostVars, ready, rxCnt, rxData>>,
         pc' \in Places, reg' \in 0 .. PackSize, rxIdx' \in 0 .. PackSize,
         stat' \in Status, strings' \in Strings, led' \in BOOLEAN, txDone' \in BOOLEAN,
         ep1' \in Endpoint, ep3' \in Endpoint,
         IndexInv', TxInv', RxInv', WriteInv'
  PROVE  IInv'
<1>1. TypeOK'
  BY DEF IInv, TypeOK, hostVars, Strings
<1> QED BY <1>1 DEF IInv

LEMMA SetLedInv == IInv /\ SetLed /\ UNCHANGED <<bus, resets, hostVars>> => IInv'
<1> SUFFICES ASSUME IInv, SetLed, UNCHANGED <<bus, resets, hostVars>> PROVE IInv' OBVIOUS
<1>1. pc' \in {"ledOn", "ledOff", "getChar", "loop"} /\ led' \in BOOLEAN
  BY DEF SetLed, Goto, IInv, TypeOK
<1>2. UNCHANGED <<driverVars, ep1, ep3, reg, stat, strings>>
  BY DEF SetLed
<1>3. IndexInv' /\ TxInv' /\ RxInv' /\ WriteInv'
  BY <1>1, <1>2 DEF IInv, IndexInv, TxInv, RxInv, WriteInv, driverVars
<1> QED BY <1>1, <1>2, <1>3, MainStep DEF driverVars, IInv, TypeOK, Strings, Places

LEMMA EnterGetCharInv == IInv /\ EnterGetChar /\ UNCHANGED <<bus, resets, hostVars>> => IInv'
<1> SUFFICES ASSUME IInv, EnterGetChar, UNCHANGED <<bus, resets, hostVars>> PROVE IInv' OBVIOUS
<1>1. pc' \in {"wait", "loop"} /\ UNCHANGED <<driverVars, ep1, ep3, reg, stat, strings, led>>
  BY DEF EnterGetChar, Goto
<1>2. IndexInv' /\ TxInv' /\ RxInv' /\ WriteInv'
  BY <1>1 DEF IInv, IndexInv, TxInv, RxInv, WriteInv, driverVars
<1> QED BY <1>1, <1>2, MainStep DEF driverVars, IInv, TypeOK, Strings, Places

LEMMA WaitInv == IInv /\ WaitForByte /\ UNCHANGED <<bus, resets, hostVars>> => IInv'
<1> SUFFICES ASSUME IInv, WaitForByte, UNCHANGED <<bus, resets, hostVars>> PROVE IInv' OBVIOUS
<1>0. UNCHANGED <<driverVars, ep1, ep3, stat, strings, led>>
  BY DEF WaitForByte
<1>1. \/ pc' = "waitIdx" /\ reg' = rxCnt
      \/ pc' = "waitCnt" /\ reg' = rxIdx
      \/ pc = "waitIdx" /\ pc' = (IF reg <= rxIdx THEN "wait" ELSE "fetch") /\ reg' = reg
      \/ pc = "waitCnt" /\ pc' = (IF rxCnt <= reg THEN "wait" ELSE "fetch") /\ reg' = reg
  BY DEF WaitForByte, CompareFrom, Compared, Goto, Waiting
<1>2. reg' \in 0 .. PackSize /\ pc' \in {"wait", "waitIdx", "waitCnt", "fetch"}
  BY <1>1 DEF IInv, TypeOK
<1>3. IndexInv'
  <2>1. /\ rxCnt \in 0 .. PackSize /\ rxIdx \in 0 .. PackSize /\ reg \in 0 .. PackSize
        /\ rxIdx' = rxIdx /\ rxCnt' = rxCnt
    BY <1>0 DEF IInv, TypeOK, driverVars
  <2>2. pc = "waitCnt" => rxIdx <= reg
    BY DEF IInv, IndexInv
  <2> QED BY <1>1, <2>1, <2>2, Constants DEF IndexInv
<1>4. TxInv' /\ RxInv' /\ WriteInv'
  BY <1>0, <1>2 DEF IInv, TxInv, RxInv, WriteInv, driverVars
<1> QED BY <1>0, <1>2, <1>3, <1>4, MainStep DEF driverVars, IInv, TypeOK, Strings, Places

LEMMA FetchInv == IInv /\ FetchByte /\ UNCHANGED <<bus, resets, hostVars>> => IInv'
<1> SUFFICES ASSUME IInv, FetchByte, UNCHANGED <<bus, resets, hostVars>> PROVE IInv' OBVIOUS
<1>0. UNCHANGED <<driverVars, ep1, ep3, stat, led>>
  BY DEF FetchByte
<1>1. \/ pc = "fetch" /\ pc' = "load" /\ reg' = rxIdx /\ strings' = strings
      \/ pc = "load" /\ pc' = "incr" /\ reg' = reg /\ strings' = Reply(rxData[reg + 1])
  BY DEF FetchByte, Goto
<1>2. reg' \in 0 .. PackSize /\ pc' \in {"load", "incr"}
  BY <1>1 DEF IInv, TypeOK
<1>3. strings' \in Strings
  <2>1. CASE pc = "load" /\ strings' = Reply(rxData[reg + 1])
    <3>1. reg \in 0 .. PackSize /\ reg < PackSize
      BY <2>1 DEF IInv, TypeOK, IndexInv
    <3>2. rxData[reg + 1] \in Byte
      BY <3>1, Constants DEF IInv, TypeOK
    <3> QED BY <2>1, <3>2, Constants
  <2> QED BY <1>1, <2>1, Fields DEF IInv
<1>4. IndexInv'
  BY <1>0, <1>1 DEF IInv, IndexInv, driverVars
<1>5. TxInv' /\ RxInv' /\ WriteInv'
  BY <1>0, <1>2 DEF IInv, TxInv, RxInv, WriteInv, driverVars
<1> QED BY <1>0, <1>2, <1>3, <1>4, <1>5, MainStep DEF driverVars, IInv, TypeOK, Places

LEMMA IncrementInv == IInv /\ IncrementIndex /\ UNCHANGED <<bus, resets, hostVars>> => IInv'
<1> SUFFICES ASSUME IInv, IncrementIndex, UNCHANGED <<bus, resets, hostVars>> PROVE IInv' OBVIOUS
<1>0. UNCHANGED <<ready, rxCnt, rxData, txDone, ep1, ep3, stat, strings, led>>
  BY DEF IncrementIndex
<1>1. \/ pc = "incr" /\ pc' = "store" /\ reg' = rxIdx /\ rxIdx' = rxIdx
      \/ pc = "store" /\ pc' = "last" /\ reg' = reg /\ rxIdx' = reg + 1
  BY DEF IncrementIndex, Goto
<1>2. reg' \in 0 .. PackSize /\ rxIdx' \in 0 .. PackSize /\ pc' \in {"store", "last"}
  BY <1>1, Constants DEF IInv, TypeOK, IndexInv
<1>3. IndexInv'
  BY <1>0, <1>1 DEF IInv, IndexInv
<1>4. TxInv' /\ RxInv' /\ WriteInv'
  BY <1>0, <1>2 DEF IInv, TxInv, RxInv, WriteInv
<1> QED BY <1>0, <1>2, <1>3, <1>4, MainStep DEF IInv, TypeOK, Strings, Places

LEMMA LastByteInv == IInv /\ CheckLastByte /\ UNCHANGED <<bus, resets, hostVars>> => IInv'
<1> SUFFICES ASSUME IInv, CheckLastByte, UNCHANGED <<bus, resets, hostVars>> PROVE IInv' OBVIOUS
<1>0. UNCHANGED <<driverVars, ep1, ep3, stat, strings, led>>
  BY DEF CheckLastByte
<1>1. pc' \in {"lastIdx", "lastCnt", "rxRead", "put"} /\ reg' \in {rxCnt, rxIdx, reg}
  BY DEF CheckLastByte, CompareFrom, Compared, Goto, Last
<1>2. reg' \in 0 .. PackSize
  BY <1>1 DEF IInv, TypeOK
<1>3. IndexInv' /\ TxInv' /\ RxInv' /\ WriteInv'
  BY <1>0, <1>1 DEF IInv, IndexInv, TxInv, RxInv, WriteInv, driverVars
<1> QED BY <1>0, <1>1, <1>2, <1>3, MainStep DEF driverVars, IInv, TypeOK, Strings, Places

LEMMA ToggleType ==
  ASSUME NEW a \in Status, NEW b \in Status
  PROVE  Toggle(a, b, VALID) \in Status /\ (a = b => Toggle(a, b, VALID) = VALID)
BY DEF Toggle, Differ, Status, VALID

LEMMA RxValidInv ==
  IInv /\ ~InterruptPending /\ SetEPRxValid /\ UNCHANGED <<bus, resets, hostVars>> => IInv'
<1> SUFFICES ASSUME IInv, ~InterruptPending, SetEPRxValid, UNCHANGED <<bus, resets, hostVars>>
             PROVE  IInv'
  OBVIOUS
<1>0. UNCHANGED <<driverVars, ep1, reg, strings, led>>
  BY DEF SetEPRxValid
<1>1. ep3 \in Endpoint /\ ep3.stat \in Status /\ stat \in Status /\ ~ep3.ctr
  BY Fields DEF InterruptPending, IInv, TypeOK
<1>2. \/ pc' = "rxWrite" /\ stat' = ep3.stat /\ ep3' = ep3
      \/ pc' = "put" /\ stat' = stat /\ \E st \in Status : ep3' = [ep3 EXCEPT !.stat = st]
  BY <1>1, ToggleType DEF SetEPRxValid, Goto
<1>3. pc' \in {"rxWrite", "put"} /\ stat' \in Status
  BY <1>1, <1>2
<1>4. ep3' \in Endpoint /\ ~ep3'.ctr
  BY <1>1, <1>2 DEF Endpoint
<1>5. IndexInv' /\ TxInv' /\ RxInv' /\ WriteInv'
  BY <1>0, <1>3, <1>4 DEF IInv, IndexInv, TxInv, RxInv, WriteInv, driverVars
<1> QED BY <1>0, <1>3, <1>4, <1>5, MainStep DEF driverVars, IInv, TypeOK, Strings, Places

LEMMA NextStringInv == IInv /\ NextString /\ UNCHANGED <<bus, resets, hostVars>> => IInv'
<1> SUFFICES ASSUME IInv, NextString, UNCHANGED <<bus, resets, hostVars>> PROVE IInv' OBVIOUS
<1>0. UNCHANGED <<driverVars, ep1, ep3, reg, stat, led>>
  BY DEF NextString
<1>1. \/ pc' = "loop" /\ strings' = strings
      \/ pc' = "txWait" /\ strings # <<>> /\ strings' = strings
      \/ pc' = "put" /\ strings # <<>> /\ strings' = Tail(strings)
  BY DEF NextString, Goto
<1>2. strings \in Strings /\ (strings # <<>> => Tail(strings) \in Strings)
  BY Fields, HeadString DEF IInv
<1>3. strings' \in Strings /\ pc' \in {"loop", "txWait", "put"}
  BY <1>1, <1>2
<1>4. WriteInv'
  BY <1>1 DEF WriteInv
<1>5. IndexInv' /\ TxInv' /\ RxInv'
  BY <1>0, <1>3 DEF IInv, IndexInv, TxInv, RxInv, driverVars
<1> QED BY <1>0, <1>3, <1>4, <1>5, MainStep DEF driverVars, IInv, TypeOK, Places

LEMMA ClaimInv == IInv /\ ClaimTx /\ UNCHANGED <<bus, resets, hostVars>> => IInv'
<1> SUFFICES ASSUME IInv, ClaimTx, UNCHANGED <<bus, resets, hostVars>> PROVE IInv' OBVIOUS
<1>0. UNCHANGED <<ready, rxCnt, rxIdx, rxData, ep1, ep3, reg, stat, strings, led>>
  BY DEF ClaimTx
<1>1. \/ pc = "txWait" /\ pc' = "claim" /\ txDone /\ txDone' = txDone
      \/ pc = "claim" /\ pc' = "copy" /\ txDone' = FALSE
  BY DEF ClaimTx, Goto
<1>2. pc' \in {"claim", "copy"} /\ txDone' \in BOOLEAN
  BY <1>1 DEF IInv, TypeOK
<1>3. IndexInv' /\ RxInv' /\ WriteInv'
  BY <1>0, <1>1, <1>2 DEF IInv, IndexInv, RxInv, WriteInv
<1>4. TxInv'
  BY <1>0, <1>1 DEF IInv, TxInv
<1> QED BY <1>0, <1>2, <1>3, <1>4, MainStep DEF IInv, TypeOK, Strings, Places

LEMMA CopyInv == IInv /\ CopyPacket /\ UNCHANGED <<bus, resets, hostVars>> => IInv'
<1> SUFFICES ASSUME IInv, CopyPacket, UNCHANGED <<bus, resets, hostVars>> PROVE IInv' OBVIOUS
<1> DEFINE p == SubSeq(Head(strings), 1, PackLen(Head(strings)))
<1>0. UNCHANGED <<driverVars, ep3, reg, stat, strings, led>> /\ pc = "copy" /\ pc' = "txRead"
      /\ ep1' = [ep1 EXCEPT !.pma = p]
  BY DEF CopyPacket, Goto
<1>1. strings \in Strings /\ strings # <<>>
  BY <1>0, Fields DEF IInv, WriteInv
<1>2. p \in Packet
  BY <1>1, FirstPacket
<1> HIDE DEF p
<1>3. ep1' \in Endpoint /\ ep1'.stat = ep1.stat /\ ep1'.ctr = ep1.ctr
  BY <1>0, <1>2 DEF IInv, TypeOK, Endpoint
<1>4. IndexInv' /\ TxInv' /\ RxInv' /\ WriteInv'
  BY <1>0, <1>3 DEF IInv, IndexInv, TxInv, RxInv, WriteInv, driverVars
<1> QED BY <1>0, <1>1, <1>3, <1>4, MainStep DEF driverVars, IInv, TypeOK, Places

LEMMA TxValidInv == IInv /\ SetEPTxValid /\ UNCHANGED <<bus, resets, hostVars>> => IInv'
<1> SUFFICES ASSUME IInv, SetEPTxValid, UNCHANGED <<bus, resets, hostVars>> PROVE IInv' OBVIOUS
<1>0. UNCHANGED <<driverVars, ep3, reg, led>>
  BY DEF SetEPTxValid
<1>1. ep1 \in Endpoint /\ ep1.stat \in Status /\ stat \in Status
  BY Fields DEF IInv, TypeOK
<1>2. \/ pc = "txRead" /\ pc' = "txWrite" /\ stat' = ep1.stat /\ ep1' = ep1 /\ strings' = strings
      \/ pc = "txWrite" /\ pc' = "put" /\ stat' = stat /\ strings' = AfterPacket
         /\ \E st \in Status : ep1' = [ep1 EXCEPT !.stat = st]
  BY <1>1, ToggleType DEF SetEPTxValid, Goto
<1>3. pc' \in {"txWrite", "put"} /\ stat' \in Status
  BY <1>1, <1>2
<1>4. ep1' \in Endpoint /\ ep1'.ctr = ep1.ctr /\ (pc = "txRead" => ep1' = ep1)
  BY <1>1, <1>2 DEF Endpoint
<1>5. strings \in Strings /\ strings # <<>>
  BY <1>2, Fields DEF IInv, WriteInv
<1>6. strings' \in Strings
  BY <1>2, <1>5, AfterPacketType
<1>7. IndexInv' /\ TxInv' /\ RxInv' /\ WriteInv'
  BY <1>0, <1>2, <1>4 DEF IInv, IndexInv, TxInv, RxInv, WriteInv, driverVars
<1> QED BY <1>0, <1>3, <1>4, <1>6, <1>7, MainStep DEF driverVars, IInv, TypeOK, Places

LEMMA StutterInv == IInv /\ UNCHANGED vars => IInv'
BY DEF IInv, TypeOK, IndexInv, TxInv, RxInv, WriteInv, vars, driverVars, mainVars, hostVars

LEMMA StepInv == IInv /\ [Next]_vars => IInv'
BY BusResetInv, SendPacketInv, TakePacketInv, ConfigurationInv, TxFinishInv, RxDataInv, ResetInv,
   SetLedInv, EnterGetCharInv, WaitInv, FetchInv, IncrementInv, LastByteInv, RxValidInv,
   NextStringInv, ClaimInv, CopyInv, TxValidInv, StutterInv
   DEF Next, Host, Interrupt, Main, usb_cdc_get_char, usb_cdc_write

LEMMA Invariance == DeviceSpec => []IInv
BY InitInv, StepInv, PTL DEF DeviceSpec

\* Every variable keeps the type of its C object, whatever the host sends,
\* empty packets included, and however often the bus is reset.
THEOREM TypeCorrect == DeviceSpec => []TypeOK
<1>1. IInv => TypeOK
  BY DEF IInv
<1> QED BY <1>1, Invariance, PTL

\* usb_cdc_get_char stays within usb_cdc_rx_data wherever the interrupt cuts
\* in between its comparison, its load and its increment.
THEOREM IndexInBoundsHolds == DeviceSpec => []IndexInBounds
<1>1. IInv => IndexInBounds
  BY DEF IInv, IndexInv, IndexInBounds
<1> QED BY <1>1, Invariance, PTL

\* The core and the bus never use the same packet memory at once.
THEOREM PacketMemoryOwnedHolds == DeviceSpec => []PacketMemoryOwned
<1>1. IInv => PacketMemoryOwned
  BY DEF IInv, TxInv, RxInv, PacketMemoryOwned
<1> QED BY <1>1, Invariance, PTL

-----------------------------------------------------------------------------
(***************************************************************************)
(* The line that stays up: why it implements Terminal.                     *)
(***************************************************************************)
Steady == MaxResets = 1 /\ ~ZeroLength

\* Only the reset on attachment happens, so a line once ready stays ready,
\* and the main loop is past its LED only on such a line.
BusInv ==
  /\ bus # "detached" => resets = 1
  /\ ready => bus \in {"default", "configured"}
  /\ bus = "configured" => ready
  /\ pc \notin {"loop", "ledOff"} => ready

\* The places between a byte found and the endpoint opened again.
Consuming == {"fetch", "load", "incr", "store", "last", "lastIdx", "lastCnt", "rxRead", "rxWrite"}

\* The endpoint is open only when the last packet is used up; until then the
\* counters are the main loop's, and what it has loaded of them is current.
\* Before the line is ready nothing has been received or sent.
RxFlow ==
  /\ ~ready => rxCnt = 0 /\ rxIdx = 0 /\ ~ep3.ctr /\ ~ep1.ctr /\ ep1.stat # VALID
  /\ ep3.stat = VALID => rxCnt <= Taken
  /\ ep3.ctr => ep3.pma # <<>>
  /\ pc \in Consuming => ep3.stat # VALID /\ ~ep3.ctr
  /\ pc \in {"fetch", "load", "incr", "store"} => rxIdx < rxCnt
  /\ pc \in {"load", "store"} => reg = rxIdx
  /\ pc = "waitIdx" /\ rxIdx < reg => rxIdx < rxCnt
  /\ pc = "lastIdx" => reg = rxCnt
  /\ pc = "lastCnt" => reg = rxIdx
  /\ pc \in {"rxRead", "rxWrite"} => rxCnt <= rxIdx

\* The next byte is read when the answer to the last one is written, and the
\* packet memory holds what is to be sent when the endpoint is opened.
Writing == {"put", "txWait", "claim", "copy", "txRead", "txWrite"}
Answering == Writing \cup {"incr", "store", "last", "lastIdx", "lastCnt", "rxRead", "rxWrite"}
FirstPiece == SubSeq(Head(strings), 1, PackLen(Head(strings)))
TxFlow ==
  /\ pc \notin Answering => strings = <<>>
  /\ pc \in {"txRead", "txWrite"} => ep1.pma = FirstPiece
  /\ pc = "txWrite" => stat = ep1.stat
  /\ ep1.stat = VALID => ep1.pma # <<>>

LineInv == IInv /\ BusInv /\ RxFlow /\ TxFlow

Numbers == rxCnt \in Nat /\ rxIdx \in Nat /\ reg \in Nat /\ typed \in Nat
LEMMA NumbersType == IInv => Numbers
BY Constants DEF IInv, TypeOK, Numbers

LEMMA InitLine == Init => LineInv
<1> SUFFICES ASSUME Init PROVE LineInv OBVIOUS
<1>1. pc = "loop" /\ bus = "detached" /\ ready = FALSE /\ rxCnt = 0 /\ rxIdx = 0
      /\ strings = <<>> /\ ep1.stat = {} /\ ep3.stat = {} /\ ep1.ctr = FALSE /\ ep3.ctr = FALSE
  BY DEF Init, DISABLED
<1> QED BY <1>1, InitInv, StatusValues DEF LineInv, BusInv, RxFlow, TxFlow, Consuming, Answering,
           Writing

LEMMA BusResetLine == ASSUME Steady, LineInv, BusReset PROVE BusInv' /\ RxFlow' /\ TxFlow'
<1>1. bus = "detached" /\ ~ready /\ pc \in {"loop", "ledOff"} /\ resets' = 1
  BY Constants DEF BusReset, LineInv, BusInv, Steady, IInv, TypeOK
<1>2. bus' = "reset" /\ UNCHANGED <<driverVars, mainVars>>
      /\ ep1' = [ep1 EXCEPT !.stat = {}] /\ ep3' = [ep3 EXCEPT !.stat = {}]
      /\ ep1 \in Endpoint /\ ep3 \in Endpoint
  BY DEF BusReset, DISABLED, LineInv, IInv, TypeOK
<1>3. ep1'.stat = {} /\ ep3'.stat = {} /\ ep1'.ctr = ep1.ctr /\ ep3'.ctr = ep3.ctr
      /\ ep3'.pma = ep3.pma
  BY <1>2 DEF Endpoint
<1>4. BusInv'
  BY <1>1, <1>2 DEF BusInv, driverVars, mainVars
<1>5. RxFlow'
  BY <1>1, <1>2, <1>3, StatusValues DEF LineInv, RxFlow, Consuming, driverVars, mainVars
<1>6. TxFlow'
  BY <1>1, <1>2, <1>3, StatusValues DEF LineInv, TxFlow, mainVars
<1> QED BY <1>4, <1>5, <1>6

\* A packet the host sends while the endpoint is open.
LEMMA SentPacket ==
  ASSUME Steady, LineInv, SendPacket
  PROVE  \E n \in 1 .. PackSize :
           /\ typed + n <= Len(Input) /\ typed' = typed + n
           /\ ep3' = [stat |-> NAK, ctr |-> TRUE, pma |-> SubSeq(Input, typed + 1, typed + n)]
           /\ SubSeq(Input, typed + 1, typed + n) # <<>>
<1>1. PICK n \in 1 .. PackSize :
        /\ typed + n <= Len(Input) /\ typed' = typed + n
        /\ ep3' = [stat |-> NAK, ctr |-> TRUE, pma |-> SubSeq(Input, typed + 1, typed + n)]
  BY DEF SendPacket, Steady
<1>2. typed \in Nat /\ n \in Nat /\ n >= 1
  BY <1>1, NumbersType, Constants DEF LineInv, Numbers
<1>3. typed + n \in Nat /\ typed <= typed + n /\ typed + n - typed = n
  BY <1>2
<1> DEFINE p == SubSeq(Input, typed + 1, typed + n)
<1>4. p \in Seq(Byte) /\ Len(p) = n
  BY <1>1, <1>2, <1>3, Piece, Constants
<1> HIDE DEF p
<1>5. p # <<>>
  BY <1>2, <1>4, EmptySeq
<1> QED BY <1>1, <1>5 DEF p

LEMMA SendPacketLine == ASSUME Steady, LineInv, SendPacket PROVE BusInv' /\ RxFlow' /\ TxFlow'
<1>1. UNCHANGED <<bus, resets, driverVars, ep1, mainVars>> /\ ep3.stat = VALID /\ ready
  BY DEF SendPacket, LineInv, BusInv
<1>2. pc \notin Consuming
  BY <1>1 DEF LineInv, RxFlow
<1>3. ep3'.stat = NAK /\ ep3'.pma # <<>>
  <2>1. PICK n \in 1 .. PackSize :
          /\ ep3' = [stat |-> NAK, ctr |-> TRUE, pma |-> SubSeq(Input, typed + 1, typed + n)]
          /\ SubSeq(Input, typed + 1, typed + n) # <<>>
    BY SentPacket
  <2> QED BY <2>1
<1>4. BusInv' /\ TxFlow'
  BY <1>1 DEF LineInv, BusInv, TxFlow, FirstPiece, driverVars, mainVars
<1>5. RxFlow'
  BY <1>1, <1>2, <1>3, StatusValues DEF LineInv, RxFlow, driverVars, mainVars
<1> QED BY <1>4, <1>5

LEMMA TakePacketLine == ASSUME LineInv, TakePacket PROVE BusInv' /\ RxFlow' /\ TxFlow'
<1>1. UNCHANGED <<bus, resets, driverVars, ep3, mainVars>> /\ ep1.stat = VALID /\ ready
      /\ ep1' = [ep1 EXCEPT !.stat = NAK, !.ctr = TRUE] /\ ep1 \in Endpoint
  BY DEF TakePacket, LineInv, BusInv, IInv, TypeOK
<1>2. pc \notin {"txRead", "txWrite"}
  BY <1>1 DEF LineInv, IInv, TxInv
<1>3. ep1'.stat = NAK
  BY <1>1 DEF Endpoint
<1>4. BusInv' /\ TxFlow'
  BY <1>1, <1>2, <1>3, StatusValues DEF LineInv, BusInv, TxFlow, driverVars, mainVars
<1>5. RxFlow'
  BY <1>1 DEF LineInv, RxFlow, Taken, driverVars, mainVars
<1> QED BY <1>4, <1>5

LEMMA ConfigurationLine ==
  ASSUME LineInv, NEW cfg \in Configurations, usb_cdc_set_configuration(cfg)
  PROVE  BusInv' /\ RxFlow' /\ TxFlow'
<1>1. UNCHANGED <<resets, rxCnt, rxIdx, rxData, txDone, ep1, ep3, mainVars>>
      /\ bus \in {"default", "configured"} /\ bus' \in {"default", "configured"}
      /\ (bus' = "configured" => ready') /\ (ready => ready')
  BY DEF usb_cdc_set_configuration
<1>2. BusInv' /\ TxFlow'
  BY <1>1 DEF LineInv, BusInv, TxFlow, FirstPiece, mainVars
<1>3. RxFlow'
  BY <1>1 DEF LineInv, RxFlow, Taken, mainVars
<1> QED BY <1>2, <1>3

LEMMA TxFinishLine == ASSUME LineInv, usb_cdc_on_tx_finish PROVE BusInv' /\ RxFlow' /\ TxFlow'
<1>1. UNCHANGED <<bus, resets, ready, rxCnt, rxIdx, rxData, ep3, mainVars>>
      /\ ep1' = [ep1 EXCEPT !.ctr = FALSE] /\ ep1 \in Endpoint
  BY DEF usb_cdc_on_tx_finish, LineInv, IInv, TypeOK
<1>2. ep1'.stat = ep1.stat /\ ep1'.ctr = FALSE /\ ep1'.pma = ep1.pma
  BY <1>1 DEF Endpoint
<1>3. BusInv' /\ TxFlow'
  BY <1>1, <1>2 DEF LineInv, BusInv, TxFlow, FirstPiece, mainVars
<1>4. RxFlow'
  BY <1>1, <1>2 DEF LineInv, RxFlow, Taken, mainVars
<1> QED BY <1>3, <1>4

LEMMA RxDataLine == ASSUME LineInv, usb_cdc_on_rx_data PROVE BusInv' /\ RxFlow' /\ TxFlow'
<1>1. UNCHANGED <<bus, resets, ready, txDone, ep1, mainVars>> /\ ep3.ctr /\ rxIdx' = 0
      /\ rxCnt' = Len(ep3.pma) /\ ep3 \in Endpoint
  BY DEF usb_cdc_on_rx_data, LineInv, IInv, TypeOK
<1>2. pc \notin Consuming /\ ready /\ ep3.stat # VALID /\ ep3.pma # <<>>
  BY <1>1 DEF LineInv, RxFlow, IInv, RxInv
<1>3. rxCnt' \in Nat /\ rxCnt' > 0
  <2>1. ep3.pma \in Seq(Byte)
    BY Fields, PacketIsSeq DEF LineInv, IInv
  <2> QED BY <1>1, <1>2, <2>1, EmptySeq
<1>4. ep3'.stat # VALID /\ ~ep3'.ctr
  <2>1. rxCnt' # 0
    BY <1>3
  <2>2. \E st : st = ep3.stat /\ ep3' = [ep3 EXCEPT !.ctr = FALSE, !.stat = st]
    BY <2>1 DEF usb_cdc_on_rx_data
  <2> QED BY <1>1, <1>2, <2>2 DEF Endpoint
<1>5. BusInv' /\ TxFlow'
  BY <1>1 DEF LineInv, BusInv, TxFlow, FirstPiece, mainVars
<1>6. RxFlow'
  <2>1. pc \notin {"fetch", "load", "incr", "store", "lastIdx", "lastCnt", "rxRead", "rxWrite"}
    BY <1>2 DEF Consuming
  <2> QED BY <1>1, <1>2, <1>3, <1>4, <2>1 DEF RxFlow, mainVars
<1> QED BY <1>5, <1>6

LEMMA ResetLine == ASSUME LineInv, usb_cdc_reset PROVE BusInv' /\ RxFlow' /\ TxFlow'
<1>1. ~ready /\ pc \in {"loop", "ledOff"}
  BY DEF usb_cdc_reset, LineInv, BusInv
<1>2. UNCHANGED <<resets, rxCnt, rxIdx, rxData, txDone, mainVars>> /\ bus = "reset"
      /\ bus' = "default" /\ ready' = FALSE /\ ep1' = [ep1 EXCEPT !.stat = NAK]
      /\ ep3' = [ep3 EXCEPT !.stat = VALID] /\ ep1 \in Endpoint /\ ep3 \in Endpoint
  BY DEF usb_cdc_reset, LineInv, IInv, TypeOK
<1>3. ep1'.stat = NAK /\ ep1'.ctr = ep1.ctr /\ ep3'.ctr = ep3.ctr /\ ep3'.pma = ep3.pma
  BY <1>2 DEF Endpoint
<1>4. BusInv'
  BY <1>1, <1>2 DEF LineInv, BusInv, mainVars
<1>5. RxFlow'
  <2>1. rxCnt' = 0 /\ rxIdx' = 0 /\ pc' \in {"loop", "ledOff"}
    BY <1>1, <1>2 DEF LineInv, RxFlow, mainVars
  <2> QED BY <1>1, <1>3, <2>1, StatusValues DEF LineInv, RxFlow, Taken, Consuming
<1>6. TxFlow'
  BY <1>1, <1>2, <1>3, StatusValues DEF LineInv, TxFlow, mainVars
<1> QED BY <1>4, <1>5, <1>6

\* The main loop runs with no interrupt pending, and beyond its LED on a
\* ready line only.
LEMMA MainLine ==
  ASSUME LineInv, ~InterruptPending, UNCHANGED <<bus, resets, ready>>,
         pc' \in {"loop", "ledOff"} \/ ready
  PROVE  BusInv' /\ ~ep1.ctr /\ ~ep3.ctr
BY DEF InterruptPending, LineInv, BusInv

Rest == UNCHANGED <<bus, resets, hostVars>>

LEMMA LedLine ==
  ASSUME LineInv, ~InterruptPending, Rest, SetLed \/ EnterGetChar
  PROVE  BusInv' /\ RxFlow' /\ TxFlow'
<1>1. UNCHANGED <<driverVars, ep1, ep3, reg, stat, strings>>
  BY DEF SetLed, EnterGetChar
<1>2. /\ pc \in {"loop", "ledOn", "ledOff", "getChar"}
      /\ pc' \in {"loop", "ledOn", "ledOff", "getChar", "wait"}
      /\ pc' \in {"loop", "ledOff"} \/ ready
  BY DEF SetLed, EnterGetChar, Goto, LineInv, BusInv
<1>3. BusInv'
  BY <1>1, <1>2, MainLine DEF driverVars, Rest
<1>4. RxFlow'
  BY <1>1, <1>2 DEF LineInv, RxFlow, Taken, Consuming, driverVars
<1>5. TxFlow'
  BY <1>1, <1>2 DEF LineInv, TxFlow, Answering, Writing
<1> QED BY <1>3, <1>4, <1>5

LEMMA WaitLine ==
  ASSUME LineInv, ~InterruptPending, Rest, WaitForByte
  PROVE  BusInv' /\ RxFlow' /\ TxFlow'
<1>1. UNCHANGED <<driverVars, ep1, ep3, stat, strings, led>>
  BY DEF WaitForByte
<1>2. \/ pc = "wait" /\ pc' = "waitIdx" /\ reg' = rxCnt
      \/ pc = "wait" /\ pc' = "waitCnt" /\ reg' = rxIdx
      \/ pc = "waitIdx" /\ pc' = (IF reg <= rxIdx THEN "wait" ELSE "fetch") /\ reg' = reg
      \/ pc = "waitCnt" /\ pc' = (IF rxCnt <= reg THEN "wait" ELSE "fetch") /\ reg' = reg
  BY DEF WaitForByte, CompareFrom, Compared, Goto, Waiting
<1>3. pc \in {"wait", "waitIdx", "waitCnt"} /\ pc' \in {"wait", "waitIdx", "waitCnt", "fetch"}
      /\ ready
  BY <1>2 DEF LineInv, BusInv
<1>4. BusInv' /\ ~ep3.ctr
  BY <1>1, <1>3, MainLine DEF driverVars, Rest
<1>5. pc' = "fetch" => rxIdx < rxCnt
  BY <1>2, NumbersType DEF LineInv, IInv, IndexInv, RxFlow, Numbers
<1>6. pc' = "waitIdx" /\ rxIdx < reg' => rxIdx < rxCnt
  BY <1>2
<1>7. pc' = "fetch" => ep3.stat # VALID
  BY <1>3, <1>5, NumbersType DEF LineInv, RxFlow, Taken, Numbers
<1>8. RxFlow'
  BY <1>1, <1>3, <1>4, <1>5, <1>6, <1>7 DEF LineInv, RxFlow, Taken, Consuming, driverVars
<1>9. TxFlow'
  BY <1>1, <1>3 DEF LineInv, TxFlow, Answering, Writing
<1> QED BY <1>4, <1>8, <1>9

LEMMA FetchLine ==
  ASSUME LineInv, ~InterruptPending, Rest, FetchByte
  PROVE  BusInv' /\ RxFlow' /\ TxFlow'
<1>1. UNCHANGED <<driverVars, ep1, ep3, stat, led>>
  BY DEF FetchByte
<1>2. \/ pc = "fetch" /\ pc' = "load" /\ reg' = rxIdx /\ strings' = strings
      \/ pc = "load" /\ pc' = "incr" /\ reg' = reg
  BY DEF FetchByte, Goto
<1>3. BusInv'
  BY <1>1, <1>2, MainLine DEF LineInv, BusInv, driverVars, Rest
<1>4. RxFlow'
  BY <1>1, <1>2 DEF LineInv, RxFlow, Taken, Consuming, driverVars
<1>5. TxFlow'
  BY <1>1, <1>2 DEF LineInv, TxFlow, Answering, Writing
<1> QED BY <1>3, <1>4, <1>5

LEMMA IncrementLine ==
  ASSUME LineInv, ~InterruptPending, Rest, IncrementIndex
  PROVE  BusInv' /\ RxFlow' /\ TxFlow'
<1>1. UNCHANGED <<ready, rxCnt, rxData, txDone, ep1, ep3, stat, strings, led>>
  BY DEF IncrementIndex
<1>2. \/ pc = "incr" /\ pc' = "store" /\ reg' = rxIdx /\ rxIdx' = rxIdx
      \/ pc = "store" /\ pc' = "last" /\ reg' = reg /\ rxIdx' = reg + 1
  BY DEF IncrementIndex, Goto
<1>3. BusInv' /\ ready
  BY <1>1, <1>2, MainLine DEF LineInv, BusInv, Rest
<1>4. RxFlow'
  BY <1>1, <1>2, <1>3 DEF LineInv, RxFlow, Taken, Consuming
<1>5. TxFlow'
  BY <1>1, <1>2 DEF LineInv, TxFlow, Answering, Writing, FirstPiece
<1> QED BY <1>3, <1>4, <1>5

LEMMA LastByteLine ==
  ASSUME LineInv, ~InterruptPending, Rest, CheckLastByte
  PROVE  BusInv' /\ RxFlow' /\ TxFlow'
<1>1. UNCHANGED <<driverVars, ep1, ep3, stat, strings, led>>
  BY DEF CheckLastByte
<1>2. \/ pc = "last" /\ pc' = "lastIdx" /\ reg' = rxCnt
      \/ pc = "last" /\ pc' = "lastCnt" /\ reg' = rxIdx
      \/ pc = "lastIdx" /\ pc' = (IF reg <= rxIdx THEN "rxRead" ELSE "put") /\ reg' = reg
      \/ pc = "lastCnt" /\ pc' = (IF rxCnt <= reg THEN "rxRead" ELSE "put") /\ reg' = reg
  BY DEF CheckLastByte, CompareFrom, Compared, Goto, Last
<1>3. pc \in {"last", "lastIdx", "lastCnt"} /\ pc' \in {"lastIdx", "lastCnt", "rxRead", "put"}
  BY <1>2
<1>4. BusInv' /\ ready
  BY <1>1, <1>3, MainLine DEF LineInv, BusInv, driverVars, Rest
<1>5. pc' = "rxRead" => rxCnt <= rxIdx
  BY <1>2 DEF LineInv, RxFlow
<1>6. RxFlow'
  BY <1>1, <1>2, <1>3, <1>4, <1>5 DEF LineInv, RxFlow, Taken, Consuming, driverVars
<1>7. TxFlow'
  BY <1>1, <1>3 DEF LineInv, TxFlow, Answering, Writing
<1> QED BY <1>4, <1>6, <1>7

LEMMA RxValidLine ==
  ASSUME LineInv, ~InterruptPending, Rest, SetEPRxValid
  PROVE  BusInv' /\ RxFlow' /\ TxFlow'
<1>1. UNCHANGED <<driverVars, ep1, reg, strings, led>>
  BY DEF SetEPRxValid
<1>2. \/ pc = "rxRead" /\ pc' = "rxWrite" /\ ep3' = ep3
      \/ pc = "rxWrite" /\ pc' = "put" /\ \E st : ep3' = [ep3 EXCEPT !.stat = st]
  BY DEF SetEPRxValid, Goto
<1>3. BusInv' /\ ready /\ ~ep3.ctr
  BY <1>1, <1>2, MainLine DEF LineInv, BusInv, driverVars, Rest
<1>4. (ep3'.ctr <=> ep3.ctr) /\ (pc = "rxRead" => ep3' = ep3)
  BY <1>2 DEF LineInv, IInv, TypeOK, Endpoint
<1>5. RxFlow'
  BY <1>1, <1>2, <1>3, <1>4 DEF LineInv, RxFlow, Taken, Consuming, driverVars
<1>6. TxFlow'
  BY <1>1, <1>2 DEF LineInv, TxFlow, Answering, Writing
<1> QED BY <1>3, <1>5, <1>6

LEMMA WriteLine ==
  ASSUME LineInv, ~InterruptPending, Rest, usb_cdc_write
  PROVE  BusInv' /\ RxFlow' /\ TxFlow'
<1> USE DEF Rest
<1>0. rxCnt' = rxCnt /\ rxIdx' = rxIdx /\ ready' = ready /\ ep3' = ep3 /\ reg' = reg
      /\ pc \in Writing /\ pc' \in Writing \cup {"loop"} /\ ready
  BY DEF usb_cdc_write, NextString, ClaimTx, CopyPacket, SetEPTxValid, Goto, driverVars, Writing,
         LineInv, BusInv
<1>1. BusInv' /\ ~ep1.ctr /\ ~ep3.ctr
  BY <1>0, MainLine
<1>2. RxFlow'
  BY <1>0, <1>1 DEF LineInv, RxFlow, Taken, Consuming, Writing
<1>3. TxFlow'
  <2>1. CASE NextString
    <3>1. \/ pc' = "loop" /\ strings' = <<>>
          \/ pc' = "txWait"
      BY <1>0, <2>1 DEF NextString, Goto
    <3> QED BY <2>1, <3>1 DEF LineInv, TxFlow, Answering, Writing, NextString
  <2>2. CASE ClaimTx
    BY <2>2 DEF LineInv, TxFlow, Answering, Writing, ClaimTx, Goto
  <2>3. CASE CopyPacket
    <3>1. pc = "copy" /\ pc' = "txRead" /\ strings' = strings
          /\ ep1' = [ep1 EXCEPT !.pma = FirstPiece] /\ ep1.stat # VALID /\ ep1 \in Endpoint
      BY <2>3 DEF CopyPacket, Goto, FirstPiece, LineInv, IInv, TypeOK, TxInv
    <3>2. ep1'.pma = FirstPiece /\ ep1'.stat # VALID /\ FirstPiece' = FirstPiece
      BY <3>1 DEF Endpoint, FirstPiece
    <3> QED BY <3>1, <3>2 DEF TxFlow, Answering, Writing
  <2>4. CASE SetEPTxValid
    <3>1. CASE pc = "txRead"
      BY <2>4, <3>1 DEF SetEPTxValid, Goto, LineInv, TxFlow, Answering, Writing, FirstPiece
    <3>2. CASE pc = "txWrite"
      <4>1. pc' = "put" /\ \E st : ep1' = [ep1 EXCEPT !.stat = st]
        BY <2>4, <3>2 DEF SetEPTxValid, Goto
      <4>2. ep1'.pma = ep1.pma
        BY <4>1 DEF LineInv, IInv, TypeOK, Endpoint
      <4>3. ep1.pma # <<>>
        <5>1. strings \in Strings /\ strings # <<>> /\ ep1.pma = FirstPiece
          BY <3>2, Fields DEF LineInv, IInv, WriteInv, TxFlow
        <5> QED BY <5>1, FirstPacket DEF FirstPiece
      <4> QED BY <4>1, <4>2, <4>3 DEF TxFlow, Answering, Writing
    <3> QED BY <2>4, <3>1, <3>2 DEF SetEPTxValid, Goto
  <2> QED BY <2>1, <2>2, <2>3, <2>4 DEF usb_cdc_write
<1> QED BY <1>1, <1>2, <1>3

LEMMA StutterLine == LineInv /\ UNCHANGED vars => BusInv' /\ RxFlow' /\ TxFlow'
BY DEF LineInv, BusInv, RxFlow, TxFlow, Taken, FirstPiece, vars, driverVars, mainVars, hostVars

LEMMA LineStep == Steady /\ LineInv /\ [Next]_vars => LineInv'
<1> SUFFICES ASSUME Steady, LineInv, [Next]_vars PROVE LineInv' OBVIOUS
<1>1. BusInv' /\ RxFlow' /\ TxFlow'
  BY BusResetLine, SendPacketLine, TakePacketLine, ConfigurationLine, TxFinishLine, RxDataLine,
     ResetLine, LedLine, WaitLine, FetchLine, IncrementLine, LastByteLine, RxValidLine, WriteLine,
     StutterLine
     DEF Next, Host, Interrupt, Main, usb_cdc_get_char, Rest
<1> QED BY <1>1, StepInv DEF LineInv

-----------------------------------------------------------------------------
(***************************************************************************)
(* Every step is a step of Terminal or leaves its variables alone.         *)
(***************************************************************************)
Still == UNCHANGED <<typed, Unread, strings, InFlight, shown>>
TerminalStep == T!Next \/ Still

LEMMA InitTerminal == Init => T!Init
<1> SUFFICES ASSUME Init PROVE T!Init OBVIOUS
<1>1. InFlight = <<>>
  BY DEF Init, InFlight, DISABLED, VALID
<1>2. Unread = <<>>
  <2>1. ep3.ctr = FALSE /\ rxCnt = 0 /\ Taken = 0
    BY DEF Init, Taken
  <2>2. SubSeq(rxData, 1, 0) = <<>>
    BY SubSeqEmpty
  <2> QED BY <2>1, <2>2 DEF Unread
<1> QED BY <1>1, <1>2 DEF Init, T!Init

\* What has been received is a sequence in the buffer.
LEMMA Buffer ==
  ASSUME LineInv
  PROVE  rxData \in Seq(Byte) /\ Len(rxData) = PackSize /\ rxCnt <= Len(rxData)
<1>1. rxData \in [1 .. PackSize -> Byte] /\ rxCnt \in 0 .. PackSize
  BY DEF LineInv, IInv, TypeOK
<1>2. rxData \in Seq(Byte)
  BY <1>1, Constants, SeqDef
<1>3. Len(rxData) = PackSize
  BY <1>1, <1>2, LenProperties, Constants
<1> QED BY <1>1, <1>2, <1>3, Constants

LEMMA TypedIsType == ASSUME Steady, LineInv, SendPacket PROVE T!Next
<1>1. UNCHANGED <<driverVars, ep1, mainVars, shown>> /\ ep3.stat = VALID
  BY DEF SendPacket
<1>2. PICK n \in 1 .. PackSize :
        /\ typed + n <= Len(Input) /\ typed' = typed + n
        /\ ep3' = [stat |-> NAK, ctr |-> TRUE, pma |-> SubSeq(Input, typed + 1, typed + n)]
  BY SentPacket
<1>3. Unread = <<>>
  <2>1. ~ep3.ctr /\ rxCnt <= Taken
    BY <1>1 DEF LineInv, IInv, RxInv, RxFlow
  <2>2. rxCnt \in Int /\ Taken + 1 \in Int /\ rxCnt < Taken + 1
    BY <2>1, NumbersType DEF LineInv, Numbers, Taken
  <2>3. SubSeq(rxData, Taken + 1, rxCnt) = <<>>
    BY <2>2, SubSeqEmpty
  <2> QED BY <2>1, <2>3 DEF Unread
<1>4. Unread' = SubSeq(Input, typed + 1, typed + n)
  BY <1>2 DEF Unread
<1>5. InFlight' = InFlight /\ strings' = strings /\ shown' = shown
  BY <1>1 DEF InFlight, mainVars
<1> QED BY <1>2, <1>3, <1>4, <1>5 DEF T!Next, T!Type

LEMMA TakenIsShow == ASSUME LineInv, TakePacket PROVE T!Next
<1>1. UNCHANGED <<driverVars, ep3, mainVars, typed>> /\ ep1.stat = VALID
      /\ shown' = shown \o ep1.pma /\ ep1 \in Endpoint
      /\ ep1' = [ep1 EXCEPT !.stat = NAK, !.ctr = TRUE]
  BY DEF TakePacket, LineInv, IInv, TypeOK
<1>2. InFlight = ep1.pma /\ InFlight # <<>>
  BY <1>1 DEF InFlight, LineInv, TxFlow
<1>3. ep1'.stat # VALID
  BY <1>1, StatusValues DEF Endpoint
<1>4. InFlight' = <<>>
  BY <1>3 DEF InFlight
<1>5. Unread' = Unread /\ strings' = strings
  BY <1>1 DEF Unread, Taken, driverVars, mainVars
<1> QED BY <1>1, <1>2, <1>4, <1>5 DEF T!Next, T!Show

\* Reading a byte takes the first of those unread.
LEMMA LoadIsRead ==
  ASSUME LineInv, FetchByte, UNCHANGED hostVars, pc = "load" PROVE T!Next
<1>1. UNCHANGED <<driverVars, ep1, ep3>> /\ pc' = "incr" /\ strings' = Reply(rxData[reg + 1])
  BY DEF FetchByte, Goto
<1>2. strings = <<>> /\ ~ep3.ctr /\ reg = rxIdx /\ rxIdx < rxCnt
  BY DEF LineInv, TxFlow, RxFlow, Answering, Writing, Consuming
<1>3. Unread = SubSeq(rxData, rxIdx + 1, rxCnt)
  BY <1>2 DEF Unread, Taken
<1>4. Unread' = SubSeq(rxData, rxIdx + 1 + 1, rxCnt)
  BY <1>1, <1>2 DEF Unread, Taken, driverVars
<1>5. rxIdx + 1 \in 1 .. Len(rxData) /\ rxCnt \in rxIdx + 1 .. Len(rxData)
  BY <1>2, NumbersType, Buffer DEF LineInv, Numbers
<1>6. rxData \in Seq(Byte)
  BY Buffer
<1> DEFINE m == rxIdx + 1
           u == SubSeq(rxData, m, rxCnt)
<1>7. m \in 1 .. Len(rxData) /\ rxCnt \in m .. Len(rxData)
  BY <1>5
<1> HIDE DEF m
<1>8. Head(u) = rxData[m] /\ Tail(u) = SubSeq(rxData, m + 1, rxCnt)
  BY <1>6, <1>7, HeadTailOfSubSeq
<1>9. u # <<>>
  <2>1. \A i \in m .. rxCnt : rxData[i] \in Byte
    BY <1>6, <1>7, ElementOfSeq, LenProperties
  <2>2. m \in Int /\ rxCnt \in Int /\ m <= rxCnt
    BY <1>6, <1>7, LenProperties
  <2>3. u \in Seq(Byte) /\ Len(u) = rxCnt - m + 1
    BY <2>1, <2>2, SubSeqProperties
  <2>4. Len(u) # 0
    BY <2>2, <2>3
  <2> HIDE DEF u
  <2> QED BY <2>3, <2>4, EmptySeq
<1>10. Unread = u /\ Unread' = Tail(u) /\ Head(u) = rxData[reg + 1]
  BY <1>2, <1>3, <1>4, <1>8 DEF m
<1>11. InFlight' = InFlight /\ typed' = typed /\ shown' = shown
  BY <1>1 DEF InFlight, hostVars
<1> QED BY <1>1, <1>2, <1>9, <1>10, <1>11 DEF T!Next, T!Read

\* Opening the endpoint sends the first packet of what is to be written.
LEMMA OpenIsWrite ==
  ASSUME LineInv, SetEPTxValid, UNCHANGED hostVars, pc = "txWrite" PROVE T!Next
<1>1. UNCHANGED <<driverVars, ep3>> /\ pc' = "put" /\ strings' = AfterPacket
      /\ ep1' = [ep1 EXCEPT !.stat = Toggle(ep1.stat, stat, VALID)]
  BY DEF SetEPTxValid, Goto
<1>2. strings \in Strings /\ strings # <<>> /\ ep1.stat # VALID /\ ep1.pma = FirstPiece
      /\ stat = ep1.stat /\ ep1.stat \in Status /\ ep1 \in Endpoint
  BY Fields DEF LineInv, IInv, WriteInv, TxInv, TxFlow, TypeOK
<1>3. Toggle(ep1.stat, stat, VALID) = VALID
  BY <1>2, ToggleType
<1>4. ep1'.stat = VALID /\ ep1'.pma = ep1.pma
  BY <1>1, <1>2, <1>3 DEF Endpoint
<1>5. InFlight = <<>> /\ InFlight' = FirstPiece
  BY <1>2, <1>4 DEF InFlight
<1> DEFINE str  == Head(strings)
           n    == PackLen(str)
           rest == SubSeq(str, n + 1, Len(str))
<1>6. str \in Seq(Byte) /\ n \in 1 .. PackSize /\ n <= Len(str) /\ Len(str) \in Nat
  BY <1>2, HeadString
<1>7. rest = <<>> <=> n = Len(str)
  <2> HIDE DEF str, n
  <2>1. rest \in Seq(Byte) /\ Len(rest) = Len(str) - n
    BY <1>6, Constants, Piece
  <2>2. Len(rest) = 0 <=> n = Len(str)
    BY <1>6, <2>1, Constants
  <2>3. rest = <<>> <=> Len(rest) = 0
    <3> HIDE DEF rest
    <3> QED BY <2>1, EmptySeq
  <2> QED BY <2>2, <2>3
<1>8. AfterPacket = (IF n = Len(str) THEN <<>> ELSE <<rest>>) \o Tail(strings)
  BY <1>7 DEF AfterPacket
<1>9. Unread' = Unread /\ typed' = typed /\ shown' = shown
  BY <1>1, <1>2 DEF Unread, Taken, driverVars, hostVars, LineInv
<1>10. T!Write
  BY <1>1, <1>2, <1>5, <1>6, <1>8, <1>9 DEF T!Write, FirstPiece
<1> QED BY <1>10 DEF T!Next

\* The copy the interrupt makes of a packet is what was in its memory.
LEMMA CopyIsStill == ASSUME LineInv, usb_cdc_on_rx_data PROVE Still
<1>1. UNCHANGED <<ep1, mainVars, hostVars>> /\ ep3.ctr /\ rxIdx' = 0
      /\ rxCnt' = Len(ep3.pma) /\ ep3 \in Endpoint
      /\ rxData' = [i \in 1 .. PackSize |-> IF i <= rxCnt' THEN ep3.pma[i] ELSE rxData[i]]
  BY DEF usb_cdc_on_rx_data, LineInv, IInv, TypeOK
<1> DEFINE p == ep3.pma
           u == SubSeq(rxData', 1, rxCnt')
<1>2. p \in Seq(Byte) /\ Len(p) \in 0 .. PackSize
  BY Fields, PacketIsSeq DEF LineInv, IInv
<1>3. pc \notin {"incr", "store"}
  BY <1>1 DEF LineInv, RxFlow, Consuming
<1>4. \E st : ep3' = [ep3 EXCEPT !.ctr = FALSE, !.stat = st]
  BY DEF usb_cdc_on_rx_data
<1>5. ep3'.ctr = FALSE
  BY <1>1, <1>4 DEF Endpoint
<1>6. Unread = p /\ Unread' = u
  BY <1>1, <1>3, <1>5 DEF Unread, Taken, mainVars
<1>7. u = p
  <2>1. rxCnt' = Len(p) /\ rxCnt' \in Int /\ Len(p) <= PackSize
    BY <1>1, <1>2, Constants
  <2>2. \A i \in 1 .. Len(p) : rxData'[i] = p[i]
    BY <1>1, <1>2, <2>1, Constants
  <2>3. \A i \in 1 .. rxCnt' : rxData'[i] \in Byte
    BY <1>2, <2>1, <2>2, ElementOfSeq
  <2> HIDE DEF p
  <2>4. /\ u \in Seq(Byte)
        /\ Len(u) = IF 1 <= rxCnt' THEN rxCnt' - 1 + 1 ELSE 0
        /\ \A i \in 1 .. rxCnt' - 1 + 1 : u[i] = rxData'[1 + i - 1]
    BY <2>1, <2>3, SubSeqProperties
  <2>5. Len(u) = Len(p)
    BY <1>2, <2>1, <2>4
  <2>6. \A i \in 1 .. Len(p) : u[i] = p[i]
    <3> SUFFICES ASSUME NEW i \in 1 .. Len(p) PROVE u[i] = p[i] OBVIOUS
    <3>1. i \in 1 .. rxCnt' - 1 + 1 /\ 1 + i - 1 = i
      BY <1>2, <2>1
    <3>2. u[i] = rxData'[i]
      BY <2>4, <3>1
    <3> QED BY <2>2, <3>2
  <2> HIDE DEF u
  <2> QED BY <1>2, <2>4, <2>5, <2>6, SeqEqual
<1>8. InFlight' = InFlight /\ strings' = strings
  BY <1>1 DEF InFlight, mainVars
<1> QED BY <1>1, <1>6, <1>7, <1>8 DEF Still, hostVars

\* What a step must leave alone to be invisible to both ends.
LEMMA Invisible ==
  ASSUME UNCHANGED <<rxCnt, rxData, typed, strings, shown>>, Taken' = Taken,
         ep3'.ctr <=> ep3.ctr, ep3'.pma = ep3.pma, InFlight' = InFlight
  PROVE  Still
BY DEF Still, Unread

LEMMA ResetsAreStill ==
  ASSUME Steady, LineInv, BusReset \/ usb_cdc_reset PROVE Still
<1>1. ~ready
  BY Constants DEF BusReset, usb_cdc_reset, LineInv, BusInv, Steady, IInv, TypeOK
<1>2. /\ UNCHANGED <<rxCnt, rxIdx, rxData, mainVars, hostVars>>
      /\ ep1 \in Endpoint /\ ep3 \in Endpoint
      /\ ep1' = [ep1 EXCEPT !.stat = {}] \/ ep1' = [ep1 EXCEPT !.stat = NAK]
      /\ \E st : ep3' = [ep3 EXCEPT !.stat = st]
  BY DEF BusReset, usb_cdc_reset, DISABLED, driverVars, LineInv, IInv, TypeOK
<1>3. ep1.stat # VALID /\ ep1'.stat # VALID
  BY <1>1, <1>2, StatusValues DEF LineInv, RxFlow, Endpoint
<1>4. (ep3'.ctr <=> ep3.ctr) /\ ep3'.pma = ep3.pma
  BY <1>2 DEF Endpoint
<1>5. InFlight' = InFlight /\ Taken' = Taken
  BY <1>2, <1>3 DEF InFlight, Taken, mainVars
<1> QED BY <1>2, <1>4, <1>5, Invisible DEF mainVars, hostVars

LEMMA RequestsAreStill ==
  ASSUME LineInv,
         usb_cdc_on_tx_finish \/ \E cfg \in Configurations : usb_cdc_set_configuration(cfg)
  PROVE  Still
<1>1. UNCHANGED <<rxCnt, rxIdx, rxData, ep3, mainVars, hostVars>>
  BY DEF usb_cdc_on_tx_finish, usb_cdc_set_configuration
<1>2. ep1' = ep1 \/ ep1' = [ep1 EXCEPT !.ctr = FALSE]
  BY DEF usb_cdc_on_tx_finish, usb_cdc_set_configuration
<1>3. ep1'.stat = ep1.stat /\ ep1'.pma = ep1.pma
  BY <1>2 DEF LineInv, IInv, TypeOK, Endpoint
<1>4. InFlight' = InFlight /\ Taken' = Taken
  BY <1>1, <1>3 DEF InFlight, Taken, mainVars
<1> QED BY <1>1, <1>4, Invisible DEF mainVars, hostVars

\* The main loop's steps that read and compare.
LEMMA ReadingIsStill ==
  ASSUME LineInv, Rest,
         SetLed \/ EnterGetChar \/ WaitForByte \/ CheckLastByte \/ (FetchByte /\ pc # "load")
  PROVE  Still
<1>1. UNCHANGED <<driverVars, ep1, ep3, strings>>
  BY DEF SetLed, EnterGetChar, WaitForByte, CheckLastByte, FetchByte, Goto
<1>2. pc \notin {"incr", "store"} /\ pc' \notin {"incr", "store"}
  BY DEF SetLed, EnterGetChar, WaitForByte, CheckLastByte, FetchByte, CompareFrom, Compared,
         Goto, Waiting, Last
<1>3. Taken' = Taken /\ InFlight' = InFlight
  BY <1>1, <1>2 DEF Taken, InFlight, driverVars
<1> QED BY <1>1, <1>3, Invisible DEF driverVars, Rest, hostVars

LEMMA IncrementIsStill == ASSUME LineInv, Rest, IncrementIndex PROVE Still
<1>1. UNCHANGED <<rxCnt, rxData, ep1, ep3, strings>>
  BY DEF IncrementIndex
<1>2. Taken' = Taken
  BY DEF IncrementIndex, Goto, Taken, LineInv, RxFlow
<1>3. InFlight' = InFlight
  BY <1>1 DEF InFlight
<1> QED BY <1>1, <1>2, <1>3, Invisible DEF Rest, hostVars

LEMMA OpeningIsStill == ASSUME LineInv, Rest, SetEPRxValid PROVE Still
<1>1. UNCHANGED <<driverVars, ep1, strings>> /\ pc \notin {"incr", "store"}
      /\ pc' \notin {"incr", "store"}
  BY DEF SetEPRxValid, Goto
<1>2. ep3' = ep3 \/ \E st : ep3' = [ep3 EXCEPT !.stat = st]
  BY DEF SetEPRxValid
<1>3. (ep3'.ctr <=> ep3.ctr) /\ ep3'.pma = ep3.pma
  BY <1>2 DEF LineInv, IInv, TypeOK, Endpoint
<1>4. Taken' = Taken /\ InFlight' = InFlight
  BY <1>1 DEF Taken, InFlight, driverVars
<1> QED BY <1>1, <1>3, <1>4, Invisible DEF driverVars, Rest, hostVars

LEMMA PreparingIsStill ==
  ASSUME LineInv, Rest,
         NextString \/ ClaimTx \/ CopyPacket \/ (SetEPTxValid /\ pc # "txWrite")
  PROVE  Still
<1>1. UNCHANGED <<rxCnt, rxIdx, rxData, ep3>>
  BY DEF NextString, ClaimTx, CopyPacket, SetEPTxValid, driverVars
<1>2. pc \notin {"incr", "store"} /\ pc' \notin {"incr", "store"}
  BY DEF NextString, ClaimTx, CopyPacket, SetEPTxValid, Goto
<1>3. strings' = strings
  <2>1. pc = "put" => ready
    BY DEF LineInv, BusInv
  <2> QED BY <2>1 DEF NextString, ClaimTx, CopyPacket, SetEPTxValid, Goto
<1>4. InFlight' = InFlight
  <2>1. CASE CopyPacket
    <3>1. ep1.stat # VALID /\ \E p : ep1' = [ep1 EXCEPT !.pma = p]
      BY <2>1 DEF CopyPacket, Goto, LineInv, IInv, TxInv
    <3>2. ep1'.stat = ep1.stat
      BY <3>1 DEF LineInv, IInv, TypeOK, Endpoint
    <3> QED BY <3>1, <3>2 DEF InFlight
  <2>2. CASE NextString \/ ClaimTx \/ (SetEPTxValid /\ pc # "txWrite")
    <3>1. ep1' = ep1
      BY <2>2 DEF NextString, ClaimTx, SetEPTxValid, Goto
    <3> QED BY <3>1 DEF InFlight
  <2> QED BY <2>1, <2>2
<1>5. Taken' = Taken
  BY <1>1, <1>2 DEF Taken
<1> QED BY <1>1, <1>3, <1>4, <1>5, Invisible DEF Rest, hostVars

LEMMA StutterIsStill == UNCHANGED vars => Still
BY DEF Still, Unread, Taken, InFlight, vars, driverVars, mainVars, hostVars

LEMMA MainSteps == ASSUME LineInv, Main PROVE TerminalStep
<1>1. Rest /\ UNCHANGED hostVars
  BY DEF Main, Rest
<1>2. CASE FetchByte /\ pc = "load"
  BY <1>1, <1>2, LoadIsRead DEF TerminalStep
<1>3. CASE SetEPTxValid /\ pc = "txWrite"
  BY <1>1, <1>3, OpenIsWrite DEF TerminalStep
<1>4. CASE ~(FetchByte /\ pc = "load") /\ ~(SetEPTxValid /\ pc = "txWrite")
  BY <1>1, <1>4, ReadingIsStill, IncrementIsStill, OpeningIsStill, PreparingIsStill
     DEF Main, usb_cdc_get_char, usb_cdc_write, TerminalStep
<1> QED BY <1>2, <1>3, <1>4

LEMMA StepTerminal == Steady /\ LineInv /\ [Next]_vars => [T!Next]_(T!termVars)
<1> SUFFICES ASSUME Steady, LineInv, [Next]_vars PROVE TerminalStep
  BY DEF TerminalStep, Still, T!termVars
<1>1. CASE Host
  BY <1>1, ResetsAreStill, TypedIsType, TakenIsShow, RequestsAreStill DEF Host, TerminalStep
<1>2. CASE Interrupt
  BY <1>2, RequestsAreStill, CopyIsStill, ResetsAreStill DEF Interrupt, TerminalStep
<1>3. CASE Main
  BY <1>3, MainSteps
<1>4. CASE UNCHANGED vars
  BY <1>4, StutterIsStill DEF TerminalStep
<1> QED BY <1>1, <1>2, <1>3, <1>4 DEF Next

\* On a line that is reset only when it is attached, and to a host that sends
\* no empty packets, the driver is the terminal line: whatever the input, the
\* answers and the packet size, and however main loop, interrupt and host
\* interleave, no byte is lost, doubled or overtaken in either direction.
THEOREM Refinement == Steady => (DeviceSpec => ImplementsTerminal)
<1> SUFFICES ASSUME Steady PROVE DeviceSpec => ImplementsTerminal
  OBVIOUS
<1>1. LineInv /\ [Next]_vars => LineInv'
  BY LineStep
<1>2. LineInv /\ [Next]_vars => [T!Next]_(T!termVars)
  BY StepTerminal
<1> QED BY <1>1, <1>2, InitLine, InitTerminal, PTL DEF DeviceSpec, ImplementsTerminal, T!Spec
-----------------------------------------------------------------------------
(***************************************************************************)
(* Why main loop and host never both wait.                                 *)
(***************************************************************************)
\* What is handed over is not lost before the other side has it; on the way
\* back the main loop writes the status it has just read.
Filling == {"copy", "txRead", "txWrite"}
Attached == bus \in {"default", "configured"}
Kept ==
  /\ ~txDone => ready /\ (ep1.stat = VALID \/ ep1.ctr \/ pc \in Filling)
  /\ Attached /\ ep3.stat # VALID => ready /\ (ep3.ctr \/ Taken < rxCnt \/ pc \in Consuming)
  /\ pc = "rxWrite" => stat = ep3.stat

KeptInv == LineInv /\ Kept

LEMMA InitKept == Init => Kept
BY DEF Init, Kept, Attached

LEMMA StatusOf ==
  ASSUME LineInv
  PROVE  /\ ep1 \in Endpoint /\ ep3 \in Endpoint /\ ep1.stat \in Status /\ ep3.stat \in Status
         /\ rxCnt \in Nat /\ rxIdx \in Nat /\ Taken \in Nat
BY NumbersType DEF LineInv, IInv, TypeOK, Endpoint, Numbers, Taken

LEMMA ResetsKept == ASSUME Steady, KeptInv, BusReset \/ usb_cdc_reset PROVE Kept'
<1>1. ~ready /\ pc \in {"loop", "ledOff"}
  BY Constants DEF BusReset, usb_cdc_reset, KeptInv, LineInv, BusInv, Steady, IInv, TypeOK
<1>2. UNCHANGED <<txDone, pc>> /\ txDone
  BY <1>1 DEF BusReset, usb_cdc_reset, driverVars, mainVars, KeptInv, Kept
<1>3. ~Attached' \/ ep3'.stat = VALID
  <2>1. CASE BusReset
    BY <2>1 DEF BusReset, Attached
  <2>2. CASE usb_cdc_reset
    BY <2>2, StatusOf DEF usb_cdc_reset, KeptInv, Endpoint
  <2> QED BY <2>1, <2>2
<1> QED BY <1>1, <1>2, <1>3 DEF Kept

LEMMA SendKept == ASSUME KeptInv, SendPacket PROVE Kept'
<1>1. UNCHANGED <<bus, ready, txDone, pc, stat, ep1>> /\ ready /\ ep3.stat = VALID
  BY DEF SendPacket, KeptInv, LineInv, BusInv, driverVars, mainVars
<1>2. ep3'.ctr
  BY DEF SendPacket
<1>3. pc # "rxWrite"
  BY <1>1 DEF KeptInv, LineInv, RxFlow, Consuming
<1> QED BY <1>1, <1>2, <1>3 DEF KeptInv, Kept

LEMMA TakeKept == ASSUME KeptInv, TakePacket PROVE Kept'
<1>1. UNCHANGED <<bus, ready, rxCnt, rxIdx, pc, stat, ep3>> /\ ready
      /\ ep1' = [ep1 EXCEPT !.stat = NAK, !.ctr = TRUE]
  BY DEF TakePacket, KeptInv, LineInv, BusInv, driverVars, mainVars
<1>2. ep1'.ctr
  BY <1>1, StatusOf DEF KeptInv, Endpoint
<1> QED BY <1>1, <1>2 DEF KeptInv, Kept, Attached, Taken

LEMMA ConfigurationKept ==
  ASSUME KeptInv, NEW cfg \in Configurations, usb_cdc_set_configuration(cfg) PROVE Kept'
<1>1. UNCHANGED <<rxCnt, rxIdx, txDone, pc, stat, ep1, ep3>> /\ Attached /\ (ready => ready')
  BY DEF usb_cdc_set_configuration, mainVars, Attached
<1> QED BY <1>1 DEF KeptInv, Kept, Taken

LEMMA FinishKept == ASSUME KeptInv, usb_cdc_on_tx_finish PROVE Kept'
<1>1. UNCHANGED <<bus, ready, rxCnt, rxIdx, pc, stat, ep3>> /\ txDone'
  BY DEF usb_cdc_on_tx_finish, mainVars
<1> QED BY <1>1 DEF KeptInv, Kept, Attached, Taken

LEMMA CopyKept == ASSUME KeptInv, usb_cdc_on_rx_data PROVE Kept'
<1>1. UNCHANGED <<bus, ready, txDone, pc, stat, ep1>> /\ ep3.ctr /\ rxIdx' = 0
      /\ rxCnt' = Len(ep3.pma)
  BY DEF usb_cdc_on_rx_data, mainVars
<1>2. pc \notin Consuming /\ ep3.pma # <<>> /\ ready
  BY <1>1 DEF KeptInv, LineInv, RxFlow
<1>3. rxCnt' > 0
  <2> DEFINE p == ep3.pma
  <2>1. p \in Seq(Byte) /\ p # <<>>
    BY <1>2, Fields, PacketIsSeq DEF KeptInv, LineInv, IInv
  <2> HIDE DEF p
  <2>2. Len(p) \in Nat \ {0}
    BY <2>1, EmptySeq
  <2> QED BY <1>1, <2>2 DEF p
<1>4. Taken' < rxCnt'
  BY <1>1, <1>2, <1>3 DEF Taken, Consuming
<1>5. pc # "rxWrite"
  BY <1>2 DEF Consuming
<1> QED BY <1>1, <1>2, <1>4, <1>5 DEF KeptInv, Kept

\* The steps of the main loop between reading a byte and having used it, and
\* those that look whether there is one.
LEMMA ReadingKept ==
  ASSUME KeptInv, Rest, SetLed \/ EnterGetChar \/ WaitForByte \/ FetchByte
  PROVE  Kept'
<1>1. UNCHANGED <<bus, ready, rxCnt, rxIdx, txDone, ep1, ep3, stat>> /\ pc \notin Filling
  BY DEF SetLed, EnterGetChar, WaitForByte, FetchByte, driverVars, Rest, CompareFrom, Compared,
         Goto, Waiting, Filling
<1>2. pc \notin {"incr", "store", "rxRead", "rxWrite"} /\ pc' \notin {"store", "rxWrite"}
  BY DEF SetLed, EnterGetChar, WaitForByte, FetchByte, CompareFrom, Compared, Goto, Waiting
<1>3. pc \in Consuming => pc' \in Consuming
  BY DEF SetLed, EnterGetChar, WaitForByte, FetchByte, CompareFrom, Compared, Goto, Waiting,
         Consuming
<1>4. pc' # "incr" => Taken' = Taken
  BY <1>1, <1>2 DEF Taken
<1>5. pc' = "incr" => pc' \in Consuming
  BY DEF Consuming
<1> QED BY <1>1, <1>2, <1>3, <1>4, <1>5 DEF KeptInv, Kept, Attached

LEMMA IncrementKept == ASSUME KeptInv, Rest, IncrementIndex PROVE Kept'
<1>1. UNCHANGED <<bus, ready, rxCnt, txDone, ep1, ep3, stat>> /\ pc \notin Filling
      /\ pc \in Consuming /\ pc' \in Consuming /\ pc' # "rxWrite"
  BY DEF IncrementIndex, Goto, Filling, Consuming, Rest
<1> QED BY <1>1 DEF KeptInv, Kept, Attached

\* The packet is used up, or there is a byte left to read.
LEMMA LastByteKept == ASSUME KeptInv, Rest, CheckLastByte PROVE Kept'
<1>1. UNCHANGED <<bus, ready, rxCnt, rxIdx, txDone, ep1, ep3, stat>> /\ pc \notin Filling
      /\ pc \in Consuming /\ pc' \in Consuming \cup {"put"} /\ pc' # "rxWrite"
  BY DEF CheckLastByte, CompareFrom, Compared, Goto, Last, Filling, Consuming, driverVars, Rest
<1>2. pc' = "put" => Taken' < rxCnt'
  <2>1. pc' = "put" => \/ pc = "lastIdx" /\ ~(reg <= rxIdx)
                       \/ pc = "lastCnt" /\ ~(rxCnt <= reg)
    BY DEF CheckLastByte, CompareFrom, Compared, Goto, Last
  <2>2. pc' = "put" => rxIdx < rxCnt
    BY <2>1, StatusOf DEF KeptInv, LineInv, RxFlow
  <2> QED BY <1>1, <2>2 DEF Taken
<1> QED BY <1>1, <1>2 DEF KeptInv, Kept, Attached

\* The endpoint is open again when the main loop goes on.
LEMMA RxValidKept == ASSUME KeptInv, Rest, SetEPRxValid PROVE Kept'
<1>1. UNCHANGED <<bus, ready, rxCnt, rxIdx, txDone, ep1>> /\ pc \notin Filling
  BY DEF SetEPRxValid, Goto, Filling, driverVars, Rest
<1>2. CASE pc = "rxRead"
  BY <1>1, <1>2 DEF SetEPRxValid, Goto, KeptInv, Kept, Attached, Consuming
<1>3. CASE pc = "rxWrite"
  <2>1. pc' = "put" /\ ep3' = [ep3 EXCEPT !.stat = Toggle(ep3.stat, stat, VALID)]
        /\ stat = ep3.stat
    BY <1>3 DEF SetEPRxValid, Goto, KeptInv, Kept
  <2>2. ep3'.stat = VALID
    BY <2>1, StatusOf, ToggleType DEF KeptInv, Endpoint
  <2> QED BY <1>1, <2>1, <2>2 DEF KeptInv, Kept
<1> QED BY <1>2, <1>3 DEF SetEPRxValid, Goto

\* The packet memory is taken with its flag, filled and opened.
LEMMA WriteKept == ASSUME KeptInv, Rest, usb_cdc_write PROVE Kept'
<1>0. UNCHANGED <<bus, ready, rxCnt, rxIdx, ep3>> /\ ready /\ pc \in Writing
      /\ pc \notin Consuming /\ pc' \notin {"incr", "store", "rxWrite"}
  BY DEF usb_cdc_write, NextString, ClaimTx, CopyPacket, SetEPTxValid, Goto, driverVars, Writing,
         Consuming, Rest, KeptInv, LineInv, BusInv
<1>1. Taken' = Taken
  BY <1>0 DEF Taken, Consuming
<1>2. ~txDone' => ep1'.stat = VALID \/ ep1'.ctr \/ pc' \in Filling
  <2>1. CASE NextString
    BY <2>1 DEF NextString, Goto, driverVars, KeptInv, Kept, Filling
  <2>2. CASE ClaimTx
    BY <2>2 DEF ClaimTx, Goto, KeptInv, Kept, Filling
  <2>3. CASE CopyPacket
    BY <2>3 DEF CopyPacket, Goto, Filling
  <2>4. CASE SetEPTxValid /\ pc = "txRead"
    BY <2>4 DEF SetEPTxValid, Goto, Filling
  <2>5. CASE SetEPTxValid /\ pc = "txWrite"
    <3>1. ep1' = [ep1 EXCEPT !.stat = Toggle(ep1.stat, stat, VALID)] /\ stat = ep1.stat
      BY <2>5 DEF SetEPTxValid, Goto, KeptInv, LineInv, TxFlow
    <3>2. ep1'.stat = VALID
      BY <3>1, StatusOf, ToggleType DEF KeptInv, Endpoint
    <3> QED BY <3>2
  <2> QED BY <2>1, <2>2, <2>3, <2>4, <2>5 DEF usb_cdc_write, SetEPTxValid, Goto
<1> QED BY <1>0, <1>1, <1>2 DEF KeptInv, Kept, Attached

LEMMA StutterKept == KeptInv /\ UNCHANGED vars => Kept'
BY DEF KeptInv, Kept, Attached, Taken, vars, driverVars, mainVars

LEMMA KeptStep == Steady /\ KeptInv /\ [Next]_vars => KeptInv'
<1> SUFFICES ASSUME Steady, KeptInv, [Next]_vars PROVE KeptInv' OBVIOUS
<1>1. Kept'
  BY ResetsKept, SendKept, TakeKept, ConfigurationKept, FinishKept, CopyKept, ReadingKept,
     IncrementKept, LastByteKept, RxValidKept, WriteKept, StutterKept
     DEF Next, Host, Interrupt, Main, usb_cdc_get_char, Rest
<1> QED BY <1>1, LineStep DEF KeptInv

LEMMA KeptIsNoHandoverLost == KeptInv => NoHandoverLost
<1> SUFFICES ASSUME KeptInv PROVE NoHandoverLost OBVIOUS
<1>1. ~txDone => ep1.stat = VALID \/ ep1.ctr \/ pc \in {"copy", "txRead", "txWrite"}
  BY DEF KeptInv, Kept, Filling
<1>2. ASSUME ready, Unread = <<>>, ep3.stat # VALID
      PROVE  pc \in {"incr", "store", "last", "lastIdx", "lastCnt", "rxRead", "rxWrite"}
  <2>1. ~ep3.ctr
    BY <1>2 DEF Unread, KeptInv, LineInv, RxFlow
  <2>2. ~(Taken < rxCnt)
    <3> SUFFICES ASSUME Taken < rxCnt PROVE FALSE OBVIOUS
    <3>1. rxData \in Seq(Byte) /\ Taken \in Nat /\ rxCnt \in Nat /\ Taken <= rxCnt
          /\ rxCnt <= Len(rxData) /\ rxCnt - Taken # 0
      BY StatusOf, Buffer DEF KeptInv
    <3> DEFINE u == SubSeq(rxData, Taken + 1, rxCnt)
    <3>2. u \in Seq(Byte) /\ Len(u) # 0
      BY <3>1, Piece
    <3>3. u = <<>>
      BY <1>2, <2>1 DEF Unread
    <3> HIDE DEF u
    <3> QED BY <3>2, <3>3, EmptySeq
  <2>3. pc \in Consuming
    BY <1>2, <2>1, <2>2 DEF KeptInv, LineInv, BusInv, Kept, Attached
  <2>4. pc \notin {"fetch", "load"}
    BY <2>2 DEF KeptInv, LineInv, RxFlow, Taken
  <2> QED BY <2>3, <2>4 DEF Consuming
<1> QED BY <1>1, <1>2 DEF NoHandoverLost

\* On such a line, whatever the input, the answers and the packet size, and
\* however main loop, interrupt and host interleave: the main loop waits for
\* usb_cdc_tx_done only while a packet can still be fetched, and whenever it
\* has read everything the host may send, so that neither waits in vain.
THEOREM NoHandoverLostHolds == Steady => (DeviceSpec => []NoHandoverLost)
<1> SUFFICES ASSUME Steady PROVE DeviceSpec => []NoHandoverLost
  OBVIOUS
<1>1. Init => KeptInv
  BY InitLine, InitKept DEF KeptInv
<1>2. KeptInv /\ [Next]_vars => KeptInv'
  BY KeptStep
<1> QED BY <1>1, <1>2, KeptIsNoHandoverLost, PTL DEF DeviceSpec
=============================================================================
