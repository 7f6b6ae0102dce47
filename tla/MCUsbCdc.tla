------------------------------ MODULE MCUsbCdc ------------------------------
(***************************************************************************)
(* Values for UsbCdc: packets of two bytes, a byte that is echoed, one     *)
(* that is answered by two strings, the first longer than a packet, and    *)
(* one that is not answered.                                               *)
(***************************************************************************)
EXTENDS UsbCdc

MCByte == {"key", "enter", "feed"}

MCReply(ch) ==
  CASE ch = "key"   -> <<<<"key">>>>
    [] ch = "enter" -> <<<<"enter", "feed", "key">>, <<"feed", "key">>>>
    [] ch = "feed"  -> <<>>

MCInput == <<"key", "enter", "feed", "key", "key">>
MCShortInput == <<"key", "enter", "feed">>
=============================================================================
