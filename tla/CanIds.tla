------------------------------- MODULE CanIds -------------------------------
(***************************************************************************)
(* CAN identifiers of the four OBD variants (firmware/esp32/include/       *)
(* can_transport.h, obd_client.c): where a request goes, which ids answer, *)
(* and which id receives the flow control meant for one responder.         *)
(***************************************************************************)
EXTENDS Integers

Variants == {"11B_500K", "29B_500K", "11B_250K", "29B_250K"}

Extended(v) == v \in {"29B_500K", "29B_250K"}

(* obd_ids_for: 0x7DF, 0x7E8..0x7EF or 0x18DB33F1, 0x18DAF100..0x18DAF1FF  *)
FuncId(v)   == IF Extended(v) THEN 417018865 ELSE 2015
RespBase(v) == IF Extended(v) THEN 417001728 ELSE 2024
RespLast(v) == IF Extended(v) THEN 417001983 ELSE 2031
RespIds(v)  == RespBase(v) .. RespLast(v)

(* obd_phys_for: 0x7E8 + k -> 0x7E0 + k; 0x18DAF1xx -> 0x18DAxxF1          *)
PhysFor(v, responder) ==
    IF Extended(v)
    THEN 416940032 + (responder % 256) * 256 + 241
    ELSE 2016 + (responder - 2024)

(* Not a response id: the code's "0 = none yet".                           *)
NoResponder == 0
=============================================================================
