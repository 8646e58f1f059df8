--------------------------- MODULE MCVariantProbe ---------------------------
EXTENDS VariantProbe

Fr(id, extd, dlc, pci) == [id |-> id, extd |-> extd, dlc |-> dlc, pci |-> pci]

(* Traffic that is no response, on any bus: ids outside both ranges, the   *)
(* 11-bit response id as a 29-bit id, an empty frame, a flow control.      *)
Noise == {Fr(291, FALSE, 8, "SF"), Fr(2024, TRUE, 8, "FF"),
          Fr(2024, FALSE, 0, "SF"), Fr(2024, FALSE, 8, "OTHER")}
Answer(v) == Fr(RespBase(v) + 1, Extended(v), 8, "FF")

Bus(rate, frames) == [r \in Bitrates |-> IF r = rate THEN frames ELSE {}]

(* One vehicle per variant, a silent bus, a vehicle that does not answer,  *)
(* and one whose ECUs answer in both id formats.                           *)
MCVehicles ==
    {Bus(Bitrate(v), Noise \cup {Answer(v)}) : v \in Variants}
    \cup {Bus("500K", {}), Bus("250K", Noise),
          Bus("500K", {Answer("11B_500K"), Answer("29B_500K")})}
=============================================================================
