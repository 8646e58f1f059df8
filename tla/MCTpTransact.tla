---------------------------- MODULE MCTpTransact ----------------------------
EXTENDS TpTransact

(* Two ECUs on the 11-bit variant, an id outside the response range and    *)
(* the first ECU's number sent as a 29-bit id.                             *)
MCIds == {<< 2024, FALSE >>, << 2025, FALSE >>, << 291, FALSE >>,
          << 2024, TRUE >>}

Of(id, dlc, pci, n, d) ==
    [id |-> id[1], extd |-> id[2], dlc |-> dlc, pci |-> pci, n |-> n, data |-> d]

(* Consecutive frame number n carries datum n, so a chunk out of place or  *)
(* from the wrong ECU shows; first and single frames carry data of their   *)
(* own.  A second datum for number 1 is what another transfer would hold.  *)
MCData == 0 .. 17

MCBusFrame ==
    {Of(id, dlc, "SF", n, 16) : id \in MCIds, dlc \in {0, 4, 8}, n \in {0, 3, 7, 9}}
    \cup {Of(id, 8, "FF", n, 17) : id \in MCIds, n \in {7, 8, 20, 256, 257}}
    \cup {Of(id, dlc, "CF", n, n) : id \in MCIds, dlc \in {3, 8}, n \in 0 .. 15}
    \cup {Of(id, 8, "CF", 1, 16) : id \in MCIds}
    \cup {Of(id, 8, "OTHER", 0, 0) : id \in MCIds}
=============================================================================
