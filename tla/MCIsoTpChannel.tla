--------------------------- MODULE MCIsoTpChannel ---------------------------
EXTENDS IsoTpChannel

(* The boundaries: empty, longest single frame, shortest multi-frame, one  *)
(* and two full consecutive frames, the VIN reply (20), the 16th, 17th and *)
(* 33rd consecutive frame (numbering wraps once and twice), the longest    *)
(* payload that fits 64 frames and the shortest that does not.             *)
MCLens == {0, 1, 7, 8, 13, 14, 20, 118, 119, 125, 132, 237, 446, 447, 448}
MCData == 1 .. 64
=============================================================================
