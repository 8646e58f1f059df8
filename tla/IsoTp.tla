------------------------------- MODULE IsoTp -------------------------------
(***************************************************************************)
(* ISO 15765-2 framing as firmware/src/iso15765.c does it: cutting a       *)
(* payload into single / first / consecutive frames, putting a captured    *)
(* frame sequence back together, and the receiver's reaction to a first    *)
(* frame.                                                                  *)
(*                                                                         *)
(* The bytes themselves are copied blindly by the code, so a payload is    *)
(* kept as its length in bytes together with the chunks the frames carry   *)
(* (7 bytes in a single frame, 6 in a first frame, 7 in each consecutive   *)
(* frame, the last one cut to the announced length).  All byte COUNTS are  *)
(* the code's.                                                             *)
(***************************************************************************)
EXTENDS Integers, Sequences

CONSTANTS
    Data,       (* what one frame's data bytes can be *)
    SeqCount,   (* consecutive frames are numbered modulo this (16: a nibble) *)
    MaxFrames   (* ISOTP_MAX_FRAMES *)

ASSUME IsoTpAssumption ==
    /\ SeqCount \in Nat \ {0}
    /\ MaxFrames \in Nat \ {0}

SingleBytes == 7        \* data bytes of a single frame
FirstBytes  == 6        \* data bytes of a first frame
NextBytes   == 7        \* data bytes of a consecutive frame
MaxLen      == 4095     \* 0xFFF: the first frame announces 12 bits

Smaller(a, b) == IF a < b THEN a ELSE b

(* Consecutive frames that follow the first frame of a len-byte payload:   *)
(* the loop adds one while bytes are left, i.e. ceil((len - 6) / 7).       *)
NextCount(len) == (len - FirstBytes + NextBytes - 1) \div NextBytes

ChunkCount(len) == IF len <= SingleBytes THEN 1 ELSE 1 + NextCount(len)

(* Bytes of a len-byte payload carried by its first k chunks.              *)
Carried(len, k) == Smaller(len, FirstBytes + NextBytes * (k - 1))

Payload == UNION { [len : {l}, chunk : [1 .. ChunkCount(l) -> Data]] :
                   l \in 0 .. MaxLen }

(* The code returns -1.                                                    *)
Failed == [len |-> -1, chunk |-> << >>]

-----------------------------------------------------------------------------
(* The protocol control information of a frame: its type and the number    *)
(* next to it - the length of a single frame, the announced total of a     *)
(* first frame, the sequence number of a consecutive frame.                *)
SF(n, d) == [pci |-> "SF", n |-> n, data |-> d]
FF(n, d) == [pci |-> "FF", n |-> n, data |-> d]
CF(n, d) == [pci |-> "CF", n |-> n, data |-> d]

(* Mutation of Encode: the sequence number does not wrap to 0.             *)
EncodeUnwrapped(p) ==
    IF p.len <= SingleBytes
    THEN << SF(p.len, p.chunk[1]) >>
    ELSE IF p.len > MaxLen \/ ChunkCount(p.len) > MaxFrames
    THEN << >>
    ELSE [i \in 1 .. ChunkCount(p.len) |->
             IF i = 1 THEN FF(p.len, p.chunk[1])
                      ELSE CF(i - 1, p.chunk[i])]

Encode(p) ==
    IF p.len <= SingleBytes
    THEN << SF(p.len, p.chunk[1]) >>
    ELSE IF p.len > MaxLen \/ ChunkCount(p.len) > MaxFrames
    THEN << >>                                  \* -1: no frame is sent
    ELSE [i \in 1 .. ChunkCount(p.len) |->
             IF i = 1 THEN FF(p.len, p.chunk[1])
                      ELSE CF((i - 1) % SeqCount, p.chunk[i])]

(* Mutation of InSequence: the sequence number is not checked.             *)
InSequenceUnchecked(frames, len) ==
    \A i \in 2 .. ChunkCount(len) : frames[i].pci = "CF"

(* The consecutive frames the decoder's loop looks at, in order, before    *)
(* all announced bytes are there; later frames are never inspected.        *)
InSequence(frames, len) ==
    \A i \in 2 .. ChunkCount(len) :
        /\ frames[i].pci = "CF"
        /\ frames[i].n = (i - 1) % SeqCount

Decode(frames, cap) ==
    IF frames = << >> \/ Len(frames) > MaxFrames
    THEN Failed
    ELSE LET first == frames[1]
             total == first.n
         IN  IF /\ first.pci = "SF"
                /\ total <= SingleBytes
                /\ total <= cap
             THEN [len |-> total, chunk |-> << first.data >>]
             ELSE IF /\ first.pci = "FF"
                     /\ total > SingleBytes
                     /\ total <= cap
                     /\ Len(frames) >= ChunkCount(total)
                     /\ InSequence(frames, total)
             THEN [len   |-> total,
                   chunk |-> [i \in 1 .. ChunkCount(total) |-> frames[i].data]]
             ELSE Failed

(* isotp_on_first_frame: the announced total, or -1.                       *)
Announced(f) ==
    IF f.pci = "FF" /\ f.n > SingleBytes /\ f.n <= MaxLen THEN f.n ELSE -1
=============================================================================
