---------------------------- MODULE IsoTpChannel ----------------------------
(***************************************************************************)
(* One payload encoded by isotp_encode, its frames captured over a link    *)
(* that loses, repeats or reorders frames, and isotp_decode run on what    *)
(* has been captured so far.  isotp_decode's contract is stated for        *)
(* "already-captured frames": the link is what may have happened to them.  *)
(***************************************************************************)
EXTENDS IsoTp

CONSTANTS
    Lens,       (* payload lengths tried *)
    Bursts,     (* how many frames in a row one loss takes *)
    MaxFaults   (* bound on the number of faults on the link *)

ASSUME ChannelAssumption == 
    /\ Lens \subseteq 0 .. MaxLen
    /\ Bursts \subseteq Nat \ {0}
    /\ MaxFaults \in Nat

VARIABLES
    sent,       \* the payload
    link,       \* encoded frames not captured yet
    captured,   \* the frame array handed to isotp_decode
    faults

vars == << sent, link, captured, faults >>

(* A payload whose chunks are all different, so any mix-up shows.          *)
Numbered(len) == [len |-> len, chunk |-> [i \in 1 .. ChunkCount(len) |-> i]]

Init ==
    /\ \E len \in Lens : sent = Numbered(len)
    /\ link = Encode(sent)
    /\ captured = << >>
    /\ faults = 0

Deliver ==
    /\ link # << >>
    /\ captured' = Append(captured, Head(link))
    /\ link' = Tail(link)
    /\ UNCHANGED << sent, faults >>

Fault == faults < MaxFaults /\ faults' = faults + 1

(* k frames in a row never arrive; k = SeqCount leaves the numbering as is.*)
Lose ==
    /\ Fault
    /\ \E k \in Bursts :
         k <= Len(link) /\ link' = SubSeq(link, k + 1, Len(link))
    /\ UNCHANGED << sent, captured >>

Repeat ==
    /\ Fault
    /\ link # << >>
    /\ captured' = Append(captured, Head(link))
    /\ UNCHANGED << sent, link >>

Swap ==
    /\ Fault
    /\ Len(link) >= 2
    /\ link' = << link[2], link[1] >> \o SubSeq(link, 3, Len(link))
    /\ UNCHANGED << sent, captured >>

Next == Deliver \/ Lose \/ Repeat \/ Swap

Spec == Init /\ [][Next]_vars

-----------------------------------------------------------------------------
Decoded == Decode(captured, MaxLen)

TypeOK ==
    /\ sent.len \in Lens
    /\ faults \in 0 .. MaxFaults
    /\ \A f \in {captured[i] : i \in DOMAIN captured} :
         \/ f.pci = "SF" /\ f.n \in 0 .. SingleBytes
         \/ f.pci = "FF" /\ f.n \in SingleBytes + 1 .. MaxLen
         \/ f.pci = "CF" /\ f.n \in 0 .. SeqCount - 1

(* What isotp_decode accepts is the payload isotp_encode was given, whole: *)
(* a lost burst (even one that leaves the 4-bit numbering intact), a       *)
(* repeated frame, a swap or a capture that stops early is refused.        *)
NeverCorrupt == Decoded \in {Failed, sent}

(* Without a fault, the complete capture decodes, for every length the     *)
(* encoder accepts: the two loops agree on chunk sizes and numbering, also *)
(* where the sequence nibble wraps and at the last (64th) frame.           *)
RoundTrip ==
    faults = 0 /\ link = << >> /\ captured # << >> => Decoded = sent
=============================================================================
