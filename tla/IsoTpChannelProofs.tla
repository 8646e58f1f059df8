------------------------- MODULE IsoTpChannelProofs -------------------------
(***************************************************************************)
(* What isotp_decode makes of a capture, for every payload length, every   *)
(* burst length, every MaxFrames and every numbering modulus.              *)
(*                                                                         *)
(* A sequence nibble cannot tell a frame from the one SeqCount places away.*)
(* What keeps the decoder from putting a payload together wrongly is that  *)
(* a frame gets to a wrong place only together with others: a fault moves  *)
(* a frame by one place against its neighbour or takes frames away, and    *)
(* the sequence that results is ascending but for what the faults so far   *)
(* can have disturbed (BehindInv, OrderInv).                               *)
(***************************************************************************)
EXTENDS IsoTpChannel, Lists

Total == ChunkCount(sent.len)

(* The frame isotp_encode makes of chunk i: the numbering of the chunks    *)
(* lets a frame be known by its data.                                      *)
FrameAt(len, i) ==
    IF len <= SingleBytes THEN SF(len, 1)
    ELSE IF i = 1 THEN FF(len, 1)
    ELSE CF((i - 1) % SeqCount, i)

IsFrame(len, f) == f.data \in 1 .. ChunkCount(len) /\ f = FrameAt(len, f.data)

SentInv ==
    /\ sent = Numbered(sent.len)
    /\ sent.len \in Lens
    /\ faults \in 0 .. MaxFaults

FramesInv ==
    /\ IsList(link) /\ IsList(captured)
    /\ \A i \in 1 .. Len(link) : IsFrame(sent.len, link[i])
    /\ \A i \in 1 .. Len(captured) : IsFrame(sent.len, captured[i])

(* The places the frames of a list were cut from.                          *)
At(s) == [i \in DOMAIN s |-> s[i].data]

(* q, of m places, is ascending but for a swap of the first two.           *)
Rising(q, m, F) ==
    \A a, b \in 1 .. m : a < b =>
        \/ q[a] < q[b]
        \/ a = 1 /\ b = 2 /\ F >= 1 /\ q[b] < q[a]

(* A frame of q that should have come before (or is again) one of p, which *)
(* goes before q, has been passed by that many frames: one fault each.     *)
Passed(p, c, q, m, F) ==
    \A i \in 1 .. c, k \in 1 .. m : p[i] >= q[k] => c - i + k <= F

Disturbed(p, c, F) ==
    \A i, j \in 1 .. c : i < j /\ p[i] >= p[j] => j - i <= F

LinkInv   == Rising(At(link), Len(link), faults)
BehindInv == Passed(At(captured), Len(captured), At(link), Len(link), faults)
OrderInv  == Disturbed(At(captured), Len(captured), faults)

(* Until the first fault nothing is missing and everything is in place.    *)
InPlaceUpTo(p, c, q, m) ==
    /\ \A i \in 1 .. c : p[i] = i
    /\ \A k \in 1 .. m : q[k] = c + k

UntouchedInv ==
    faults = 0 =>
        /\ InPlaceUpTo(At(captured), Len(captured), At(link), Len(link))
        /\ Len(captured) + Len(link) \in {0, Total}
        /\ Len(captured) + Len(link) <= MaxFrames

ChannelInv ==
    SentInv /\ FramesInv /\ LinkInv /\ BehindInv /\ OrderInv /\ UntouchedInv

-----------------------------------------------------------------------------
(* Numbers with the same sequence nibble are at least SeqCount apart.      *)
LEMMA SameNibble ==
    ASSUME NEW S \in Nat \ {0}, NEW a \in Nat, NEW b \in Nat,
           a % S = b % S, a < b
    PROVE  b >= a + S
  <1>1. a = S * (a \div S) + (a % S) /\ b = S * (b \div S) + (b % S)
    OBVIOUS
  <1> PICK q, r, p : q = a \div S /\ r = b \div S /\ p = a % S
    OBVIOUS
  <1>2. q \in Int /\ r \in Int /\ p \in Int
    OBVIOUS
  <1>3. a = S * q + p /\ b = S * r + p
    BY <1>1
  <1>4. r - q >= 1
    BY <1>2, <1>3
  <1>5. S * (r - q) >= S
    BY <1>2, <1>4
  <1> QED
    BY <1>2, <1>3, <1>5

(* Frames that carry the sequence nibbles of the first N chunks, in an     *)
(* order that F < S faults can have produced, are the first N chunks: the  *)
(* first frame too low, or the last one too high, would have swapped sides *)
(* with the frame S places away.                                           *)
Numbers(p, N, S) ==
    \A i \in 1 .. N : p[i] \in 1 .. N /\ (p[i] - 1) % S = (i - 1) % S

LEMMA InPlace ==
    ASSUME NEW S \in Nat \ {0}, NEW F \in Nat, F < S, NEW N \in Nat, NEW p,
           Numbers(p, N, S), Disturbed(p, N, F)
    PROVE  \A i \in 1 .. N : p[i] = i
  <1>0. /\ \A i \in 1 .. N : p[i] \in 1 .. N /\ (p[i] - 1) % S = (i - 1) % S
        /\ \A i, j \in 1 .. N : i < j /\ p[i] >= p[j] => j - i <= F
    BY DEF Numbers, Disturbed
  <1>1. \A i \in 1 .. N : p[i] >= i
    <2> DEFINE T == {i \in 1 .. N : p[i] < i}
    <2> SUFFICES ASSUME T # {} PROVE FALSE
      BY <1>0
    <2>1. T \subseteq Nat
      OBVIOUS
    <2>2. PICK i \in T : \A y \in T : i <= y
      BY <2>1, LeastOf
    <2>3. i \in 1 .. N /\ p[i] \in 1 .. N /\ p[i] < i /\ (p[i] - 1) % S = (i - 1) % S
      BY <1>0
    <2>4. i - 1 >= p[i] - 1 + S
      <3> PICK a, b : a = p[i] - 1 /\ b = i - 1
        OBVIOUS
      <3>1. a \in Nat /\ b \in Nat /\ a % S = b % S /\ a < b
        BY <2>3
      <3>2. b >= a + S
        BY <3>1, SameNibble
      <3> QED BY <3>2
    <2>5. i - S \in 1 .. N /\ i - S < i /\ p[i] <= i - S
      BY <2>3, <2>4
    <2>6. p[i - S] >= i - S /\ p[i - S] \in 1 .. N
      BY <1>0, <2>2, <2>5
    <2>7. p[i - S] >= p[i]
      BY <2>3, <2>5, <2>6
    <2>8. i - (i - S) <= F
      BY <1>0, <2>3, <2>5, <2>7
    <2> QED
      BY <2>3, <2>8
  <1>2. \A i \in 1 .. N : p[i] <= i
    <2> DEFINE T == {m \in 0 .. N : \E i \in 1 .. N : m = N - i /\ p[i] > i}
    <2> SUFFICES ASSUME NEW w \in 1 .. N, p[w] > w PROVE FALSE
      BY <1>0
    <2>1. T \subseteq Nat /\ N - w \in T
      OBVIOUS
    <2>2. PICK m \in T : \A y \in T : m <= y
      BY <2>1, LeastOf
    <2>3. PICK i \in 1 .. N : m = N - i /\ p[i] > i
      OBVIOUS
    <2>4. \A j \in 1 .. N : p[j] > j => N - j \in T
      OBVIOUS
    <2>5. \A j \in 1 .. N : p[j] > j => j <= i
      <3> SUFFICES ASSUME NEW j \in 1 .. N, p[j] > j PROVE j <= i
        OBVIOUS
      <3>1. m <= N - j
        BY <2>2, <2>4
      <3> QED BY <2>3, <3>1
    <2>6. p[i] \in 1 .. N /\ (i - 1) % S = (p[i] - 1) % S
      BY <1>0
    <2>7. p[i] - 1 >= i - 1 + S
      <3> PICK a, b : a = i - 1 /\ b = p[i] - 1
        OBVIOUS
      <3>1. a \in Nat /\ b \in Nat /\ a % S = b % S /\ a < b
        BY <2>3, <2>6
      <3>2. b >= a + S
        BY <3>1, SameNibble
      <3> QED BY <3>2
    <2>8. i + S \in 1 .. N /\ p[i] >= i + S
      BY <2>6, <2>7
    <2>9. p[i + S] <= i + S /\ p[i + S] \in 1 .. N
      BY <1>0, <2>5, <2>8
    <2>10. i < i + S /\ p[i] >= p[i + S]
      BY <2>6, <2>8, <2>9
    <2>11. (i + S) - i <= F
      BY <1>0, <2>8, <2>10
    <2> QED
      BY <2>11
  <1> QED
    BY <1>0, <1>1, <1>2

LEMMA Lengths ==
    ASSUME NEW len \in 0 .. MaxLen
    PROVE  len # -1 /\ len <= MaxLen
  BY DEF MaxLen

(* A payload has at least one chunk, and just one when it is short.        *)
LEMMA Chunks ==
    ASSUME NEW len \in 0 .. MaxLen
    PROVE  /\ ChunkCount(len) \in Nat \ {0}
           /\ len <= SingleBytes => ChunkCount(len) = 1
  BY DEF ChunkCount, NextCount, MaxLen, SingleBytes, FirstBytes, NextBytes

-----------------------------------------------------------------------------
(* The encoder's frames are in place on the link.                          *)
LEMMA FreshLink ==
    ASSUME Init
    PROVE  ChannelInv
  <1> USE IsoTpAssumption, ChannelAssumption
  <1> PICK len \in Lens : sent = Numbered(len)
    BY DEF Init
  <1>1. /\ sent.len = len /\ len \in 0 .. MaxLen /\ sent = Numbered(len)
        /\ sent.chunk = [i \in 1 .. Total |-> i]
    BY DEF Numbered, Total
  <1> PICK n : n = Total /\ n = ChunkCount(len)
    BY <1>1 DEF Total
  <1>2. n \in Nat \ {0} /\ (len <= SingleBytes => n = 1)
    BY <1>1, Chunks
  <1>3. \A i \in 1 .. n : sent.chunk[i] = i
    BY <1>1
  <1>4. /\ IsList(link) /\ Len(link) \in {0, n} /\ Len(link) <= MaxFrames
        /\ DOMAIN link = 1 .. Len(link)
        /\ \A i \in 1 .. Len(link) : link[i] = FrameAt(len, i)
    <2>1. CASE len <= SingleBytes
      <3>1. link = << SF(len, 1) >>
        BY <1>1, <1>2, <1>3, <2>1 DEF Init, Encode
      <3>2. FrameAt(len, 1) = SF(len, 1) /\ n = 1
        BY <1>1, <1>2, <2>1 DEF FrameAt
      <3>3. IsList(link)
        BY <3>1 DEF IsList, Range
      <3> QED BY <3>1, <3>2, <3>3
    <2>2. CASE len > SingleBytes /\ n > MaxFrames
      <3>1. link = << >>
        BY <1>1, <2>2 DEF Init, Encode, SingleBytes
      <3> QED BY <3>1, EmptyList
    <2>3. CASE len > SingleBytes /\ ~(n > MaxFrames)
      <3>1. ~(len <= SingleBytes) /\ ~(len > MaxLen)
        <4>1. len \in 0 .. MaxLen
          BY <1>1
        <4> QED BY <2>3, <4>1 DEF SingleBytes, MaxLen
      <3> DEFINE g(i) == IF i = 1 THEN FF(len, sent.chunk[1])
                                  ELSE CF((i - 1) % SeqCount, sent.chunk[i])
      <3>2. link = [i \in 1 .. n |-> g(i)]
        BY <1>1, <2>3, <3>1 DEF Init, Encode
      <3>3. \A i \in 1 .. n : g(i) = FrameAt(len, i)
        BY <1>1, <1>2, <1>3, <3>1 DEF FrameAt
      <3> HIDE DEF g
      <3>4. link = [i \in 1 .. n |-> FrameAt(len, i)]
        BY <3>2, <3>3
      <3>5. link \in [1 .. n -> Range(link)]
        BY <3>4 DEF Range
      <3>6. link \in Seq(Range(link)) /\ Len(link) = n
        BY <1>2, <3>5, LenProperties, SeqDef
      <3>7. n <= MaxFrames
        BY <1>2, <2>3
      <3> QED
        BY <3>4, <3>6, <3>7 DEF IsList
    <2> QED BY <1>1, <1>2, <2>1, <2>2, <2>3 DEF SingleBytes, MaxLen
  <1>5. \A i \in 1 .. n : FrameAt(len, i).data = i
    BY <1>1, <1>2 DEF FrameAt, SF, FF, CF
  <1>6. /\ captured = << >> /\ faults = 0 /\ IsList(captured) /\ Len(captured) = 0
    BY EmptyList DEF Init
  <1>7. \A i \in 1 .. Len(link) : IsFrame(len, link[i]) /\ link[i].data = i
    BY <1>2, <1>4, <1>5 DEF IsFrame
  <1>8. SentInv /\ FramesInv
    BY <1>1, <1>4, <1>6, <1>7 DEF SentInv, FramesInv
  <1> PICK p, q, m : p = At(captured) /\ q = At(link) /\ m = Len(link)
    OBVIOUS
  <1>9. /\ m \in {0, n} /\ m <= MaxFrames
        /\ \A k \in 1 .. m : q[k] = k
    BY <1>4, <1>7 DEF At
  <1>10. Rising(q, m, 0) /\ Passed(p, 0, q, m, 0) /\ Disturbed(p, 0, 0)
    BY <1>2, <1>9 DEF Rising, Passed, Disturbed
  <1>11. InPlaceUpTo(p, 0, q, m) /\ 0 + m \in {0, Total} /\ 0 + m <= MaxFrames
    BY <1>2, <1>9 DEF InPlaceUpTo
  <1>12. LinkInv /\ BehindInv /\ OrderInv /\ UntouchedInv
    BY <1>6, <1>10, <1>11 DEF LinkInv, BehindInv, OrderInv, UntouchedInv
  <1> QED
    BY <1>8, <1>12 DEF ChannelInv

-----------------------------------------------------------------------------
InOrder(p, c, q, m, F) ==
    /\ c \in Nat /\ m \in Nat /\ F \in Nat
    /\ \A i \in 1 .. c : p[i] \in Int
    /\ \A k \in 1 .. m : q[k] \in Int
    /\ Rising(q, m, F) /\ Passed(p, c, q, m, F) /\ Disturbed(p, c, F)

(* The next four: what a step does to the places.  Capturing the frame at  *)
(* the head of the link.                                                   *)
LEMMA Captured ==
    ASSUME NEW c, NEW m, m >= 1, NEW F,
           NEW p, NEW q, NEW p2, NEW q2,
           InOrder(p, c, q, m, F),
           \A i \in 1 .. c : p2[i] = p[i], p2[c + 1] = q[1],
           \A k \in 1 .. m - 1 : q2[k] = q[k + 1]
    PROVE  InOrder(p2, c + 1, q2, m - 1, F)
  <1>0. /\ c \in Nat /\ m \in Nat /\ F \in Nat
        /\ \A i \in 1 .. c : p[i] \in Int
        /\ \A k \in 1 .. m : q[k] \in Int
        /\ Rising(q, m, F) /\ Passed(p, c, q, m, F) /\ Disturbed(p, c, F)
    BY DEF InOrder
  <1> USE <1>0
  <1>1. Rising(q2, m - 1, F)
    BY DEF Rising
  <1>2. Passed(p2, c + 1, q2, m - 1, F)
    <2> SUFFICES ASSUME NEW i \in 1 .. c + 1, NEW k \in 1 .. m - 1, p2[i] >= q2[k]
                 PROVE  c + 1 - i + k <= F
      BY DEF Passed
    <2>1. q2[k] = q[k + 1] /\ k + 1 \in 1 .. m
      OBVIOUS
    <2>2. CASE i <= c
      <3>1. c - i + (k + 1) <= F
        BY <2>1, <2>2 DEF Passed
      <3> QED BY <3>1
    <2>3. CASE i = c + 1
      <3>1. q[1] >= q[k + 1] /\ 1 < k + 1
        BY <2>1, <2>3
      <3> QED BY <2>1, <2>3, <3>1 DEF Rising
    <2> QED BY <2>2, <2>3
  <1>3. Disturbed(p2, c + 1, F)
    <2> SUFFICES ASSUME NEW i \in 1 .. c + 1, NEW j \in 1 .. c + 1, i < j, p2[i] >= p2[j]
                 PROVE  j - i <= F
      BY DEF Disturbed
    <2>1. CASE j <= c
      BY <2>1 DEF Disturbed
    <2>2. CASE j = c + 1
      <3>1. i \in 1 .. c /\ p[i] >= q[1]
        BY <2>2
      <3>2. c - i + 1 <= F
        BY <3>1 DEF Passed
      <3> QED BY <2>2, <3>2
    <2> QED BY <2>1, <2>2
  <1> QED
    BY <1>1, <1>2, <1>3 DEF InOrder

(* Losing the frames before place d + 1 of the link.                       *)
LEMMA Lost ==
    ASSUME NEW c, NEW m, NEW F, NEW d \in 1 .. m,
           NEW p, NEW q, NEW q2,
           InOrder(p, c, q, m, F),
           \A k \in 1 .. m - d : q2[k] = q[k + d]
    PROVE  InOrder(p, c, q2, m - d, F + 1)
  <1>0. /\ c \in Nat /\ m \in Nat /\ F \in Nat
        /\ \A i \in 1 .. c : p[i] \in Int
        /\ \A k \in 1 .. m : q[k] \in Int
        /\ Rising(q, m, F) /\ Passed(p, c, q, m, F) /\ Disturbed(p, c, F)
    BY DEF InOrder
  <1> USE <1>0
  <1>1. Rising(q2, m - d, F + 1)
    BY DEF Rising
  <1>2. Passed(p, c, q2, m - d, F + 1)
    <2> SUFFICES ASSUME NEW i \in 1 .. c, NEW k \in 1 .. m - d, p[i] >= q2[k]
                 PROVE  c - i + k <= F + 1
      BY DEF Passed
    <2>1. q2[k] = q[k + d] /\ k + d \in 1 .. m
      OBVIOUS
    <2>2. c - i + (k + d) <= F
      BY <2>1 DEF Passed
    <2> QED BY <2>2
  <1>3. Disturbed(p, c, F + 1)
    BY DEF Disturbed
  <1> QED
    BY <1>1, <1>2, <1>3 DEF InOrder

(* Capturing the frame at the head of the link and leaving it there.       *)
LEMMA Repeated ==
    ASSUME NEW c, NEW m, m >= 1, NEW F,
           NEW p, NEW q, NEW p2,
           InOrder(p, c, q, m, F),
           \A i \in 1 .. c : p2[i] = p[i], p2[c + 1] = q[1]
    PROVE  InOrder(p2, c + 1, q, m, F + 1)
  <1>0. /\ c \in Nat /\ m \in Nat /\ F \in Nat
        /\ \A i \in 1 .. c : p[i] \in Int
        /\ \A k \in 1 .. m : q[k] \in Int
        /\ Rising(q, m, F) /\ Passed(p, c, q, m, F) /\ Disturbed(p, c, F)
    BY DEF InOrder
  <1> USE <1>0
  <1>1. Rising(q, m, F + 1)
    BY DEF Rising
  <1>2. Passed(p2, c + 1, q, m, F + 1)
    <2> SUFFICES ASSUME NEW i \in 1 .. c + 1, NEW k \in 1 .. m, p2[i] >= q[k]
                 PROVE  c + 1 - i + k <= F + 1
      BY DEF Passed
    <2>1. CASE i <= c
      <3>1. c - i + k <= F
        BY <2>1 DEF Passed
      <3> QED BY <3>1
    <2>2. CASE i = c + 1
      <3>1. q[1] >= q[k]
        BY <2>2
      <3>2. k = 1 \/ (k = 2 /\ F >= 1)
        BY <3>1 DEF Rising
      <3> QED BY <2>2, <3>2
    <2> QED BY <2>1, <2>2
  <1>3. Disturbed(p2, c + 1, F + 1)
    <2> SUFFICES ASSUME NEW i \in 1 .. c + 1, NEW j \in 1 .. c + 1, i < j, p2[i] >= p2[j]
                 PROVE  j - i <= F + 1
      BY DEF Disturbed
    <2>1. CASE j <= c
      <3>1. j - i <= F
        BY <2>1 DEF Disturbed
      <3> QED BY <3>1
    <2>2. CASE j = c + 1
      <3>1. i \in 1 .. c /\ p[i] >= q[1]
        BY <2>2
      <3>2. c - i + 1 <= F
        BY <3>1 DEF Passed
      <3> QED BY <2>2, <3>2
    <2> QED BY <2>1, <2>2
  <1> QED
    BY <1>1, <1>2, <1>3 DEF InOrder

(* Swapping the two frames at the head of the link.                        *)
LEMMA Swapped ==
    ASSUME NEW c, NEW m, m >= 2, NEW F,
           NEW p, NEW q, NEW q2,
           InOrder(p, c, q, m, F),
           q2[1] = q[2], q2[2] = q[1], \A k \in 3 .. m : q2[k] = q[k]
    PROVE  InOrder(p, c, q2, m, F + 1)
  <1>0. /\ c \in Nat /\ m \in Nat /\ F \in Nat
        /\ \A i \in 1 .. c : p[i] \in Int
        /\ \A k \in 1 .. m : q[k] \in Int
        /\ Rising(q, m, F) /\ Passed(p, c, q, m, F) /\ Disturbed(p, c, F)
    BY DEF InOrder
  <1> USE <1>0
  <1>1. Rising(q2, m, F + 1)
    <2> SUFFICES ASSUME NEW a \in 1 .. m, NEW b \in 1 .. m, a < b
                 PROVE  \/ q2[a] < q2[b]
                        \/ a = 1 /\ b = 2 /\ F + 1 >= 1 /\ q2[b] < q2[a]
      BY DEF Rising
    <2>1. CASE a >= 3
      <3>1. q[a] < q[b]
        BY <2>1 DEF Rising
      <3> QED BY <2>1, <3>1
    <2>2. CASE a = 2 /\ b >= 3
      <3>1. q[1] < q[b]
        BY <2>2 DEF Rising
      <3> QED BY <2>2, <3>1
    <2>3. CASE a = 1 /\ b >= 3
      <3>1. q[2] < q[b]
        BY <2>3 DEF Rising
      <3> QED BY <2>3, <3>1
    <2>4. CASE a = 1 /\ b = 2
      <3>1. q[1] < q[2] \/ q[2] < q[1]
        BY DEF Rising
      <3> QED BY <2>4, <3>1
    <2> QED BY <2>1, <2>2, <2>3, <2>4
  <1>2. Passed(p, c, q2, m, F + 1)
    <2> SUFFICES ASSUME NEW i \in 1 .. c, NEW k \in 1 .. m, p[i] >= q2[k]
                 PROVE  c - i + k <= F + 1
      BY DEF Passed
    <2>1. CASE k = 1
      <3>1. c - i + 2 <= F
        BY <2>1 DEF Passed
      <3> QED BY <2>1, <3>1
    <2>2. CASE k = 2
      <3>1. c - i + 1 <= F
        BY <2>2 DEF Passed
      <3> QED BY <2>2, <3>1
    <2>3. CASE k >= 3
      <3>1. c - i + k <= F
        BY <2>3 DEF Passed
      <3> QED BY <3>1
    <2> QED BY <2>1, <2>2, <2>3
  <1>3. Disturbed(p, c, F + 1)
    BY DEF Disturbed
  <1> QED
    BY <1>1, <1>2, <1>3 DEF InOrder

-----------------------------------------------------------------------------
(* The lists and the places of their frames, in numbers.                   *)
OnLink(m, q) ==
    /\ m \in Nat /\ DOMAIN link = 1 .. m /\ IsList(link)
    /\ \A k \in 1 .. m : q[k] = link[k].data
    /\ \A k \in 1 .. m : IsFrame(sent.len, link[k])

InCapture(c, p) ==
    /\ c \in Nat /\ DOMAIN captured = 1 .. c /\ IsList(captured)
    /\ \A i \in 1 .. c : p[i] = captured[i].data
    /\ \A i \in 1 .. c : IsFrame(sent.len, captured[i])

LEMMA Places ==
    ASSUME ChannelInv,
           NEW c, NEW m, NEW p, NEW q, NEW F,
           c = Len(captured), m = Len(link), p = At(captured), q = At(link), F = faults
    PROVE  OnLink(m, q) /\ InCapture(c, p) /\ InOrder(p, c, q, m, F)
  <1>1. IsList(captured) /\ IsList(link)
    BY DEF ChannelInv, FramesInv
  <1>2. c \in Nat /\ DOMAIN captured = 1 .. c /\ m \in Nat /\ DOMAIN link = 1 .. m
    BY <1>1, LenProperties DEF IsList
  <1>3. /\ \A i \in 1 .. c : IsFrame(sent.len, captured[i])
        /\ \A k \in 1 .. m : IsFrame(sent.len, link[k])
    BY DEF ChannelInv, FramesInv
  <1>4. /\ \A i \in 1 .. c : p[i] = captured[i].data
        /\ \A k \in 1 .. m : q[k] = link[k].data
    BY <1>2 DEF At
  <1>5. ChunkCount(sent.len) \in Nat
    BY Chunks, ChannelAssumption DEF ChannelInv, SentInv
  <1>6. /\ \A i \in 1 .. c : p[i] \in Int
        /\ \A k \in 1 .. m : q[k] \in Int
    BY <1>3, <1>4, <1>5 DEF IsFrame
  <1>7. F \in Nat
    BY ChannelAssumption DEF ChannelInv, SentInv
  <1>8. Rising(q, m, F) /\ Passed(p, c, q, m, F) /\ Disturbed(p, c, F)
    BY DEF ChannelInv, LinkInv, BehindInv, OrderInv
  <1>9. OnLink(m, q)
    BY <1>1, <1>2, <1>3, <1>4 DEF OnLink
  <1>10. InCapture(c, p)
    BY <1>1, <1>2, <1>3, <1>4 DEF InCapture
  <1>11. InOrder(p, c, q, m, F)
    BY <1>2, <1>6, <1>7, <1>8 DEF InOrder
  <1> QED
    BY <1>9, <1>10, <1>11

LEMMA DeliverGoesOn ==
    ASSUME ChannelInv, Deliver
    PROVE  ChannelInv'
  <1> PICK c, m, p, q : c = Len(captured) /\ m = Len(link) /\ p = At(captured) /\ q = At(link)
    OBVIOUS
  <1> PICK F, len, h : F = faults /\ len = sent.len /\ h = link[1]
    OBVIOUS
  <1> PICK p2, q2 : p2 = At(captured)' /\ q2 = At(link)'
    OBVIOUS
  <1>0. OnLink(m, q) /\ InCapture(c, p) /\ InOrder(p, c, q, m, F)
    BY Places
  <1>1. /\ m \in Nat /\ DOMAIN link = 1 .. m /\ IsList(link) /\ c \in Nat /\ IsList(captured)
        /\ \A k \in 1 .. m : q[k] = link[k].data /\ IsFrame(len, link[k])
        /\ \A i \in 1 .. c : p[i] = captured[i].data /\ IsFrame(len, captured[i])
        /\ F \in Nat
    BY <1>0 DEF OnLink, InCapture, InOrder
  <1>2. IsTail(link', link) /\ IsAppended(captured', captured, h)
    <2>1. link # << >>
      BY DEF Deliver
    <2>2. IsTail(Tail(link), link)
      BY <1>1, <2>1, Tailed
    <2>3. Head(link) = h
      BY <2>2 DEF IsTail
    <2>4. IsAppended(Append(captured, Head(link)), captured, Head(link))
      BY <1>1, Listed
    <2> QED BY <2>2, <2>3, <2>4 DEF Deliver
  <1>3. /\ m >= 1 /\ IsList(link') /\ Len(link') = m - 1
        /\ DOMAIN link' = 1 .. m - 1
        /\ \A k \in 1 .. m - 1 : link'[k] = link[k + 1]
    BY <1>1, <1>2 DEF IsTail
  <1>4. /\ IsList(captured') /\ Len(captured') = c + 1
        /\ DOMAIN captured' = 1 .. c + 1
        /\ \A i \in 1 .. c : captured'[i] = captured[i]
        /\ captured'[c + 1] = h
    BY <1>2 DEF IsAppended
  <1>5. sent' = sent /\ faults' = F /\ sent'.len = len
    BY DEF Deliver
  <1>6. /\ \A i \in 1 .. c : p2[i] = p[i]
        /\ p2[c + 1] = q[1]
        /\ \A k \in 1 .. m - 1 : q2[k] = q[k + 1]
    BY <1>1, <1>3, <1>4 DEF At
  <1>7. SentInv'
    BY <1>5 DEF ChannelInv, SentInv
  <1>8. FramesInv'
    <2>1. \A k \in 1 .. m - 1 : IsFrame(len, link'[k])
      BY <1>1, <1>3
    <2>2. \A i \in 1 .. c + 1 : IsFrame(len, captured'[i])
      BY <1>1, <1>3, <1>4
    <2> QED BY <1>3, <1>4, <1>5, <2>1, <2>2 DEF FramesInv
  <1>9. InOrder(p2, c + 1, q2, m - 1, F)
    <2>1. InOrder(p, c, q, m, F) /\ m >= 1
      BY <1>0, <1>3
    <2> QED BY <1>6, <2>1, Captured
  <1>10. LinkInv' /\ BehindInv' /\ OrderInv'
    BY <1>3, <1>4, <1>5, <1>9 DEF InOrder, LinkInv, BehindInv, OrderInv
  <1>11. UntouchedInv'
    <2> SUFFICES ASSUME F = 0
                 PROVE  /\ InPlaceUpTo(p2, c + 1, q2, m - 1)
                        /\ (c + 1) + (m - 1) \in {0, Total'}
                        /\ (c + 1) + (m - 1) <= MaxFrames
      BY <1>3, <1>4, <1>5 DEF UntouchedInv
    <2>1. InPlaceUpTo(p, c, q, m) /\ c + m \in {0, Total} /\ c + m <= MaxFrames
      BY DEF ChannelInv, UntouchedInv
    <2>2. InPlaceUpTo(p2, c + 1, q2, m - 1)
      <3>1. \A i \in 1 .. c + 1 : p2[i] = i
        <4>1. c \in Nat /\ m \in Nat /\ m >= 1
          BY <1>1, <1>3
        <4>2. (\A i \in 1 .. c : p[i] = i) /\ q[1] = c + 1
          BY <2>1, <4>1 DEF InPlaceUpTo
        <4> QED BY <1>6, <4>1, <4>2
      <3>2. \A k \in 1 .. m - 1 : q2[k] = c + 1 + k
        BY <1>1, <1>3, <1>6, <2>1 DEF InPlaceUpTo
      <3> QED BY <3>1, <3>2 DEF InPlaceUpTo
    <2>3. Total' = Total
      BY <1>5 DEF Total
    <2>4. (c + 1) + (m - 1) = c + m
      BY <1>1
    <2> QED BY <2>1, <2>2, <2>3, <2>4
  <1> QED
    BY <1>7, <1>8, <1>10, <1>11 DEF ChannelInv

LEMMA LoseGoesOn ==
    ASSUME ChannelInv, Lose
    PROVE  ChannelInv'
  <1> PICK c, m, p, q : c = Len(captured) /\ m = Len(link) /\ p = At(captured) /\ q = At(link)
    OBVIOUS
  <1> PICK F, len, q2 : F = faults /\ len = sent.len /\ q2 = At(link)'
    OBVIOUS
  <1>0. OnLink(m, q) /\ InCapture(c, p) /\ InOrder(p, c, q, m, F)
    BY Places
  <1>1. /\ m \in Nat /\ DOMAIN link = 1 .. m /\ IsList(link) /\ c \in Nat /\ IsList(captured)
        /\ \A k \in 1 .. m : q[k] = link[k].data /\ IsFrame(len, link[k])
        /\ \A i \in 1 .. c : p[i] = captured[i].data /\ IsFrame(len, captured[i])
        /\ F \in Nat
    BY <1>0 DEF OnLink, InCapture, InOrder
  <1>2. PICK d \in Bursts : d <= Len(link) /\ link' = SubSeq(link, d + 1, Len(link))
    BY DEF Lose
  <1>3. d \in 1 .. m
    BY <1>1, <1>2, ChannelAssumption
  <1>4. /\ IsList(link') /\ Len(link') = m - d
        /\ DOMAIN link' = 1 .. m - d
        /\ \A k \in 1 .. m - d : link'[k] = link[k + d]
    BY <1>1, <1>2, <1>3, Dropped
  <1>5. sent' = sent /\ captured' = captured /\ faults' = F + 1 /\ F < MaxFaults
    BY DEF Lose, Fault
  <1>6. \A k \in 1 .. m - d : q2[k] = q[k + d]
    BY <1>1, <1>3, <1>4 DEF At
  <1>7. SentInv'
    BY <1>1, <1>5, ChannelAssumption DEF ChannelInv, SentInv
  <1>8. FramesInv'
    <2>1. \A k \in 1 .. m - d : IsFrame(len, link'[k])
      BY <1>1, <1>3, <1>4
    <2> QED BY <1>1, <1>4, <1>5, <2>1 DEF FramesInv
  <1>9. InOrder(p, c, q2, m - d, F + 1)
    BY <1>0, <1>1, <1>3, <1>6, Lost
  <1>10. LinkInv' /\ BehindInv' /\ OrderInv'
    BY <1>4, <1>5, <1>9 DEF InOrder, LinkInv, BehindInv, OrderInv
  <1>11. UntouchedInv'
    BY <1>1, <1>5 DEF UntouchedInv
  <1> QED
    BY <1>7, <1>8, <1>10, <1>11 DEF ChannelInv

LEMMA RepeatGoesOn ==
    ASSUME ChannelInv, Repeat
    PROVE  ChannelInv'
  <1> PICK c, m, p, q : c = Len(captured) /\ m = Len(link) /\ p = At(captured) /\ q = At(link)
    OBVIOUS
  <1> PICK F, len, h, p2 : F = faults /\ len = sent.len /\ h = link[1] /\ p2 = At(captured)'
    OBVIOUS
  <1>0. OnLink(m, q) /\ InCapture(c, p) /\ InOrder(p, c, q, m, F)
    BY Places
  <1>1. /\ m \in Nat /\ DOMAIN link = 1 .. m /\ IsList(link) /\ c \in Nat /\ IsList(captured)
        /\ \A k \in 1 .. m : q[k] = link[k].data /\ IsFrame(len, link[k])
        /\ \A i \in 1 .. c : p[i] = captured[i].data /\ IsFrame(len, captured[i])
        /\ F \in Nat
    BY <1>0 DEF OnLink, InCapture, InOrder
  <1>2. IsTail(Tail(link), link) /\ IsAppended(captured', captured, h)
    <2>1. link # << >>
      BY DEF Repeat
    <2>2. IsTail(Tail(link), link)
      BY <1>1, <2>1, Tailed
    <2>3. Head(link) = h
      BY <2>2 DEF IsTail
    <2>4. IsAppended(Append(captured, Head(link)), captured, Head(link))
      BY <1>1, Listed
    <2> QED BY <2>2, <2>3, <2>4 DEF Repeat
  <1>3. m >= 1
    BY <1>1, <1>2 DEF IsTail
  <1>4. /\ IsList(captured') /\ Len(captured') = c + 1
        /\ DOMAIN captured' = 1 .. c + 1
        /\ \A i \in 1 .. c : captured'[i] = captured[i]
        /\ captured'[c + 1] = h
    BY <1>2 DEF IsAppended
  <1>5. sent' = sent /\ link' = link /\ faults' = F + 1 /\ F < MaxFaults
    BY DEF Repeat, Fault
  <1>6. (\A i \in 1 .. c : p2[i] = p[i]) /\ p2[c + 1] = q[1]
    BY <1>1, <1>3, <1>4 DEF At
  <1>7. SentInv'
    BY <1>1, <1>5, ChannelAssumption DEF ChannelInv, SentInv
  <1>8. FramesInv'
    <2>1. \A i \in 1 .. c + 1 : IsFrame(len, captured'[i])
      BY <1>1, <1>3, <1>4
    <2> QED BY <1>1, <1>4, <1>5, <2>1 DEF FramesInv
  <1>9. InOrder(p2, c + 1, q, m, F + 1)
    BY <1>0, <1>1, <1>3, <1>6, Repeated
  <1>10. LinkInv' /\ BehindInv' /\ OrderInv'
    BY <1>4, <1>5, <1>9 DEF InOrder, LinkInv, BehindInv, OrderInv
  <1>11. UntouchedInv'
    BY <1>1, <1>5 DEF UntouchedInv
  <1> QED
    BY <1>7, <1>8, <1>10, <1>11 DEF ChannelInv

LEMMA SwapGoesOn ==
    ASSUME ChannelInv, Swap
    PROVE  ChannelInv'
  <1> PICK c, m, p, q : c = Len(captured) /\ m = Len(link) /\ p = At(captured) /\ q = At(link)
    OBVIOUS
  <1> PICK F, len, q2 : F = faults /\ len = sent.len /\ q2 = At(link)'
    OBVIOUS
  <1>0. OnLink(m, q) /\ InCapture(c, p) /\ InOrder(p, c, q, m, F)
    BY Places
  <1>1. /\ m \in Nat /\ DOMAIN link = 1 .. m /\ IsList(link) /\ c \in Nat /\ IsList(captured)
        /\ \A k \in 1 .. m : q[k] = link[k].data /\ IsFrame(len, link[k])
        /\ \A i \in 1 .. c : p[i] = captured[i].data /\ IsFrame(len, captured[i])
        /\ F \in Nat
    BY <1>0 DEF OnLink, InCapture, InOrder
  <1>2. m >= 2 /\ link' = << link[2], link[1] >> \o SubSeq(link, 3, Len(link))
    BY DEF Swap
  <1>3. /\ IsList(link') /\ Len(link') = m /\ DOMAIN link' = 1 .. m
        /\ link'[1] = link[2] /\ link'[2] = link[1]
        /\ \A k \in 3 .. m : link'[k] = link[k]
    <2> PICK g, h, t, u : g = link[2] /\ h = link[1] /\ t = SubSeq(link, 3, Len(link)) /\ u = << g, h >>
      OBVIOUS
    <2> PICK l : l = u \o t
      OBVIOUS
    <2> PICK T : T = Range(t) \cup {g, h}
      OBVIOUS
    <2>1. 2 \in 1 .. Len(link) /\ 2 + 1 = 3
      BY <1>1, <1>2
    <2>2. /\ IsList(t) /\ Len(t) = m - 2
          /\ \A i \in 1 .. m - 2 : t[i] = link[i + 2]
      BY <1>1, <2>1, Dropped
    <2>3. t \in Seq(T)
      BY <2>2 DEF IsList
    <2>4. u \in Seq(T) /\ Len(u) = 2 /\ u[1] = g /\ u[2] = h
      OBVIOUS
    <2>5. l \in Seq(T) /\ IsJoined(l, u, t)
      BY <2>3, <2>4, Joined
    <2>6. /\ DOMAIN l = 1 .. 2 + (m - 2) /\ Len(l) = 2 + (m - 2)
          /\ \A i \in 1 .. 2 : l[i] = u[i]
          /\ \A i \in 1 .. m - 2 : l[2 + i] = t[i]
      BY <2>2, <2>4, <2>5 DEF IsJoined
    <2>7. DOMAIN l = 1 .. m /\ Len(l) = m /\ l[1] = g /\ l[2] = h
      BY <1>1, <2>4, <2>6
    <2>8. \A k \in 3 .. m : l[k] = link[k]
      <3> SUFFICES ASSUME NEW k \in 3 .. m PROVE l[k] = link[k]
        OBVIOUS
      <3> PICK i : i = k - 2
        OBVIOUS
      <3>1. i \in 1 .. m - 2 /\ k = 2 + i /\ k = i + 2
        BY <1>1
      <3> QED BY <2>2, <2>6, <3>1
    <2>9. l = [k \in 1 .. m |-> l[k]]
      BY <2>5, <2>7, LenProperties
    <2>10. IsList(l)
      BY <1>1, <2>7, <2>9, ListOf
    <2>11. link' = l
      BY <1>2
    <2> QED BY <2>7, <2>8, <2>10, <2>11
  <1>4. sent' = sent /\ captured' = captured /\ faults' = F + 1 /\ F < MaxFaults
    BY DEF Swap, Fault
  <1>5. q2[1] = q[2] /\ q2[2] = q[1] /\ \A k \in 3 .. m : q2[k] = q[k]
    BY <1>1, <1>2, <1>3 DEF At
  <1>6. SentInv'
    BY <1>1, <1>4, ChannelAssumption DEF ChannelInv, SentInv
  <1>7. FramesInv'
    <2>1. \A k \in 1 .. m : IsFrame(len, link'[k])
      <3>1. \A k \in 3 .. m : IsFrame(len, link'[k])
        BY <1>1, <1>3
      <3>2. IsFrame(len, link'[1]) /\ IsFrame(len, link'[2])
        BY <1>1, <1>2, <1>3
      <3> QED BY <1>1, <3>1, <3>2
    <2> QED BY <1>1, <1>3, <1>4, <2>1 DEF FramesInv
  <1>8. InOrder(p, c, q2, m, F + 1)
    BY <1>0, <1>2, <1>5, Swapped
  <1>9. LinkInv' /\ BehindInv' /\ OrderInv'
    BY <1>3, <1>4, <1>8 DEF InOrder, LinkInv, BehindInv, OrderInv
  <1>10. UntouchedInv'
    BY <1>1, <1>4 DEF UntouchedInv
  <1> QED
    BY <1>6, <1>7, <1>9, <1>10 DEF ChannelInv

(* The inductive invariant.                                                *)
LEMMA ChannelInvariant == Spec => []ChannelInv
  <1>1. Init => ChannelInv
    BY FreshLink
  <1>2. ChannelInv /\ [Next]_vars => ChannelInv'
    <2> SUFFICES ASSUME ChannelInv, [Next]_vars PROVE ChannelInv'
      OBVIOUS
    <2>1. CASE Deliver
      BY <2>1, DeliverGoesOn
    <2>2. CASE Lose
      BY <2>2, LoseGoesOn
    <2>3. CASE Repeat
      BY <2>3, RepeatGoesOn
    <2>4. CASE Swap
      BY <2>4, SwapGoesOn
    <2>5. CASE UNCHANGED vars
      BY <2>5 DEF vars, ChannelInv, SentInv, FramesInv, LinkInv, BehindInv, OrderInv,
                  UntouchedInv, Total
    <2> QED
      BY <2>1, <2>2, <2>3, <2>4, <2>5 DEF Next
  <1> QED
    BY <1>1, <1>2, PTL DEF Spec

-----------------------------------------------------------------------------
(* What a decoded capture is compared with: the payload, chunk by chunk.   *)
LEMMA SentIs ==
    ASSUME ChannelInv
    PROVE  /\ sent.len \in 0 .. MaxLen
           /\ sent = [len |-> sent.len, chunk |-> [i \in 1 .. ChunkCount(sent.len) |-> i]]
  BY ChannelAssumption DEF ChannelInv, SentInv, Numbered

(* A frame with the PCI of a single or a first frame is the payload's own. *)
LEMMA FrameIs ==
    ASSUME NEW len \in 0 .. MaxLen, NEW f, IsFrame(len, f)
    PROVE  /\ \/ f.pci = "SF" /\ f.n = len /\ f.data = 1 /\ len <= SingleBytes
              \/ f.pci = "FF" /\ f.n = len /\ f.data = 1 /\ len > SingleBytes
              \/ /\ f.pci = "CF" /\ f.n = (f.data - 1) % SeqCount
                 /\ len > SingleBytes /\ f.data # 1
           /\ f.data \in 1 .. ChunkCount(len)
  <1>1. f.data \in 1 .. ChunkCount(len) /\ f = FrameAt(len, f.data)
    BY DEF IsFrame
  <1> PICK d : d = f.data
    OBVIOUS
  <1>2. f = FrameAt(len, d) /\ d \in 1 .. ChunkCount(len)
    BY <1>1
  <1>3. CASE len <= SingleBytes
    BY <1>2, <1>3 DEF FrameAt, SF
  <1>4. CASE ~(len <= SingleBytes) /\ d = 1
    BY <1>2, <1>4 DEF FrameAt, FF, SingleBytes, MaxLen
  <1>5. CASE ~(len <= SingleBytes) /\ d # 1
    <2>1. f = CF((d - 1) % SeqCount, d)
      BY <1>2, <1>5 DEF FrameAt
    <2>2. f.pci = "CF" /\ f.n = (d - 1) % SeqCount
      BY <2>1 DEF CF
    <2>3. len > SingleBytes
      BY <1>5 DEF SingleBytes, MaxLen
    <2> QED BY <1>2, <1>5, <2>2, <2>3
  <1> QED
    BY <1>3, <1>4, <1>5

(* TypeOK: every captured frame's number is in the range of its type.      *)
THEOREM ChannelTyped == Spec => []TypeOK
  <1>1. ChannelInv => TypeOK
    <2> SUFFICES ASSUME ChannelInv PROVE TypeOK
      OBVIOUS
    <2> PICK len, C : len = sent.len /\ C = ChunkCount(len)
      OBVIOUS
    <2>1. len \in 0 .. MaxLen /\ C \in Nat
      BY SentIs, Chunks
    <2>2. sent.len \in Lens /\ faults \in 0 .. MaxFaults
      BY DEF ChannelInv, SentInv
    <2>3. DOMAIN captured = 1 .. Len(captured)
      BY LenProperties DEF ChannelInv, FramesInv, IsList
    <2>4. ASSUME NEW f \in {captured[i] : i \in DOMAIN captured}
          PROVE  \/ f.pci = "SF" /\ f.n \in 0 .. SingleBytes
                 \/ f.pci = "FF" /\ f.n \in SingleBytes + 1 .. MaxLen
                 \/ f.pci = "CF" /\ f.n \in 0 .. SeqCount - 1
      <3> PICK d : d = f.data
        OBVIOUS
      <3>1. IsFrame(len, f)
        BY <2>3 DEF ChannelInv, FramesInv
      <3>2. /\ \/ f.pci = "SF" /\ f.n = len /\ len <= SingleBytes
               \/ f.pci = "FF" /\ f.n = len /\ len > SingleBytes
               \/ f.pci = "CF" /\ f.n = (d - 1) % SeqCount
            /\ d \in 1 .. C
        BY <2>1, <3>1, FrameIs
      <3>3. (d - 1) % SeqCount \in 0 .. SeqCount - 1
        <4>1. d - 1 \in Int /\ SeqCount \in Nat \ {0}
          BY <2>1, <3>2, IsoTpAssumption
        <4> QED BY <4>1
      <3>4. len <= SingleBytes => len \in 0 .. SingleBytes
        BY <2>1 DEF SingleBytes
      <3>5. len > SingleBytes => len \in SingleBytes + 1 .. MaxLen
        BY <2>1 DEF SingleBytes
      <3> QED BY <3>2, <3>3, <3>4, <3>5
    <2> QED
      BY <2>2, <2>4 DEF TypeOK
  <1> QED
    BY <1>1, ChannelInvariant, PTL

(* What isotp_decode returns when it accepts, in the terms of the places.  *)
LEMMA Accepted ==
    ASSUME ChannelInv,
           Decoded # Failed,
           \A i \in 1 .. ChunkCount(sent.len) :
               /\ captured[1].pci = "FF"
               /\ Len(captured) >= ChunkCount(sent.len)
               /\ InSequence(captured, sent.len)
               => captured[i].data = i
    PROVE  Decoded = sent
  <1> PICK len, C, f : len = sent.len /\ C = ChunkCount(len) /\ f = captured[1]
    OBVIOUS
  <1>1. /\ len \in 0 .. MaxLen /\ C \in Nat \ {0} /\ (len <= SingleBytes => C = 1)
        /\ sent = [len |-> len, chunk |-> [i \in 1 .. C |-> i]]
    BY SentIs, Chunks
  <1>2. captured # << >>
    BY DEF Decoded, Decode
  <1>3. IsFrame(len, f)
    <2>1. IsList(captured)
      BY DEF ChannelInv, FramesInv
    <2>2. 1 \in 1 .. Len(captured)
      BY <1>2, <2>1, EmptySeq, LenProperties DEF IsList
    <2> QED BY <2>2 DEF ChannelInv, FramesInv
  <1>4. \/ f.pci = "SF" /\ f.n = len /\ f.data = 1 /\ len <= SingleBytes
        \/ f.pci = "FF" /\ f.n = len /\ len > SingleBytes
        \/ f.pci = "CF"
    BY <1>1, <1>3, FrameIs
  <1>5. CASE f.pci = "SF"
    <2>1. f.n = len /\ f.data = 1 /\ len <= SingleBytes /\ C = 1
      BY <1>1, <1>4, <1>5
    <2>2. Decoded = [len |-> len, chunk |-> << 1 >>]
      BY <1>5, <2>1 DEF Decoded, Decode
    <2>3. << 1 >> = [i \in 1 .. 1 |-> i]
      OBVIOUS
    <2> QED BY <1>1, <2>1, <2>2, <2>3
  <1>6. CASE f.pci = "FF"
    <2>1. f.n = len
      BY <1>4, <1>6
    <2>2. /\ Len(captured) >= C /\ InSequence(captured, len)
          /\ Decoded = [len |-> len, chunk |-> [i \in 1 .. C |-> captured[i].data]]
      BY <1>6, <2>1 DEF Decoded, Decode
    <2>3. \A i \in 1 .. C : captured[i].data = i
      BY <1>6, <2>2
    <2>4. [i \in 1 .. C |-> captured[i].data] = [i \in 1 .. C |-> i]
      BY <2>3
    <2> QED BY <1>1, <2>2, <2>4
  <1>7. CASE f.pci = "CF"
    BY <1>7 DEF Decoded, Decode
  <1> QED
    BY <1>4, <1>5, <1>6, <1>7

(* A capture with as many faults as SeqCount or more can decode to a wrong *)
(* payload: one frame of the sixteen-frame cycle carried along by swaps.   *)
(* With fewer it is the payload that was sent or nothing, in whatever      *)
(* order and bursts the faults came.                                       *)
THEOREM NothingCorrupted == MaxFaults < SeqCount => (Spec => []NeverCorrupt)
  <1> SUFFICES ASSUME MaxFaults < SeqCount PROVE Spec => []NeverCorrupt
    OBVIOUS
  <1>1. ChannelInv => NeverCorrupt
    <2> SUFFICES ASSUME ChannelInv, Decoded # Failed PROVE Decoded = sent
      BY DEF NeverCorrupt
    <2> PICK len, C : len = sent.len /\ C = ChunkCount(len)
      OBVIOUS
    <2>1. len \in 0 .. MaxLen /\ C \in Nat \ {0} /\ (len <= SingleBytes => C = 1)
      BY SentIs, Chunks
    <2> SUFFICES ASSUME captured[1].pci = "FF", Len(captured) >= C, InSequence(captured, len)
                 PROVE  \A i \in 1 .. C : captured[i].data = i
      BY Accepted
    <2> PICK c, m, p, q, F : /\ c = Len(captured) /\ m = Len(link)
                             /\ p = At(captured) /\ q = At(link) /\ F = faults
      OBVIOUS
    <2>2. InCapture(c, p) /\ InOrder(p, c, q, m, F)
      BY Places
    <2>3. /\ c \in Nat /\ F \in Nat /\ C <= c
          /\ \A i \in 1 .. c : p[i] = captured[i].data /\ IsFrame(len, captured[i])
      BY <2>1, <2>2 DEF InCapture, InOrder
    <2>4. F < SeqCount /\ SeqCount \in Nat \ {0}
      BY <2>3, ChannelAssumption, IsoTpAssumption DEF ChannelInv, SentInv
    <2>5. Numbers(p, C, SeqCount)
      <3> SUFFICES ASSUME NEW i \in 1 .. C
                   PROVE  p[i] \in 1 .. C /\ (p[i] - 1) % SeqCount = (i - 1) % SeqCount
        BY DEF Numbers
      <3> PICK f : f = captured[i]
        OBVIOUS
      <3>1. IsFrame(len, f) /\ p[i] = f.data
        BY <2>1, <2>3
      <3>2. /\ \/ f.pci = "SF"
               \/ f.pci = "FF" /\ f.data = 1
               \/ f.pci = "CF" /\ f.n = (f.data - 1) % SeqCount
            /\ f.data \in 1 .. C
        BY <2>1, <3>1, FrameIs
      <3>3. CASE i = 1
        BY <3>1, <3>2, <3>3
      <3>4. CASE i # 1
        <4>1. f.pci = "CF" /\ f.n = (i - 1) % SeqCount
          BY <2>1, <3>4 DEF InSequence
        <4> QED BY <3>1, <3>2, <4>1
      <3> QED BY <3>3, <3>4
    <2>6. Disturbed(p, C, F)
      BY <2>1, <2>2, <2>3 DEF InOrder, Disturbed
    <2>7. \A i \in 1 .. C : p[i] = i
      <3>1. C \in Nat /\ F \in Nat
        BY <2>1, <2>3
      <3> QED BY <2>4, <2>5, <2>6, <3>1, InPlace
    <2> QED
      BY <2>1, <2>3, <2>7
  <1> QED
    BY <1>1, ChannelInvariant, PTL

(* RoundTrip: without a fault the capture is the encoder's frames in their *)
(* order, and the complete one decodes to the payload.                     *)
THEOREM CleanDecodes == Spec => []RoundTrip
  <1>1. ChannelInv => RoundTrip
    <2> SUFFICES ASSUME ChannelInv, faults = 0, link = << >>, captured # << >>
                 PROVE  Decoded = sent
      BY DEF RoundTrip
    <2> PICK len, C, c, p : /\ len = sent.len /\ C = ChunkCount(len)
                            /\ c = Len(captured) /\ p = At(captured)
      OBVIOUS
    <2>1. len \in 0 .. MaxLen /\ C \in Nat \ {0} /\ (len <= SingleBytes => C = 1)
      BY SentIs, Chunks
    <2> PICK m, q, F : m = Len(link) /\ q = At(link) /\ F = faults
      OBVIOUS
    <2>2. OnLink(m, q) /\ InCapture(c, p) /\ InOrder(p, c, q, m, F)
      BY Places
    <2>3. c = C /\ c <= MaxFrames /\ \A i \in 1 .. C : captured[i].data = i
      <3>1. c \in Nat /\ c # 0 /\ m = 0
        BY <2>2, EmptySeq, EmptyList DEF InCapture, IsList
      <3>2. InPlaceUpTo(p, c, q, m) /\ c + m \in {0, C} /\ c + m <= MaxFrames
        BY DEF ChannelInv, UntouchedInv, Total
      <3>3. c = C /\ c <= MaxFrames
        BY <3>1, <3>2
      <3>4. \A i \in 1 .. C : p[i] = i /\ p[i] = captured[i].data
        BY <2>2, <3>2, <3>3 DEF InPlaceUpTo, InCapture
      <3> QED BY <3>3, <3>4
    <2>4. \A i \in 1 .. C : captured[i] = FrameAt(len, i)
      BY <2>2, <2>3 DEF InCapture, IsFrame
    <2>5. Decoded # Failed
      <3> PICK f, D, rest : /\ f = captured[1] /\ rest = [i \in 1 .. C |-> captured[i].data]
                            /\ D = [len |-> len, chunk |-> rest]
        OBVIOUS
      <3>1. 1 \in 1 .. C /\ f = FrameAt(len, 1)
        BY <2>1, <2>4
      <3>2. len # -1 /\ ~(Len(captured) > MaxFrames) /\ len <= MaxLen
        <4>1. len # -1 /\ len <= MaxLen
          BY <2>1, Lengths
        <4>2. C \in Nat /\ Len(captured) = C /\ C <= MaxFrames
          BY <2>1, <2>3
        <4>3. ~(C > MaxFrames)
          BY <4>2, IsoTpAssumption
        <4> QED BY <4>1, <4>2, <4>3
      <3>3. CASE len <= SingleBytes
        <4>1. f = SF(len, 1)
          BY <3>1, <3>3 DEF FrameAt
        <4>2. Decoded = [len |-> len, chunk |-> << 1 >>]
          BY <3>2, <3>3, <4>1 DEF Decoded, Decode, SF
        <4> QED BY <3>2, <4>2 DEF Failed
      <3>4. CASE ~(len <= SingleBytes)
        <4>1. f.pci = "FF" /\ f.n = len /\ len > SingleBytes
          BY <2>1, <3>1, <3>4 DEF FrameAt, FF, SingleBytes
        <4>2. InSequence(captured, len)
          <5> SUFFICES ASSUME NEW i \in 2 .. C
                       PROVE  captured[i].pci = "CF" /\ captured[i].n = (i - 1) % SeqCount
            BY DEF InSequence
          <5>1. i \in 1 .. C /\ i # 1
            BY <2>1
          <5>2. captured[i] = CF((i - 1) % SeqCount, i)
            BY <2>4, <3>4, <5>1 DEF FrameAt
          <5> QED BY <5>2 DEF CF
        <4>3. C <= Len(captured)
          BY <2>1, <2>3
        <4>4. Decoded = D
          BY <3>2, <4>1, <4>2, <4>3 DEF Decoded, Decode
        <4> QED BY <3>2, <4>4 DEF Failed
      <3> QED BY <3>3, <3>4
    <2> QED
      BY <2>3, <2>5, Accepted
  <1> QED
    BY <1>1, ChannelInvariant, PTL
=============================================================================
