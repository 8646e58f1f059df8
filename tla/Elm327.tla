------------------------------- MODULE Elm327 -------------------------------
(***************************************************************************)
(* What is said over an ELM327 adapter: the adapter's answer to a command  *)
(* (simulator/elm327_sim.py) and what the phone makes of the text of an    *)
(* answer (android Elm327Protocol.kt). A text is a sequence of lines, a    *)
(* line the sequence of what stands between its spaces: of a line without  *)
(* any, one long token. A command is <<service>> or <<service, pid>>, sent *)
(* as one word. A trouble code is its two bytes, and the value of a PID    *)
(* the bytes its formula is given: both conversions are one to one.        *)
(***************************************************************************)
EXTENDS Integers, Sequences, FiniteSets, SequencesExt

CONSTANT Vehicle    \* [vin, confirmed, pending, permanent, pids: pid -> bytes]

Digit == {"0", "1", "2", "3", "4", "5", "6", "7", "8", "9"}
HexDigit == Digit \cup {"A", "B", "C", "D", "E", "F"}
Byte == {a \o b : a \in HexDigit, b \in HexDigit}

(* A byte in hexadecimal.                                                  *)
Hex(n) == LET digits == << "0", "1", "2", "3", "4", "5", "6", "7",
                           "8", "9", "A", "B", "C", "D", "E", "F" >>
          IN  digits[(n \div 16) + 1] \o digits[(n % 16) + 1]

Word(cmd) == IF Len(cmd) = 1 THEN cmd[1] ELSE cmd[1] \o cmd[2]

-----------------------------------------------------------------------------
(* The adapter. One kind does what ATS0 says and sends ECU data without    *)
(* spaces, as the phone expects of an ELM327 (Elm327Protocol.kt:18); the   *)
(* other answers OK and leaves them in, as elm327_sim.py:105 does.         *)
PowerOn(honoursS0) ==
    [echo |-> TRUE, headers |-> FALSE, spaces |-> TRUE, honoursS0 |-> honoursS0]

Switched(adapter, cmd) ==
    [adapter EXCEPT
        !.echo    = CASE cmd = << "AT", "E0" >> -> FALSE
                      [] cmd = << "AT", "E1" >> -> TRUE
                      [] OTHER                  -> @,
        !.headers = CASE cmd = << "AT", "H0" >> -> FALSE
                      [] cmd = << "AT", "H1" >> -> TRUE
                      [] OTHER                  -> @,
        !.spaces  = CASE cmd = << "AT", "S0" >> -> @ /\ ~adapter.honoursS0
                      [] cmd = << "AT", "S1" >> -> TRUE
                      [] OTHER                  -> @]

Squeezed(line) == << FoldLeft(LAMBDA word, token : word \o token, "", line) >>
Spaced(lines, adapter) ==
    IF adapter.spaces THEN lines ELSE [i \in DOMAIN lines |-> Squeezed(lines[i])]

SingleFrame(body, headers) ==
    << IF headers THEN << "7E8", Hex(Len(body)) >> \o body ELSE body >>

(* seq in pieces of n.                                                     *)
Pieces(seq, n) ==
    [i \in 1 .. (Len(seq) + n - 1) \div n |->
        SubSeq(seq, (i - 1) * n + 1, IF i * n < Len(seq) THEN i * n ELSE Len(seq))]

VinFramesNumbered(data) ==
    LET pieces == Pieces(data, 7)
    IN  << << "014" >> >> \o [i \in DOMAIN pieces |-> << ToString(i - 1) \o ":" >> \o pieces[i]]

VinFramesPci(data) ==
    LET pieces == Pieces(SubSeq(data, 7, Len(data)), 7)
    IN  << << "7E8", "10", Hex(Len(data)) >> \o SubSeq(data, 1, 6) >>
        \o [i \in DOMAIN pieces |-> << "7E8", Hex(32 + i) >> \o pieces[i]]

Stored(service) ==
    CASE service = "03" -> Vehicle.confirmed
      [] service = "07" -> Vehicle.pending
      [] service = "0A" -> Vehicle.permanent

ResponseSid(service) == CASE service = "03" -> "43" [] service = "07" -> "47" [] service = "0A" -> "4A"

PidBytes(pid) ==
    CASE pid = "00" -> << "BE", "1F", "A8", "13" >>
      [] pid = "20" -> << "80", "00", "00", "00" >>
      [] OTHER      -> Vehicle.pids[pid]

Supported == {"00", "20"} \cup DOMAIN Vehicle.pids

AdapterSetup == {"ATE0", "ATE1", "ATL0", "ATL1", "ATS0", "ATS1", "ATH0", "ATH1"}

Handled(cmd, adapter) ==
    CASE Word(cmd) = "ATZ" -> << << "ELM327", "v2.1" >> >>
      [] Word(cmd) \in AdapterSetup \/ Word(cmd) = "ATSP0" -> << << "OK" >> >>
      [] Word(cmd) = "0902" ->
             LET data == << "49", "02", "01" >> \o Vehicle.vin
             IN  Spaced(IF adapter.headers THEN VinFramesPci(data) ELSE VinFramesNumbered(data),
                        adapter)
      [] Word(cmd) \in {"03", "07", "0A"} ->
             LET codes == FlattenSeq(Stored(cmd[1]))
                 body  == << ResponseSid(cmd[1]) >> \o (IF codes = << >> THEN << "00" >> ELSE codes)
             IN  Spaced(SingleFrame(body, adapter.headers), adapter)
      [] cmd[1] = "01" /\ cmd[2] \in Supported ->
             Spaced(SingleFrame(<< "41", cmd[2] >> \o PidBytes(cmd[2]), adapter.headers), adapter)
      [] cmd[1] = "01" /\ cmd[2] \notin Supported -> << << "NO", "DATA" >> >>

(* The text before the prompt, of the adapter as the command left it.      *)
Answer(cmd, adapter) ==
    (IF adapter.echo THEN << << Word(cmd) >> >> ELSE << >>) \o Handled(cmd, adapter)

-----------------------------------------------------------------------------
(* The phone's reading of a text.                                          *)
Chatter(line) == \/ line \in {<< "NO", "DATA" >>, << "?" >>, << "OK" >>}
                 \/ line[1] \in {"SEARCHING...", "ELM327"}

Numbering == {d \o ":" : d \in Digit}
CanIds == {"7E8"}
PciByte == {a \o b : a \in {"1", "2"}, b \in HexDigit}

Unnumbered(line) == IF line[1] \in Numbering THEN Tail(line) ELSE line

(* Without the CAN id and the first PCI byte of a multi-frame answer.      *)
Unframed(line) ==
    IF Len(line) >= 2 /\ line[1] \in CanIds /\ line[2] \in PciByte
    THEN SubSeq(line, 3, Len(line)) ELSE line

(* The bytes of all lines. What is not a byte is dropped: an echo, a byte  *)
(* count, and a line that came without spaces, which is not taken apart.   *)
Sanitized(text) ==
    LET lines == SelectSeq(text, LAMBDA line : ~Chatter(line))
    IN  FlattenSeq([i \in DOMAIN lines |->
            SelectSeq(Unframed(Unnumbered(lines[i])), LAMBDA token : token \in Byte)])

After(bytes, i) == SubSeq(bytes, i + 1, Len(bytes))
IndexOf(bytes, byte) == SelectInSeq(bytes, LAMBDA b : b = byte)

VinChars == ({"3"} \X Digit) \cup ({"4"} \X (HexDigit \ {"0", "9", "F"}))
            \cup ({"5"} \X ((Digit \cup {"A"}) \ {"1"}))
VinByte == {c[1] \o c[2] : c \in VinChars}

VinIn(bytes) ==
    LET i == IndexOf(bytes, "49") IN SubSeq(bytes, i + 3, IF i + 19 < Len(bytes) THEN i + 19 ELSE Len(bytes))

WellFormedVin(bytes) ==
    LET i == IndexOf(bytes, "49")
    IN  /\ i # 0 /\ i + 2 <= Len(bytes) /\ bytes[i + 1] = "02"
        /\ Len(VinIn(bytes)) = 17 /\ ToSet(VinIn(bytes)) \subseteq VinByte

(* Pairs after the service id, up to 00 00 or a byte that is left over.    *)
DtcsIn(bytes, sid) ==
    LET pairs == Pieces(After(bytes, IndexOf(bytes, sid)), 2)
        stop == SelectInSeq(pairs, LAMBDA q : q = << "00", "00" >> \/ Len(q) = 1)
    IN  IF stop = 0 THEN pairs ELSE SubSeq(pairs, 1, stop - 1)

(* PIDs with a formula over one byte, over two.                            *)
OneByte == {"04", "05", "06", "07", "08", "09", "0B", "0D", "0E", "11", "33"}
TwoBytes == {"0C", "10", "1F", "21"}

AnswersPid(bytes, pid) ==
    LET i == IndexOf(bytes, "41") IN i # 0 /\ i + 1 <= Len(bytes) /\ bytes[i + 1] = pid

PidValue(bytes) == After(bytes, IndexOf(bytes, "41") + 1)
Decodable(pid, payload) ==
    \/ pid \in OneByte /\ Len(payload) >= 1
    \/ pid \in TwoBytes /\ Len(payload) >= 2
=============================================================================
