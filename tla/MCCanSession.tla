---------------------------- MODULE MCCanSession ----------------------------
EXTENDS CanSession, TLC

(* Both the engine ECU (0x7E8) and another one (0x7E9) answer "vin", with  *)
(* three and two frames; only the engine answers "dtc", with a single one. *)
Engine == 2024
Other  == 2025

Shared == Engine :> ("vin" :> 14 @@ "dtc" :> 3) @@ Other :> ("vin" :> 8 @@ "dtc" :> 0)

MCMessage == UNION {{Message(e, r, c) : r \in Request, c \in 1 .. MaxCalls} : e \in Ecu}

MCChunk == {Chunk(m, k) : m \in {x \in MCMessage : x.len > 0}, k \in 1 .. 3}
MCData == MCChunk

MCBusFrame ==
    {SingleOf(m) : m \in {x \in MCMessage : x.len \in 1 .. SingleBytes}}
    \cup {FirstOf(m) : m \in {x \in MCMessage : x.len > SingleBytes}}
    \cup UNION {{NextOf(m, k) : k \in 2 .. ChunkCount(m.len)} : m \in MCMessage}
=============================================================================
