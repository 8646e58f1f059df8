---------------------------- MODULE VariantProbe ----------------------------
(***************************************************************************)
(* twai_transport_open: the CAN variant is found by trying the four in     *)
(* order.  Each try installs the driver at the variant's bitrate, asks for *)
(* the VIN, listens for a plausible response for 250 ms and uninstalls the *)
(* driver again; the first variant answered is opened for good.  Every     *)
(* driver call can fail.                                                   *)
(***************************************************************************)
EXTENDS CanIds, Sequences

CONSTANT Vehicles   (* what each vehicle's bus carries, per bitrate *)

ProbeVariants == << "11B_500K", "29B_500K", "11B_250K", "29B_250K" >>
Bitrate(v) == IF v \in {"11B_500K", "29B_500K"} THEN "500K" ELSE "250K"
Bitrates == {"500K", "250K"}

Frame == [id : Nat, extd : BOOLEAN, dlc : Nat, pci : {"SF", "FF", "CF", "OTHER"}]
ASSUME VehicleAssumption == Vehicles \subseteq [Bitrates -> SUBSET Frame]

VARIABLES
    vehicle,    \* the bus the dongle is plugged into
    pc,         \* where twai_transport_open is
    at,         \* which variant is tried
    driver,     \* the TWAI driver: "off", "installed" or "running"
    timing,     \* the bitrate the driver was last installed with
    winner,     \* the variant that answered, or "none"
    transport,  \* the variant of the transport returned, or "none"
    refused,    \* history: an install was refused, the driver being installed
    answered    \* history: variants whose try saw a plausible response

probeVars == << vehicle, pc, at, driver, timing, winner, transport, refused, answered >>

Try == ProbeVariants[at]

Init ==
    /\ vehicle \in Vehicles
    /\ pc = "install" /\ at = 1
    /\ driver = "off" /\ timing = "500K"
    /\ winner = "none" /\ transport = "none"
    /\ refused = FALSE
    /\ answered = {}

(* The driver can be installed only once at a time, and may still fail.    *)
InstallDriver(v) ==
    /\ driver = "off"
    /\ driver' = "installed" /\ timing' = Bitrate(v)
    /\ UNCHANGED refused
InstallFails ==
    /\ refused' = (refused \/ driver # "off")
    /\ UNCHANGED << driver, timing >>
NoDriverCall == UNCHANGED << driver, timing, refused >>
Uninstall == driver' = "off" /\ UNCHANGED << timing, refused >>

(* Mutations of NextVariant: the loop runs past the table; the loop index  *)
(* is not advanced.                                                        *)
NextVariantOverrun ==
    IF at <= Len(ProbeVariants)
    THEN pc' = "install" /\ at' = at + 1
    ELSE pc' = "failed" /\ UNCHANGED at
NextVariantAgain == pc' = "install" /\ UNCHANGED at

(* The next variant is tried; after the last one there is no transport.    *)
NextVariant ==
    IF at < Len(ProbeVariants)
    THEN pc' = "install" /\ at' = at + 1
    ELSE pc' = "failed" /\ UNCHANGED at

TryFailed ==
    /\ NextVariant
    /\ UNCHANGED << vehicle, winner, transport, answered >>

ProbeGoesOn(next) ==
    /\ pc' = next
    /\ UNCHANGED << vehicle, at, winner, transport, answered >>

ProbeInstall ==
    /\ pc = "install"
    /\ \/ InstallDriver(Try) /\ ProbeGoesOn("start")
       \/ InstallFails /\ TryFailed

ProbeStart ==
    /\ pc = "start"
    /\ \/ /\ driver' = "running"
          /\ UNCHANGED << timing, refused >>
          /\ ProbeGoesOn("transmit")
       \/ Uninstall /\ TryFailed

(* Mutation of ProbeTransmit: the failure path leaves the driver installed. *)
ProbeTransmitLeaves ==
    /\ pc = "transmit"
    /\ \/ NoDriverCall /\ ProbeGoesOn("listen")
       \/ NoDriverCall /\ TryFailed

ProbeTransmit ==
    /\ pc = "transmit"
    /\ \/ NoDriverCall /\ ProbeGoesOn("listen")
       \/ Uninstall /\ TryFailed

(* Mutation of Plausible: 29-bit frames are taken for 11-bit ones.         *)
PlausibleAnyFormat(f) ==
    /\ f.dlc # 0
    /\ f.id \in RespIds(Try)
    /\ f.pci # "OTHER"

(* A single, first or consecutive frame on a response id of the variant.   *)
Plausible(f) ==
    /\ f.dlc # 0
    /\ f.extd = Extended(Try)
    /\ f.id \in RespIds(Try)
    /\ f.pci # "OTHER"

ProbeSkip(f) ==
    /\ pc = "listen" /\ ~Plausible(f)
    /\ UNCHANGED probeVars

ProbeDetect(f) ==
    /\ pc = "listen" /\ Plausible(f)
    /\ Uninstall
    /\ winner' = Try
    /\ answered' = answered \cup {Try}
    /\ pc' = "open"
    /\ UNCHANGED << vehicle, at, transport >>

ProbeTimeout ==
    /\ pc = "listen"
    /\ Uninstall
    /\ TryFailed

OpenGoesOn(next) ==
    /\ pc' = next
    /\ UNCHANGED << vehicle, at, winner, transport, answered >>

(* Mutation of OpenInstall: opened with the first variant's timing.        *)
OpenInstallFirst ==
    /\ pc = "open"
    /\ \/ InstallDriver(ProbeVariants[1]) /\ OpenGoesOn("open_start")
       \/ InstallFails /\ OpenGoesOn("failed")

OpenInstall ==
    /\ pc = "open"
    /\ \/ InstallDriver(winner) /\ OpenGoesOn("open_start")
       \/ InstallFails /\ OpenGoesOn("failed")

OpenStart ==
    /\ pc = "open_start"
    /\ \/ /\ driver' = "running"
          /\ UNCHANGED << timing, refused >>
          /\ OpenGoesOn("alloc")
       \/ Uninstall /\ OpenGoesOn("failed")

Allocate ==
    /\ pc = "alloc"
    /\ \/ /\ pc' = "ready" /\ transport' = winner
          /\ NoDriverCall
          /\ UNCHANGED << vehicle, at, winner, answered >>
       \/ Uninstall /\ OpenGoesOn("failed")

(* Bytes arrive only at the bitrate the bus runs at.                       *)
Heard == IF driver = "running" THEN vehicle[timing] ELSE {}

ProbeStep ==
    \/ ProbeInstall \/ ProbeStart \/ ProbeTransmit \/ ProbeTimeout
    \/ OpenInstall \/ OpenStart \/ Allocate

Next ==
    \/ ProbeStep
    \/ \E f \in Heard : ProbeSkip(f) \/ ProbeDetect(f)

(* The boot task runs, and the bus pauses at some poll after the deadline. *)
ProbeSpec == Init /\ [][Next]_probeVars /\ WF_probeVars(ProbeStep)

-----------------------------------------------------------------------------
ProbeTypeOK ==
    /\ vehicle \in Vehicles
    /\ pc \in {"install", "start", "transmit", "listen", "open", "open_start",
               "alloc", "ready", "failed"}
    /\ at \in 1 .. Len(ProbeVariants)
    /\ driver \in {"off", "installed", "running"} /\ timing \in Bitrates
    /\ winner \in Variants \cup {"none"} /\ transport \in Variants \cup {"none"}
    /\ answered \subseteq Variants
    /\ refused \in BOOLEAN

(* The driver is uninstalled on every path: no install ever finds it       *)
(* installed by an earlier try, and giving up leaves it off.               *)
DriverReleased ==
    /\ ~refused
    /\ pc = "failed" => driver = "off"

(* A transport is only returned for the first variant in the list that     *)
(* answered, with the driver running at that variant's bitrate on a bus    *)
(* that carries its responses.                                             *)
RightVariant ==
    transport # "none" =>
        /\ answered = {transport}
        /\ driver = "running" /\ timing = Bitrate(transport)
        /\ \E f \in vehicle[timing] :
             /\ f.extd = Extended(transport) /\ f.id \in RespIds(transport)
             /\ f.dlc # 0 /\ f.pci # "OTHER"

(* Boot ends, with a transport or without one.                             *)
BootEnds == <>(pc \in {"ready", "failed"})
=============================================================================
