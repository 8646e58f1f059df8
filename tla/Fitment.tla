------------------------------ MODULE Fitment -------------------------------
(***************************************************************************)
(* From a repair action and a vehicle to a part (backend/app/fitment.py).  *)
(* Prices and links are left out. A VIN is known by its prefix in the      *)
(* table, any other string decodes to no vehicle; year, make, model and    *)
(* engine come as the description they make up, with _ for its blanks.     *)
(***************************************************************************)
EXTENDS TLC

NoVehicle == "None"

VinPrefixes ==
    "1FMCU" :> "2018_Ford_Escape_1.5L" @@ "2HGFC" :> "2016_Honda_Civic_2.0L" @@
    "4T1BF" :> "2015_Toyota_Camry_2.5L" @@ "2HKRW" :> "2014_Honda_CR-V_2.4L" @@
    "1FTEW" :> "2017_Ford_F-150_3.5L" @@ "2T1BU" :> "2013_Toyota_Corolla_1.8L"

Part(sku) == [sku |-> sku, stock |-> "in_stock", note |-> "none"]
FederalConverter(sku) == [sku |-> sku, stock |-> "ships_2_day", note |-> "federal_only"]

(* repair action -> the parts that fit a vehicle, and the fallback.        *)
Entry(fits, default) == [fits |-> fits, default |-> default]

FitsNone == << >>
FitsOne(v, part) == [x \in {v} |-> part]
FitsEither(v, p, w, q) == [x \in {v, w} |-> IF x = v THEN p ELSE q]

Catalog ==
    [replace_intake_pcv_hose |->
        Entry(FitsEither("2018_Ford_Escape_1.5L", Part("HOSE-INTAKE-ESC15"),
                         "2017_Ford_F-150_3.5L", Part("HOSE-PCV-F15035")),
              Part("HOSE-PCV-UNIV")),
     service_maf_sensor |->
        Entry(FitsOne("2018_Ford_Escape_1.5L", Part("MAF-CLEANER")), Part("MAF-CLEANER")),
     replace_ignition_coil |->
        Entry(FitsEither("2016_Honda_Civic_2.0L", Part("COIL-CIVIC20"),
                         "2013_Toyota_Corolla_1.8L", Part("COIL-COROLLA18")),
              Part("COIL-UNIV")),
     replace_spark_plugs |->
        Entry(FitsOne("2016_Honda_Civic_2.0L", Part("PLUG-IRIDIUM-4PK")), Part("PLUG-IRIDIUM-4PK")),
     replace_thermostat |->
        Entry(FitsOne("2015_Toyota_Camry_2.5L", Part("THERM-192F-CAMRY")), Part("THERM-192F")),
     replace_ect_sensor |-> Entry(FitsNone, Part("ECT-SENSOR")),
     replace_catalytic_converter_bank1 |->
        Entry(FitsOne("2014_Honda_CR-V_2.4L", FederalConverter("CAT-CRV24-FED")),
              FederalConverter("CAT-UNIV-FED")),
     replace_downstream_o2_sensor |->
        Entry(FitsOne("2014_Honda_CR-V_2.4L", Part("O2-DOWN-CRV24")), Part("O2-DOWN-UNIV")),
     repair_exhaust_leak |-> Entry(FitsNone, Part("EXH-GASKET-KIT")),
     replace_gas_cap |->
        Entry(FitsOne("2017_Ford_F-150_3.5L", Part("GASCAP-F150")), Part("GASCAP-OE-STYLE")),
     repair_evap_hose |-> Entry(FitsNone, Part("EVAP-HOSE-KIT")),
     replace_vent_valve |->
        Entry(FitsOne("2017_Ford_F-150_3.5L", Part("VENT-VALVE-F150")), Part("VENT-VALVE-UNIV")),
     replace_upstream_o2_sensor |->
        Entry(FitsOne("2013_Toyota_Corolla_1.8L", Part("O2-UP-COROLLA18")), Part("O2-UP-UNIV")),
     repair_manifold_gasket |-> Entry(FitsNone, Part("MANIFOLD-GASKET")),
     repair_o2_wiring |-> Entry(FitsNone, Part("O2-PIGTAIL"))]

-----------------------------------------------------------------------------
DecodeVehicle(vin) == IF vin \in DOMAIN VinPrefixes THEN VinPrefixes[vin] ELSE NoVehicle

(* The description wins over the VIN.                                      *)
VehicleOf(car) == IF car.described # NoVehicle THEN car.described ELSE DecodeVehicle(car.vin)

Unresolved == [resolved |-> FALSE]

Californian(car) == car.state \in {"CA", "CALIFORNIA"}

ResolveFitment(action, car) ==
    IF action \notin DOMAIN Catalog THEN Unresolved
    ELSE LET entry == Catalog[action]
             exact == VehicleOf(car) \in DOMAIN entry.fits
             part  == IF exact THEN entry.fits[VehicleOf(car)] ELSE entry.default
             banned == action = "replace_catalytic_converter_bank1" /\ Californian(car)
         IN  [resolved |-> TRUE, vehicle |-> VehicleOf(car), sku |-> part.sku,
              confirmed |-> exact, purchasable |-> exact,
              stock |-> IF banned THEN "not_available_ca" ELSE part.stock,
              note |-> IF banned THEN "not_for_california" ELSE part.note]
=============================================================================
