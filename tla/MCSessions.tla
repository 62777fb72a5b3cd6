---------------------------- MODULE MCSessions ------------------------------
(* A registered satellite and a device that is in no registry.              *)
EXTENDS Sessions, TLC

CONSTANTS kitchen, stranger

MCSatelliteOf == kitchen :> "kitchen" @@ stranger :> NoSatellite
MCIdentities == {"kitchen", NoSatellite}
=============================================================================
