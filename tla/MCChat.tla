------------------------------- MODULE MCChat -------------------------------
(* A registered satellite, and a phone that is in no registry, with the     *)
(* same conversation id.                                                    *)
EXTENDS Chat, TLC

CONSTANTS kitchen, phone, c1

MCSatelliteOf == kitchen :> "kitchen" @@ phone :> NoSatellite
MCIdentities == {"kitchen", NoSatellite}
MCNamed == [d \in Devices |-> c1]
MCTwoTurns == [d \in Devices |-> 2]
MCThreeTurns == [d \in Devices |-> 3]
MCUneven == kitchen :> 2 @@ phone :> 1
MCUnnamed == [d \in Devices |-> NoName]
=============================================================================
