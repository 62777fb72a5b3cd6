---------------------------- MODULE MCRegistry ------------------------------
(* The registry on three modules, the last two of which offer one name.     *)
EXTENDS Registry

MCOffers == [m \in Modules |-> IF m = 1 THEN {"a"} ELSE {"b"}]
=============================================================================
