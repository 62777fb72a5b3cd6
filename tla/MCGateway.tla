------------------------------ MODULE MCGateway -----------------------------
(* Calls on modules with a tool of every tier the gateway tells apart; the  *)
(* second module also offers the first one's T0 tool.                       *)
EXTENDS Gateway, TLC

MCOffers == [m \in Modules |-> IF m = 1 THEN {"read", "comfort", "forbidden"}
                                       ELSE {"read"}]
MCTierOf == "read" :> 0 @@ "comfort" :> 1 @@ "forbidden" :> 3
=============================================================================
