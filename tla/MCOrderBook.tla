---------------------------- MODULE MCOrderBook ----------------------------
(* The exchange of the TLC run of OrderBook. *)
EXTENDS OrderBook

MCPrices == 1..7
MCOpening == [s \in Sides |-> [p \in MCPrices |->
                IF (s = "BID" /\ p \in {2, 3}) \/ (s = "ASK" /\ p = 4) THEN 1 ELSE 0]]
=============================================================================
