-------------------------- MODULE MCTradingEngine --------------------------
(* The limits of the TLC run of TradingEngine. *)
EXTENDS TradingEngine

MCCap == [gross |-> 3, net |-> 2, venue |-> 2, cross |-> 1]
=============================================================================
