---------------------------- MODULE MCOrderBook -----------------------------
(* Values for the model checking of OrderBook. *)
EXTENDS OrderBook

TwoPrices   == 1 .. 2
ThreePrices == 1 .. 3

(* 0 is an order with nothing to fill, 3 one that sweeps several orders. *)
SafetyQuantity == {0, 1, 3}
SmallQuantity  == {1, 2}
=============================================================================
