---------------------------- MODULE MCRiskEngine ----------------------------
(* Limits and orders for TLC, small enough that every limit is met. *)
EXTENDS RiskEngine

Tight == [max_order_qty |-> 2, max_position |-> 2, max_exposure |-> 4,
          max_notional |-> 5, price_band_pct |-> 60, max_orders_per_sec |-> 2,
          enabled |-> TRUE]
MCLimits == {Tight, [Tight EXCEPT !.enabled = FALSE],
             [Tight EXCEPT !.max_orders_per_sec = 0]}
MCPrice == {0, 1, 2}
MCQuantity == {0, 2, 3}
=============================================================================
