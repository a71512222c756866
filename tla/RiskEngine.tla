----------------------------- MODULE RiskEngine -----------------------------
(***************************************************************************)
(* The pre-trade risk engine (include/risk_engine.h, src/risk_engine.cpp)  *)
(* and the way the hot path uses it: an order that validate accepts goes   *)
(* to the order book, and what was filled of it at once is reported with   *)
(* on_order_executed before the next order is validated.                   *)
(*                                                                         *)
(* Prices and notional values are integers here; the limits are small, so  *)
(* that the bounds are met.  The second the wall clock shows is a variable *)
(* that may change at any time, in either direction.                       *)
(***************************************************************************)
EXTENDS Integers

CONSTANTS
  Symbol,      \* the instruments
  Limits,      \* the limits set_limits is called with, once, by init
  Price,       \* the prices of orders and of the market, 0 for none
  Quantity,    \* the quantities of orders
  MaxTime,     \* bound of the model: seconds of the wall clock
  MaxCalls     \* bound of the model: calls of validate and reset

RiskLimits == [max_order_qty : Nat, max_position : Nat, max_exposure : Nat,
               max_notional : Nat, price_band_pct : Nat,
               max_orders_per_sec : Int, enabled : BOOLEAN]

ASSUME LimitsAssumption   == Limits \subseteq RiskLimits
ASSUME PriceAssumption    == Price \subseteq Nat
ASSUME QuantityAssumption == Quantity \subseteq Int
ASSUME BoundAssumption    == MaxTime \in Nat \ {0} /\ MaxCalls \in Nat

Order == [symbol : Symbol, side : {"BUY", "SELL"}, type : {"LIMIT", "MARKET"},
          price : Price, quantity : Quantity]

Position == [net_position : Int, gross_exposure : Int, total_notional : Int]

VARIABLES
  limits,                \* limits_
  positions,             \* positions_; a symbol without an entry is at zero
  order_count_this_sec,  \* order_count_this_sec_
  sec_window_start,      \* sec_window_start_
  killed,                \* killed_
  last_reject,           \* last_reject_, named by the check that set it
  now,                   \* the second CLOCK_REALTIME shows
  accepted,              \* the order in the hands of the hot path: {} or {o}
  mid,                   \* the mid price that order was validated with
  calls,                 \* number of calls so far
  rate,                  \* history: orders accepted in each second since reset
  stepped,               \* history: the clock went back
  unpriced               \* history: an order without a price was executed

vars == <<limits, positions, order_count_this_sec, sec_window_start, killed,
          last_reject, now, accepted, mid, calls, rate, stepped, unpriced>>

Time == 1 .. MaxTime

Flat == [net_position |-> 0, gross_exposure |-> 0, total_notional |-> 0]

Abs(n) == IF n < 0 THEN - n ELSE n

Signed(o, qty) == IF o.side = "BUY" THEN qty ELSE - qty

(* The constructor, and init's call of set_limits. *)
Init ==
  /\ limits \in Limits
  /\ positions = [s \in Symbol |-> Flat]
  /\ order_count_this_sec = 0
  /\ sec_window_start = 0
  /\ killed = FALSE
  /\ last_reject = ""
  /\ now \in Time
  /\ accepted = {}
  /\ mid = 0
  /\ calls = 0
  /\ rate = [t \in Time |-> 0]
  /\ stepped = FALSE
  /\ unpriced = FALSE

-----------------------------------------------------------------------------
(***************************************************************************)
(* The checks of validate.                                                 *)
(***************************************************************************)
update_rate_window_Forgets == 0

(* The count of the window once the clock has been read. *)
update_rate_window == IF now # sec_window_start THEN 0 ELSE order_count_this_sec

check_rate_limit ==
  \/ limits.max_orders_per_sec <= 0
  \/ update_rate_window < limits.max_orders_per_sec

check_order_size(o) == o.quantity <= limits.max_order_qty /\ o.quantity > 0

check_position_limit_LongOnly(o) ==
  positions[o.symbol].net_position + Signed(o, o.quantity) <= limits.max_position

check_position_limit(o) ==
  Abs(positions[o.symbol].net_position + Signed(o, o.quantity)) <= limits.max_position

check_exposure_limit(o) ==
  positions[o.symbol].gross_exposure + o.quantity <= limits.max_exposure

(* A market order is valued at a price of 1. *)
Notional(o) == (IF o.price > 0 THEN o.price ELSE 1) * o.quantity

check_notional_limit_OrderOnly(o) ==
  \/ o.price <= 0 /\ o.type = "LIMIT"
  \/ Notional(o) <= limits.max_notional

check_notional_limit(o) ==
  \/ o.price <= 0 /\ o.type = "LIMIT"
  \/ positions[o.symbol].total_notional + Notional(o) <= limits.max_notional

check_price_band(o, mid_price) ==
  \/ mid_price <= 0 \/ o.price <= 0
  \/ o.type = "MARKET"
  \/ Abs(o.price - mid_price) * 100 <= limits.price_band_pct * mid_price

(* The reason of the first check that fails, "" if none does. *)
Verdict(o, mid_price) ==
  IF ~ check_rate_limit                  THEN "rate"
  ELSE IF ~ check_order_size(o)          THEN "size"
  ELSE IF ~ check_position_limit(o)      THEN "position"
  ELSE IF ~ check_exposure_limit(o)      THEN "exposure"
  ELSE IF ~ check_notional_limit(o)      THEN "notional"
  ELSE IF ~ check_price_band(o, mid_price) THEN "band"
  ELSE ""

-----------------------------------------------------------------------------
(***************************************************************************)
(* validate(order, mid_price), called by the hot path once the order       *)
(* before is done with.                                                    *)
(***************************************************************************)
Validate(reason) ==
  /\ accepted = {}
  /\ calls < MaxCalls
  /\ calls' = calls + 1
  /\ last_reject' = reason
  /\ UNCHANGED <<limits, positions, killed, now, stepped, unpriced>>

(* The order goes on to the book. *)
Accept(o, mid_price) ==
  /\ accepted' = {o}
  /\ mid' = mid_price
  /\ rate' = [rate EXCEPT ![now] = @ + 1]

ValidateKilled ==
  /\ killed
  /\ Validate("killed")
  /\ UNCHANGED <<order_count_this_sec, sec_window_start, accepted, mid, rate>>

ValidateDisabled(o, mid_price) ==
  /\ ~ killed
  /\ ~ limits.enabled
  /\ Validate("")
  /\ Accept(o, mid_price)
  /\ UNCHANGED <<order_count_this_sec, sec_window_start>>

ValidateReject(o, mid_price) ==
  /\ ~ killed
  /\ limits.enabled
  /\ Verdict(o, mid_price) # ""
  /\ Validate(Verdict(o, mid_price))
  /\ sec_window_start' = now
  /\ order_count_this_sec' = update_rate_window
  /\ UNCHANGED <<accepted, mid, rate>>

ValidateAccept(o, mid_price) ==
  /\ ~ killed
  /\ limits.enabled
  /\ Verdict(o, mid_price) = ""
  /\ Validate("")
  /\ Accept(o, mid_price)
  /\ sec_window_start' = now
  /\ order_count_this_sec' = update_rate_window + 1

(* What the hot path reports as the price of a fill. *)
FillPrice(o) == IF o.price > 0 THEN o.price ELSE mid

(* The book is done with the order: on_order_executed if any of it was     *)
(* filled, and no call otherwise.                                          *)
on_order_executed(o, filled_qty) ==
  /\ o \in accepted
  /\ positions' = [positions EXCEPT ![o.symbol] =
       [net_position   |-> @.net_position + Signed(o, filled_qty),
        gross_exposure |-> @.gross_exposure + filled_qty,
        total_notional |-> @.total_notional + FillPrice(o) * filled_qty]]
  /\ unpriced' = (unpriced \/ (o.price <= 0 /\ filled_qty > 0))
  /\ accepted' = {}
  /\ mid' = 0
  /\ UNCHANGED <<limits, order_count_this_sec, sec_window_start, killed,
                 last_reject, now, calls, rate, stepped>>

(* reset also releases the kill switch. *)
reset ==
  /\ accepted = {}
  /\ calls < MaxCalls
  /\ calls' = calls + 1
  /\ positions' = [s \in Symbol |-> Flat]
  /\ order_count_this_sec' = 0
  /\ sec_window_start' = 0
  /\ killed' = FALSE
  /\ rate' = [t \in Time |-> 0]
  /\ unpriced' = FALSE
  /\ UNCHANGED <<limits, last_reject, now, accepted, mid, stepped>>

(* The switch may be thrown while an order is in the book. *)
kill_switch(enabled) ==
  /\ killed' = enabled
  /\ UNCHANGED <<limits, positions, order_count_this_sec, sec_window_start,
                 last_reject, now, accepted, mid, calls, rate, stepped, unpriced>>

(* The wall clock moves on, or is set back. *)
Clock(t) ==
  /\ now' = t
  /\ stepped' = (stepped \/ t < now)
  /\ UNCHANGED <<limits, positions, order_count_this_sec, sec_window_start, killed,
                 last_reject, accepted, mid, calls, rate, unpriced>>

Next ==
  \/ ValidateKilled
  \/ \E o \in Order, m \in Price :
       ValidateDisabled(o, m) \/ ValidateReject(o, m) \/ ValidateAccept(o, m)
  \/ \E o \in accepted : \E filled_qty \in {0} \cup 1 .. o.quantity :
       on_order_executed(o, filled_qty)
  \/ reset
  \/ \E enabled \in BOOLEAN : kill_switch(enabled)
  \/ \E t \in Time : Clock(t)

Spec == Init /\ [][Next]_vars

-----------------------------------------------------------------------------
(***************************************************************************)
(* Properties                                                              *)
(***************************************************************************)

(* The fields keep their types, and with checks on, the count of the       *)
(* window stays within the rate limit.                                     *)
TypeOK ==
  /\ limits \in Limits
  /\ positions \in [Symbol -> Position]
  /\ order_count_this_sec \in Nat
  /\ limits.max_orders_per_sec > 0 =>
       order_count_this_sec <= limits.max_orders_per_sec
  /\ sec_window_start \in Time \cup {0}
  /\ killed \in BOOLEAN
  /\ last_reject \in {"", "killed", "rate", "size", "position", "exposure",
                      "notional", "band"}
  /\ now \in Time
  /\ accepted \in SUBSET Order
  /\ mid \in Price \cup {0}
  /\ rate \in [Time -> Nat]
  /\ stepped \in BOOLEAN
  /\ unpriced \in BOOLEAN

(* With checks on, no sequence of orders and fills takes the position or   *)
(* the exposure of a symbol beyond its limit, in either direction: what    *)
(* validate allows for a whole order also holds for any part of it.        *)
WithinLimits ==
  limits.enabled => \A s \in Symbol :
    /\ Abs(positions[s].net_position) <= limits.max_position
    /\ positions[s].gross_exposure <= limits.max_exposure

(* The notional value traded stays within its limit as well, as long as no *)
(* order without a price was executed: validate values those at a price of *)
(* 1, or not at all, and the fill counts at the mid price.                 *)
NotionalWithinLimit ==
  limits.enabled /\ ~ unpriced => \A s \in Symbol :
    positions[s].total_notional <= limits.max_notional

(* No second sees more orders accepted than the rate limit, counted since  *)
(* the last reset, as long as the wall clock was not set back.             *)
RateWithinLimit ==
  limits.enabled /\ limits.max_orders_per_sec > 0 /\ ~ stepped =>
    \A t \in Time : rate[t] <= limits.max_orders_per_sec

(* The strengthening that makes the limits inductive: the order in the     *)
(* hands of the hot path still fits, because nothing was executed since    *)
(* it was validated.                                                       *)
AcceptedFits ==
  limits.enabled => \A o \in accepted :
    /\ o.quantity > 0
    /\ check_position_limit(o)
    /\ check_exposure_limit(o)
    /\ o.price > 0 => check_notional_limit(o)

IInv == TypeOK /\ WithinLimits /\ NotionalWithinLimit /\ AcceptedFits

(* The strengthening for the rate: the window never lies ahead of the      *)
(* clock, no order was accepted in a second after it, and the counter has  *)
(* counted every order of the second it stands for.                        *)
WindowCounts ==
  limits.enabled /\ limits.max_orders_per_sec > 0 /\ ~ stepped =>
    /\ sec_window_start <= now
    /\ \A t \in Time :
         /\ t > sec_window_start => rate[t] = 0
         /\ t = sec_window_start => rate[t] <= order_count_this_sec

RateInv == RateWithinLimit /\ WindowCounts
=============================================================================
