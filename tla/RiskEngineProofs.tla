-------------------------- MODULE RiskEngineProofs --------------------------
(***************************************************************************)
(* The risk engine keeps positions, exposure and notional value within any *)
(* limits, whatever orders come in and however they are filled.            *)
(***************************************************************************)
EXTENDS RiskEngine, TLAPS

(* A part of an order lies between nothing and the whole of it: if a       *)
(* position is within the limit before and after the whole order, it is    *)
(* after any part.                                                         *)
LEMMA PartFits ==
  ASSUME NEW pos \in Int, NEW max \in Int, NEW qty \in Int, NEW part \in Int,
         0 <= part, part <= qty, Abs(pos) <= max
  PROVE  /\ Abs(pos + qty) <= max => Abs(pos + part) <= max
         /\ Abs(pos - qty) <= max => Abs(pos - part) <= max
BY DEF Abs

(* A part of an order is worth no more than the whole. *)
LEMMA PartIsWorthLess ==
  ASSUME NEW price \in Nat, NEW qty \in Int, NEW part \in Int, part <= qty
  PROVE  price * part <= price * qty
BY SMT

(* What validate checked when all checks passed. *)
LEMMA VerdictOK ==
  ASSUME NEW o, NEW m, Verdict(o, m) = ""
  PROVE  /\ check_rate_limit
         /\ check_order_size(o)
         /\ check_position_limit(o)
         /\ check_exposure_limit(o)
         /\ check_notional_limit(o)
BY DEF Verdict

(* The reasons a check can give. *)
LEMMA VerdictType ==
  ASSUME NEW o, NEW m
  PROVE  Verdict(o, m) \in {"", "rate", "size", "position", "exposure",
                            "notional", "band"}
BY DEF Verdict

(* A position of zero is a position. *)
LEMMA FlatType == Flat \in Position
BY DEF Flat, Position

(* The invariant holds after the constructor. *)
LEMMA InitIInv == Init => IInv
<1> SUFFICES ASSUME Init PROVE IInv
  OBVIOUS
<1>1. limits \in RiskLimits
  BY LimitsAssumption DEF Init
<1>2. TypeOK
  <2>1. positions \in [Symbol -> Position] /\ rate \in [Time -> Nat]
    BY FlatType DEF Init
  <2>2. order_count_this_sec \in Nat /\ sec_window_start \in Time \cup {0}
    BY DEF Init
  <2>3. limits.max_orders_per_sec > 0 =>
          order_count_this_sec <= limits.max_orders_per_sec
    <3>1. order_count_this_sec = 0
      BY Zenon DEF Init
    <3> QED BY <1>1, <3>1 DEF RiskLimits
  <2>4. accepted \in SUBSET Order /\ mid \in Price \cup {0}
    BY DEF Init
  <2> QED BY <2>1, <2>2, <2>3, <2>4, Zenon DEF Init, TypeOK
<1>3. WithinLimits /\ NotionalWithinLimit
  <2>1. positions = [s \in Symbol |-> Flat]
    BY Zenon DEF Init
  <2> QED BY <1>1, <2>1 DEF WithinLimits, NotionalWithinLimit, Flat, Abs, RiskLimits
<1>4. AcceptedFits
  BY DEF Init, AcceptedFits
<1> QED BY <1>2, <1>3, <1>4 DEF IInv

(* The count of the window is a number within the rate limit. *)
LEMMA WindowType ==
  ASSUME TypeOK
  PROVE  /\ update_rate_window \in Nat
         /\ limits.max_orders_per_sec > 0 =>
              update_rate_window <= limits.max_orders_per_sec
<1>1. limits \in RiskLimits
  BY LimitsAssumption DEF TypeOK
<1>2. /\ order_count_this_sec \in Nat
      /\ limits.max_orders_per_sec > 0 =>
           order_count_this_sec <= limits.max_orders_per_sec
  BY Zenon DEF TypeOK
<1>3. limits.max_orders_per_sec \in Int
  BY <1>1 DEF RiskLimits
<1> QED BY <1>2, <1>3 DEF update_rate_window

(* One more order accepted in the second the clock shows. *)
LEMMA AcceptRate ==
  ASSUME TypeOK, NEW o, NEW m, Accept(o, m)
  PROVE  rate' \in [Time -> Nat]
<1>1. rate \in [Time -> Nat] /\ now \in Time
  BY Zenon DEF TypeOK
<1>2. rate' = [rate EXCEPT ![now] = @ + 1]
  BY Zenon DEF Accept
<1>3. rate[now] + 1 \in Nat
  BY <1>1
<1> HIDE DEF Time
<1> QED BY <1>1, <1>2, <1>3

(* Steps that leave limits and positions alone keep what was within the    *)
(* limits there.                                                           *)
LEMMA SamePositions ==
  ASSUME WithinLimits, NotionalWithinLimit, limits' = limits, positions' = positions,
         unpriced' = unpriced
  PROVE  WithinLimits' /\ NotionalWithinLimit'
BY DEF WithinLimits, NotionalWithinLimit

(* ... and the order in the hands of the hot path still fits. *)
LEMMA SameOrder ==
  ASSUME AcceptedFits, limits' = limits, positions' = positions, accepted' = accepted
  PROVE  AcceptedFits'
BY DEF AcceptedFits, check_position_limit, check_exposure_limit,
       check_notional_limit

(* The invariant holds after every operation. *)
LEMMA NextIInv == IInv /\ [Next]_vars => IInv'
<1> SUFFICES ASSUME IInv, [Next]_vars PROVE IInv'
  OBVIOUS
<1> USE DEF IInv
<1>l. limits \in RiskLimits
  BY LimitsAssumption DEF TypeOK
<1>1. CASE ValidateKilled
  <2>1. TypeOK'
    BY <1>1, Zenon DEF TypeOK, ValidateKilled, Validate
  <2> QED BY <2>1, <1>1, SamePositions, SameOrder, Zenon DEF ValidateKilled, Validate
<1>2. ASSUME NEW o \in Order, NEW m \in Price, ValidateDisabled(o, m)
      PROVE  IInv'
  <2>1. rate' \in [Time -> Nat]
    BY <1>2, AcceptRate, Zenon DEF ValidateDisabled
  <2>2. accepted' \in SUBSET Order /\ mid' \in Price \cup {0}
    BY <1>2, Zenon DEF ValidateDisabled, Accept
  <2>3. TypeOK'
    BY <1>2, <2>1, <2>2, Zenon DEF TypeOK, ValidateDisabled, Validate
  <2>4. AcceptedFits'
    BY <1>2, Zenon DEF AcceptedFits, ValidateDisabled, Validate
  <2> QED BY <1>2, <2>3, <2>4, SamePositions, Zenon DEF ValidateDisabled, Validate
<1>3. ASSUME NEW o \in Order, NEW m \in Price, ValidateReject(o, m)
      PROVE  IInv'
  <2>1. /\ order_count_this_sec' \in Nat
        /\ limits'.max_orders_per_sec > 0 =>
             order_count_this_sec' <= limits'.max_orders_per_sec
    BY <1>3, WindowType, Zenon DEF ValidateReject, Validate
  <2>2. last_reject' \in {"", "killed", "rate", "size", "position", "exposure",
                          "notional", "band"}
    BY <1>3, VerdictType, Zenon DEF ValidateReject, Validate
  <2>3. TypeOK'
    BY <1>3, <2>1, <2>2, Zenon DEF TypeOK, ValidateReject, Validate
  <2> QED BY <1>3, <2>3, SamePositions, SameOrder, Zenon DEF ValidateReject, Validate
<1>4. ASSUME NEW o \in Order, NEW m \in Price, ValidateAccept(o, m)
      PROVE  IInv'
  <2>v. /\ check_rate_limit /\ check_order_size(o) /\ check_position_limit(o)
        /\ check_exposure_limit(o) /\ check_notional_limit(o)
    BY <1>4, VerdictOK, Zenon DEF ValidateAccept
  <2>1. /\ order_count_this_sec' \in Nat
        /\ limits'.max_orders_per_sec > 0 =>
             order_count_this_sec' <= limits'.max_orders_per_sec
    <3>1. order_count_this_sec' = update_rate_window + 1 /\ limits' = limits
      BY <1>4, Zenon DEF ValidateAccept, Validate
    <3>2. limits.max_orders_per_sec \in Int
      BY <1>l DEF RiskLimits
    <3>3. \/ limits.max_orders_per_sec <= 0
          \/ update_rate_window < limits.max_orders_per_sec
      BY <2>v, Zenon DEF check_rate_limit
    <3> HIDE DEF IInv
    <3>4. update_rate_window \in Nat
      BY WindowType, Zenon DEF IInv
    <3> QED BY <3>1, <3>2, <3>3, <3>4
  <2>2. rate' \in [Time -> Nat]
    BY <1>4, AcceptRate, Zenon DEF ValidateAccept
  <2>3. accepted' \in SUBSET Order /\ mid' \in Price \cup {0}
    BY <1>4, Zenon DEF ValidateAccept, Accept
  <2>4. TypeOK'
    BY <1>4, <2>1, <2>2, <2>3, Zenon DEF TypeOK, ValidateAccept, Validate
  <2>5. AcceptedFits'
    <3>1. limits' = limits /\ positions' = positions /\ accepted' = {o}
      BY <1>4, Zenon DEF ValidateAccept, Validate, Accept
    <3>2. o.quantity > 0
      BY <2>v, Zenon DEF check_order_size
    <3> QED BY <2>v, <3>1, <3>2 DEF AcceptedFits, check_position_limit,
                 check_exposure_limit, check_notional_limit
  <2> QED BY <1>4, <2>4, <2>5, SamePositions, Zenon DEF ValidateAccept, Validate
<1>6. CASE reset
  <2>1. positions' = [s \in Symbol |-> Flat] /\ limits' = limits /\ accepted' = {}
    BY <1>6, Zenon DEF reset
  <2>2. TypeOK'
    <3>1. positions' \in [Symbol -> Position] /\ rate' \in [Time -> Nat]
      BY <1>6, FlatType DEF reset
    <3>2. order_count_this_sec' \in Nat /\ sec_window_start' \in Time \cup {0}
      BY <1>6 DEF reset
    <3>3. limits'.max_orders_per_sec > 0 =>
            order_count_this_sec' <= limits'.max_orders_per_sec
      BY <1>6, <1>l DEF reset, RiskLimits
    <3> QED BY <1>6, <3>1, <3>2, <3>3, Zenon DEF reset, TypeOK
  <2>3. WithinLimits' /\ NotionalWithinLimit'
    BY <1>l, <2>1 DEF WithinLimits, NotionalWithinLimit, Flat, Abs, RiskLimits
  <2>4. AcceptedFits'
    BY <2>1 DEF AcceptedFits
  <2> QED BY <2>2, <2>3, <2>4
<1>7. ASSUME NEW enabled \in BOOLEAN, kill_switch(enabled)
      PROVE  IInv'
  <2>1. TypeOK'
    BY <1>7, Zenon DEF TypeOK, kill_switch
  <2> QED BY <1>7, <2>1, SamePositions, SameOrder, Zenon DEF kill_switch
<1>8. ASSUME NEW t \in Time, Clock(t)
      PROVE  IInv'
  <2>1. TypeOK'
    BY <1>8, Zenon DEF TypeOK, Clock
  <2> QED BY <1>8, <2>1, SamePositions, SameOrder, Zenon DEF Clock
<1>9. CASE UNCHANGED vars
  <2>1. TypeOK'
    BY <1>9, Zenon DEF TypeOK, vars
  <2> QED BY <1>9, <2>1, SamePositions, SameOrder, Zenon DEF vars
<1>5. ASSUME NEW o \in accepted, NEW f \in {0} \cup 1 .. o.quantity,
             on_order_executed(o, f)
      PROVE  IInv'
  <2> DEFINE s == o.symbol
             p == positions[s]
  <2>1. /\ o \in Order /\ s \in Symbol /\ o.quantity \in Int /\ o.price \in Nat
        /\ o.side \in {"BUY", "SELL"}
    BY <1>5, PriceAssumption, QuantityAssumption DEF TypeOK, Order
  <2>2. f \in Nat /\ f \in Int /\ (f # 0 => f <= o.quantity) /\ mid \in Nat
    <3>1. mid \in Price \cup {0}
      BY Zenon DEF TypeOK
    <3> HIDE DEF IInv
    <3>2. mid \in Nat
      BY <3>1, PriceAssumption
    <3>3. f = 0 \/ f \in 1 .. o.quantity
      BY <1>5, Zenon
    <3>4. f \in Nat /\ (f # 0 => f <= o.quantity)
      BY <2>1, <3>3
    <3> QED BY <3>2, <3>4
  <2>3. /\ p.net_position \in Int /\ p.gross_exposure \in Int /\ p.total_notional \in Int
    BY <2>1 DEF TypeOK, Position
  <2>4. FillPrice(o) \in Nat /\ FillPrice(o) * f \in Int /\ Signed(o, f) \in Int
    <3>1. FillPrice(o) \in Nat
      BY <2>1, <2>2 DEF FillPrice
    <3> QED BY <2>2, <3>1 DEF Signed
  <2> DEFINE q == [net_position   |-> p.net_position + Signed(o, f),
                   gross_exposure |-> p.gross_exposure + f,
                   total_notional |-> p.total_notional + FillPrice(o) * f]
  <2>5. /\ positions' = [positions EXCEPT ![s] = q]
        /\ limits' = limits /\ accepted' = {} /\ mid' = 0
        /\ unpriced' = (unpriced \/ (o.price <= 0 /\ f > 0))
    BY <1>5 DEF on_order_executed
  <2>6. q \in Position
    BY <2>2, <2>3, <2>4 DEF Position
  <2>7. positions' \in [Symbol -> Position]
    BY <2>5, <2>6 DEF TypeOK
  <2>8. TypeOK'
    <3>1. unpriced' \in BOOLEAN /\ accepted' \in SUBSET Order /\ mid' \in Price \cup {0}
      BY <2>5, Zenon
    <3> QED BY <1>5, <2>7, <3>1, Zenon DEF TypeOK, on_order_executed
  <2>9. AcceptedFits'
    BY <2>5 DEF AcceptedFits
  <2>10. ASSUME limits.enabled
         PROVE  /\ o.quantity > 0
                /\ check_position_limit(o)
                /\ check_exposure_limit(o)
                /\ o.price > 0 => check_notional_limit(o)
                /\ 0 <= f /\ f <= o.quantity
    BY <1>5, <2>1, <2>2, <2>10 DEF AcceptedFits
  <2>11. WithinLimits'
    <3> SUFFICES ASSUME limits.enabled, NEW t \in Symbol
                 PROVE  /\ Abs(positions'[t].net_position) <= limits.max_position
                        /\ positions'[t].gross_exposure <= limits.max_exposure
      BY <2>5 DEF WithinLimits
    <3>1. CASE t # s
      BY <2>5, <3>1 DEF TypeOK, WithinLimits
    <3>2. CASE t = s
      <4>1. positions'[t] = q
        BY <2>1, <2>5, <3>2 DEF TypeOK
      <4>2. limits.max_position \in Int /\ limits.max_exposure \in Int
        BY <1>l DEF RiskLimits
      <4>3. Abs(p.net_position) <= limits.max_position
        BY <2>1 DEF WithinLimits
      <4>4. Abs(p.net_position + Signed(o, f)) <= limits.max_position
        <5>1. Abs(p.net_position + Signed(o, o.quantity)) <= limits.max_position
          BY <2>10 DEF check_position_limit
        <5>2. /\ Abs(p.net_position + o.quantity) <= limits.max_position
                   => Abs(p.net_position + f) <= limits.max_position
              /\ Abs(p.net_position - o.quantity) <= limits.max_position
                   => Abs(p.net_position - f) <= limits.max_position
          BY <2>1, <2>2, <2>3, <2>10, <4>2, <4>3, PartFits
        <5>3. CASE o.side = "BUY"
          BY <5>1, <5>2, <5>3 DEF Signed
        <5>4. CASE o.side = "SELL"
          <6>1. /\ p.net_position + (- o.quantity) = p.net_position - o.quantity
                /\ p.net_position + (- f) = p.net_position - f
            BY <2>1, <2>2, <2>3
          <6>2. Signed(o, o.quantity) = - o.quantity /\ Signed(o, f) = - f
            BY <5>4 DEF Signed
          <6> QED BY <5>1, <5>2, <6>1, <6>2
        <5> QED BY <2>1, <5>3, <5>4
      <4>5. p.gross_exposure + f <= limits.max_exposure
        BY <2>1, <2>2, <2>3, <2>10, <4>2 DEF check_exposure_limit
      <4> QED BY <4>1, <4>4, <4>5
    <3> QED BY <3>1, <3>2
  <2>12. NotionalWithinLimit'
    <3> SUFFICES ASSUME limits.enabled, ~ unpriced', NEW t \in Symbol
                 PROVE  positions'[t].total_notional <= limits.max_notional
      BY <2>5 DEF NotionalWithinLimit
    <3>1. ~ unpriced /\ ~ (o.price <= 0 /\ f > 0)
      BY <2>5
    <3>2. CASE t # s
      BY <2>5, <3>1, <3>2 DEF TypeOK, NotionalWithinLimit
    <3>3. CASE t = s
      <4>1. positions'[t] = q
        BY <2>1, <2>5, <3>3 DEF TypeOK
      <4>2. limits.max_notional \in Int
        BY <1>l DEF RiskLimits
      <4>3. p.total_notional <= limits.max_notional
        BY <2>1, <3>1 DEF NotionalWithinLimit
      <4>4. CASE f = 0
        <5>1. FillPrice(o) * f = 0
          BY <2>4, <4>4
        <5> QED BY <2>3, <4>1, <4>3, <5>1
      <4>5. CASE f > 0
        <5>1. o.price > 0
          BY <2>1, <3>1, <4>5
        <5>2. p.total_notional + o.price * o.quantity <= limits.max_notional
          BY <2>1, <2>10, <5>1 DEF check_notional_limit, Notional
        <5>3. o.price * f <= o.price * o.quantity
          BY <2>1, <2>2, <2>10, PartIsWorthLess
        <5>4. FillPrice(o) = o.price
          BY <5>1 DEF FillPrice
        <5>5. o.price * f \in Int /\ o.price * o.quantity \in Int
          BY <2>1, <2>2
        <5>6. p.total_notional + o.price * f <= limits.max_notional
          BY <2>3, <4>2, <5>2, <5>3, <5>5
        <5> QED BY <4>1, <5>4, <5>6
      <4> QED BY <2>2, <4>4, <4>5
    <3> QED BY <3>2, <3>3
  <2> QED BY <2>8, <2>9, <2>11, <2>12
<1> QED BY <1>1, <1>2, <1>3, <1>4, <1>5, <1>6, <1>7, <1>8, <1>9, Zenon DEF Next

(***************************************************************************)
(* IInv is an invariant of the risk engine for all limits, symbols, prices *)
(* and quantities.                                                         *)
(***************************************************************************)
THEOREM RiskInvariance == Spec => []IInv
BY InitIInv, NextIInv, PTL DEF Spec

(* The state of the risk engine has its type. *)
THEOREM RiskTypeCorrect == Spec => []TypeOK
<1>1. IInv => TypeOK
  BY Zenon DEF IInv
<1> QED BY RiskInvariance, <1>1, PTL

(* The position and exposure limits of validate are never exceeded.        *)
THEOREM LimitsHold == Spec => []WithinLimits
<1>1. IInv => WithinLimits
  BY Zenon DEF IInv
<1> QED BY RiskInvariance, <1>1, PTL

(* The notional limit of validate is never exceeded by orders that have a  *)
(* price.                                                                  *)
THEOREM NotionalLimitHolds == Spec => []NotionalWithinLimit
<1>1. IInv => NotionalWithinLimit
  BY Zenon DEF IInv
<1> QED BY RiskInvariance, <1>1, PTL

-----------------------------------------------------------------------------
(***************************************************************************)
(* The rate limit                                                          *)
(***************************************************************************)

(* What the clock, the window and the counts range over. *)
LEMMA RateTypes ==
  ASSUME IInv
  PROVE  /\ now \in Int /\ now \in Time /\ sec_window_start \in Int
         /\ Time \subseteq Int
         /\ rate \in [Time -> Nat] /\ order_count_this_sec \in Nat
         /\ limits.max_orders_per_sec \in Int
         /\ limits.max_orders_per_sec > 0 =>
              order_count_this_sec <= limits.max_orders_per_sec
<1>1. /\ limits \in Limits /\ order_count_this_sec \in Nat /\ now \in Time
      /\ sec_window_start \in Time \cup {0} /\ rate \in [Time -> Nat]
      /\ limits.max_orders_per_sec > 0 =>
              order_count_this_sec <= limits.max_orders_per_sec
  BY Zenon DEF IInv, TypeOK
<1>2. Time \subseteq Int
  BY DEF Time
<1>3. limits.max_orders_per_sec \in Int
  BY <1>1, LimitsAssumption DEF RiskLimits
<1> QED BY <1>1, <1>2, <1>3

(* No order is accepted before the first call. *)
LEMMA InitRateInv == Init => RateInv
<1> SUFFICES ASSUME Init PROVE RateInv
  OBVIOUS
<1>1. /\ sec_window_start = 0 /\ rate = [t \in Time |-> 0] /\ now \in Time
      /\ limits \in Limits
  BY Zenon DEF Init
<1>2. \A t \in Time : t \in Int /\ t > 0
  BY DEF Time
<1>3. limits.max_orders_per_sec \in Int
  BY <1>1, LimitsAssumption DEF RiskLimits
<1> HIDE DEF Time
<1>4. RateWithinLimit
  BY <1>1, <1>3 DEF RateWithinLimit
<1>5. WindowCounts
  BY <1>1, <1>2 DEF WindowCounts
<1> QED BY <1>4, <1>5 DEF RateInv

(* A step that leaves the counting alone keeps what was counted. *)
LEMMA SameRate ==
  ASSUME RateInv, limits' = limits, now' = now, stepped' = stepped, rate' = rate,
         sec_window_start' = sec_window_start,
         order_count_this_sec' = order_count_this_sec
  PROVE  RateInv'
BY DEF RateInv, RateWithinLimit, WindowCounts

(* Every step keeps the rate within its limit.  An accepted order belongs  *)
(* either to the second of the window, which the counter has counted in    *)
(* full, or to a later one, in which nothing was accepted yet.             *)
LEMMA NextRateInv == IInv /\ RateInv /\ [Next]_vars => RateInv'
<1> SUFFICES ASSUME IInv, RateInv, [Next]_vars PROVE RateInv'
  OBVIOUS
<1>t. /\ now \in Int /\ now \in Time /\ sec_window_start \in Int
      /\ Time \subseteq Int
      /\ rate \in [Time -> Nat] /\ order_count_this_sec \in Nat
      /\ limits.max_orders_per_sec \in Int
      /\ limits.max_orders_per_sec > 0 =>
           order_count_this_sec <= limits.max_orders_per_sec
  BY RateTypes, Zenon
<1> HIDE DEF Time
<1>1. CASE ValidateKilled
  BY <1>1, SameRate, Zenon DEF ValidateKilled, Validate
<1>2. ASSUME NEW o \in Order, NEW m \in Price, ValidateDisabled(o, m)
      PROVE  RateInv'
  <2>1. ~ limits'.enabled
    BY <1>2, Zenon DEF ValidateDisabled, Validate
  <2> QED BY <2>1, Zenon DEF RateInv, RateWithinLimit, WindowCounts
<1>3. ASSUME NEW o \in Order, NEW m \in Price, ValidateReject(o, m)
      PROVE  RateInv'
  <2>1. /\ limits' = limits /\ now' = now /\ stepped' = stepped /\ rate' = rate
        /\ sec_window_start' = now /\ order_count_this_sec' = update_rate_window
    BY <1>3, Zenon DEF ValidateReject, Validate
  <2>2. RateWithinLimit'
    BY <2>1 DEF RateInv, RateWithinLimit
  <2>3. WindowCounts'
    BY <1>t, <2>1 DEF RateInv, WindowCounts, update_rate_window
  <2> QED BY <2>2, <2>3, Zenon DEF RateInv
<1>4. ASSUME NEW o \in Order, NEW m \in Price, ValidateAccept(o, m)
      PROVE  RateInv'
  <2>1. /\ limits' = limits /\ now' = now /\ stepped' = stepped
        /\ rate' = [rate EXCEPT ![now] = @ + 1]
        /\ sec_window_start' = now /\ order_count_this_sec' = update_rate_window + 1
    BY <1>4, Zenon DEF ValidateAccept, Validate, Accept
  <2>2. check_rate_limit
    BY <1>4, VerdictOK, Zenon DEF ValidateAccept
  <2> SUFFICES ASSUME limits.enabled, limits.max_orders_per_sec > 0, ~ stepped
               PROVE  /\ \A t \in Time : rate'[t] <= limits.max_orders_per_sec
                      /\ now <= now
                      /\ \A t \in Time :
                           /\ t > now => rate'[t] = 0
                           /\ t = now => rate'[t] <= update_rate_window + 1
    BY <2>1, Zenon DEF RateInv, RateWithinLimit, WindowCounts
  <2>3. update_rate_window < limits.max_orders_per_sec
    BY <2>2, <1>t DEF check_rate_limit
  <2>4. rate[now] <= update_rate_window
    BY <1>t DEF RateInv, WindowCounts, update_rate_window
  <2>5. update_rate_window \in Nat
    BY <1>t DEF update_rate_window
  <2>6. /\ rate'[now] = rate[now] + 1
        /\ \A t \in Time : t # now => rate'[t] = rate[t]
    BY <1>t, <2>1
  <2>7. \A t \in Time : rate'[t] <= limits.max_orders_per_sec
    BY <1>t, <2>3, <2>4, <2>5, <2>6 DEF RateInv, RateWithinLimit
  <2>8. \A t \in Time : t > now => rate'[t] = 0
    BY <1>t, <2>6 DEF RateInv, WindowCounts
  <2> QED BY <1>t, <2>4, <2>5, <2>6, <2>7, <2>8
<1>5. ASSUME NEW o \in accepted, NEW f \in {0} \cup 1 .. o.quantity,
             on_order_executed(o, f)
      PROVE  RateInv'
  BY <1>5, SameRate, Zenon DEF on_order_executed
<1>6. CASE reset
  <2>1. /\ limits' = limits /\ now' = now /\ rate' = [t \in Time |-> 0]
        /\ sec_window_start' = 0 /\ order_count_this_sec' = 0
    BY <1>6, Zenon DEF reset
  <2>2. 0 <= now
    BY <1>t DEF Time
  <2>3. RateWithinLimit'
    BY <1>t, <2>1 DEF RateWithinLimit
  <2>4. WindowCounts'
    BY <1>t, <2>1, <2>2 DEF WindowCounts
  <2> QED BY <2>3, <2>4, Zenon DEF RateInv
<1>7. ASSUME NEW enabled \in BOOLEAN, kill_switch(enabled)
      PROVE  RateInv'
  BY <1>7, SameRate, Zenon DEF kill_switch
<1>8. ASSUME NEW t \in Time, Clock(t)
      PROVE  RateInv'
  <2>1. /\ limits' = limits /\ now' = t /\ stepped' = (stepped \/ t < now)
        /\ rate' = rate /\ sec_window_start' = sec_window_start
        /\ order_count_this_sec' = order_count_this_sec
    BY <1>8, Zenon DEF Clock
  <2>2. ~ (t < now) /\ sec_window_start <= now => sec_window_start <= t
    BY <1>t
  <2>3. ~ stepped' => ~ stepped /\ ~ (t < now)
    BY <2>1, Zenon
  <2>4. RateWithinLimit'
    BY <2>1, <2>3, Zenon DEF RateInv, RateWithinLimit
  <2>5. WindowCounts'
    BY <2>1, <2>2, <2>3, Zenon DEF RateInv, WindowCounts
  <2> QED BY <2>4, <2>5, Zenon DEF RateInv
<1>9. CASE UNCHANGED vars
  BY <1>9, SameRate, Zenon DEF vars
<1> QED BY <1>1, <1>2, <1>3, <1>4, <1>5, <1>6, <1>7, <1>8, <1>9, Zenon DEF Next

(* The rate limit of validate is never exceeded in any second, for any     *)
(* limits and however the calls and the seconds interleave, as long as the *)
(* wall clock is not set back.                                             *)
THEOREM RateLimitHolds == Spec => []RateWithinLimit
<1>1. IInv /\ RateInv => RateWithinLimit
  BY Zenon DEF RateInv
<1>2. Init => IInv /\ RateInv
  BY InitIInv, InitRateInv, Zenon
<1>3. IInv /\ RateInv /\ [Next]_vars => (IInv /\ RateInv)'
  BY NextIInv, NextRateInv, Zenon
<1> QED BY <1>1, <1>2, <1>3, PTL DEF Spec
=============================================================================
