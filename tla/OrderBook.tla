----------------------------- MODULE OrderBook ------------------------------
(***************************************************************************)
(* The price-time priority order book (include/order_book.h,               *)
(* src/order_book.cpp).                                                    *)
(*                                                                         *)
(* A side of the book is a std::map from price to a std::list of orders,   *)
(* best price first: `levels' are the keys of the two maps, `book' the     *)
(* lists, `entry' the list nodes.  A list node is named by the id of its   *)
(* order, which is what the iterators kept in order_index_ amount to as    *)
(* long as ids are not reused while an order rests (the pipeline takes     *)
(* them from an atomic counter).                                           *)
(*                                                                         *)
(* An incoming order is matched by a loop; each pass of the loop is a step *)
(* (`pc' is "match"), and nothing else runs meanwhile: the book belongs to *)
(* one thread.  The branches for buy and sell orders are the same code     *)
(* mirrored, and are one definition here.                                  *)
(***************************************************************************)
EXTENDS Integers, Sequences, FiniteSetsExt, SequencesExt

CONSTANTS
  Price,        \* the prices of limit orders
  Quantity,     \* the quantities orders are sent with
  MaxOrders,    \* bound of the model: ids that are handed out
  MaxCalls      \* bound of the model: calls that change the book

(* Prices are positive, and every map with a level has a first one. *)
ASSUME PriceAssumption ==
  /\ Price \subseteq Nat \ {0}
  /\ \A S \in SUBSET Price : S # {} =>
       /\ \E m \in S : \A x \in S : x <= m
       /\ \E m \in S : \A x \in S : m <= x
ASSUME QuantityAssumption == Quantity \subseteq Nat
ASSUME BoundAssumption    == MaxOrders \in Nat /\ MaxCalls \in Nat

OrderId == 1 .. MaxOrders
Side    == {"BUY", "SELL"}
Status  == {"NEW", "PARTIAL", "FILLED", "CANCELLED", "REJECTED"}

INVALID_ORDER_ID == -1

(* struct Order, without symbol, account and timestamp *)
Order == [id : OrderId \cup {INVALID_ORDER_ID}, side : Side,
          type : {"LIMIT", "MARKET"}, price : Price \cup {0},
          quantity : Nat, filled_qty : Nat, status : Status]

(* A default-constructed Order. *)
EmptyOrder == [id |-> INVALID_ORDER_ID, side |-> "BUY", type |-> "LIMIT", price |-> 0,
               quantity |-> 0, filled_qty |-> 0, status |-> "NEW"]

Trade == [trade_id : Nat, buy : OrderId, sell : OrderId, price : Price,
          quantity : Nat]

VARIABLES
  levels,         \* the keys of bids_ and asks_
  book,           \* the order lists of bids_ and asks_
  entry,          \* the list nodes; EmptyOrder where there is none
  order_index,    \* the keys of order_index_
  trades_buf,     \* trades_buf_a_ and trades_buf_b_
  active_trades,  \* which of the two is written
  next_trade_id,  \* next_trade_id_
  pc,             \* "match" while an order is being matched
  order,          \* the order being matched; when idle, the order returned
  last_id,        \* the last order id handed out by the caller
  calls,          \* number of calls so far
  arrived,        \* history: the call that put a resting order in its list
  traded,         \* history: quantity traded under an id in all
  before,         \* history: quantity traded before the id was last (re)sent
  opposite,       \* history: the other side of the book when matching began
  drained         \* history: ids of the trades drain_trades returned

bookVars    == <<levels, book, entry, order_index>>
tradeVars   == <<trades_buf, active_trades, next_trade_id>>
historyVars == <<arrived, traded, before, opposite, drained>>
vars == <<levels, book, entry, order_index, trades_buf, active_trades,
          next_trade_id, pc, order, last_id, calls, arrived, traded, before,
          opposite, drained>>

remaining(o) == o.quantity - o.filled_qty
is_filled_Beyond(o) == o.filled_qty > o.quantity
is_filled(o) == o.filled_qty >= o.quantity

Opp(s) == IF s = "BUY" THEN "SELL" ELSE "BUY"

(* The order of the two maps: bids_ from high to low, asks_ from low to high. *)
NoWorse(s, p, q) == IF s = "BUY" THEN p >= q ELSE p <= q

(* Variants of the definitions below, each with one plausible mistake. *)
IsBest_AnyLevel(s, p) == p \in levels[s]
Crosses_Strictly(o, p) ==
  o.type = "MARKET" \/ (NoWorse(o.side, o.price, p) /\ o.price # p)

(* p is the key of begin() of the map of side s. *)
IsBest(s, p) == p \in levels[s] /\ \A q \in levels[s] : NoWorse(s, p, q)

best_bid == IF levels["BUY"] = {} THEN 0 ELSE Max(levels["BUY"])
best_ask == IF levels["SELL"] = {} THEN 0 ELSE Min(levels["SELL"])
spread   == IF best_bid = 0 \/ best_ask = 0 THEN 0 ELSE best_ask - best_bid

(* The price test of the matching loop, negated: o may trade at p. *)
Crosses(o, p) ==
  \/ o.type = "MARKET"
  \/ NoWorse(o.side, o.price, p)

OtherBuf(b) == IF b = "a" THEN "b" ELSE "a"

-----------------------------------------------------------------------------
Init ==
  /\ levels = [s \in Side |-> {}]
  /\ book = [s \in Side |-> [p \in Price |-> << >>]]
  /\ entry = [i \in OrderId |-> EmptyOrder]
  /\ order_index = {}
  /\ trades_buf = [b \in {"a", "b"} |-> << >>]
  /\ active_trades = "a"
  /\ next_trade_id = 1
  /\ pc = "idle"
  /\ order = EmptyOrder
  /\ last_id = 0
  /\ calls = 0
  /\ arrived = [i \in OrderId |-> 0]
  /\ traded = [i \in OrderId |-> 0]
  /\ before = [i \in OrderId |-> 0]
  /\ opposite = {}
  /\ drained = << >>

-----------------------------------------------------------------------------
(* What rests on side s, as the price-time rule sees it. *)
Resting(s) ==
  {[id |-> i, price |-> entry[i].price, arrived |-> arrived[i],
    open |-> remaining(entry[i])] :
      i \in {j \in order_index : entry[j].side = s}}

(* Entry into match_limit_order with order o: the loop starts. *)
StartMatching(o) ==
  /\ pc' = "match"
  /\ order' = o
  /\ before' = [before EXCEPT ![o.id] = traded[o.id]]
  /\ calls' = calls + 1

(* add_order and add_market_order: a new order comes in with a fresh id. A *)
(* market order sent through add_market_order loses its price.             *)
NewOrder(o) ==
  /\ pc = "idle"
  /\ calls < MaxCalls
  /\ last_id < MaxOrders
  /\ last_id' = last_id + 1
  /\ StartMatching(o)
  /\ opposite' = Resting(Opp(o.side))
  /\ UNCHANGED <<bookVars, tradeVars, arrived, traded, drained>>

Incoming(side, type, price, qty) ==
  [EmptyOrder EXCEPT !.id = last_id + 1, !.side = side, !.type = type,
                     !.price = price, !.quantity = qty]

add_order(side, type, price, qty) == NewOrder(Incoming(side, type, price, qty))

add_market_order(side, qty) == NewOrder(Incoming(side, "MARKET", 0, qty))

-----------------------------------------------------------------------------
generate_trade(buy, sell, qty, price) ==
  /\ next_trade_id' = next_trade_id + 1
  /\ trades_buf' = [trades_buf EXCEPT ![active_trades] =
       Append(@, [trade_id |-> next_trade_id, buy |-> buy, sell |-> sell,
                  price |-> price, quantity |-> qty])]
  /\ traded' = [traded EXCEPT ![buy] = @ + qty, ![sell] = @ + qty]

(* A variant of EraseNode: the empty level stays. *)
EraseNode_LevelStays(s, p, k) ==
  /\ book' = [book EXCEPT ![s][p] = RemoveAt(@, k)]
  /\ entry' = [entry EXCEPT ![book[s][p][k]] = EmptyOrder]
  /\ order_index' = order_index \ {book[s][p][k]}
  /\ UNCHANGED levels

(* Erases position k of the list at price p; a list that becomes empty     *)
(* takes its level with it.                                                *)
EraseNode(s, p, k) ==
  LET list == RemoveAt(book[s][p], k) IN
  /\ book' = [book EXCEPT ![s][p] = list]
  /\ levels' = IF list = << >> THEN [levels EXCEPT ![s] = @ \ {p}] ELSE levels
  /\ entry' = [entry EXCEPT ![book[s][p][k]] = EmptyOrder]
  /\ order_index' = order_index \ {book[s][p][k]}

(* One pass of the inner loop of match_limit_order, against the first      *)
(* order of the best level.  The loop only moves on to a later order or    *)
(* level after erasing the one before, so it always works on the first: an *)
(* order that is not filled ends the loop, having filled the incoming one. *)
MatchEntry ==
  /\ pc = "match"
  /\ remaining(order) > 0
  /\ \E p \in Price :
       LET s    == Opp(order.side)
           m    == Head(book[s][p])
           qty  == IF remaining(order) < remaining(entry[m])
                   THEN remaining(order) ELSE remaining(entry[m])
           rest == [entry[m] EXCEPT !.filled_qty = @ + qty, !.status = "PARTIAL"]
       IN
       /\ IsBest(s, p)
       /\ Crosses(order, p)
       /\ order' = [order EXCEPT !.filled_qty = @ + qty]
       /\ IF order.side = "BUY" THEN generate_trade(order.id, m, qty, p)
                                ELSE generate_trade(m, order.id, qty, p)
       /\ IF is_filled(rest)
          THEN EraseNode(s, p, 1)
          ELSE /\ entry' = [entry EXCEPT ![m] = rest]
               /\ UNCHANGED <<levels, book, order_index>>
  /\ UNCHANGED <<active_trades, pc, last_id, calls, arrived, before, opposite, drained>>

(* The condition on which the matching loop ends. *)
MatchingOver ==
  \/ remaining(order) <= 0
  \/ \A p \in Price : IsBest(Opp(order.side), p) => ~ Crosses(order, p)

MatchedStatus(o) ==
  CASE is_filled(o)     -> "FILLED"
    [] o.filled_qty > 0 -> "PARTIAL"
    [] OTHER            -> o.status

(* level_list->push_back *)
Enqueue(list, i) == Append(list, i)

(* Which orders stay in the book: not filled, and a limit order. *)
Rests(o) == ~ is_filled(o) /\ o.type = "LIMIT"

(* A variant of FinishOrder: the loop is continued where it should end. *)
FinishOrder_LoopsOn == pc = "match" /\ MatchingOver /\ UNCHANGED vars

(* The rest of add_order: the remainder of a limit order joins the end of  *)
(* its level and the index; any other order is just returned.              *)
FinishOrder ==
  LET o == [order EXCEPT !.status = MatchedStatus(order)] IN
  /\ pc = "match"
  /\ MatchingOver
  /\ pc' = "idle"
  /\ order' = o
  /\ opposite' = {}
  /\ IF Rests(o)
     THEN /\ levels' = [levels EXCEPT ![o.side] = @ \cup {o.price}]
          /\ book' = [book EXCEPT ![o.side][o.price] = Enqueue(@, o.id)]
          /\ entry' = [entry EXCEPT ![o.id] =
               [o EXCEPT !.status = IF o.filled_qty > 0 THEN "PARTIAL" ELSE "NEW"]]
          /\ order_index' = order_index \cup {o.id}
          /\ arrived' = [arrived EXCEPT ![o.id] = calls]
     ELSE UNCHANGED <<bookVars, arrived>>
  /\ UNCHANGED <<tradeVars, last_id, calls, traded, before, drained>>

-----------------------------------------------------------------------------
(* The list node of order i: its level and its place there. *)
NodeOf(i, p, k) ==
  /\ p = entry[i].price
  /\ k \in DOMAIN book[entry[i].side][p]
  /\ book[entry[i].side][p][k] = i

cancel_order(i) ==
  /\ pc = "idle"
  /\ calls < MaxCalls
  /\ i \in order_index
  /\ \E p \in Price : \E k \in DOMAIN book[entry[i].side][p] :
       NodeOf(i, p, k) /\ EraseNode(entry[i].side, p, k)
  /\ calls' = calls + 1
  /\ UNCHANGED <<tradeVars, pc, order, last_id, historyVars>>

(* The order leaves its place, and comes in again with the new price and   *)
(* quantity, as if nothing of it had been filled.                          *)
modify_order(i, price, qty) ==
  LET modified == [entry[i] EXCEPT !.price = price, !.quantity = qty,
                                   !.filled_qty = 0, !.status = "NEW"]
  IN
  /\ pc = "idle"
  /\ calls < MaxCalls
  /\ i \in order_index
  /\ \E p \in Price : \E k \in DOMAIN book[entry[i].side][p] :
       NodeOf(i, p, k) /\ EraseNode(entry[i].side, p, k)
  /\ StartMatching(modified)
  /\ opposite' = Resting(Opp(modified.side))
  /\ UNCHANGED <<tradeVars, last_id, arrived, traded, drained>>

(* modify_order of an id that does not rest (never sent, filled or         *)
(* cancelled).  cancel_order of such an id returns false and changes       *)
(* nothing.                                                                *)
ModifyUnknown(i) ==
  /\ pc = "idle"
  /\ calls < MaxCalls
  /\ i \notin order_index
  /\ order' = [EmptyOrder EXCEPT !.status = "REJECTED"]
  /\ calls' = calls + 1
  /\ UNCHANGED <<bookVars, tradeVars, pc, last_id, historyVars>>

(* update_level with size 0 removes a level and all its orders; with any   *)
(* other size it does nothing.                                             *)
update_level(s, p) ==
  LET gone == {book[s][p][k] : k \in DOMAIN book[s][p]} IN
  /\ pc = "idle"
  /\ calls < MaxCalls
  /\ p \in levels[s]
  /\ levels' = [levels EXCEPT ![s] = @ \ {p}]
  /\ book' = [book EXCEPT ![s][p] = << >>]
  /\ entry' = [i \in OrderId |-> IF i \in gone THEN EmptyOrder ELSE entry[i]]
  /\ order_index' = order_index \ gone
  /\ calls' = calls + 1
  /\ UNCHANGED <<tradeVars, pc, order, last_id, historyVars>>

(* A variant of drain_trades: the returned buffer is copied, not taken. *)
drain_trades_Copy ==
  /\ pc = "idle"
  /\ drained' = drained \o [k \in DOMAIN trades_buf[active_trades] |->
                               trades_buf[active_trades][k].trade_id]
  /\ active_trades' = OtherBuf(active_trades)
  /\ trades_buf' = [trades_buf EXCEPT ![OtherBuf(active_trades)] = << >>]
  /\ UNCHANGED <<bookVars, next_trade_id, pc, order, last_id, calls, arrived,
                 traded, before, opposite>>

(* The two trade buffers change roles; the one that was written is handed  *)
(* out and left empty.                                                     *)
drain_trades ==
  LET result == trades_buf[active_trades] IN
  /\ pc = "idle"
  /\ active_trades' = OtherBuf(active_trades)
  /\ trades_buf' = [b \in {"a", "b"} |-> << >>]
  /\ drained' = drained \o [k \in DOMAIN result |-> result[k].trade_id]
  /\ UNCHANGED <<bookVars, next_trade_id, pc, order, last_id, calls, arrived,
                 traded, before, opposite>>

-----------------------------------------------------------------------------
Next ==
  \/ \E s \in Side, t \in {"LIMIT", "MARKET"}, p \in Price, q \in Quantity :
       add_order(s, t, p, q)
  \/ \E s \in Side, q \in Quantity : add_market_order(s, q)
  \/ MatchEntry
  \/ FinishOrder
  \/ \E i \in OrderId : cancel_order(i)
  \/ \E i \in OrderId, p \in Price, q \in Quantity : modify_order(i, p, q)
  \/ \E i \in OrderId : ModifyUnknown(i)
  \/ \E s \in Side, p \in Price : update_level(s, p)
  \/ drain_trades

Spec == Init /\ [][Next]_vars

(* The thread that matches an order keeps running. *)
FairSpec == Spec /\ WF_vars(MatchEntry) /\ WF_vars(FinishOrder)

-----------------------------------------------------------------------------
(***************************************************************************)
(* Properties                                                              *)
(***************************************************************************)

(* The fields of OrderBook keep their types. *)
TypeOK ==
  /\ levels \in [Side -> SUBSET Price]
  /\ book \in [Side -> [Price -> Seq(OrderId)]]
  /\ entry \in [OrderId -> Order]
  /\ order_index \in SUBSET OrderId
  /\ trades_buf \in [{"a", "b"} -> Seq(Trade)]
  /\ active_trades \in {"a", "b"}
  /\ next_trade_id \in Nat \ {0}
  /\ pc \in {"idle", "match"}
  /\ order \in Order
  /\ pc = "match" => order.id \in OrderId
  /\ last_id \in 0 .. MaxOrders
  /\ calls \in 0 .. MaxCalls
  /\ arrived \in [OrderId -> Nat]
  /\ traded \in [OrderId -> Nat]
  /\ before \in [OrderId -> Nat]
  /\ drained \in Seq(Nat)

(* The index and the two maps describe the same orders: every indexed      *)
(* order sits in the list of its own side and price, every list node is    *)
(* indexed and at one place only, and a level exists exactly as long as    *)
(* its list is not empty.  cancel_order relies on the first part (it       *)
(* erases through the stored iterator), best_bid and best_ask on the last. *)
IndexMatchesLists ==
  /\ TypeOK
  /\ \A i \in order_index : \E k \in DOMAIN book[entry[i].side][entry[i].price] :
       book[entry[i].side][entry[i].price][k] = i
  /\ \A s \in Side, p \in Price : \A k \in DOMAIN book[s][p] :
       LET i == book[s][p][k] IN
       /\ i \in order_index
       /\ entry[i].id = i /\ entry[i].side = s /\ entry[i].price = p
       /\ \A l \in DOMAIN book[s][p] : book[s][p][l] = i => l = k
  /\ \A s \in Side, p \in Price : p \in levels[s] <=> book[s][p] # << >>

(* The book is never crossed or locked: every bid is below every ask, also *)
(* between the passes of the matching loop, so the mid price the strategy  *)
(* reads lies inside a positive spread.                                    *)
NotCrossed ==
  levels["BUY"] # {} /\ levels["SELL"] # {} => spread > 0

(* An order that rests has something left to fill, its status says whether *)
(* it was filled in part, and what it counts as filled is what was traded  *)
(* under its id since it was sent or last modified.  The order in hand     *)
(* obeys the same account and is never filled beyond its quantity.         *)
FillsMatchTrades ==
  /\ \A i \in order_index :
       /\ entry[i].filled_qty < entry[i].quantity
       /\ entry[i].filled_qty = traded[i] - before[i]
       /\ entry[i].status = IF entry[i].filled_qty = 0 THEN "NEW" ELSE "PARTIAL"
  /\ pc = "match" =>
       /\ order.filled_qty <= order.quantity
       /\ order.filled_qty = traded[order.id] - before[order.id]
       /\ order.id \notin order_index

(***************************************************************************)
(* Price-time priority, stated without the lists and the loop.  Take the   *)
(* orders that rested on the other side when the incoming order arrived.   *)
(* An order is ahead of another if its price is better, or the same and it *)
(* arrived earlier.  Then at any moment of the matching every order got    *)
(* what is left of the filled quantity after all orders ahead of it; and   *)
(* when the loop ends the incoming order got all it could at its price.    *)
(***************************************************************************)
PriceTimePriority ==
  LET s           == Opp(order.side)
      Ahead(m, n) == IF m.price = n.price THEN m.arrived < n.arrived
                                          ELSE NoWorse(s, m.price, n.price)
      Open(M)     == MapThenSumSet(LAMBDA m : m.open, M)
      Got(m)      == m.open - (IF m.id \in order_index
                               THEN remaining(entry[m.id]) ELSE 0)
      Share(m)    == LET left == order.filled_qty - Open({n \in opposite : Ahead(n, m)})
                     IN  Max({0, Min({left, m.open})})
  IN  pc = "match" =>
        /\ \A m \in opposite : Got(m) = Share(m) /\ (Got(m) > 0 => Crosses(order, m.price))
        /\ MatchingOver => order.filled_qty =
             Min({order.quantity, Open({m \in opposite : Crosses(order, m.price)})})

(* Every trade is handed out by drain_trades exactly once and in the order *)
(* it happened: the trades returned so far and the ones still in the       *)
(* active buffer are all trades, and the other buffer holds none.          *)
TradesDrainedOnce ==
  LET Ids(b) == [k \in DOMAIN trades_buf[b] |-> trades_buf[b][k].trade_id] IN
  /\ drained \o Ids(active_trades) = [k \in 1 .. next_trade_id - 1 |-> k]
  /\ trades_buf[OtherBuf(active_trades)] = << >>

(* The matching loop always ends, whatever it meets in the book. *)
MatchingTerminates == pc = "match" ~> pc = "idle"
=============================================================================
