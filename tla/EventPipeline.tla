--------------------------- MODULE EventPipeline ----------------------------
(***************************************************************************)
(* The two-stage pipeline (include/event_pipeline.h,                       *)
(* src/event_pipeline.cpp) with its four threads: main, which starts and   *)
(* stops it; the feed's receive thread; the consumer thread (hot path),    *)
(* which turns a market data message into two orders; and the I/O thread,  *)
(* which journals what the hot path reports and sends orders out.          *)
(*                                                                         *)
(* Hot path and I/O thread exchange the entries of a fixed pool of IOEvent *)
(* through two ring buffers.  A ring buffer of size N is a queue that      *)
(* holds N - 1 pointers (module RingBuffer), and its operations are atomic *)
(* here.  What the risk engine and the order book answer is left open: an  *)
(* order may be rejected, rest, or be filled in part or whole with any     *)
(* number of trades up to a bound.                                         *)
(***************************************************************************)
EXTENDS Integers, Sequences, FiniteSets, Functions

CONSTANTS
  QueueSize,   \* size of both I/O queues and of the event pool (4096)
  FeedSize,    \* size of the feed's output queue (4096)
  MaxMsgs,     \* bound of the model: market data messages received
  MaxTrades    \* bound of the model: trades the order book makes

ASSUME SizeAssumption ==
  /\ QueueSize \in Nat \ {0}
  /\ FeedSize \in Nat \ {0}
ASSUME BoundAssumption == MaxMsgs \in Nat /\ MaxTrades \in Nat

Event == 1 .. QueueSize    \* the entries of io_event_pool_
None  == 0                 \* a null IOEvent pointer

IOEventType == {"ORDER_ACCEPTED", "ORDER_REJECTED", "ORDER_FILLED", "TRADE"}

(* An IOEvent.  The fields of an order and those of a trade are apart, so  *)
(* an entry that is used again keeps what its last use left in the others. *)
IOEvent == [type : IOEventType, order_id : Nat, trade_id : Nat,
            send_to_gateway : BOOLEAN]

(* calloc: ORDER_ACCEPTED is the first of the enumeration. *)
Zeroed == [type |-> "ORDER_ACCEPTED", order_id |-> 0, trade_id |-> 0,
           send_to_gateway |-> FALSE]

VARIABLES
  main,            \* where the main thread is in start() and stop()
  running,         \* running_
  feed,            \* the receive thread: "off", "run" or "exit"
  feed_running,    \* fh->running
  feed_queue,      \* number of messages in fh->output_queue
  received,        \* number of messages received so far
  hot,             \* the consumer thread: pc, orders left of its message,
                   \* reports still to make, the event in hand
  io,              \* the I/O thread: pc and the event in hand
  io_free_queue,   \* io_free_queue_
  io_filled_queue, \* io_filled_queue_
  pool,            \* io_event_pool_
  next_order_id,   \* next_order_id_
  next_trade_id,   \* trade ids handed out by the order book
  stats,           \* stats_
  journal,         \* records written to the journal
  gateway,         \* orders handed to gw_send_order
  emitted          \* history: every report pushed to io_filled_queue_

ioVars == <<io_free_queue, io_filled_queue, pool>>
outVars == <<journal, gateway>>
countVars == <<next_order_id, next_trade_id, stats>>
feedVars == <<feed, feed_running, feed_queue, received>>
vars == <<main, running, feed, feed_running, feed_queue, received, hot, io,
          io_free_queue, io_filled_queue, pool, next_order_id, next_trade_id,
          stats, journal, gateway, emitted>>

(* ring_buffer_push of a queue of the given size: the caller of the I/O    *)
(* queues ignores the refusal.                                             *)
Push(queue, size, e) == IF Len(queue) < size - 1 THEN Append(queue, e) ELSE queue

AfterInit_WholePool == [e \in Event |-> e]

(* init pushes the whole pool into the free queue, one entry after the     *)
(* other; the queue refuses the last.                                      *)
AfterInit == [e \in 1 .. QueueSize - 1 |-> e]

Init ==
  /\ main = "init"
  /\ running = FALSE
  /\ feed = "off"
  /\ feed_running = FALSE
  /\ feed_queue = 0
  /\ received = 0
  /\ hot = [pc |-> "off", orders |-> 0, reports |-> << >>, event |-> None]
  /\ io = [pc |-> "off", event |-> None]
  /\ io_free_queue = AfterInit
  /\ io_filled_queue = << >>
  /\ pool = [e \in Event |-> Zeroed]
  /\ next_order_id = 1
  /\ next_trade_id = 1
  /\ stats = [msgs |-> 0, accepted |-> 0, rejected |-> 0, executed |-> 0, trades |-> 0,
              created |-> 0, dropped |-> 0]
  /\ journal = << >>
  /\ gateway = << >>
  /\ emitted = << >>

-----------------------------------------------------------------------------
(***************************************************************************)
(* start(): the feed, then the I/O thread, then the consumer thread.  Each *)
(* thread creation can fail.                                               *)
(***************************************************************************)
MainStep(from, to) == main = from /\ main' = to

StartFeed ==
  /\ MainStep("init", "create_io")
  /\ feed_running' = TRUE
  /\ feed' = "run"
  /\ running' = TRUE
  /\ UNCHANGED <<feed_queue, received, hot, io, ioVars, countVars, outVars, emitted>>

StartFeedFails ==
  /\ MainStep("init", "failed")
  /\ UNCHANGED <<running, feedVars, hot, io, ioVars, countVars, outVars, emitted>>

CreateIO ==
  /\ MainStep("create_io", "create_consumer")
  /\ io' = [io EXCEPT !.pc = "check"]
  /\ UNCHANGED <<running, feedVars, hot, ioVars, countVars, outVars, emitted>>

CreateIOFails ==
  /\ MainStep("create_io", "fail_stop_feed")
  /\ running' = FALSE
  /\ UNCHANGED <<feedVars, hot, io, ioVars, countVars, outVars, emitted>>

CreateConsumer ==
  /\ MainStep("create_consumer", "run")
  /\ hot' = [hot EXCEPT !.pc = "check"]
  /\ UNCHANGED <<running, feedVars, io, ioVars, countVars, outVars, emitted>>

CreateConsumerFails ==
  /\ MainStep("create_consumer", "fail_join_io")
  /\ running' = FALSE
  /\ UNCHANGED <<feedVars, hot, io, ioVars, countVars, outVars, emitted>>

(***************************************************************************)
(* stop(): the consumer is joined first, then the feed is stopped and      *)
(* joined, and last the I/O thread.                                        *)
(***************************************************************************)
Stop_FlagKept ==
  /\ MainStep("run", "join_consumer")
  /\ UNCHANGED <<running, feedVars, hot, io, ioVars, countVars, outVars, emitted>>

Stop ==
  /\ MainStep("run", "join_consumer")
  /\ running' = FALSE
  /\ UNCHANGED <<feedVars, hot, io, ioVars, countVars, outVars, emitted>>

JoinConsumer ==
  /\ MainStep("join_consumer", "stop_feed")
  /\ hot.pc = "exit"
  /\ UNCHANGED <<running, feedVars, hot, io, ioVars, countVars, outVars, emitted>>

(* feed_stop: the flag, then the join. *)
StopFeed ==
  /\ \/ MainStep("stop_feed", "join_feed")
     \/ MainStep("fail_stop_feed", "fail_join_feed")
  /\ feed_running' = FALSE
  /\ UNCHANGED <<running, feed, feed_queue, received, hot, io, ioVars, countVars,
                 outVars, emitted>>

JoinFeed ==
  /\ \/ MainStep("join_feed", "join_io")
     \/ MainStep("fail_join_feed", "failed")
  /\ feed = "exit"
  /\ UNCHANGED <<running, feedVars, hot, io, ioVars, countVars, outVars, emitted>>

JoinIO ==
  /\ \/ MainStep("join_io", "stopped")
     \/ MainStep("fail_join_io", "fail_stop_feed")
  /\ io.pc = "exit"
  /\ UNCHANGED <<running, feedVars, hot, io, ioVars, countVars, outVars, emitted>>

(* After stop() or a failed start() the pipeline does nothing more. *)
Over ==
  /\ main \in {"stopped", "failed"}
  /\ UNCHANGED vars

-----------------------------------------------------------------------------
(***************************************************************************)
(* The receive thread: one message after the other into the output queue;  *)
(* a message that finds it full is dropped.                                *)
(***************************************************************************)
FeedReceive ==
  /\ feed = "run"
  /\ feed_running
  /\ received < MaxMsgs
  /\ received' = received + 1
  /\ feed_queue' = IF feed_queue < FeedSize - 1 THEN feed_queue + 1 ELSE feed_queue
  /\ UNCHANGED <<main, running, feed, feed_running, hot, io, ioVars, countVars,
                 outVars, emitted>>

FeedExit ==
  /\ feed = "run"
  /\ ~ feed_running
  /\ feed' = "exit"
  /\ UNCHANGED <<main, running, feed_running, feed_queue, received, hot, io,
                 ioVars, countVars, outVars, emitted>>

-----------------------------------------------------------------------------
(***************************************************************************)
(* consumer_loop                                                           *)
(***************************************************************************)

(* The loop condition: after running_ is cleared the thread drains. *)
HotCheck ==
  /\ hot.pc = "check"
  /\ hot' = [hot EXCEPT !.pc = IF running THEN "pop" ELSE "drain"]
  /\ UNCHANGED <<main, running, feedVars, io, ioVars, countVars, outVars, emitted>>

(* A message is popped and the strategy numbers two orders for it. *)
HotPop ==
  /\ hot.pc \in {"pop", "drain"}
  /\ feed_queue > 0
  /\ feed_queue' = feed_queue - 1
  /\ hot' = [hot EXCEPT !.pc = IF hot.pc = "pop" THEN "order" ELSE "drain_order",
                        !.orders = 2]
  /\ next_order_id' = next_order_id + 2
  /\ stats' = [stats EXCEPT !.msgs = @ + 1]
  /\ UNCHANGED <<main, running, feed, feed_running, received, io, ioVars,
                 next_trade_id, outVars, emitted>>

HotPopNone ==
  /\ hot.pc \in {"pop", "drain"}
  /\ feed_queue = 0
  /\ hot' = [hot EXCEPT !.pc = IF hot.pc = "pop" THEN "check" ELSE "exit"]
  /\ UNCHANGED <<main, running, feedVars, io, ioVars, countVars, outVars, emitted>>

(* What the hot path reports about an order and its trades. *)
Report(type, id, gw) == [type |-> type, id |-> id, gw |-> gw]

TradeReports(n) == [k \in 1 .. n |-> Report("TRADE", next_trade_id + k - 1, FALSE)]

Busy == hot.pc \in {"order", "drain_order"} /\ hot.reports = << >>

order_id == next_order_id - hot.orders

(* The risk engine rejects the next order. *)
HotReject ==
  /\ Busy
  /\ hot.orders > 0
  /\ hot' = [hot EXCEPT !.orders = @ - 1,
                        !.reports = <<Report("ORDER_REJECTED", order_id, FALSE)>>]
  /\ stats' = [stats EXCEPT !.created = @ + 1, !.rejected = @ + 1]
  /\ UNCHANGED <<main, running, feedVars, io, ioVars, next_order_id, next_trade_id,
                 outVars, emitted>>

(* The next order is accepted, and the order book makes n trades of it.    *)
(* It goes to the gateway unless it was filled whole; its message fits the *)
(* buffer whatever the price, so its serialization succeeds.               *)
HotAccept(n, whole) ==
  LET type == IF n > 0 THEN "ORDER_FILLED" ELSE "ORDER_ACCEPTED" IN
  /\ Busy
  /\ hot.orders > 0
  /\ whole => n > 0
  /\ next_trade_id + n <= MaxTrades + 1
  /\ hot' = [hot EXCEPT !.orders = @ - 1,
       !.reports = <<Report(type, order_id, ~ whole)>> \o TradeReports(n)]
  /\ next_trade_id' = next_trade_id + n
  /\ stats' = [stats EXCEPT !.created = @ + 1, !.accepted = @ + 1,
                            !.executed = IF whole THEN @ ELSE @ + 1]
  /\ UNCHANGED <<main, running, feedVars, io, ioVars, next_order_id, outVars, emitted>>

(* Both orders are done: the message goes back to the feed's pool. *)
HotReturnMsg ==
  /\ Busy
  /\ hot.orders = 0
  /\ hot' = [hot EXCEPT !.pc = IF hot.pc = "order" THEN "check" ELSE "drain"]
  /\ UNCHANGED <<main, running, feedVars, io, ioVars, countVars, outVars, emitted>>

(* The statistics once the report at hand is taken up: a trade is counted. *)
Counted == IF Head(hot.reports).type = "TRADE" THEN [stats EXCEPT !.trades = @ + 1]
                                               ELSE stats

(* A free event is taken for the next report. *)
HotTakeEvent ==
  /\ hot.reports # << >>
  /\ hot.event = None
  /\ io_free_queue # << >>
  /\ hot' = [hot EXCEPT !.event = Head(io_free_queue)]
  /\ io_free_queue' = Tail(io_free_queue)
  /\ stats' = Counted
  /\ UNCHANGED <<main, running, feedVars, io, io_filled_queue, pool, next_order_id,
                 next_trade_id, outVars, emitted>>

HotDropReport_Uncounted ==
  /\ hot.reports # << >>
  /\ hot.event = None
  /\ io_free_queue = << >>
  /\ hot' = [hot EXCEPT !.reports = Tail(@)]
  /\ stats' = Counted
  /\ UNCHANGED <<main, running, feedVars, io, ioVars, next_order_id, next_trade_id,
                 outVars, emitted>>

(* No event is free: the report is dropped and counted as such. *)
HotDropReport ==
  /\ hot.reports # << >>
  /\ hot.event = None
  /\ io_free_queue = << >>
  /\ hot' = [hot EXCEPT !.reports = Tail(@)]
  /\ stats' = [Counted EXCEPT !.dropped = @ + 1]
  /\ UNCHANGED <<main, running, feedVars, io, ioVars, next_order_id, next_trade_id,
                 outVars, emitted>>

(* Filling an event: a trade sets the trade's fields only. *)
Filled(event, report) ==
  IF report.type = "TRADE"
    THEN [event EXCEPT !.type = "TRADE", !.trade_id = report.id]
    ELSE [event EXCEPT !.type = report.type, !.order_id = report.id,
                       !.send_to_gateway = report.gw]

(* The event is filled and pushed to the I/O thread. *)
HotPushEvent ==
  /\ hot.event # None
  /\ pool' = [pool EXCEPT ![hot.event] = Filled(@, Head(hot.reports))]
  /\ io_filled_queue' = Push(io_filled_queue, QueueSize, hot.event)
  /\ emitted' = Append(emitted, Head(hot.reports))
  /\ hot' = [hot EXCEPT !.reports = Tail(@), !.event = None]
  /\ UNCHANGED <<main, running, feedVars, io, io_free_queue, countVars, outVars>>

-----------------------------------------------------------------------------
(***************************************************************************)
(* io_loop                                                                 *)
(***************************************************************************)
IOCheck ==
  /\ io.pc = "check"
  /\ io' = [io EXCEPT !.pc = IF running THEN "pop" ELSE "drain"]
  /\ UNCHANGED <<main, running, feedVars, hot, ioVars, countVars, outVars, emitted>>

IOPopNone ==
  /\ io.pc \in {"pop", "drain"}
  /\ io_filled_queue = << >>
  /\ io' = [io EXCEPT !.pc = IF io.pc = "pop" THEN "check" ELSE "exit"]
  /\ UNCHANGED <<main, running, feedVars, hot, ioVars, countVars, outVars, emitted>>

IOPop_ReturnsEarly ==
  /\ io.pc \in {"pop", "drain"}
  /\ io_filled_queue # << >>
  /\ io' = [pc |-> IF io.pc = "pop" THEN "process" ELSE "drain_process",
            event |-> Head(io_filled_queue)]
  /\ io_filled_queue' = Tail(io_filled_queue)
  /\ io_free_queue' = Push(io_free_queue, QueueSize, Head(io_filled_queue))
  /\ UNCHANGED <<main, running, feedVars, hot, pool, countVars, outVars, emitted>>

IOPop ==
  /\ io.pc \in {"pop", "drain"}
  /\ io_filled_queue # << >>
  /\ io' = [pc |-> IF io.pc = "pop" THEN "process" ELSE "drain_process",
            event |-> Head(io_filled_queue)]
  /\ io_filled_queue' = Tail(io_filled_queue)
  /\ UNCHANGED <<main, running, feedVars, hot, io_free_queue, pool, countVars,
                 outVars, emitted>>

(* What is journaled of an event: its type and the id that belongs to it. *)
Record(event) ==
  [type |-> event.type,
   id   |-> IF event.type = "TRADE" THEN event.trade_id ELSE event.order_id]

Sends_AnyType(event) == event.send_to_gateway

(* Which events are handed to gw_send_order. *)
Sends(event) ==
  event.type \in {"ORDER_ACCEPTED", "ORDER_FILLED"} /\ event.send_to_gateway

IOProcess_NoTrades ==
  LET event == pool[io.event] IN
  /\ io.pc \in {"process", "drain_process"}
  /\ journal' = IF event.type = "TRADE" THEN journal ELSE Append(journal, Record(event))
  /\ gateway' = IF Sends(event) THEN Append(gateway, event.order_id) ELSE gateway
  /\ io' = IF io.pc = "process" THEN [io EXCEPT !.pc = "return"]
                                ELSE [pc |-> "drain", event |-> None]
  /\ UNCHANGED <<main, running, feedVars, hot, ioVars, countVars, emitted>>

(* process_io_event: one journal record, and the gateway message if there  *)
(* is one.  While draining the event is not put back.                      *)
IOProcess ==
  LET event == pool[io.event] IN
  /\ io.pc \in {"process", "drain_process"}
  /\ journal' = Append(journal, Record(event))
  /\ gateway' = IF Sends(event) THEN Append(gateway, event.order_id) ELSE gateway
  /\ io' = IF io.pc = "process" THEN [io EXCEPT !.pc = "return"]
                                ELSE [pc |-> "drain", event |-> None]
  /\ UNCHANGED <<main, running, feedVars, hot, ioVars, countVars, emitted>>

(* The event goes back to the free queue. *)
IOReturn ==
  /\ io.pc = "return"
  /\ io_free_queue' = Push(io_free_queue, QueueSize, io.event)
  /\ io' = [pc |-> "check", event |-> None]
  /\ UNCHANGED <<main, running, feedVars, hot, io_filled_queue, pool, countVars,
                 outVars, emitted>>

-----------------------------------------------------------------------------
Main ==
  \/ StartFeed \/ StartFeedFails
  \/ CreateIO \/ CreateIOFails
  \/ CreateConsumer \/ CreateConsumerFails
  \/ Stop \/ JoinConsumer \/ StopFeed \/ JoinFeed \/ JoinIO
  \/ Over

Feed == FeedReceive \/ FeedExit

Hot ==
  \/ HotCheck \/ HotPop \/ HotPopNone
  \/ HotReject
  \/ \E n \in 0 .. MaxTrades, whole \in BOOLEAN : HotAccept(n, whole)
  \/ HotReturnMsg
  \/ HotTakeEvent \/ HotDropReport \/ HotPushEvent

IO == IOCheck \/ IOPopNone \/ IOPop \/ IOProcess \/ IOReturn

Next == Main \/ Feed \/ Hot \/ IO

Spec == Init /\ [][Next]_vars

(***************************************************************************)
(* The scheduler runs every thread, and main finishes the start() or       *)
(* stop() it is in; when it calls stop() is left open.                     *)
(***************************************************************************)
FairSpec ==
  /\ Spec
  /\ WF_vars(main # "run" /\ Main)
  /\ WF_vars(Feed)
  /\ WF_vars(Hot)
  /\ WF_vars(IO)

-----------------------------------------------------------------------------
(***************************************************************************)
(* Properties                                                              *)
(***************************************************************************)
(* Where main and the receive thread are. *)
Control ==
  /\ main \in {"init", "create_io", "create_consumer", "run", "join_consumer",
               "stop_feed", "join_feed", "join_io", "stopped", "fail_join_io",
               "fail_stop_feed", "fail_join_feed", "failed"}
  /\ running \in BOOLEAN /\ feed_running \in BOOLEAN
  /\ feed \in {"off", "run", "exit"}
  /\ feed_queue \in 0 .. FeedSize - 1
  /\ received \in 0 .. MaxMsgs

(* The state has its type; the output queue of the feed never holds more   *)
(* than FeedSize - 1 messages, and no record is journaled of an IOEvent    *)
(* that was never filled (its ids are still zero).                         *)
TypeOK ==
  /\ Control
  /\ hot.pc \in {"off", "check", "pop", "order", "drain", "drain_order", "exit"}
  /\ hot.orders \in 0 .. 2
  /\ hot.event \in Event \cup {None}
  /\ io.pc \in {"off", "check", "pop", "process", "return", "drain",
               "drain_process", "exit"}
  /\ io.event \in Event \cup {None}
  /\ io_free_queue \in Seq(Event)
  /\ io_filled_queue \in Seq(Event)
  /\ pool \in [Event -> IOEvent]
  /\ \A k \in DOMAIN journal : journal[k] \in [type : IOEventType, id : Nat \ {0}]

(* Every entry of the pool is in one place at most: once in one of the two *)
(* queues, or in the hands of one of the two threads.  So process_io_event *)
(* never reads an IOEvent that process_market_data is filling.             *)
EventOwnedOnce ==
  LET hand(e) == IF e = None THEN << >> ELSE <<e>>
  IN  /\ TypeOK
      /\ IsInjective(io_free_queue \o io_filled_queue \o hand(hot.event) \o hand(io.event))

(* The ring_buffer_push calls whose result the threads ignore are never    *)
(* refused: a thread that holds an event finds room in the queue it will   *)
(* push it to.  One entry more in circulation would break it.              *)
NoPushRefused ==
  /\ hot.event # None => Len(io_filled_queue) < QueueSize - 1
  /\ io.pc = "return" => Len(io_free_queue) < QueueSize - 1

(* The reports that are not journaled yet, oldest first. *)
Pending ==
  (IF io.pc \in {"process", "drain_process"} THEN <<io.event>> ELSE << >>)
    \o io_filled_queue

(* The journal holds what the hot path reported, in that order, and what   *)
(* it lacks is intact in the events on their way to the I/O thread: reuse  *)
(* of an event overwrites no report that process_io_event has not handled. *)
JournalInOrder ==
  journal \o [k \in DOMAIN Pending |-> Record(pool[Pending[k]])]
    = [k \in DOMAIN emitted |-> [type |-> emitted[k].type, id |-> emitted[k].id]]

(* Which of the first n reports are of orders meant for the gateway. *)
SentAmong(reports, n) == {k \in 1 .. n : reports[k].gw}

(* The orders sent are those the hot path meant to send among the reports  *)
(* journaled, in that order and each once: send_to_gateway of an earlier   *)
(* use of an event, which a trade leaves in place, sends nothing.          *)
GatewayExact ==
  /\ Len(gateway) = Cardinality(SentAmong(emitted, Len(journal)))
  /\ \A k \in SentAmong(emitted, Len(journal)) :
       gateway[Cardinality(SentAmong(emitted, k))] = emitted[k].id

(* Between two orders the statistics account for all of the hot path's     *)
(* work: every order created was accepted or rejected, and every order and *)
(* trade was either reported or counted in io_events_dropped.              *)
StatsAddUp ==
  hot.reports = << >> =>
    /\ stats.created = stats.accepted + stats.rejected
    /\ stats.created + hot.orders = 2 * stats.msgs
    /\ Len(emitted) + stats.dropped = stats.created + stats.trades
    /\ stats.executed >= Len(gateway)

(* Once main is in stop(), or in the cleanup of a start() that failed, it  *)
(* comes to its end: every thread it joins exits.                          *)
ShutdownEnds ==
  main \in {"join_consumer", "fail_join_io", "fail_stop_feed"}
    ~> main \in {"stopped", "failed"}

(* Every report handed to the I/O thread is journaled unless the pipeline  *)
(* is stopped first.                                                       *)
ReportsJournaled ==
  \A k \in 1 .. 2 * MaxMsgs + MaxTrades :
    Len(emitted) >= k ~> Len(journal) >= k \/ ~ running

(* event_pipeline.cpp says in stop() that it waits for the I/O thread "to  *)
(* drain remaining events": after stop() nothing is left unprocessed.      *)
AllDrainedAtStop == main = "stopped" => Len(journal) = Len(emitted)

-----------------------------------------------------------------------------
(***************************************************************************)
(* The invariant behind the properties.                                    *)
(***************************************************************************)
ReportSet ==
  {r \in [type : IOEventType, id : Nat \ {0}, gw : BOOLEAN] :
     r.gw => r.type \in {"ORDER_ACCEPTED", "ORDER_FILLED"}}

Stats == [msgs : Nat, accepted : Nat, rejected : Nat, executed : Nat,
          trades : Nat, created : Nat, dropped : Nat]

HotThread ==
  [pc : {"off", "check", "pop", "order", "drain", "drain_order", "exit"},
   orders : 0 .. 2, reports : Seq(ReportSet), event : Event \cup {None}]

IOThread ==
  [pc : {"off", "check", "pop", "process", "return", "drain", "drain_process", "exit"},
   event : Event \cup {None}]

Types ==
  /\ hot \in HotThread
  /\ io \in IOThread
  /\ stats \in Stats
  /\ next_order_id \in Nat /\ next_order_id > hot.orders
  /\ next_trade_id \in Nat \ {0}
  /\ journal \in Seq([type : IOEventType, id : Nat \ {0}])
  /\ gateway \in Seq(Nat \ {0})
  /\ emitted \in Seq(ReportSet)

(* Where the threads are: neither runs before main has created it, and a   *)
(* thread holds an event only where it works on one.                       *)
Places ==
  /\ main \in {"init", "create_io"} => io.pc = "off"
  /\ main \in {"init", "create_io", "create_consumer"} => hot.pc = "off"
  /\ io.event # None <=> io.pc \in {"process", "return", "drain_process"}
  /\ hot.event # None => hot.reports # << >>
  /\ hot.orders > 0 \/ hot.reports # << >> => hot.pc \in {"order", "drain_order"}

(* One entry of the pool is never in circulation: each ring holds one      *)
(* entry less than the pool has.                                           *)
Circulation ==
  Len(io_free_queue) + Len(io_filled_queue) + (IF hot.event # None THEN 1 ELSE 0)
    + (IF io.event # None THEN 1 ELSE 0) <= QueueSize - 1

Ownership ==
  /\ IsInjective(io_free_queue)
  /\ IsInjective(io_filled_queue)
  /\ \A i \in DOMAIN io_free_queue :
       /\ io_free_queue[i] # hot.event /\ io_free_queue[i] # io.event
       /\ \A j \in DOMAIN io_filled_queue : io_free_queue[i] # io_filled_queue[j]
  /\ \A j \in DOMAIN io_filled_queue :
       io_filled_queue[j] # hot.event /\ io_filled_queue[j] # io.event
  /\ hot.event # None => hot.event # io.event

(* Every report not journaled yet is in its event, gateway flag included. *)
Holds(e, r) ==
  Record(pool[e]) = [type |-> r.type, id |-> r.id] /\ (Sends(pool[e]) <=> r.gw)

InProcess == IF io.pc \in {"process", "drain_process"} THEN 1 ELSE 0

Delivery ==
  /\ Len(emitted) = Len(journal) + InProcess + Len(io_filled_queue)
  /\ \A k \in DOMAIN journal :
       journal[k] = [type |-> emitted[k].type, id |-> emitted[k].id]
  /\ InProcess = 1 => Holds(io.event, emitted[Len(journal) + 1])
  /\ \A j \in DOMAIN io_filled_queue :
       Holds(io_filled_queue[j], emitted[Len(journal) + InProcess + j])

(* The trades that are reported next but not counted yet: all but the      *)
(* first report are trades, and so is the first if the order's own report  *)
(* is made.                                                                *)
Uncounted ==
  IF hot.reports = << >> THEN 0
  ELSE IF hot.event = None /\ Head(hot.reports).type = "TRADE" THEN Len(hot.reports)
  ELSE Len(hot.reports) - 1

Counts ==
  /\ \A k \in DOMAIN hot.reports : k > 1 => hot.reports[k].type = "TRADE"
  /\ stats.created = stats.accepted + stats.rejected
  /\ stats.created + hot.orders = 2 * stats.msgs
  /\ Len(emitted) + stats.dropped + Len(hot.reports)
       = stats.created + stats.trades + Uncounted
  /\ stats.executed >= Cardinality(SentAmong(emitted, Len(emitted)))
       + (IF hot.reports # << >> /\ Head(hot.reports).gw THEN 1 ELSE 0)

IInv ==
  /\ TypeOK /\ Types /\ Places /\ Circulation /\ Ownership
  /\ Delivery /\ Counts /\ GatewayExact
=============================================================================
