------------------------ MODULE EventPipelineProofs -------------------------
(***************************************************************************)
(* The exchange of events between hot path and I/O thread is right for     *)
(* every size of the queues and any number of messages and trades.         *)
(***************************************************************************)
EXTENDS EventPipeline, FiniteSetTheorems, SequenceTheorems, TLAPS

(* The types of the threads' records, field by field. *)
LEMMA HotType ==
  ASSUME Types
  PROVE  /\ hot.orders \in 0 .. 2 /\ hot.reports \in Seq(ReportSet)
         /\ hot.event \in Event \cup {None} /\ io.event \in Event \cup {None}
         /\ DOMAIN hot = {"pc", "orders", "reports", "event"}
         /\ DOMAIN io = {"pc", "event"}
BY DEF Types, HotThread, IOThread

(* Updates of the consumer's and of the I/O thread's record and of the     *)
(* statistics stay within their types.                                     *)
LEMMA HotUpdates ==
  ASSUME NEW h \in HotThread
  PROVE  /\ \A q \in {"off", "check", "pop", "order", "drain", "drain_order", "exit"} :
              [h EXCEPT !.pc = q] \in HotThread
         /\ \A n \in 0 .. 2 : [h EXCEPT !.orders = n] \in HotThread
         /\ \A r \in Seq(ReportSet) : [h EXCEPT !.reports = r] \in HotThread
         /\ \A e \in Event \cup {None} : [h EXCEPT !.event = e] \in HotThread
<1>1. \A q \in {"off", "check", "pop", "order", "drain", "drain_order", "exit"} :
        [h EXCEPT !.pc = q] \in HotThread
  BY DEF HotThread
<1>2. \A n \in 0 .. 2 : [h EXCEPT !.orders = n] \in HotThread
  BY DEF HotThread
<1>3. \A r \in Seq(ReportSet) : [h EXCEPT !.reports = r] \in HotThread
  BY DEF HotThread
<1>4. \A e \in Event \cup {None} : [h EXCEPT !.event = e] \in HotThread
  BY DEF HotThread
<1> QED BY <1>1, <1>2, <1>3, <1>4, Zenon

(* Updates of two fields of the consumer stay within its type. *)
LEMMA HotUpdates2 ==
  ASSUME NEW h \in HotThread
  PROVE  /\ \A q \in {"order", "drain_order"}, n \in 0 .. 2 :
              [h EXCEPT !.pc = q, !.orders = n] \in HotThread
         /\ \A n \in 0 .. 2, r \in Seq(ReportSet) :
              [h EXCEPT !.orders = n, !.reports = r] \in HotThread
         /\ \A r \in Seq(ReportSet) :
              [h EXCEPT !.reports = r, !.event = None] \in HotThread
<1>1. \A q \in {"order", "drain_order"}, n \in 0 .. 2 :
        [h EXCEPT !.pc = q, !.orders = n] \in HotThread
  BY DEF HotThread
<1>2. \A n \in 0 .. 2, r \in Seq(ReportSet) :
        [h EXCEPT !.orders = n, !.reports = r] \in HotThread
  BY DEF HotThread
<1>3. \A r \in Seq(ReportSet) : [h EXCEPT !.reports = r, !.event = None] \in HotThread
  BY DEF HotThread
<1> QED BY <1>1, <1>2, <1>3, Zenon

(* The I/O thread may go to any of its places. *)
LEMMA IOUpdates ==
  ASSUME NEW h \in IOThread
  PROVE  /\ \A q \in {"off", "check", "pop", "process", "return", "drain",
                      "drain_process", "exit"} : [h EXCEPT !.pc = q] \in IOThread
BY DEF IOThread

(* The counters may be set to any natural number. *)
LEMMA StatsUpdates ==
  ASSUME NEW s \in Stats
  PROVE  /\ \A n \in Nat : /\ [s EXCEPT !.msgs = n] \in Stats
                           /\ [s EXCEPT !.trades = n] \in Stats
                           /\ [s EXCEPT !.dropped = n] \in Stats
         /\ \A c, n, x \in Nat :
              /\ [s EXCEPT !.created = c, !.rejected = n] \in Stats
              /\ [s EXCEPT !.created = c, !.accepted = n, !.executed = x] \in Stats
BY DEF Stats

-----------------------------------------------------------------------------
(***************************************************************************)
(* What a step keeps when it leaves the variables of a part alone          *)
(***************************************************************************)

(* The type invariant after a step, from its parts. *)
LEMMA TypeOKNext ==
  ASSUME Types', Control', io_free_queue' \in Seq(Event), io_filled_queue' \in Seq(Event),
         pool' \in [Event -> IOEvent]
  PROVE  TypeOK'
<1>1. /\ hot'.pc \in {"off", "check", "pop", "order", "drain", "drain_order", "exit"}
      /\ hot'.orders \in 0 .. 2
      /\ hot'.event \in Event \cup {None}
      /\ io'.pc \in {"off", "check", "pop", "process", "return", "drain",
                     "drain_process", "exit"}
      /\ io'.event \in Event \cup {None}
  BY DEF Types, HotThread, IOThread
<1>2. \A k \in DOMAIN journal' : journal'[k] \in [type : IOEventType, id : Nat \ {0}]
  <2> DEFINE R == [type : IOEventType, id : Nat \ {0}]
  <2>1. journal' \in Seq(R)
    BY Zenon DEF Types
  <2> HIDE DEF R
  <2>2. \A k \in DOMAIN journal' : journal'[k] \in R
    BY <2>1
  <2> QED BY <2>2 DEF R
<1> QED BY <1>1, <1>2, Zenon DEF TypeOK

(* Who moves no event keeps the circulation and the owners of the events. *)
LEMMA SameOwnership ==
  ASSUME Circulation, Ownership, hot'.event = hot.event, io'.event = io.event,
         io_free_queue' = io_free_queue, io_filled_queue' = io_filled_queue
  PROVE  Circulation' /\ Ownership'
BY DEF Circulation, Ownership

(* Who touches neither the filled queue nor the journal keeps what is due  *)
(* to be written.                                                          *)
LEMMA SameDelivery ==
  ASSUME Delivery, io'.event = io.event, InProcess' = InProcess, emitted' = emitted,
         journal' = journal, io_filled_queue' = io_filled_queue, pool' = pool
  PROVE  Delivery'
BY DEF Delivery, Holds

(* Who emits and counts nothing keeps the statistics consistent. *)
LEMMA SameCounts ==
  ASSUME Counts, hot'.event = hot.event, hot'.reports = hot.reports,
         hot'.orders = hot.orders, stats' = stats, emitted' = emitted
  PROVE  Counts'
BY DEF Counts, Uncounted, SentAmong

(* Who journals and sends nothing keeps the gateway in step with the       *)
(* journal.                                                                *)
LEMMA SameGateway ==
  ASSUME GatewayExact, emitted' = emitted, journal' = journal, gateway' = gateway
  PROVE  GatewayExact'
BY DEF GatewayExact, SentAmong

(* A step that leaves the events where they are. *)
LEMMA NoEventStep ==
  ASSUME IInv, Types', Control', Places', Counts',
         hot'.event = hot.event, io'.event = io.event, InProcess' = InProcess,
         UNCHANGED <<ioVars, outVars, emitted>>
  PROVE  IInv'
<1>1. /\ Circulation /\ Ownership /\ Delivery /\ GatewayExact
      /\ io_free_queue \in Seq(Event) /\ io_filled_queue \in Seq(Event)
      /\ pool \in [Event -> IOEvent]
  BY Zenon DEF IInv, TypeOK
<1>2. /\ io_free_queue' = io_free_queue /\ io_filled_queue' = io_filled_queue
      /\ pool' = pool /\ journal' = journal /\ gateway' = gateway
      /\ emitted' = emitted
  BY DEF ioVars, outVars
<1>3. TypeOK'
  BY <1>1, <1>2, TypeOKNext, Zenon
<1>4. Circulation' /\ Ownership' /\ Delivery' /\ GatewayExact'
  BY <1>1, <1>2, SameOwnership, SameDelivery, SameGateway, Zenon
<1> QED BY <1>3, <1>4, Zenon DEF IInv

(* A step that moves a thread along its loop and touches nothing else. *)
LEMMA QuietStep ==
  ASSUME IInv, Types', Control', Places',
         hot'.event = hot.event, hot'.reports = hot.reports, hot'.orders = hot.orders,
         io'.event = io.event, InProcess' = InProcess,
         UNCHANGED <<ioVars, stats, outVars, emitted>>
  PROVE  IInv'
<1>1. Counts'
  BY SameCounts DEF IInv
<1> QED BY <1>1, NoEventStep

(* The steps of start(), stop() and the receive thread, and the steps in   *)
(* which the consumer and the I/O thread find nothing to do.               *)
LEMMA QuietSteps ==
  ASSUME IInv,
         \/ Main \/ Feed \/ UNCHANGED vars
         \/ HotCheck \/ HotPopNone \/ HotReturnMsg \/ IOCheck \/ IOPopNone
  PROVE  IInv'
<1>t. Control /\ Types /\ Places /\ hot \in HotThread /\ io \in IOThread
  BY Zenon DEF IInv, TypeOK, Types
<1>d. DOMAIN hot = {"pc", "orders", "reports", "event"} /\ DOMAIN io = {"pc", "event"}
  BY <1>t, HotType
<1>0. ASSUME hot' = hot, io' = io, Control', Places',
             UNCHANGED <<ioVars, countVars, outVars, emitted>>
      PROVE  IInv'
  <2>1. Types' /\ InProcess' = InProcess /\ UNCHANGED <<ioVars, stats, outVars, emitted>>
    BY <1>t, <1>0 DEF Types, InProcess, countVars, outVars
  <2> QED BY <1>0, <2>1, QuietStep
<1>1. CASE StartFeed \/ StartFeedFails \/ CreateIOFails \/ CreateConsumerFails \/ Stop
           \/ JoinConsumer
  <2>1. Control'
    BY <1>t, <1>1 DEF StartFeed, StartFeedFails, CreateIOFails, CreateConsumerFails, Stop,
       JoinConsumer, MainStep, Control, feedVars
  <2>2. Places'
    BY <1>t, <1>1 DEF StartFeed, StartFeedFails, CreateIOFails, CreateConsumerFails, Stop,
       JoinConsumer, MainStep, Places
  <2> QED BY <1>1, <1>0, <2>1, <2>2, Zenon DEF StartFeed, StartFeedFails, CreateIOFails,
             CreateConsumerFails, Stop, JoinConsumer
<1>2. CASE StopFeed \/ JoinFeed \/ JoinIO \/ Over \/ UNCHANGED vars
  <2>1. Control'
    BY <1>t, <1>2 DEF StopFeed, JoinFeed, JoinIO, Over, vars, MainStep, Control, feedVars
  <2>2. Places'
    BY <1>t, <1>2 DEF StopFeed, JoinFeed, JoinIO, Over, vars, MainStep, Places
  <2> QED BY <1>2, <1>0, <2>1, <2>2, Zenon DEF StopFeed, JoinFeed, JoinIO, Over, vars,
             ioVars, countVars, outVars
<1>3. CASE Feed
  <2>1. Control'
    BY <1>t, <1>3, SizeAssumption, BoundAssumption DEF Feed, FeedReceive, FeedExit, Control
  <2>2. Places'
    BY <1>t, <1>3 DEF Feed, FeedReceive, FeedExit, Places
  <2> QED BY <1>3, <1>0, <2>1, <2>2, Zenon DEF Feed, FeedReceive, FeedExit
<1>4. CASE CreateIO \/ IOCheck \/ IOPopNone
  <2>1. \E q \in {"check", "pop", "drain", "exit"} : io' = [io EXCEPT !.pc = q]
    BY <1>4, Zenon DEF CreateIO, IOCheck, IOPopNone
  <2>2. PICK q \in {"check", "pop", "drain", "exit"} : io' = [io EXCEPT !.pc = q]
    BY <2>1
  <2>3. io' \in IOThread /\ io'.event = io.event /\ io'.pc = q
    BY <1>t, <1>d, <2>2, IOUpdates
  <2>4. /\ hot' = hot /\ UNCHANGED <<ioVars, countVars, outVars, emitted>>
        /\ UNCHANGED <<running, feedVars>>
        /\ main' = main \/ (main = "create_io" /\ main' = "create_consumer")
        /\ io.pc \in {"off", "check", "pop", "drain"}
    BY <1>t, <1>4 DEF CreateIO, IOCheck, IOPopNone, MainStep, Places
  <2>5. Control'
    BY <1>t, <2>4 DEF Control, feedVars
  <2>6. main \in {"init", "create_io"} => ~ (main' = main)
    BY <1>t, <1>4 DEF CreateIO, IOCheck, IOPopNone, MainStep, Places
  <2>7. Places'
    BY <1>t, <2>2, <2>3, <2>4, <2>6 DEF Places
  <2>8. Types' /\ InProcess' = InProcess
    BY <1>t, <2>2, <2>3, <2>4 DEF Types, InProcess, outVars, countVars
  <2> QED BY <2>3, <2>4, <2>5, <2>7, <2>8, QuietStep DEF countVars
<1>5. CASE CreateConsumer \/ HotCheck \/ HotPopNone \/ HotReturnMsg
  <2>1. \E q \in {"check", "pop", "drain", "exit"} : hot' = [hot EXCEPT !.pc = q]
    BY <1>5, Zenon DEF CreateConsumer, HotCheck, HotPopNone, HotReturnMsg
  <2>2. PICK q \in {"check", "pop", "drain", "exit"} : hot' = [hot EXCEPT !.pc = q]
    BY <2>1
  <2>3. /\ hot' \in HotThread /\ hot'.pc = q
        /\ hot'.event = hot.event /\ hot'.reports = hot.reports /\ hot'.orders = hot.orders
    BY <1>t, <1>d, <2>2, HotUpdates
  <2>4. /\ io' = io /\ UNCHANGED <<ioVars, countVars, outVars, emitted>>
        /\ UNCHANGED <<running, feedVars>>
        /\ main' = main \/ (main = "create_consumer" /\ main' = "run")
        /\ hot.pc \in {"off", "check", "pop", "drain"}
             \/ (hot.orders = 0 /\ hot.reports = << >>)
    BY <1>t, <1>5 DEF CreateConsumer, HotCheck, HotPopNone, HotReturnMsg, Busy, MainStep,
       Places
  <2>5. Control'
    BY <1>t, <2>4 DEF Control, feedVars
  <2>6. main \in {"init", "create_io", "create_consumer"} => ~ (main' = main)
    BY <1>t, <1>5 DEF CreateConsumer, HotCheck, HotPopNone, HotReturnMsg, Busy, MainStep,
       Places
  <2>7. Places'
    BY <1>t, <2>2, <2>3, <2>4, <2>6, HotType DEF Places
  <2>8. Types' /\ InProcess' = InProcess
    BY <1>t, <2>3, <2>4 DEF Types, InProcess, outVars, countVars
  <2> QED BY <2>3, <2>4, <2>5, <2>7, <2>8, QuietStep DEF countVars
<1> QED BY <1>1, <1>2, <1>3, <1>4, <1>5 DEF Main

-----------------------------------------------------------------------------
(***************************************************************************)
(* The steps that make orders                                              *)
(***************************************************************************)

(* The consumer takes a market message and owes two orders. *)
LEMMA HotPopStep ==
  ASSUME IInv, HotPop
  PROVE  IInv'
<1>t. /\ Control /\ Types /\ Places /\ Counts
      /\ hot \in HotThread /\ stats \in Stats /\ next_order_id \in Nat
  BY Zenon DEF IInv, TypeOK, Types
<1>d. DOMAIN hot = {"pc", "orders", "reports", "event"} /\ hot.orders \in 0 .. 2
  BY <1>t, HotType
<1>1. \E q \in {"order", "drain_order"} : hot' = [hot EXCEPT !.pc = q, !.orders = 2]
  BY Zenon DEF HotPop
<1>2. PICK q \in {"order", "drain_order"} : hot' = [hot EXCEPT !.pc = q, !.orders = 2]
  BY <1>1
<1>3. /\ hot' \in HotThread /\ hot'.pc = q /\ hot'.orders = 2
      /\ hot'.event = hot.event /\ hot'.reports = hot.reports
  <2>1. hot' \in HotThread
    <3>1. 2 \in 0 .. 2
      OBVIOUS
    <3> QED BY <1>t, <1>2, <3>1, HotUpdates2
  <2> QED BY <1>d, <1>2, <2>1
<1>4. /\ hot.pc \in {"pop", "drain"} /\ feed_queue > 0 /\ feed_queue' = feed_queue - 1
      /\ next_order_id' = next_order_id + 2 /\ stats' = [stats EXCEPT !.msgs = @ + 1]
      /\ UNCHANGED <<main, running, feed, feed_running, received, io, ioVars,
                     next_trade_id, journal, gateway, emitted>>
  BY Zenon DEF HotPop, outVars
<1>5. hot.orders = 0 /\ hot.reports = << >>
  BY <1>t, <1>d, <1>4 DEF Places
<1>6. stats' \in Stats
  <2>1. stats.msgs + 1 \in Nat
    BY <1>t DEF Stats
  <2> QED BY <1>t, <1>4, <2>1, StatsUpdates
<1>7. /\ stats'.msgs = stats.msgs + 1 /\ stats'.created = stats.created
      /\ stats'.accepted = stats.accepted /\ stats'.rejected = stats.rejected
      /\ stats'.trades = stats.trades /\ stats'.dropped = stats.dropped
      /\ stats'.executed = stats.executed
      /\ stats.msgs \in Nat /\ stats.created \in Nat
  BY <1>t, <1>4 DEF Stats
<1>8. Types'
  <2>1. next_order_id' \in Nat /\ next_order_id' > hot'.orders
    BY <1>t, <1>3, <1>4, <1>5 DEF Types
  <2> QED BY <1>t, <1>3, <1>4, <1>6, <2>1, Zenon DEF Types
<1>9. Control'
  <2>1. feed_queue' \in 0 .. FeedSize - 1
    BY <1>t, <1>4, SizeAssumption DEF Control
  <2> QED BY <1>t, <1>4, <2>1, Zenon DEF Control
<1>10. Places'
  BY <1>t, <1>3, <1>4 DEF Places
<1>11. Counts'
  <2>1. /\ Uncounted' = Uncounted
        /\ SentAmong(emitted, Len(emitted))' = SentAmong(emitted, Len(emitted))
    BY <1>3, <1>4 DEF Uncounted, SentAmong
  <2>2. stats'.created + hot'.orders = 2 * stats'.msgs
    BY <1>t, <1>3, <1>5, <1>7 DEF Counts
  <2> QED BY <1>t, <1>3, <1>4, <1>7, <2>1, <2>2 DEF Counts
<1>12. InProcess' = InProcess /\ io'.event = io.event /\ UNCHANGED outVars
  BY <1>4 DEF InProcess, outVars
<1> QED BY <1>3, <1>4, <1>8, <1>9, <1>10, <1>11, <1>12, NoEventStep

(* The reports of orders sent are finitely many, in whatever is reported. *)
LEMMA SentAmongFinite ==
  ASSUME NEW reports, NEW n \in Nat
  PROVE  IsFiniteSet(SentAmong(reports, n)) /\ Cardinality(SentAmong(reports, n)) \in Nat
<1>1. IsFiniteSet(1 .. n)
  BY FS_Interval
<1>2. SentAmong(reports, n) \in SUBSET (1 .. n)
  BY DEF SentAmong
<1>3. IsFiniteSet(SentAmong(reports, n))
  BY <1>1, <1>2, FS_Subset
<1> QED BY <1>3, FS_CardinalityType

(* The reports of an order: the order's own first, then those of n trades. *)
LEMMA ReportsOf ==
  ASSUME NEW r \in ReportSet, NEW n \in Nat, next_trade_id \in Nat \ {0}
  PROVE  LET s == <<r>> \o TradeReports(n)
         IN  /\ s \in Seq(ReportSet) /\ Len(s) = n + 1 /\ s # << >> /\ Head(s) = r
             /\ \A k \in DOMAIN s : k > 1 => s[k].type = "TRADE"
<1>1. \A k \in 1 .. n : Report("TRADE", next_trade_id + k - 1, FALSE) \in ReportSet
  BY DEF Report, ReportSet, IOEventType
<1>2. TradeReports(n) \in [1 .. n -> ReportSet]
  BY <1>1, Zenon DEF TradeReports
<1>3. TradeReports(n) \in Seq(ReportSet) /\ Len(TradeReports(n)) = n
  BY <1>2
<1>4. \A k \in 1 .. n : TradeReports(n)[k].type = "TRADE"
  BY DEF TradeReports, Report
<1> HIDE DEF TradeReports, ReportSet
<1> QED BY <1>3, <1>4

(* Two sums, for the statistics of an order. *)
LEMMA OrdersSum ==
  ASSUME NEW c \in Int, NEW o \in Int, NEW m \in Int, c + o = 2 * m
  PROVE  (c + 1) + (o - 1) = 2 * m
OBVIOUS

(* The two sums of the report counters. *)
LEMMA ReportsSum ==
  ASSUME NEW c \in Int, NEW t \in Int
  PROVE  /\ (c + 1) + t = (c + t) + 1 /\ c + (t + 1) = (c + t) + 1
         /\ c + t = (c + 1) + (t - 1) /\ c + t \in Int
OBVIOUS

(* The step that creates an order, with the reports it leads to. *)
LEMMA OrderStep ==
  ASSUME IInv, Busy, hot.orders > 0,
         NEW s \in Seq(ReportSet), s # << >>, Head(s).type # "TRADE",
         \A k \in DOMAIN s : k > 1 => s[k].type = "TRADE",
         NEW exec \in {0, 1}, exec = 1 <=> Head(s).gw,
         hot' = [hot EXCEPT !.orders = @ - 1, !.reports = s],
         stats' \in Stats,
         stats'.msgs = stats.msgs, stats'.created = stats.created + 1,
         stats'.accepted + stats'.rejected = stats.accepted + stats.rejected + 1,
         stats'.executed = stats.executed + exec,
         stats'.trades = stats.trades, stats'.dropped = stats.dropped,
         next_trade_id' \in Nat \ {0},
         UNCHANGED <<main, running, feedVars, io, ioVars, next_order_id, outVars, emitted>>
  PROVE  IInv'
<1>t. /\ Control /\ Types /\ Places /\ Counts
      /\ hot \in HotThread /\ stats \in Stats /\ next_order_id \in Nat
      /\ next_order_id > hot.orders /\ emitted \in Seq(ReportSet)
      /\ next_trade_id \in Nat \ {0}
  BY Zenon DEF IInv, TypeOK, Types
<1>d. DOMAIN hot = {"pc", "orders", "reports", "event"} /\ hot.orders \in 0 .. 2
  BY <1>t, HotType
<1>s. Len(s) \in Nat \ {0}
  OBVIOUS
<1>b. hot.reports = << >> /\ hot.pc \in {"order", "drain_order"} /\ hot.event = None
  BY <1>t DEF Busy, Places
<1>2. /\ hot' \in HotThread /\ hot'.pc = hot.pc /\ hot'.orders = hot.orders - 1
      /\ hot'.event = hot.event /\ hot'.reports = s
  <2>1. hot.orders - 1 \in 0 .. 2
    BY <1>d
  <2>2. hot' \in HotThread
    BY <1>t, <2>1, HotUpdates2
  <2> QED BY <1>d, <2>2
<1>3. /\ UNCHANGED <<main, running, feed, feed_running, feed_queue, received, io,
                     next_order_id, journal, gateway, emitted>>
  BY DEF feedVars, outVars
<1>4. Types'
  <2>1. next_order_id' > hot'.orders
    BY <1>t, <1>d, <1>2, <1>3
  <2> QED BY <1>t, <1>2, <1>3, <2>1, Zenon DEF Types
<1>5. Control'
  BY <1>t, <1>3, Zenon DEF Control
<1>6. Places'
  BY <1>t, <1>b, <1>2, <1>3 DEF Places
<1>7. Counts'
  <2>1. Uncounted = 0 /\ Uncounted' = Len(s) - 1 /\ Len(hot.reports) = 0
        /\ Len(hot'.reports) = Len(s)
    BY <1>b, <1>s, <1>2 DEF Uncounted
  <2>2. SentAmong(emitted, Len(emitted))' = SentAmong(emitted, Len(emitted))
    BY <1>3 DEF SentAmong
  <2>3. /\ stats.created \in Nat /\ stats.accepted \in Nat /\ stats.rejected \in Nat
        /\ stats.executed \in Nat /\ stats.msgs \in Nat /\ stats.trades \in Nat
        /\ stats.dropped \in Nat /\ Len(emitted) \in Nat
        /\ stats'.accepted \in Nat /\ stats'.rejected \in Nat
    BY <1>t DEF Stats
  <2>4. /\ stats.created = stats.accepted + stats.rejected
        /\ stats.created + hot.orders = 2 * stats.msgs
        /\ Len(emitted) + stats.dropped + Len(hot.reports)
             = stats.created + stats.trades + Uncounted
    BY <1>t, Zenon DEF Counts
  <2>5. stats.executed >= Cardinality(SentAmong(emitted, Len(emitted))) + 0
    BY <1>t, <1>b DEF Counts
  <2>6. Cardinality(SentAmong(emitted, Len(emitted))) \in Nat
    BY <2>3, SentAmongFinite
  <2>7. /\ stats'.created = stats'.accepted + stats'.rejected
        /\ stats'.created + hot'.orders = 2 * stats'.msgs
    <3>1. /\ stats'.created = stats.created + 1 /\ hot'.orders = hot.orders - 1
          /\ stats'.msgs = stats.msgs
      BY <1>2
    <3>2. hot.orders \in Int /\ stats.created \in Int /\ stats.msgs \in Int
      <4>1. hot.orders \in Int
        BY <1>d
      <4>2. stats.created \in Int
        BY <2>3
      <4>3. stats.msgs \in Int
        BY <2>3
      <4> QED BY <4>1, <4>2, <4>3, Zenon
    <3>3. stats.created + 1 = stats'.accepted + stats'.rejected
      BY <2>3, <2>4
    <3>4. (stats.created + 1) + (hot.orders - 1) = 2 * stats.msgs
      BY <2>4, <3>2, OrdersSum, Zenon
    <3> QED BY <3>1, <3>3, <3>4, Zenon
  <2>10. Len(emitted') + stats'.dropped + Len(hot'.reports)
             = stats'.created + stats'.trades + Uncounted'
    <3>1. /\ stats'.created = stats.created + 1 /\ Len(emitted') = Len(emitted)
          /\ stats'.trades = stats.trades /\ stats'.dropped = stats.dropped
      BY <1>3
    <3>2. Len(emitted) + stats.dropped = stats.created + stats.trades
      BY <2>1, <2>3, <2>4
    <3>4. /\ Len(emitted) \in Int /\ stats.dropped \in Int /\ stats.created \in Int
          /\ stats.trades \in Int /\ Len(s) \in Int
      BY <1>s, <2>3
    <3>3. Len(emitted) + stats.dropped + Len(s)
            = (stats.created + 1) + stats.trades + (Len(s) - 1)
      <4>1. (stats.created + 1) + stats.trades = (stats.created + stats.trades) + 1
        BY <3>4, ReportsSum, Zenon
      <4>2. stats.created + stats.trades \in Int
        BY <3>4, ReportsSum, Zenon
      <4>3. (stats.created + stats.trades) + Len(s)
              = ((stats.created + stats.trades) + 1) + (Len(s) - 1)
        BY <3>4, <4>2, ReportsSum, Zenon
      <4> QED BY <3>2, <4>1, <4>3, Zenon
    <3> QED BY <2>1, <3>1, <3>3, Zenon
  <2>8. stats'.executed >= Cardinality(SentAmong(emitted, Len(emitted)))'
           + (IF hot'.reports # << >> /\ Head(hot'.reports).gw THEN 1 ELSE 0)
    BY <1>s, <1>2, <2>2, <2>3, <2>5, <2>6
  <2>9. \A k \in DOMAIN hot'.reports : k > 1 => hot'.reports[k].type = "TRADE"
    BY <1>s, <1>2
  <2> QED BY <2>7, <2>8, <2>9, <2>10, Zenon DEF Counts
<1>8. InProcess' = InProcess /\ io'.event = io.event
  BY <1>3 DEF InProcess
<1> QED BY <1>2, <1>4, <1>5, <1>6, <1>7, <1>8, NoEventStep

(* The risk check rejects the order, or the book takes it and trades. *)
LEMMA HotOrderSteps ==
  ASSUME IInv,
         HotReject \/ \E n \in 0 .. MaxTrades, whole \in BOOLEAN : HotAccept(n, whole)
  PROVE  IInv'
<1>t. /\ Types /\ stats \in Stats /\ next_order_id \in Nat /\ next_order_id > hot.orders
      /\ next_trade_id \in Nat \ {0} /\ hot.orders \in 0 .. 2
  BY HotType DEF IInv, Types
<1>o. order_id \in Nat \ {0}
  BY <1>t DEF order_id
<1>1. CASE HotReject
  <2> DEFINE r == Report("ORDER_REJECTED", order_id, FALSE)
  <2>1. r \in ReportSet /\ r.type # "TRADE" /\ ~ r.gw
    BY <1>o DEF Report, ReportSet, IOEventType
  <2>2. <<r>> = <<r>> \o TradeReports(0)
    BY DEF TradeReports
  <2>3. /\ Busy /\ hot.orders > 0
        /\ hot' = [hot EXCEPT !.orders = @ - 1, !.reports = <<r>>]
        /\ stats' = [stats EXCEPT !.created = @ + 1, !.rejected = @ + 1]
        /\ UNCHANGED <<main, running, feedVars, io, ioVars, next_order_id, outVars, emitted>>
        /\ next_trade_id' = next_trade_id
    BY <1>1, Zenon DEF HotReject
  <2>4. hot' = [hot EXCEPT !.orders = @ - 1, !.reports = <<r>> \o TradeReports(0)]
    BY <2>2, <2>3, Zenon
  <2> HIDE DEF r
  <2>5. /\ stats' \in Stats
        /\ stats'.msgs = stats.msgs /\ stats'.created = stats.created + 1
        /\ stats'.accepted + stats'.rejected = stats.accepted + stats.rejected + 1
        /\ stats'.executed = stats.executed + 0
        /\ stats'.trades = stats.trades /\ stats'.dropped = stats.dropped
    <3>1. stats' \in Stats
      <4>1. stats.created + 1 \in Nat /\ stats.rejected + 1 \in Nat
        BY <1>t DEF Stats
      <4> QED BY <1>t, <2>3, <4>1, StatsUpdates
    <3>2. /\ stats'.msgs = stats.msgs /\ stats'.created = stats.created + 1
          /\ stats'.accepted = stats.accepted /\ stats'.rejected = stats.rejected + 1
          /\ stats'.executed = stats.executed
          /\ stats'.trades = stats.trades /\ stats'.dropped = stats.dropped
      BY <1>t, <2>3 DEF Stats
    <3>3. stats.accepted \in Nat /\ stats.rejected \in Nat /\ stats.executed \in Nat
      BY <1>t DEF Stats
    <3> QED BY <3>1, <3>2, <3>3
  <2>6. 0 \in Nat /\ 0 \in {0, 1} /\ (0 = 1 <=> r.gw)
    BY <2>1
  <2> DEFINE rs == <<r>> \o TradeReports(0)
  <2>7. /\ rs \in Seq(ReportSet) /\ rs # << >> /\ Head(rs) = r
        /\ \A k \in DOMAIN rs : k > 1 => rs[k].type = "TRADE"
    BY <1>t, <2>1, ReportsOf
  <2> HIDE DEF rs
  <2>8. hot' = [hot EXCEPT !.orders = @ - 1, !.reports = rs]
    BY <2>4 DEF rs
  <2> QED BY <1>t, <2>1, <2>3, <2>5, <2>6, <2>7, <2>8, OrderStep
<1>2. ASSUME NEW n \in 0 .. MaxTrades, NEW whole \in BOOLEAN, HotAccept(n, whole)
      PROVE  IInv'
  <2> DEFINE type == IF n > 0 THEN "ORDER_FILLED" ELSE "ORDER_ACCEPTED"
             r == Report(type, order_id, ~ whole)
             exec == IF whole THEN 0 ELSE 1
             total == IF whole THEN stats.executed ELSE stats.executed + 1
  <2>1. r \in ReportSet /\ r.type # "TRADE" /\ (exec = 1 <=> r.gw) /\ exec \in {0, 1}
    <3>1. type \in {"ORDER_FILLED", "ORDER_ACCEPTED"} /\ (~ whole) \in BOOLEAN
      BY Zenon
    <3> HIDE DEF type
    <3>2. r \in [type : IOEventType, id : Nat \ {0}, gw : BOOLEAN]
      BY <1>o, <3>1 DEF Report, IOEventType
    <3>3. r.type = type /\ (r.gw <=> ~ whole)
      BY DEF Report
    <3>4. r \in ReportSet
      BY <3>1, <3>2, <3>3 DEF ReportSet
    <3> QED BY <3>1, <3>3, <3>4
  <2>2. /\ Busy /\ hot.orders > 0
        /\ hot' = [hot EXCEPT !.orders = @ - 1, !.reports = <<r>> \o TradeReports(n)]
        /\ stats' = [stats EXCEPT !.created = @ + 1, !.accepted = @ + 1, !.executed = total]
        /\ UNCHANGED <<main, running, feedVars, io, ioVars, next_order_id, outVars, emitted>>
        /\ next_trade_id' = next_trade_id + n
    BY <1>2, Zenon DEF HotAccept
  <2>3. total \in Nat /\ total = stats.executed + exec
    BY <1>t DEF Stats
  <2> HIDE DEF r, total, exec
  <2>4. /\ stats' \in Stats
        /\ stats'.msgs = stats.msgs /\ stats'.created = stats.created + 1
        /\ stats'.accepted + stats'.rejected = stats.accepted + stats.rejected + 1
        /\ stats'.executed = stats.executed + exec
        /\ stats'.trades = stats.trades /\ stats'.dropped = stats.dropped
    <3>1. stats' \in Stats
      <4>1. stats.created + 1 \in Nat /\ stats.accepted + 1 \in Nat
        BY <1>t DEF Stats
      <4> QED BY <1>t, <2>2, <2>3, <4>1, StatsUpdates
    <3>2. /\ stats'.msgs = stats.msgs /\ stats'.created = stats.created + 1
          /\ stats'.accepted = stats.accepted + 1 /\ stats'.rejected = stats.rejected
          /\ stats'.executed = total
          /\ stats'.trades = stats.trades /\ stats'.dropped = stats.dropped
      BY <1>t, <2>2 DEF Stats
    <3>3. stats.accepted \in Nat /\ stats.rejected \in Nat
      BY <1>t DEF Stats
    <3> QED BY <2>3, <3>1, <3>2, <3>3
  <2>5. n \in Nat /\ next_trade_id' \in Nat \ {0}
    BY <1>t, <2>2, BoundAssumption
  <2> DEFINE rs == <<r>> \o TradeReports(n)
  <2>6. /\ rs \in Seq(ReportSet) /\ rs # << >> /\ Head(rs) = r
        /\ \A k \in DOMAIN rs : k > 1 => rs[k].type = "TRADE"
    BY <1>t, <2>1, <2>5, ReportsOf
  <2> HIDE DEF rs
  <2>7. hot' = [hot EXCEPT !.orders = @ - 1, !.reports = rs]
    BY <2>2 DEF rs
  <2> QED BY <2>1, <2>2, <2>4, <2>5, <2>6, <2>7, OrderStep
<1> QED BY <1>1, <1>2
-----------------------------------------------------------------------------
(***************************************************************************)
(* The steps that move an event                                            *)
(***************************************************************************)

(* Taking the first entry of a queue without repetitions, and putting an   *)
(* entry that is not in it at its end.                                     *)
LEMMA TakeHead ==
  ASSUME NEW S, NEW q \in Seq(S), q # << >>
  PROVE  /\ Head(q) \in S /\ Head(q) = q[1] /\ 1 \in DOMAIN q
         /\ Tail(q) \in Seq(S) /\ Len(q) \in Nat \ {0} /\ Len(Tail(q)) = Len(q) - 1
         /\ \A i \in DOMAIN Tail(q) :
              i \in Nat /\ i + 1 \in DOMAIN q /\ Tail(q)[i] = q[i + 1] /\ i + 1 # 1
OBVIOUS

(* A queue without repetition keeps that property when its head is taken. *)
LEMMA TailDistinct ==
  ASSUME NEW S, NEW q \in Seq(S), q # << >>, IsInjective(q)
  PROVE  /\ IsInjective(Tail(q))
         /\ \A i \in DOMAIN Tail(q) : Tail(q)[i] # Head(q)
<1>1. \A a, b \in DOMAIN q : q[a] = q[b] => a = b
  BY Zenon DEF IsInjective
<1>2. \A i \in DOMAIN Tail(q) : Tail(q)[i] # Head(q)
  BY <1>1, TakeHead
<1>3. ASSUME NEW a \in DOMAIN Tail(q), NEW b \in DOMAIN Tail(q), Tail(q)[a] = Tail(q)[b]
      PROVE  a = b
  <2>1. a + 1 = b + 1 /\ a \in Nat /\ b \in Nat
    BY <1>1, <1>3, TakeHead
  <2> QED BY <2>1
<1> QED BY <1>2, <1>3, Zenon DEF IsInjective

(* What a push leaves in a queue. *)
LEMMA PutLast ==
  ASSUME NEW S, NEW q \in Seq(S), NEW e \in S
  PROVE  /\ Append(q, e) \in Seq(S) /\ Len(q) \in Nat /\ Len(Append(q, e)) = Len(q) + 1
         /\ Append(q, e)[Len(q) + 1] = e
         /\ \A i \in DOMAIN q : i \in DOMAIN Append(q, e) /\ Append(q, e)[i] = q[i]
         /\ \A i \in DOMAIN Append(q, e) :
              i \in Nat /\ (i \in DOMAIN q \/ i = Len(q) + 1)
OBVIOUS

(* A queue without repetition keeps that property when a new element is    *)
(* pushed.                                                                 *)
LEMMA AppendDistinct ==
  ASSUME NEW S, NEW q \in Seq(S), NEW e \in S, IsInjective(q),
         \A i \in DOMAIN q : q[i] # e
  PROVE  IsInjective(Append(q, e))
<1>1. \A a, b \in DOMAIN q : q[a] = q[b] => a = b
  BY Zenon DEF IsInjective
<1>2. \A a, b \in DOMAIN Append(q, e) : Append(q, e)[a] = Append(q, e)[b] => a = b
  BY <1>1, PutLast
<1> QED BY <1>2, Zenon DEF IsInjective

(* The statistics when a report is taken up. *)
LEMMA CountedTypes ==
  ASSUME stats \in Stats
  PROVE  /\ Counted \in Stats
         /\ Counted.msgs = stats.msgs /\ Counted.created = stats.created
         /\ Counted.accepted = stats.accepted /\ Counted.rejected = stats.rejected
         /\ Counted.executed = stats.executed /\ Counted.dropped = stats.dropped
         /\ Counted.trades
              = stats.trades + (IF Head(hot.reports).type = "TRADE" THEN 1 ELSE 0)
<1>1. stats.trades + 1 \in Nat /\ stats.trades + 0 = stats.trades
  BY DEF Stats
<1>2. CASE Head(hot.reports).type = "TRADE"
  <2>1. Counted = [stats EXCEPT !.trades = stats.trades + 1]
    BY <1>2, Zenon DEF Counted
  <2>2. Counted \in Stats
    BY <1>1, <2>1, StatsUpdates
  <2> QED BY <1>2, <2>1, <2>2 DEF Stats
<1>3. CASE Head(hot.reports).type # "TRADE"
  <2>1. Counted = stats
    BY <1>3, Zenon DEF Counted
  <2> QED BY <1>1, <1>3, <2>1
<1> QED BY <1>2, <1>3

(* The invariant again, from its parts. *)
LEMMA IInvParts ==
  ASSUME Types', Control', Places', Circulation', Ownership', Delivery', Counts',
         GatewayExact', io_free_queue' \in Seq(Event), io_filled_queue' \in Seq(Event),
         pool' \in [Event -> IOEvent]
  PROVE  IInv'
BY TypeOKNext, Zenon DEF IInv

(* The report at hand, and the reports after it, which are of trades. *)
LEMMA NextReport ==
  ASSUME Types, Counts, hot.reports # << >>
  PROVE  /\ Head(hot.reports) \in ReportSet /\ Tail(hot.reports) \in Seq(ReportSet)
         /\ Len(hot.reports) \in Nat \ {0}
         /\ Len(Tail(hot.reports)) = Len(hot.reports) - 1
         /\ \A k \in DOMAIN Tail(hot.reports) : Tail(hot.reports)[k].type = "TRADE"
         /\ Tail(hot.reports) # << >> =>
              Head(Tail(hot.reports)).type = "TRADE" /\ ~ Head(Tail(hot.reports)).gw
<1>1. hot.reports \in Seq(ReportSet)
  BY HotType
<1>2. \A k \in DOMAIN hot.reports : k > 1 => hot.reports[k].type = "TRADE"
  BY Zenon DEF Counts
<1> DEFINE q == hot.reports
<1> HIDE DEF q
<1>3. /\ Head(q) \in ReportSet /\ Tail(q) \in Seq(ReportSet) /\ Len(q) \in Nat \ {0}
      /\ Len(Tail(q)) = Len(q) - 1
      /\ \A i \in DOMAIN Tail(q) :
           i \in Nat /\ i + 1 \in DOMAIN q /\ Tail(q)[i] = q[i + 1] /\ i + 1 # 1
  BY <1>1, TakeHead DEF q
<1>4. \A k \in DOMAIN Tail(q) : Tail(q)[k].type = "TRADE"
  <2> SUFFICES ASSUME NEW k \in DOMAIN Tail(q) PROVE Tail(q)[k].type = "TRADE"
    OBVIOUS
  <2>1. k + 1 > 1 /\ k + 1 \in DOMAIN q /\ Tail(q)[k] = q[k + 1]
    <3>1. k \in 1 .. Len(Tail(q))
      BY <1>3
    <3> QED BY <1>3, <3>1
  <2> QED BY <1>2, <2>1, Zenon DEF q
<1>5. ASSUME Tail(q) # << >>
      PROVE  Head(Tail(q)).type = "TRADE" /\ ~ Head(Tail(q)).gw
  <2>1. Head(Tail(q)) = Tail(q)[1] /\ 1 \in DOMAIN Tail(q) /\ Head(Tail(q)) \in ReportSet
    BY <1>3, <1>5, TakeHead
  <2>2. Head(Tail(q)).type = "TRADE"
    BY <1>4, <2>1, Zenon
  <2> QED BY <2>1, <2>2 DEF ReportSet
<1> QED BY <1>3, <1>4, <1>5, Zenon DEF q

(* The first free event is the consumer's. *)
LEMMA HotTakeEventStep ==
  ASSUME IInv, HotTakeEvent
  PROVE  IInv'
<1>t. /\ Control /\ Types /\ Places /\ Circulation /\ Ownership /\ Delivery /\ Counts
      /\ GatewayExact /\ hot \in HotThread /\ stats \in Stats
      /\ io_free_queue \in Seq(Event) /\ io_filled_queue \in Seq(Event)
      /\ pool \in [Event -> IOEvent]
  BY Zenon DEF IInv, TypeOK, Types
<1>d. DOMAIN hot = {"pc", "orders", "reports", "event"}
  BY <1>t, HotType
<1>a. /\ hot.reports # << >> /\ hot.event = None /\ io_free_queue # << >>
      /\ hot' = [hot EXCEPT !.event = Head(io_free_queue)]
      /\ io_free_queue' = Tail(io_free_queue) /\ stats' = Counted
      /\ UNCHANGED <<main, running, feed, feed_running, feed_queue, received, io,
                     io_filled_queue, pool, next_order_id, next_trade_id, journal,
                     gateway, emitted>>
  BY Zenon DEF HotTakeEvent, feedVars, outVars
<1>q. /\ Head(io_free_queue) \in Event /\ io_free_queue' \in Seq(Event)
      /\ Len(io_free_queue) \in Nat \ {0} /\ Len(io_free_queue') = Len(io_free_queue) - 1
      /\ Head(io_free_queue) = io_free_queue[1] /\ 1 \in DOMAIN io_free_queue
      /\ \A i \in DOMAIN io_free_queue' :
           i + 1 \in DOMAIN io_free_queue /\ io_free_queue'[i] = io_free_queue[i + 1]
  BY <1>t, <1>a, TakeHead
<1>n. Head(io_free_queue) # None
  BY <1>q DEF Event, None
<1>h. /\ hot' \in HotThread /\ hot'.pc = hot.pc /\ hot'.orders = hot.orders
      /\ hot'.reports = hot.reports /\ hot'.event = Head(io_free_queue)
  <2>1. hot' \in HotThread
    BY <1>t, <1>a, <1>q, HotUpdates
  <2> QED BY <1>d, <1>a, <2>1
<1>s. /\ stats' \in Stats
      /\ stats'.msgs = stats.msgs /\ stats'.created = stats.created
      /\ stats'.accepted = stats.accepted /\ stats'.rejected = stats.rejected
      /\ stats'.executed = stats.executed /\ stats'.dropped = stats.dropped
      /\ stats'.trades = stats.trades + (IF Head(hot.reports).type = "TRADE" THEN 1 ELSE 0)
  BY <1>t, <1>a, CountedTypes, Zenon
<1>1. Types'
  BY <1>t, <1>a, <1>h, <1>s, Zenon DEF Types
<1>2. Control'
  BY <1>t, <1>a, Zenon DEF Control
<1>3. Places'
  BY <1>t, <1>a, <1>h DEF Places
<1>4. Circulation'
  <2>1. Len(io_filled_queue) \in Nat
    BY <1>t
  <2> QED BY <1>t, <1>a, <1>h, <1>q, <1>n, <2>1 DEF Circulation
<1>5. Ownership'
  <2>1. IsInjective(io_free_queue) /\ IsInjective(io_filled_queue)
    BY <1>t, Zenon DEF Ownership
  <2>2. /\ IsInjective(io_free_queue')
        /\ \A i \in DOMAIN io_free_queue' : io_free_queue'[i] # hot'.event
    BY <1>t, <1>a, <1>h, <2>1, TailDistinct
  <2>3. \A i \in DOMAIN io_free_queue' :
          /\ io_free_queue'[i] # io'.event
          /\ \A j \in DOMAIN io_filled_queue' : io_free_queue'[i] # io_filled_queue'[j]
    BY <1>t, <1>a, <1>q DEF Ownership
  <2>4. \A j \in DOMAIN io_filled_queue' :
          io_filled_queue'[j] # hot'.event /\ io_filled_queue'[j] # io'.event
    BY <1>t, <1>a, <1>q, <1>h DEF Ownership
  <2>5. hot'.event # io'.event
    BY <1>t, <1>a, <1>q, <1>h DEF Ownership
  <2>6. IsInjective(io_filled_queue')
    BY <1>a, <2>1, Zenon
  <2> QED BY <2>2, <2>3, <2>4, <2>5, <2>6, Zenon DEF Ownership
<1>6. Delivery'
  <2>1. InProcess' = InProcess
    BY <1>a DEF InProcess
  <2> QED BY <1>t, <1>a, <2>1, SameDelivery
<1>7. Counts'
  <2>1. SentAmong(emitted, Len(emitted))' = SentAmong(emitted, Len(emitted))
    BY <1>a DEF SentAmong
  <2>2. Len(hot.reports) \in Nat \ {0}
    BY <1>t, <1>a, NextReport
  <2>4. Len(emitted) \in Nat /\ stats.dropped \in Nat /\ stats.created \in Nat
        /\ stats.trades \in Nat
    BY <1>t DEF Types, Stats
  <2>5. Len(emitted) + stats.dropped + Len(hot.reports)
          = stats.created + stats.trades + Uncounted
    BY <1>t, Zenon DEF Counts
  <2>3. Uncounted' = Len(hot.reports) - 1
    BY <1>a, <1>h, <1>n DEF Uncounted
  <2>6. Len(emitted) + stats.dropped + Len(hot.reports)
          = stats.created + stats'.trades + (Len(hot.reports) - 1)
    <3>1. CASE Head(hot.reports).type = "TRADE"
      <4>1. Uncounted = Len(hot.reports) /\ stats'.trades = stats.trades + 1
        BY <1>a, <1>s, <3>1 DEF Uncounted
      <4>2. /\ stats.created \in Int /\ stats.trades \in Int /\ Len(hot.reports) \in Int
        BY <2>2, <2>4
      <4>3. /\ stats.created + (stats.trades + 1) = (stats.created + stats.trades) + 1
            /\ stats.created + stats.trades \in Int
        BY <4>2, ReportsSum, Zenon
      <4>4. (stats.created + stats.trades) + Len(hot.reports)
              = ((stats.created + stats.trades) + 1) + (Len(hot.reports) - 1)
        BY <4>2, <4>3, ReportsSum, Zenon
      <4> QED BY <2>5, <4>1, <4>3, <4>4, Zenon
    <3>2. CASE Head(hot.reports).type # "TRADE"
      <4>1. Uncounted = Len(hot.reports) - 1 /\ stats'.trades = stats.trades
        BY <1>a, <1>s, <2>4, <3>2 DEF Uncounted
      <4> QED BY <2>2, <2>4, <2>5, <4>1
    <3> QED BY <3>1, <3>2
  <2>7. Len(emitted') + stats'.dropped + Len(hot'.reports)
          = stats'.created + stats'.trades + Uncounted'
    BY <1>a, <1>h, <1>s, <2>3, <2>6, Zenon
  <2> QED BY <1>t, <1>a, <1>h, <1>s, <2>1, <2>7 DEF Counts
<1>8. GatewayExact'
  BY <1>t, <1>a, SameGateway
<1> QED BY <1>1, <1>2, <1>3, <1>4, <1>5, <1>6, <1>7, <1>8, <1>t, <1>a, <1>q, IInvParts, Zenon

(* The report at hand is done with: those of its trades are left. *)
LEMMA ReportDone ==
  ASSUME Types, Counts, hot.reports # << >>,
         hot'.reports = Tail(hot.reports), hot'.event = None
  PROVE  /\ Len(hot.reports) \in Nat \ {0} /\ hot'.reports \in Seq(ReportSet)
         /\ Uncounted' = Len(hot.reports) - 1
         /\ Len(hot'.reports) = Len(hot.reports) - 1
         /\ \A k \in DOMAIN hot'.reports : k > 1 => hot'.reports[k].type = "TRADE"
         /\ ~ (hot'.reports # << >> /\ Head(hot'.reports).gw)
<1>1. /\ Len(hot.reports) \in Nat \ {0} /\ hot'.reports \in Seq(ReportSet)
      /\ Len(hot'.reports) = Len(hot.reports) - 1
      /\ \A k \in DOMAIN hot'.reports : hot'.reports[k].type = "TRADE"
      /\ hot'.reports # << >> => Head(hot'.reports).type = "TRADE" /\ ~ Head(hot'.reports).gw
  BY NextReport, Zenon
<1>2. Uncounted' = Len(hot.reports) - 1
  <2>1. CASE hot'.reports = << >>
    BY <1>1, <2>1 DEF Uncounted
  <2>2. CASE hot'.reports # << >>
    BY <1>1, <2>2 DEF Uncounted
  <2> QED BY <2>1, <2>2
<1> QED BY <1>1, <1>2, Zenon

(* No event is free. *)
LEMMA HotDropReportStep ==
  ASSUME IInv, HotDropReport
  PROVE  IInv'
<1>t. /\ Control /\ Types /\ Places /\ Counts /\ hot \in HotThread /\ stats \in Stats
  BY Zenon DEF IInv, TypeOK, Types
<1>d. DOMAIN hot = {"pc", "orders", "reports", "event"}
  BY <1>t, HotType
<1>a. /\ hot.reports # << >> /\ hot.event = None
      /\ hot' = [hot EXCEPT !.reports = Tail(hot.reports)]
      /\ stats' = [Counted EXCEPT !.dropped = Counted.dropped + 1]
      /\ UNCHANGED <<main, running, feed, feed_running, feed_queue, received, io, ioVars,
                     next_order_id, next_trade_id, journal, gateway, emitted>>
  BY Zenon DEF HotDropReport, feedVars, outVars
<1>r. Tail(hot.reports) \in Seq(ReportSet)
  BY <1>t, <1>a, NextReport
<1>h. /\ hot' \in HotThread /\ hot'.pc = hot.pc /\ hot'.orders = hot.orders
      /\ hot'.reports = Tail(hot.reports) /\ hot'.event = None
  <2>1. hot' \in HotThread
    BY <1>t, <1>a, <1>r, HotUpdates
  <2> QED BY <1>d, <1>a, <2>1
<1>s. /\ stats' \in Stats
      /\ stats'.msgs = stats.msgs /\ stats'.created = stats.created
      /\ stats'.accepted = stats.accepted /\ stats'.rejected = stats.rejected
      /\ stats'.executed = stats.executed /\ stats'.dropped = stats.dropped + 1
      /\ stats'.trades = Counted.trades
  <2> DEFINE c == Counted
  <2>1. /\ c \in Stats
        /\ c.msgs = stats.msgs /\ c.created = stats.created
        /\ c.accepted = stats.accepted /\ c.rejected = stats.rejected
        /\ c.executed = stats.executed /\ c.dropped = stats.dropped
    BY <1>t, CountedTypes, Zenon
  <2>2. stats' = [c EXCEPT !.dropped = c.dropped + 1]
    BY <1>a, Zenon
  <2> HIDE DEF c
  <2>3. c.dropped + 1 \in Nat
    BY <2>1 DEF Stats
  <2>4. stats' \in Stats
    BY <2>1, <2>2, <2>3, StatsUpdates
  <2>5. /\ stats'.msgs = c.msgs /\ stats'.created = c.created
        /\ stats'.accepted = c.accepted /\ stats'.rejected = c.rejected
        /\ stats'.executed = c.executed /\ stats'.dropped = c.dropped + 1
        /\ stats'.trades = c.trades
    BY <2>1, <2>2 DEF Stats
  <2> QED BY <2>1, <2>4, <2>5, Zenon DEF c
<1>1. Types'
  BY <1>t, <1>a, <1>h, <1>s, Zenon DEF Types
<1>2. Control'
  BY <1>t, <1>a, Zenon DEF Control
<1>3. Places'
  BY <1>t, <1>a, <1>h DEF Places
<1>4. Counts'
  <2>1. SentAmong(emitted, Len(emitted))' = SentAmong(emitted, Len(emitted))
    BY <1>a DEF SentAmong
  <2>2. /\ Len(hot.reports) \in Nat \ {0} /\ Uncounted' = Len(hot.reports) - 1
        /\ Len(hot'.reports) = Len(hot.reports) - 1
        /\ \A k \in DOMAIN hot'.reports : k > 1 => hot'.reports[k].type = "TRADE"
        /\ ~ (hot'.reports # << >> /\ Head(hot'.reports).gw)
    BY <1>t, <1>a, <1>h, ReportDone, Zenon
  <2>3. Len(emitted) \in Nat /\ stats.dropped \in Nat /\ stats.created \in Nat
        /\ stats.trades \in Nat /\ stats.executed \in Nat
    BY <1>t DEF Types, Stats
  <2>4. Len(emitted) + stats.dropped + Len(hot.reports)
          = stats.created + stats.trades + Uncounted
    BY <1>t, Zenon DEF Counts
  <2>5. stats'.trades = stats.trades + (IF Head(hot.reports).type = "TRADE" THEN 1 ELSE 0)
    BY <1>t, <1>s, CountedTypes, Zenon
  <2> DEFINE l == Len(hot.reports)
             e == Len(emitted)
             d == stats.dropped
             c == stats.created
             t == stats.trades
  <2>i. l \in Int /\ e \in Int /\ d \in Int /\ c \in Int /\ t \in Int
    BY <2>2, <2>3
  <2>6. e + (d + 1) + (l - 1) = c + stats'.trades + (l - 1)
    <3>1. CASE Head(hot.reports).type = "TRADE"
      <4>1. Uncounted = l /\ stats'.trades = t + 1
        BY <1>a, <2>5, <3>1 DEF Uncounted
      <4>2. e + d + l = c + t + l
        BY <2>4, <4>1
      <4> HIDE DEF l, e, d, c, t
      <4>3. e + (d + 1) + (l - 1) = c + (t + 1) + (l - 1)
        BY <2>i, <4>2
      <4> QED BY <4>1, <4>3, Zenon
    <3>2. CASE Head(hot.reports).type # "TRADE"
      <4>1. Uncounted = l - 1 /\ stats'.trades = t
        BY <1>a, <2>3, <2>5, <3>2 DEF Uncounted
      <4>2. e + d + l = c + t + (l - 1)
        BY <2>4, <4>1
      <4> HIDE DEF l, e, d, c, t
      <4>3. e + (d + 1) + (l - 1) = c + t + (l - 1)
        BY <2>i, <4>2
      <4> QED BY <4>1, <4>3, Zenon
    <3> QED BY <3>1, <3>2
  <2>7. Len(emitted') + stats'.dropped + Len(hot'.reports)
          = stats'.created + stats'.trades + Uncounted'
    BY <1>a, <1>s, <2>2, <2>6, Zenon
  <2>8. stats'.created = stats'.accepted + stats'.rejected
        /\ stats'.created + hot'.orders = 2 * stats'.msgs
    BY <1>t, <1>h, <1>s, Zenon DEF Counts
  <2>9. stats'.executed >= Cardinality(SentAmong(emitted, Len(emitted)))'
          + (IF hot'.reports # << >> /\ Head(hot'.reports).gw THEN 1 ELSE 0)
    <3>1. Cardinality(SentAmong(emitted, Len(emitted))) \in Nat
      BY <2>3, SentAmongFinite
    <3>2. stats.executed >= Cardinality(SentAmong(emitted, Len(emitted)))
      BY <1>t, <2>3, <3>1 DEF Counts
    <3> QED BY <1>s, <2>1, <2>2, <3>1, <3>2
  <2> QED BY <2>2, <2>7, <2>8, <2>9, Zenon DEF Counts
<1>5. InProcess' = InProcess /\ io'.event = io.event /\ hot'.event = hot.event
      /\ UNCHANGED <<ioVars, outVars, emitted>>
  BY <1>a, <1>h DEF InProcess, outVars
<1> QED BY <1>1, <1>2, <1>3, <1>4, <1>5, NoEventStep, Zenon

(* A filled event holds its report, whatever its last use left in it: a    *)
(* trade is never meant for the gateway, and its type keeps it from it.    *)
LEMMA FilledHolds ==
  ASSUME NEW ev \in IOEvent, NEW r \in ReportSet
  PROVE  /\ Filled(ev, r) \in IOEvent
         /\ Record(Filled(ev, r)) = [type |-> r.type, id |-> r.id]
         /\ Sends(Filled(ev, r)) <=> r.gw
<1>1. /\ r.type \in IOEventType /\ r.id \in Nat /\ r.gw \in BOOLEAN
      /\ r.gw => r.type \in {"ORDER_ACCEPTED", "ORDER_FILLED"}
  BY DEF ReportSet
<1>2. CASE r.type = "TRADE"
  <2> DEFINE f == [ev EXCEPT !.type = "TRADE", !.trade_id = r.id]
  <2>1. Filled(ev, r) = f
    BY <1>2, Zenon DEF Filled
  <2>2. f \in IOEvent
    BY <1>1 DEF IOEvent, IOEventType
  <2>3. f.type = "TRADE" /\ f.trade_id = r.id
    BY DEF IOEvent
  <2> HIDE DEF f
  <2>4. Record(f) = [type |-> r.type, id |-> r.id]
    BY <1>2, <2>3, Zenon DEF Record
  <2>5. ~ Sends(f) /\ ~ r.gw
    BY <1>1, <1>2, <2>3 DEF Sends
  <2> QED BY <2>1, <2>2, <2>4, <2>5, Zenon
<1>3. CASE r.type # "TRADE"
  <2> DEFINE f == [ev EXCEPT !.type = r.type, !.order_id = r.id, !.send_to_gateway = r.gw]
  <2>1. Filled(ev, r) = f
    BY <1>3, Zenon DEF Filled
  <2>2. f \in IOEvent
    BY <1>1 DEF IOEvent
  <2>3. f.type = r.type /\ f.order_id = r.id /\ f.send_to_gateway = r.gw
    BY DEF IOEvent
  <2> HIDE DEF f
  <2>4. Record(f) = [type |-> r.type, id |-> r.id]
    BY <1>3, <2>3, Zenon DEF Record
  <2>5. Sends(f) <=> r.gw
    BY <1>1, <2>3, Zenon DEF Sends
  <2> QED BY <2>1, <2>2, <2>4, <2>5, Zenon
<1> QED BY <1>2, <1>3

(* One more report: which are meant for the gateway. *)
LEMMA SentAmongNext ==
  ASSUME NEW reports, NEW n \in Nat
  PROVE  /\ SentAmong(reports, n + 1)
              = IF reports[n + 1].gw THEN SentAmong(reports, n) \cup {n + 1}
                                     ELSE SentAmong(reports, n)
         /\ Cardinality(SentAmong(reports, n + 1))
              = Cardinality(SentAmong(reports, n)) + (IF reports[n + 1].gw THEN 1 ELSE 0)
<1>1. /\ IsFiniteSet(SentAmong(reports, n)) /\ Cardinality(SentAmong(reports, n)) \in Nat
      /\ n + 1 \notin SentAmong(reports, n)
  BY SentAmongFinite DEF SentAmong
<1>2. CASE reports[n + 1].gw
  <2>1. SentAmong(reports, n + 1) = SentAmong(reports, n) \cup {n + 1}
    BY <1>2 DEF SentAmong
  <2>2. Cardinality(SentAmong(reports, n) \cup {n + 1}) = Cardinality(SentAmong(reports, n)) + 1
    BY <1>1, FS_AddElement
  <2> QED BY <1>2, <2>1, <2>2, Zenon
<1>3. CASE ~ reports[n + 1].gw
  <2>1. SentAmong(reports, n + 1) = SentAmong(reports, n)
    BY <1>3 DEF SentAmong
  <2> QED BY <1>1, <1>3, <2>1
<1> QED BY <1>2, <1>3

(* The reports of a longer sequence, among its first n. *)
LEMMA SentAmongPrefix ==
  ASSUME NEW p \in Seq(ReportSet), NEW r \in ReportSet, NEW n \in 0 .. Len(p)
  PROVE  SentAmong(Append(p, r), n) = SentAmong(p, n)
<1>1. \A k \in 1 .. n : Append(p, r)[k] = p[k]
  OBVIOUS
<1> QED BY <1>1, Zenon DEF SentAmong

(* The filled event goes to the end of the queue, which is not full, with  *)
(* the report it holds.                                                    *)
LEMMA PushDelivers ==
  ASSUME Types, Places, Circulation, Ownership, Delivery,
         io_free_queue \in Seq(Event), io_filled_queue \in Seq(Event),
         pool \in [Event -> IOEvent],
         NEW r \in ReportSet, NEW e \in Event, hot.event = e, io' = io,
         pool' = [pool EXCEPT ![e] = Filled(pool[e], r)],
         io_filled_queue' = Append(io_filled_queue, e),
         emitted' = Append(emitted, r), journal' = journal
  PROVE  Delivery'
<1>1. /\ emitted \in Seq(ReportSet) /\ Len(emitted) \in Nat /\ Len(journal) \in Nat
      /\ Len(io_filled_queue) \in Nat /\ DOMAIN journal = 1 .. Len(journal)
      /\ DOMAIN io_filled_queue = 1 .. Len(io_filled_queue)
      /\ DOMAIN io_filled_queue' = 1 .. Len(io_filled_queue) + 1
  BY DEF Types
<1>2. /\ InProcess' = InProcess /\ InProcess \in {0, 1}
      /\ InProcess = 1 => io.event \in Event
  <2>1. InProcess = 1 => io.event # None
    BY DEF Places, InProcess
  <2>2. io.event \in Event \cup {None}
    BY HotType
  <2> QED BY <2>1, <2>2 DEF InProcess
<1>3. Len(emitted) = Len(journal) + InProcess + Len(io_filled_queue)
  BY Zenon DEF Delivery
<1>4. Len(emitted') = Len(emitted) + 1 /\ Len(io_filled_queue') = Len(io_filled_queue) + 1
  BY <1>1, PutLast
<1>5. \A k \in 1 .. Len(emitted) : emitted'[k] = emitted[k]
  BY <1>1
<1>6. emitted'[Len(emitted) + 1] = r
  BY <1>1, PutLast
<1>7. \A x \in Event \ {e} : pool'[x] = pool[x]
  OBVIOUS
<1>8. Holds(e, r)'
  <2>1. pool[e] \in IOEvent /\ pool'[e] = Filled(pool[e], r)
    OBVIOUS
  <2>2. Record(pool'[e]) = [type |-> r.type, id |-> r.id] /\ (Sends(pool'[e]) <=> r.gw)
    BY <2>1, FilledHolds
  <2> QED BY <2>2, Zenon DEF Holds
<1>10. Len(emitted)' = Len(journal)' + InProcess' + Len(io_filled_queue)'
  BY <1>1, <1>2, <1>3, <1>4
<1>11. \A k \in DOMAIN journal' :
         journal'[k] = [type |-> emitted'[k].type, id |-> emitted'[k].id]
  <2>1. \A k \in DOMAIN journal : k \in 1 .. Len(emitted)
    BY <1>1, <1>2, <1>3
  <2>2. \A k \in DOMAIN journal :
          journal[k] = [type |-> emitted[k].type, id |-> emitted[k].id]
    BY Zenon DEF Delivery
  <2> QED BY <1>5, <2>1, <2>2, Zenon
<1>12. ASSUME InProcess' = 1
       PROVE  Holds(io.event, emitted[Len(journal) + 1])'
  <2>1. Holds(io.event, emitted[Len(journal) + 1]) /\ io.event \in Event \ {e}
    BY <1>2, <1>12 DEF Delivery, Ownership, Event, None
  <2>2. Len(journal) + 1 \in 1 .. Len(emitted)
    BY <1>1, <1>2, <1>3, <1>12
  <2>3. emitted'[Len(journal) + 1] = emitted[Len(journal) + 1]
    BY <1>5, <2>2, Zenon
  <2>4. Record(pool'[io.event]) = Record(pool[io.event])
        /\ (Sends(pool'[io.event]) <=> Sends(pool[io.event]))
    BY <1>7, <2>1, Zenon
  <2> QED BY <2>1, <2>3, <2>4, Zenon DEF Holds
<1>13. ASSUME NEW j \in DOMAIN io_filled_queue'
       PROVE  Holds(io_filled_queue[j], emitted[Len(journal) + InProcess + j])'
  <2>1. CASE j \in DOMAIN io_filled_queue
    <3>1. /\ Holds(io_filled_queue[j], emitted[Len(journal) + InProcess + j])
          /\ io_filled_queue[j] \in Event \ {e}
      BY <2>1 DEF Delivery, Ownership
    <3>2. Len(journal) + InProcess + j \in 1 .. Len(emitted)
      BY <1>1, <1>2, <1>3, <2>1
    <3>3. emitted'[Len(journal) + InProcess + j] = emitted[Len(journal) + InProcess + j]
      BY <1>5, <3>2, Zenon
    <3>4. io_filled_queue'[j] = io_filled_queue[j]
      BY <2>1, PutLast
    <3>5. pool'[io_filled_queue[j]] = pool[io_filled_queue[j]]
      BY <1>7, <3>1, Zenon
    <3> QED BY <1>2, <3>1, <3>3, <3>4, <3>5, Zenon DEF Holds
  <2>2. CASE j \notin DOMAIN io_filled_queue
    <3>1. j = Len(io_filled_queue) + 1 /\ io_filled_queue'[j] = e
      BY <2>2, PutLast
    <3>2. Len(journal) + InProcess + j = Len(emitted) + 1
      BY <1>1, <1>2, <1>3, <3>1
    <3>3. emitted'[Len(journal') + InProcess' + j] = r
      BY <1>2, <1>6, <3>2, Zenon
    <3> QED BY <1>8, <3>1, <3>3, Zenon DEF Holds
  <2> QED BY <2>1, <2>2
<1> QED BY <1>10, <1>11, <1>12, <1>13, Zenon DEF Delivery

(* The consumer hands its event to the I/O thread. *)
LEMMA HotPushEventStep ==
  ASSUME IInv, HotPushEvent
  PROVE  IInv'
<1>t. /\ Control /\ Types /\ Places /\ Circulation /\ Ownership /\ Delivery /\ Counts
      /\ GatewayExact /\ hot \in HotThread /\ stats \in Stats
      /\ io_free_queue \in Seq(Event) /\ io_filled_queue \in Seq(Event)
      /\ pool \in [Event -> IOEvent] /\ emitted \in Seq(ReportSet)
  BY Zenon DEF IInv, TypeOK, Types
<1>d. DOMAIN hot = {"pc", "orders", "reports", "event"} /\ hot.event \in Event \cup {None}
  BY <1>t, HotType
<1> DEFINE e == hot.event
           r == Head(hot.reports)
<1>a. /\ e # None /\ pool' = [pool EXCEPT ![e] = Filled(pool[e], r)]
      /\ io_filled_queue' = Push(io_filled_queue, QueueSize, e)
      /\ emitted' = Append(emitted, r)
      /\ hot' = [hot EXCEPT !.reports = Tail(hot.reports), !.event = None]
      /\ UNCHANGED <<main, running, feed, feed_running, feed_queue, received, io,
                     io_free_queue, next_order_id, next_trade_id, stats, journal, gateway>>
  BY Zenon DEF HotPushEvent, feedVars, outVars, countVars
<1>e. e \in Event /\ hot.reports # << >>
  BY <1>t, <1>d, <1>a DEF Places
<1>r. r \in ReportSet /\ Tail(hot.reports) \in Seq(ReportSet)
  BY <1>t, <1>e, NextReport
<1>l. Len(io_free_queue) \in Nat /\ Len(io_filled_queue) \in Nat /\ Len(emitted) \in Nat
  BY <1>t
<1>f. io_filled_queue' = Append(io_filled_queue, e)
  <2>1. Len(io_filled_queue) < QueueSize - 1
    BY <1>t, <1>a, <1>l, SizeAssumption DEF Circulation
  <2> QED BY <1>a, <2>1, Zenon DEF Push
<1>h. /\ hot' \in HotThread /\ hot'.pc = hot.pc /\ hot'.orders = hot.orders
      /\ hot'.reports = Tail(hot.reports) /\ hot'.event = None
  <2>1. hot' \in HotThread
    BY <1>t, <1>a, <1>r, HotUpdates2
  <2> QED BY <1>d, <1>a, <2>1
<1> HIDE DEF e, r
<1>p. /\ io_filled_queue' \in Seq(Event)
      /\ Len(io_filled_queue') = Len(io_filled_queue) + 1
      /\ io_filled_queue'[Len(io_filled_queue) + 1] = e
      /\ \A i \in DOMAIN io_filled_queue : io_filled_queue'[i] = io_filled_queue[i]
      /\ \A i \in DOMAIN io_filled_queue' :
           i \in DOMAIN io_filled_queue \/ i = Len(io_filled_queue) + 1
  BY <1>t, <1>e, <1>f, PutLast
<1>v. pool' \in [Event -> IOEvent]
  <2>1. Filled(pool[e], r) \in IOEvent
    <3>1. pool[e] \in IOEvent
      BY <1>t, <1>e
    <3> QED BY <1>r, <3>1, FilledHolds
  <2> DEFINE f == Filled(pool[e], r)
  <2> HIDE DEF f
  <2>2. f \in IOEvent /\ pool' = [pool EXCEPT ![e] = f]
    BY <1>a, <2>1 DEF f
  <2> QED BY <1>t, <2>2
<1>m. emitted' \in Seq(ReportSet) /\ Len(emitted') = Len(emitted) + 1
      /\ emitted'[Len(emitted) + 1] = r
  BY <1>t, <1>a, <1>r, PutLast
<1>1. Types'
  BY <1>t, <1>a, <1>h, <1>m, Zenon DEF Types
<1>2. Control'
  BY <1>t, <1>a, Zenon DEF Control
<1>3. Places'
  BY <1>t, <1>a, <1>e, <1>h DEF Places
<1>4. Circulation'
  BY <1>t, <1>a, <1>h, <1>l, <1>p DEF Circulation, e
<1>5. Ownership'
  <2>1. IsInjective(io_free_queue) /\ IsInjective(io_filled_queue)
    BY <1>t, Zenon DEF Ownership
  <2>2. /\ \A i \in DOMAIN io_free_queue :
             /\ io_free_queue[i] # e /\ io_free_queue[i] # io.event
             /\ \A j \in DOMAIN io_filled_queue : io_free_queue[i] # io_filled_queue[j]
        /\ \A j \in DOMAIN io_filled_queue :
             io_filled_queue[j] # e /\ io_filled_queue[j] # io.event
        /\ e # io.event
    BY <1>t, <1>a, Zenon DEF Ownership, e
  <2>3. IsInjective(io_filled_queue')
    BY <1>t, <1>e, <1>f, <2>1, <2>2, AppendDistinct
  <2>4. \A i \in DOMAIN io_free_queue' : io_free_queue'[i] # None
    <3>1. io_free_queue' \in Seq(Event)
      BY <1>t, <1>a, Zenon
    <3>2. None \notin Event
      BY DEF Event, None
    <3> QED BY <3>1, <3>2
  <2>5. \A j \in DOMAIN io_filled_queue' : io_filled_queue'[j] # None
    <3>1. io_filled_queue' \in Seq(Event)
      BY <1>p, Zenon
    <3>2. None \notin Event
      BY DEF Event, None
    <3> QED BY <3>1, <3>2
  <2>6. \A i \in DOMAIN io_free_queue' :
          /\ io_free_queue'[i] # io'.event
          /\ \A j \in DOMAIN io_filled_queue' : io_free_queue'[i] # io_filled_queue'[j]
    BY <1>a, <1>p, <2>2
  <2>7. \A j \in DOMAIN io_filled_queue' : io_filled_queue'[j] # io'.event
    BY <1>a, <1>p, <2>2, Zenon
  <2>8. IsInjective(io_free_queue')
    BY <1>a, <2>1, Zenon
  <2> QED BY <1>h, <2>3, <2>4, <2>5, <2>6, <2>7, <2>8, Zenon DEF Ownership
<1>6. Delivery'
  <2>1. hot.event = e
    BY DEF e
  <2> QED BY <1>t, <1>a, <1>e, <1>r, <1>f, <2>1, PushDelivers
<1>7. Counts'
  <2>1. /\ Len(hot.reports) \in Nat \ {0} /\ Uncounted' = Len(hot.reports) - 1
        /\ Len(hot'.reports) = Len(hot.reports) - 1
        /\ \A k \in DOMAIN hot'.reports : k > 1 => hot'.reports[k].type = "TRADE"
        /\ ~ (hot'.reports # << >> /\ Head(hot'.reports).gw)
    BY <1>t, <1>e, <1>h, ReportDone, Zenon
  <2>2. Uncounted = Len(hot.reports) - 1
    BY <1>a, <1>e DEF Uncounted, e
  <2> DEFINE l == Len(hot.reports)
             n == Len(emitted)
             d == stats.dropped
             total == stats.created + stats.trades
             old == Cardinality(SentAmong(emitted, n))
             sent == IF r.gw THEN 1 ELSE 0
  <2>3. /\ l \in Int /\ n \in Nat /\ d \in Int /\ total \in Int /\ stats.executed \in Int
    BY <1>t, <1>l, <2>1 DEF Stats
  <2>4. n + d + l = total + (l - 1)
    BY <1>t, <2>2, Zenon DEF Counts
  <2>5. old \in Nat /\ sent \in Nat
    BY <2>3, SentAmongFinite
  <2>6. stats.executed >= old + sent
    BY <1>t, <1>e, Zenon DEF Counts, r
  <2>7. Cardinality(SentAmong(emitted, Len(emitted)))' = old + sent
    <3>1. SentAmong(Append(emitted, r), n) = SentAmong(emitted, n)
      <4>1. n \in 0 .. Len(emitted)
        BY <2>3
      <4> QED BY <1>t, <1>r, <4>1, SentAmongPrefix
    <3>2. Cardinality(SentAmong(Append(emitted, r), n + 1))
            = Cardinality(SentAmong(Append(emitted, r), n))
                + (IF Append(emitted, r)[n + 1].gw THEN 1 ELSE 0)
      BY <2>3, SentAmongNext, Zenon
    <3>3. Append(emitted, r)[n + 1] = r
      BY <1>a, <1>m, Zenon
    <3> QED BY <1>a, <1>m, <3>1, <3>2, <3>3, Zenon
  <2> HIDE DEF l, n, d, total, old, sent
  <2>8. (n + 1) + d + (l - 1) = total + (l - 1)
    BY <2>3, <2>4
  <2>9. Len(emitted') + stats'.dropped + Len(hot'.reports)
          = stats'.created + stats'.trades + Uncounted'
    BY <1>a, <1>m, <2>1, <2>8, Zenon DEF n, d, l, total
  <2>10. stats'.executed >= Cardinality(SentAmong(emitted, Len(emitted)))' + 0
    BY <1>a, <2>3, <2>5, <2>6, <2>7
  <2>11. /\ stats'.created = stats'.accepted + stats'.rejected
         /\ stats'.created + hot'.orders = 2 * stats'.msgs
    BY <1>t, <1>a, <1>h, Zenon DEF Counts
  <2>12. (IF hot'.reports # << >> /\ Head(hot'.reports).gw THEN 1 ELSE 0) = 0
    BY <2>1, Zenon
  <2> QED BY <2>1, <2>9, <2>10, <2>11, <2>12, Zenon DEF Counts
<1>8. GatewayExact'
  <2>1. Len(journal) \in 0 .. Len(emitted)
    BY <1>t, <1>l DEF Delivery, InProcess, Types
  <2>2. \A k \in 0 .. Len(emitted) : SentAmong(emitted', k) = SentAmong(emitted, k)
    BY <1>t, <1>a, <1>r, SentAmongPrefix
  <2>3. \A k \in SentAmong(emitted, Len(journal)) :
          k \in 0 .. Len(emitted) /\ emitted'[k] = emitted[k]
    BY <1>t, <1>a, <1>r, <1>l, <2>1 DEF SentAmong
  <2>4. SentAmong(emitted', Len(journal)) = SentAmong(emitted, Len(journal))
    BY <2>1, <2>2, Zenon
  <2> QED BY <1>t, <1>a, <2>2, <2>3, <2>4, Zenon DEF GatewayExact
<1> QED BY <1>1, <1>2, <1>3, <1>4, <1>5, <1>6, <1>7, <1>8, <1>t, <1>a, <1>p, <1>v,
           IInvParts, Zenon

(* The first filled event is the I/O thread's. *)
LEMMA IOPopStep ==
  ASSUME IInv, IOPop
  PROVE  IInv'
<1>t. /\ Control /\ Types /\ Places /\ Circulation /\ Ownership /\ Delivery /\ Counts
      /\ GatewayExact
      /\ io_free_queue \in Seq(Event) /\ io_filled_queue \in Seq(Event)
      /\ pool \in [Event -> IOEvent]
  BY Zenon DEF IInv, TypeOK
<1> DEFINE e == Head(io_filled_queue)
           pc == IF io.pc = "pop" THEN "process" ELSE "drain_process"
<1>a. /\ io.pc \in {"pop", "drain"} /\ io_filled_queue # << >>
      /\ io' = [pc |-> pc, event |-> e]
      /\ io_filled_queue' = Tail(io_filled_queue)
      /\ UNCHANGED <<main, running, feed, feed_running, feed_queue, received, hot,
                     io_free_queue, pool, next_order_id, next_trade_id, stats, journal,
                     gateway, emitted>>
  BY Zenon DEF IOPop, feedVars, outVars, countVars
<1>q. /\ e \in Event /\ io_filled_queue' \in Seq(Event)
      /\ Len(io_filled_queue) \in Nat \ {0}
      /\ Len(io_filled_queue') = Len(io_filled_queue) - 1
      /\ e = io_filled_queue[1] /\ 1 \in DOMAIN io_filled_queue
      /\ \A i \in DOMAIN io_filled_queue' :
           /\ i \in Nat /\ i + 1 \in DOMAIN io_filled_queue
           /\ io_filled_queue'[i] = io_filled_queue[i + 1]
  BY <1>t, <1>a, TakeHead
<1>n. e # None
  BY <1>q DEF Event, None
<1>p. pc \in {"process", "drain_process"}
  OBVIOUS
<1> HIDE DEF e, pc
<1>i. io' \in IOThread /\ io'.pc = pc /\ io'.event = e
  BY <1>a, <1>q, <1>p DEF IOThread
<1>o. io.event = None
  BY <1>t, <1>a DEF Places
<1>1. Types'
  BY <1>t, <1>a, <1>i, Zenon DEF Types
<1>2. Control'
  BY <1>t, <1>a, Zenon DEF Control
<1>3. Places'
  BY <1>t, <1>a, <1>p, <1>n, <1>i DEF Places
<1>4. Circulation'
  <2>1. Len(io_free_queue) \in Nat
    BY <1>t
  <2> QED BY <1>t, <1>a, <1>i, <1>n, <1>o, <1>q, <2>1 DEF Circulation
<1>5. Ownership'
  <2>1. IsInjective(io_free_queue) /\ IsInjective(io_filled_queue)
    BY <1>t, Zenon DEF Ownership
  <2>2. /\ IsInjective(io_filled_queue')
        /\ \A i \in DOMAIN io_filled_queue' : io_filled_queue'[i] # io'.event
    BY <1>t, <1>a, <1>i, <2>1, TailDistinct DEF e
  <2>3. /\ \A i \in DOMAIN io_free_queue :
             /\ io_free_queue[i] # hot.event
             /\ \A j \in DOMAIN io_filled_queue : io_free_queue[i] # io_filled_queue[j]
        /\ \A j \in DOMAIN io_filled_queue : io_filled_queue[j] # hot.event
    BY <1>t, Zenon DEF Ownership
  <2>4. \A i \in DOMAIN io_free_queue' :
          /\ io_free_queue'[i] # hot'.event /\ io_free_queue'[i] # io'.event
          /\ \A j \in DOMAIN io_filled_queue' : io_free_queue'[i] # io_filled_queue'[j]
    BY <1>a, <1>q, <1>i, <2>3
  <2>5. \A j \in DOMAIN io_filled_queue' : io_filled_queue'[j] # hot'.event
    BY <1>a, <1>q, <2>3
  <2>6. hot'.event # io'.event
    BY <1>a, <1>q, <1>i, <2>3
  <2>7. IsInjective(io_free_queue')
    BY <1>a, <2>1, Zenon
  <2> QED BY <2>2, <2>4, <2>5, <2>6, <2>7, Zenon DEF Ownership
<1>6. Delivery'
  <2>1. InProcess = 0 /\ InProcess' = 1
    BY <1>a, <1>i, <1>p DEF InProcess
  <2>2. Len(journal) \in Nat /\ Len(emitted) \in Nat
    BY <1>t DEF Types
  <2>3. Len(emitted') = Len(journal') + InProcess' + Len(io_filled_queue')
    <3> DEFINE j == Len(journal)
               f == Len(io_filled_queue)
    <3>1. Len(emitted) = j + 0 + f
      BY <1>t, <2>1, Zenon DEF Delivery
    <3>2. j \in Nat /\ f \in Nat
      BY <1>q, <2>2
    <3> HIDE DEF j, f
    <3>3. j + 0 + f = j + 1 + (f - 1)
      BY <3>2
    <3> QED BY <1>a, <1>q, <2>1, <3>1, <3>3, Zenon DEF j, f
  <2>4. \A j \in DOMAIN io_filled_queue :
          Holds(io_filled_queue[j], emitted[Len(journal) + 0 + j])
    BY <1>t, <2>1, Zenon DEF Delivery
  <2>5. Holds(e, emitted[Len(journal) + 1])
    <3>1. Len(journal) + 0 + 1 = Len(journal) + 1
      BY <2>2
    <3> QED BY <1>q, <2>4, <3>1
  <2>6. ASSUME NEW j \in DOMAIN io_filled_queue'
        PROVE  Holds(io_filled_queue'[j], emitted[Len(journal) + 1 + j])
    <3>1. Len(journal) + 0 + (j + 1) = Len(journal) + 1 + j
      BY <1>q, <2>2
    <3>2. j + 1 \in DOMAIN io_filled_queue /\ io_filled_queue'[j] = io_filled_queue[j + 1]
      BY <1>q, Zenon
    <3> QED BY <2>4, <3>1, <3>2, Zenon
  <2>7. /\ Holds(io.event, emitted[Len(journal) + 1])'
        /\ \A j \in DOMAIN io_filled_queue' :
             Holds(io_filled_queue[j], emitted[Len(journal) + InProcess + j])'
    BY <1>a, <1>i, <2>1, <2>5, <2>6, Zenon DEF Holds
  <2>8. \A k \in DOMAIN journal' :
          journal'[k] = [type |-> emitted'[k].type, id |-> emitted'[k].id]
    BY <1>t, <1>a, Zenon DEF Delivery
  <2> QED BY <2>3, <2>7, <2>8, Zenon DEF Delivery
<1>7. Counts'
  BY <1>t, <1>a, SameCounts
<1>8. GatewayExact'
  BY <1>t, <1>a, SameGateway
<1> QED BY <1>1, <1>2, <1>3, <1>4, <1>5, <1>6, <1>7, <1>8, <1>t, <1>a, <1>q,
           IInvParts, Zenon

(* The I/O thread puts its event back. *)
LEMMA IOReturnStep ==
  ASSUME IInv, IOReturn
  PROVE  IInv'
<1>t. /\ Control /\ Types /\ Places /\ Circulation /\ Ownership /\ Delivery /\ Counts
      /\ GatewayExact
      /\ io_free_queue \in Seq(Event) /\ io_filled_queue \in Seq(Event)
      /\ pool \in [Event -> IOEvent]
  BY Zenon DEF IInv, TypeOK
<1> DEFINE e == io.event
<1>a. /\ io.pc = "return" /\ io_free_queue' = Push(io_free_queue, QueueSize, e)
      /\ io' = [pc |-> "check", event |-> None]
      /\ UNCHANGED <<main, running, feed, feed_running, feed_queue, received, hot,
                     io_filled_queue, pool, next_order_id, next_trade_id, stats, journal,
                     gateway, emitted>>
  BY Zenon DEF IOReturn, feedVars, outVars, countVars
<1>n. e # None
  BY <1>t, <1>a DEF Places
<1>e. e \in Event
  BY <1>t, <1>n, HotType
<1>l. Len(io_free_queue) \in Nat /\ Len(io_filled_queue) \in Nat
  BY <1>t
<1>f. io_free_queue' = Append(io_free_queue, e)
  <2>1. Len(io_free_queue) < QueueSize - 1
    BY <1>t, <1>n, <1>l, SizeAssumption DEF Circulation
  <2> QED BY <1>a, <2>1, Zenon DEF Push
<1> HIDE DEF e
<1>p. /\ io_free_queue' \in Seq(Event)
      /\ Len(io_free_queue') = Len(io_free_queue) + 1
      /\ io_free_queue'[Len(io_free_queue) + 1] = e
      /\ \A i \in DOMAIN io_free_queue : io_free_queue'[i] = io_free_queue[i]
      /\ \A i \in DOMAIN io_free_queue' :
           i \in DOMAIN io_free_queue \/ i = Len(io_free_queue) + 1
  BY <1>t, <1>e, <1>f, PutLast
<1>i. io' \in IOThread /\ io'.pc = "check" /\ io'.event = None
  BY <1>a DEF IOThread
<1>1. Types'
  BY <1>t, <1>a, <1>i, Zenon DEF Types
<1>2. Control'
  BY <1>t, <1>a, Zenon DEF Control
<1>3. Places'
  BY <1>t, <1>a, <1>i DEF Places
<1>4. Circulation'
  BY <1>t, <1>a, <1>i, <1>n, <1>l, <1>p DEF Circulation, e
<1>5. Ownership'
  <2>1. /\ IsInjective(io_free_queue) /\ IsInjective(io_filled_queue)
        /\ \A i \in DOMAIN io_free_queue :
             /\ io_free_queue[i] # hot.event /\ io_free_queue[i] # e
             /\ \A j \in DOMAIN io_filled_queue : io_free_queue[i] # io_filled_queue[j]
        /\ \A j \in DOMAIN io_filled_queue :
             io_filled_queue[j] # hot.event /\ io_filled_queue[j] # e
        /\ hot.event # None => hot.event # e
    BY <1>t, Zenon DEF Ownership, e
  <2>2. IsInjective(io_free_queue')
    BY <1>t, <1>e, <1>f, <2>1, AppendDistinct
  <2>3. None \notin Event
    BY DEF Event, None
  <2>4. \A i \in DOMAIN io_free_queue' : io_free_queue'[i] # None
    <3>1. io_free_queue' \in Seq(Event)
      BY <1>p, Zenon
    <3> QED BY <2>3, <3>1
  <2>5. \A j \in DOMAIN io_filled_queue : io_filled_queue[j] # None
    BY <1>t, <2>3
  <2>6. ASSUME NEW i \in DOMAIN io_free_queue'
        PROVE  /\ io_free_queue'[i] # hot'.event
               /\ \A j \in DOMAIN io_filled_queue' :
                    io_free_queue'[i] # io_filled_queue'[j]
    <3>1. hot' = hot /\ io_filled_queue' = io_filled_queue
      BY <1>a, Zenon
    <3>2. hot.event # e
      BY <1>e, <2>1, <2>3
    <3>3. CASE i \in DOMAIN io_free_queue
      BY <1>p, <2>1, <3>1, <3>3, Zenon
    <3>4. CASE i = Len(io_free_queue) + 1
      BY <1>p, <2>1, <3>1, <3>2, <3>4, Zenon
    <3> QED BY <1>p, <3>3, <3>4, Zenon
  <2> QED BY <1>a, <1>i, <2>1, <2>2, <2>4, <2>5, <2>6, Zenon DEF Ownership
<1>6. Delivery'
  <2>1. InProcess = 0 /\ InProcess' = 0
    BY <1>a, <1>i DEF InProcess
  <2> QED BY <1>t, <1>a, <2>1 DEF Delivery, Holds
<1>7. Counts'
  BY <1>t, <1>a, SameCounts
<1>8. GatewayExact'
  BY <1>t, <1>a, SameGateway
<1> QED BY <1>1, <1>2, <1>3, <1>4, <1>5, <1>6, <1>7, <1>8, <1>t, <1>a, <1>p,
           IInvParts, Zenon

(* How many of the first k reports are meant for the gateway, against how  *)
(* many of the first n.                                                    *)
LEMMA SentAmongRank ==
  ASSUME NEW reports, NEW n \in Nat, NEW k \in SentAmong(reports, n)
  PROVE  /\ k \in 1 .. n /\ Cardinality(SentAmong(reports, k)) \in Nat \ {0}
         /\ Cardinality(SentAmong(reports, k)) <= Cardinality(SentAmong(reports, n))
<1>1. k \in 1 .. n /\ SentAmong(reports, k) \subseteq SentAmong(reports, n)
      /\ k \in SentAmong(reports, k)
  BY DEF SentAmong
<1>2. IsFiniteSet(SentAmong(reports, n)) /\ IsFiniteSet(SentAmong(reports, k))
      /\ Cardinality(SentAmong(reports, k)) \in Nat
  BY <1>1, SentAmongFinite
<1>3. Cardinality(SentAmong(reports, k)) # 0
  BY <1>1, <1>2, FS_EmptySet
<1>4. Cardinality(SentAmong(reports, k)) <= Cardinality(SentAmong(reports, n))
  BY <1>1, <1>2, FS_Subset
<1> QED BY <1>1, <1>2, <1>3, <1>4

(* The oldest report not journaled goes to the journal and, if it is meant *)
(* to, to the gateway.                                                     *)
LEMMA ProcessSends ==
  ASSUME NEW n \in Nat, NEW r \in ReportSet, NEW id, gateway \in Seq(Nat \ {0}),
         GatewayExact, Len(journal) = n, emitted[n + 1] = r, r.gw => id = r.id,
         id \in Nat \ {0} \/ ~ r.gw,
         gateway' = IF r.gw THEN Append(gateway, id) ELSE gateway,
         Len(journal') = n + 1, emitted' = emitted
  PROVE  GatewayExact' /\ gateway' \in Seq(Nat \ {0})
<1>1. /\ Len(gateway) = Cardinality(SentAmong(emitted, n))
      /\ \A k \in SentAmong(emitted, n) :
           gateway[Cardinality(SentAmong(emitted, k))] = emitted[k].id
  BY Zenon DEF GatewayExact
<1>2. CASE r.gw
  <2>1. gateway' = Append(gateway, id) /\ id \in Nat \ {0} /\ id = r.id
    BY <1>2, Zenon
  <2>2. /\ gateway' \in Seq(Nat \ {0}) /\ Len(gateway) \in Nat
        /\ Len(gateway') = Len(gateway) + 1 /\ gateway'[Len(gateway) + 1] = id
        /\ \A i \in 1 .. Len(gateway) : gateway'[i] = gateway[i]
    BY <2>1
  <2>3. /\ SentAmong(emitted, n + 1) = SentAmong(emitted, n) \cup {n + 1}
        /\ Cardinality(SentAmong(emitted, n + 1)) = Cardinality(SentAmong(emitted, n)) + 1
    BY <1>2, SentAmongNext, Zenon
  <2>4. ASSUME NEW k \in SentAmong(emitted, n)
        PROVE  gateway'[Cardinality(SentAmong(emitted, k))] = emitted[k].id
    <3>1. Cardinality(SentAmong(emitted, k)) \in 1 .. Len(gateway)
      BY <1>1, <2>2, SentAmongRank
    <3> QED BY <1>1, <2>2, <3>1, Zenon
  <2>5. gateway'[Cardinality(SentAmong(emitted, n + 1))] = emitted[n + 1].id
    BY <1>1, <2>1, <2>2, <2>3, Zenon
  <2>6. \A k \in SentAmong(emitted, n + 1) :
          gateway'[Cardinality(SentAmong(emitted, k))] = emitted[k].id
    BY <2>3, <2>4, <2>5
  <2>7. Len(gateway') = Cardinality(SentAmong(emitted, n + 1))
    BY <1>1, <2>2, <2>3, Zenon
  <2> QED BY <2>2, <2>6, <2>7, Zenon DEF GatewayExact
<1>3. CASE ~ r.gw
  <2>1. gateway' = gateway
    BY <1>3, Zenon
  <2>2. SentAmong(emitted, n + 1) = SentAmong(emitted, n)
    BY <1>3, SentAmongNext, Zenon
  <2> QED BY <1>1, <2>1, <2>2, Zenon DEF GatewayExact
<1> QED BY <1>2, <1>3, Zenon

(* process_io_event: the event in hand holds the oldest report that is not *)
(* journaled.                                                              *)
LEMMA IOProcessStep ==
  ASSUME IInv, IOProcess
  PROVE  IInv'
<1>t. /\ Control /\ Types /\ Places /\ Circulation /\ Ownership /\ Delivery /\ Counts
      /\ GatewayExact /\ io \in IOThread /\ emitted \in Seq(ReportSet)
      /\ io_free_queue \in Seq(Event) /\ io_filled_queue \in Seq(Event)
      /\ pool \in [Event -> IOEvent] /\ gateway \in Seq(Nat \ {0})
      /\ journal \in Seq([type : IOEventType, id : Nat \ {0}])
  BY Zenon DEF IInv, TypeOK, Types
<1>d. DOMAIN io = {"pc", "event"}
  BY <1>t, HotType
<1> DEFINE e == io.event
           ev == pool[io.event]
           n == Len(journal)
           r == emitted[n + 1]
           rec == [type |-> r.type, id |-> r.id]
<1>a. /\ io.pc \in {"process", "drain_process"}
      /\ journal' = Append(journal, Record(ev))
      /\ gateway' = IF Sends(ev) THEN Append(gateway, ev.order_id) ELSE gateway
      /\ io' = IF io.pc = "process" THEN [io EXCEPT !.pc = "return"]
                                    ELSE [pc |-> "drain", event |-> None]
      /\ UNCHANGED <<main, running, feed, feed_running, feed_queue, received, hot,
                     io_free_queue, io_filled_queue, pool, next_order_id, next_trade_id,
                     stats, emitted>>
  BY Zenon DEF IOProcess, feedVars, ioVars, countVars
<1>n. e # None /\ e \in Event \cup {None}
  BY <1>t, <1>a, HotType DEF Places
<1>c. InProcess = 1 /\ n \in Nat /\ Len(emitted) \in Nat /\ Len(io_filled_queue) \in Nat
  BY <1>t, <1>a DEF InProcess
<1>l. Len(emitted) = n + 1 + Len(io_filled_queue)
  BY <1>t, <1>c, Zenon DEF Delivery
<1>r. r \in ReportSet
  <2>1. n + 1 \in 1 .. Len(emitted)
    BY <1>c, <1>l
  <2> QED BY <1>t, <2>1
<1>e. Record(ev) = rec /\ (Sends(ev) <=> r.gw)
  BY <1>t, <1>c, Zenon DEF Delivery, Holds
<1>o. r.gw => ev.order_id = r.id
  <2> SUFFICES ASSUME r.gw PROVE ev.order_id = r.id
    OBVIOUS
  <2>1. ev.type # "TRADE"
    BY <1>e DEF Sends
  <2>2. Record(ev) = [type |-> ev.type, id |-> ev.order_id]
    BY <2>1, Zenon DEF Record
  <2> QED BY <1>e, <2>2
<1>y. rec \in [type : IOEventType, id : Nat \ {0}] /\ r.id \in Nat \ {0}
  BY <1>r DEF ReportSet
<1> HIDE DEF e, ev, n, r, rec
<1>i. /\ io' \in IOThread
      /\ io'.pc \in {"return", "drain"}
      /\ io'.pc = "return" => io'.event = e
      /\ io'.pc = "drain" => io'.event = None
      /\ InProcess' = 0
  <2>1. CASE io.pc = "process"
    <3>1. io' = [io EXCEPT !.pc = "return"]
      BY <1>a, <2>1, Zenon
    <3>2. io' \in IOThread /\ io'.pc = "return" /\ io'.event = io.event
      BY <1>t, <1>d, <3>1, IOUpdates
    <3> QED BY <3>2 DEF InProcess, e
  <2>2. CASE io.pc # "process"
    <3>1. io' = [pc |-> "drain", event |-> None]
      BY <1>a, <2>2, Zenon
    <3> QED BY <3>1 DEF IOThread, InProcess
  <2> QED BY <2>1, <2>2
<1>j. /\ journal' \in Seq([type : IOEventType, id : Nat \ {0}])
      /\ Len(journal') = n + 1 /\ journal'[n + 1] = rec
      /\ \A k \in DOMAIN journal : journal'[k] = journal[k]
      /\ \A k \in DOMAIN journal' : k \in DOMAIN journal \/ k = n + 1
  <2> DEFINE R == [type : IOEventType, id : Nat \ {0}]
  <2>1. journal \in Seq(R) /\ rec \in R /\ journal' = Append(journal, rec)
    BY <1>t, <1>a, <1>e, <1>y, Zenon
  <2> HIDE DEF R
  <2>2. /\ journal' \in Seq(R)
        /\ Len(journal') = n + 1 /\ journal'[n + 1] = rec
        /\ \A k \in DOMAIN journal : journal'[k] = journal[k]
        /\ \A k \in DOMAIN journal' : k \in DOMAIN journal \/ k = n + 1
    BY <2>1, PutLast DEF n
  <2> QED BY <2>2, Zenon DEF R
<1>g. GatewayExact' /\ gateway' \in Seq(Nat \ {0})
  <2>1. gateway' = IF r.gw THEN Append(gateway, ev.order_id) ELSE gateway
    BY <1>a, <1>e, Zenon
  <2>2. Len(journal) = n /\ emitted[n + 1] = r
    BY DEF n, r
  <2>3. ev.order_id \in Nat \ {0} \/ ~ r.gw
    BY <1>o, <1>y, Zenon
  <2> QED BY <1>t, <1>a, <1>c, <1>r, <1>o, <1>j, <2>1, <2>2, <2>3, ProcessSends
<1>1. Types'
  BY <1>t, <1>a, <1>i, <1>j, <1>g, Zenon DEF Types
<1>2. Control'
  BY <1>t, <1>a, Zenon DEF Control
<1>3. Places'
  <2>1. io'.event # None <=> io'.pc \in {"process", "return", "drain_process"}
    BY <1>i, <1>n
  <2>2. main \notin {"init", "create_io"}
    BY <1>t, <1>a DEF Places
  <2> QED BY <1>t, <1>a, <2>1, <2>2 DEF Places
<1>4. Circulation'
  <2>1. Len(io_free_queue) \in Nat /\ io.event # None
    BY <1>t, <1>n DEF e
  <2>2. Len(io_free_queue) + Len(io_filled_queue) + (IF hot.event # None THEN 1 ELSE 0) + 1
          <= QueueSize - 1
    BY <1>t, <2>1, Zenon DEF Circulation
  <2>3. \A x \in {0, 1} :
          Len(io_free_queue) + Len(io_filled_queue) + (IF hot.event # None THEN 1 ELSE 0) + x
            <= QueueSize - 1
    BY <1>c, <2>1, <2>2, SizeAssumption
  <2>4. (IF io'.event # None THEN 1 ELSE 0) \in {0, 1}
    OBVIOUS
  <2> QED BY <1>a, <2>3, <2>4, Zenon DEF Circulation
<1>5. Ownership'
  <2>1. io'.event = io.event \/ io'.event = None
    BY <1>i DEF e
  <2>2. None \notin Event
    BY DEF Event, None
  <2>3. /\ \A i \in DOMAIN io_free_queue : io_free_queue[i] # None
        /\ \A j \in DOMAIN io_filled_queue : io_filled_queue[j] # None
    BY <1>t, <2>2
  <2> QED BY <1>t, <1>a, <2>1, <2>3, Zenon DEF Ownership
<1>6. Delivery'
  <2>1. Len(emitted') = Len(journal') + InProcess' + Len(io_filled_queue')
    <3>1. n + 1 + Len(io_filled_queue) = (n + 1) + 0 + Len(io_filled_queue)
      BY <1>c
    <3> QED BY <1>a, <1>i, <1>j, <1>l, <3>1, Zenon
  <2>2. \A k \in DOMAIN journal' :
          journal'[k] = [type |-> emitted'[k].type, id |-> emitted'[k].id]
    BY <1>t, <1>a, <1>j, Zenon DEF Delivery, rec, r
  <2>3. InProcess' # 1
    BY <1>i
  <2>4. ASSUME NEW k \in DOMAIN io_filled_queue
        PROVE  Holds(io_filled_queue[k], emitted[(n + 1) + 0 + k])
    <3>1. n + 1 + k = (n + 1) + 0 + k
      BY <1>t, <1>c
    <3>2. Holds(io_filled_queue[k], emitted[n + 1 + k])
      BY <1>t, <1>c, Zenon DEF Delivery, n
    <3> QED BY <3>1, <3>2, Zenon
  <2>5. \A k \in DOMAIN io_filled_queue' :
          Holds(io_filled_queue[k], emitted[Len(journal) + InProcess + k])'
    BY <1>a, <1>i, <1>j, <2>4, Zenon DEF Holds
  <2> QED BY <2>1, <2>2, <2>3, <2>5, Zenon DEF Delivery
<1>7. Counts'
  BY <1>t, <1>a, SameCounts
<1> QED BY <1>1, <1>2, <1>3, <1>4, <1>5, <1>6, <1>7, <1>g, <1>t, <1>a, IInvParts, Zenon

-----------------------------------------------------------------------------
(* init() leaves the invariant true: all but one of the events are free. *)
LEMMA InitIInv == Init => IInv
<1> SUFFICES ASSUME Init PROVE IInv
  OBVIOUS
<1>1. Types
  <2>1. hot \in HotThread
    BY DEF Init, HotThread
  <2>2. io \in IOThread
    BY DEF Init, IOThread
  <2>3. stats \in Stats
    BY DEF Init, Stats
  <2>4. next_order_id \in Nat /\ next_order_id > hot.orders /\ next_trade_id \in Nat \ {0}
    BY DEF Init
  <2>5. journal = << >> /\ gateway = << >> /\ emitted = << >>
    BY Zenon DEF Init
  <2> QED BY <2>1, <2>2, <2>3, <2>4, <2>5 DEF Types
<1>2. Control
  <2>1. 0 \in 0 .. FeedSize - 1 /\ 0 \in 0 .. MaxMsgs
    BY SizeAssumption, BoundAssumption
  <2> QED BY <2>1 DEF Init, Control
<1>3. Places
  BY DEF Init, Places
<1>4. /\ io_free_queue = [e \in 1 .. QueueSize - 1 |-> e] /\ io_filled_queue = << >>
      /\ hot.event = None /\ io.event = None
  BY DEF Init, AfterInit
<1>5. /\ io_free_queue \in Seq(Event) /\ Len(io_free_queue) = QueueSize - 1
      /\ DOMAIN io_free_queue = 1 .. QueueSize - 1
  <2>1. /\ QueueSize - 1 \in Nat
        /\ [e \in 1 .. QueueSize - 1 |-> e] \in [1 .. QueueSize - 1 -> Event]
    BY SizeAssumption DEF Event
  <2> QED BY <1>4, <2>1
<1>6. Circulation
  BY <1>4, <1>5, SizeAssumption DEF Circulation
<1>7. Ownership
  <2>1. \A i \in 1 .. QueueSize - 1 : io_free_queue[i] = i /\ i # None
    BY <1>4 DEF None
  <2>2. IsInjective(io_free_queue)
    BY <1>5, <2>1 DEF IsInjective
  <2>3. IsInjective(io_filled_queue) /\ DOMAIN io_filled_queue = {}
    BY <1>4 DEF IsInjective
  <2> QED BY <1>4, <1>5, <2>1, <2>2, <2>3 DEF Ownership
<1>8. pool \in [Event -> IOEvent] /\ io_filled_queue \in Seq(Event)
  <2>1. Zeroed \in IOEvent
    BY DEF Zeroed, IOEvent, IOEventType
  <2>2. pool = [e \in Event |-> Zeroed]
    BY Zenon DEF Init
  <2>3. io_filled_queue \in Seq(Event)
    BY <1>4
  <2> QED BY <2>1, <2>2, <2>3, Zenon
<1>9. journal = << >> /\ emitted = << >> /\ gateway = << >> /\ InProcess = 0
  BY DEF Init, InProcess
<1>10. Delivery
  BY <1>4, <1>9 DEF Delivery
<1>11. SentAmong(emitted, 0) = {} /\ Cardinality({}) = 0
  BY FS_EmptySet DEF SentAmong
<1>12. Counts
  <2>1. hot.reports = << >> /\ Uncounted = 0 /\ hot.orders = 0
    BY DEF Init, Uncounted
  <2>2. /\ stats.created = 0 /\ stats.accepted = 0 /\ stats.rejected = 0 /\ stats.msgs = 0
        /\ stats.executed = 0 /\ stats.trades = 0 /\ stats.dropped = 0
    BY DEF Init
  <2>3. Len(emitted) = 0 /\ Len(hot.reports) = 0 /\ DOMAIN hot.reports = {}
    BY <1>9, <2>1
  <2>4. Cardinality(SentAmong(emitted, Len(emitted)))
          + (IF hot.reports # << >> /\ Head(hot.reports).gw THEN 1 ELSE 0) = 0
    <3>1. Cardinality(SentAmong(emitted, Len(emitted))) = 0
      BY <1>11, <2>3, Zenon
    <3>2. (IF hot.reports # << >> /\ Head(hot.reports).gw THEN 1 ELSE 0) = 0
      BY <2>1, Zenon
    <3> QED BY <3>1, <3>2
  <2>5. /\ stats.created = stats.accepted + stats.rejected
        /\ stats.created + hot.orders = 2 * stats.msgs
        /\ Len(emitted) + stats.dropped + Len(hot.reports)
             = stats.created + stats.trades + Uncounted
    BY <2>1, <2>2, <2>3
  <2>6. stats.executed >= 0
    BY <2>2
  <2> QED BY <2>3, <2>4, <2>5, <2>6, Zenon DEF Counts
<1>13. GatewayExact
  BY <1>9, <1>11 DEF GatewayExact
<1>14. TypeOK
  <2>1. \A k \in DOMAIN journal : journal[k] \in [type : IOEventType, id : Nat \ {0}]
    BY <1>9
  <2>2. /\ hot.pc = "off" /\ io.pc = "off" /\ hot.orders \in 0 .. 2
    BY DEF Init
  <2> QED BY <1>2, <1>4, <1>5, <1>8, <2>1, <2>2 DEF TypeOK
<1> QED BY <1>1, <1>3, <1>6, <1>7, <1>10, <1>12, <1>13, <1>14, Zenon DEF IInv

(* Every step of every thread keeps the invariant. *)
LEMMA NextIInv == IInv /\ [Next]_vars => IInv'
<1> SUFFICES ASSUME IInv, [Next]_vars PROVE IInv'
  OBVIOUS
<1>1. CASE Main \/ Feed \/ UNCHANGED vars \/ HotCheck \/ HotPopNone \/ HotReturnMsg
           \/ IOCheck \/ IOPopNone
  BY <1>1, QuietSteps
<1>2. CASE HotPop
  BY <1>2, HotPopStep
<1>3. CASE HotReject \/ \E n \in 0 .. MaxTrades, whole \in BOOLEAN : HotAccept(n, whole)
  BY <1>3, HotOrderSteps
<1>4. CASE HotTakeEvent
  BY <1>4, HotTakeEventStep
<1>5. CASE HotDropReport
  BY <1>5, HotDropReportStep
<1>6. CASE HotPushEvent
  BY <1>6, HotPushEventStep
<1>7. CASE IOPop
  BY <1>7, IOPopStep
<1>8. CASE IOProcess
  BY <1>8, IOProcessStep
<1>9. CASE IOReturn
  BY <1>9, IOReturnStep
<1> QED BY <1>1, <1>2, <1>3, <1>4, <1>5, <1>6, <1>7, <1>8, <1>9, Zenon DEF Next, Hot, IO

(* The invariant holds in every state of the pipeline, whatever the sizes  *)
(* of its queues and however many messages and trades there are.           *)
THEOREM PipelineInvariance == Spec => []IInv
<1>1. Init => IInv
  BY InitIInv
<1>2. IInv /\ [Next]_vars => IInv'
  BY NextIInv
<1> QED BY <1>1, <1>2, PTL DEF Spec

(* The ring_buffer_push calls of process_market_data and io_loop whose     *)
(* result is ignored are never refused.                                    *)
THEOREM PushesSucceed == Spec => []NoPushRefused
<1>1. IInv => NoPushRefused
  <2> SUFFICES ASSUME IInv PROVE NoPushRefused
    OBVIOUS
  <2>1. Circulation /\ Places /\ io_free_queue \in Seq(Event) /\ io_filled_queue \in Seq(Event)
    BY Zenon DEF IInv, TypeOK
  <2>2. Len(io_free_queue) \in Nat /\ Len(io_filled_queue) \in Nat
    BY <2>1
  <2>3. io.pc = "return" => io.event # None
    BY <2>1 DEF Places
  <2>4. hot.event # None => Len(io_filled_queue) < QueueSize - 1
    BY <2>1, <2>2, SizeAssumption DEF Circulation
  <2>5. io.event # None => Len(io_free_queue) < QueueSize - 1
    BY <2>1, <2>2, SizeAssumption DEF Circulation
  <2> QED BY <2>3, <2>4, <2>5, Zenon DEF NoPushRefused
<1> QED BY <1>1, PipelineInvariance, PTL

(* io_loop hands gw_send_order exactly the orders process_market_data      *)
(* marked, in their order and each once.                                   *)
THEOREM GatewayGetsItsOrders == Spec => []GatewayExact
<1>1. IInv => GatewayExact
  BY Zenon DEF IInv
<1> QED BY <1>1, PipelineInvariance, PTL

(* Between two orders the counters of stats_ account for the work of       *)
(* process_market_data.                                                    *)
THEOREM StatisticsAddUp == Spec => []StatsAddUp
<1>1. IInv => StatsAddUp
  <2> SUFFICES ASSUME IInv, hot.reports = << >> PROVE
        /\ stats.created = stats.accepted + stats.rejected
        /\ stats.created + hot.orders = 2 * stats.msgs
        /\ Len(emitted) + stats.dropped = stats.created + stats.trades
        /\ stats.executed >= Len(gateway)
    BY Zenon DEF StatsAddUp
  <2>1. Types /\ Delivery /\ Counts /\ GatewayExact /\ stats \in Stats
        /\ emitted \in Seq(ReportSet)
        /\ journal \in Seq([type : IOEventType, id : Nat \ {0}])
        /\ io_filled_queue \in Seq(Event)
    BY Zenon DEF IInv, Types, TypeOK
  <2>2. /\ Len(emitted) \in Nat /\ Len(journal) \in Nat /\ Len(io_filled_queue) \in Nat
        /\ stats.dropped \in Nat /\ stats.created \in Nat /\ stats.trades \in Nat
        /\ stats.executed \in Nat
    <3>1. Len(journal) \in Nat
      BY <2>1
    <3> QED BY <2>1, <3>1 DEF Stats
  <2>3. /\ stats.created = stats.accepted + stats.rejected
        /\ stats.created + hot.orders = 2 * stats.msgs
        /\ Len(emitted) + stats.dropped + Len(hot.reports)
             = stats.created + stats.trades + Uncounted
    BY <2>1, Zenon DEF Counts
  <2>4. Len(hot.reports) = 0 /\ Uncounted = 0
    BY DEF Uncounted
  <2>5. Len(emitted) + stats.dropped = stats.created + stats.trades
    BY <2>2, <2>3, <2>4
  <2>6. /\ SentAmong(emitted, Len(journal)) \subseteq SentAmong(emitted, Len(emitted))
        /\ IsFiniteSet(SentAmong(emitted, Len(emitted)))
        /\ Cardinality(SentAmong(emitted, Len(emitted))) \in Nat
        /\ Cardinality(SentAmong(emitted, Len(journal))) \in Nat
    <3>1. Len(journal) <= Len(emitted)
      BY <2>1, <2>2 DEF Delivery, InProcess
    <3>2. SentAmong(emitted, Len(journal)) \subseteq SentAmong(emitted, Len(emitted))
      BY <2>2, <3>1 DEF SentAmong
    <3> QED BY <2>2, <3>2, SentAmongFinite
  <2>7. Cardinality(SentAmong(emitted, Len(journal)))
          <= Cardinality(SentAmong(emitted, Len(emitted)))
    BY <2>6, FS_Subset
  <2>8. stats.executed >= Cardinality(SentAmong(emitted, Len(emitted)))
    BY <2>1, <2>2, <2>6 DEF Counts
  <2>9. Len(gateway) = Cardinality(SentAmong(emitted, Len(journal)))
    BY <2>1, Zenon DEF GatewayExact
  <2>10. stats.executed >= Len(gateway)
    BY <2>2, <2>6, <2>7, <2>8, <2>9
  <2> QED BY <2>3, <2>5, <2>10, Zenon
<1> QED BY <1>1, PipelineInvariance, PTL

(* Two queues without repetitions that share no entry. *)
LEMMA ConcatDistinct ==
  ASSUME NEW S, NEW p \in Seq(S), NEW q \in Seq(S), IsInjective(p), IsInjective(q),
         \A i \in DOMAIN p, j \in DOMAIN q : p[i] # q[j]
  PROVE  /\ IsInjective(p \o q) /\ p \o q \in Seq(S)
         /\ \A i \in DOMAIN (p \o q) :
              \/ \E a \in DOMAIN p : (p \o q)[i] = p[a]
              \/ \E b \in DOMAIN q : (p \o q)[i] = q[b]
<1>1. /\ \A a, b \in DOMAIN p : p[a] = p[b] => a = b
      /\ \A a, b \in DOMAIN q : q[a] = q[b] => a = b
  BY Zenon DEF IsInjective
<1>2. p \o q \in Seq(S) /\ DOMAIN (p \o q) = 1 .. Len(p) + Len(q)
      /\ Len(p) \in Nat /\ Len(q) \in Nat
      /\ DOMAIN p = 1 .. Len(p) /\ DOMAIN q = 1 .. Len(q)
  OBVIOUS
<1>3. \A i \in 1 .. Len(p) : (p \o q)[i] = p[i]
  OBVIOUS
<1>4. \A i \in Len(p) + 1 .. Len(p) + Len(q) :
        i - Len(p) \in DOMAIN q /\ (p \o q)[i] = q[i - Len(p)]
  OBVIOUS
<1>5. \A i \in DOMAIN (p \o q) : i \in 1 .. Len(p) \/ i \in Len(p) + 1 .. Len(p) + Len(q)
  BY <1>2
<1>6. ASSUME NEW a \in DOMAIN (p \o q), NEW b \in DOMAIN (p \o q), (p \o q)[a] = (p \o q)[b]
      PROVE  a = b
  <2>1. CASE a \in 1 .. Len(p) /\ b \in 1 .. Len(p)
    BY <1>1, <1>2, <1>3, <1>6, <2>1, Zenon
  <2>2. CASE a \in Len(p) + 1 .. Len(p) + Len(q) /\ b \in Len(p) + 1 .. Len(p) + Len(q)
    <3>1. a - Len(p) = b - Len(p)
      BY <1>1, <1>4, <1>6, <2>2, Zenon
    <3> QED BY <1>2, <2>2, <3>1
  <2>3. CASE a \in 1 .. Len(p) /\ b \in Len(p) + 1 .. Len(p) + Len(q)
    BY <1>2, <1>3, <1>4, <1>6, <2>3, Zenon
  <2>4. CASE a \in Len(p) + 1 .. Len(p) + Len(q) /\ b \in 1 .. Len(p)
    BY <1>2, <1>3, <1>4, <1>6, <2>4, Zenon
  <2> QED BY <1>5, <2>1, <2>2, <2>3, <2>4, Zenon
<1>7. IsInjective(p \o q)
  BY <1>6, Zenon DEF IsInjective
<1>8. \A i \in DOMAIN (p \o q) : \/ \E a \in DOMAIN p : (p \o q)[i] = p[a]
                                 \/ \E b \in DOMAIN q : (p \o q)[i] = q[b]
  BY <1>2, <1>3, <1>4, <1>5, Zenon
<1> QED BY <1>2, <1>7, <1>8, Zenon

(* An entry of io_event_pool_ is in one queue or with one thread, and only *)
(* once: the two threads never work on the same event.                     *)
THEOREM OneOwner == Spec => []EventOwnedOnce
<1>1. IInv => EventOwnedOnce
  <2> SUFFICES ASSUME IInv PROVE EventOwnedOnce
    OBVIOUS
  <2>1. TypeOK /\ Types /\ Ownership /\ io_free_queue \in Seq(Event)
        /\ io_filled_queue \in Seq(Event)
    BY Zenon DEF IInv, TypeOK
  <2>2. hot.event \in Event \cup {None} /\ io.event \in Event \cup {None}
    BY <2>1, HotType
  <2> DEFINE hand(e) == IF e = None THEN << >> ELSE <<e>>
             p == io_free_queue
             q == io_filled_queue
             h == hand(hot.event)
             i == hand(io.event)
  <2>3. \A e \in Event \cup {None} :
          /\ hand(e) \in Seq(Event) /\ IsInjective(hand(e))
          /\ \A k \in DOMAIN hand(e) : hand(e)[k] = e /\ e # None
    <3> SUFFICES ASSUME NEW e \in Event \cup {None}
                 PROVE  /\ hand(e) \in Seq(Event) /\ IsInjective(hand(e))
                        /\ \A k \in DOMAIN hand(e) : hand(e)[k] = e /\ e # None
      BY Zenon
    <3>1. CASE e = None
      BY <3>1 DEF IsInjective
    <3>2. CASE e # None
      BY <3>2 DEF IsInjective
    <3> QED BY <3>1, <3>2
  <2>4. /\ h \in Seq(Event) /\ IsInjective(h) /\ \A k \in DOMAIN h : h[k] = hot.event
        /\ i \in Seq(Event) /\ IsInjective(i) /\ \A k \in DOMAIN i : i[k] = io.event
        /\ \A k \in DOMAIN h : hot.event # None
    BY <2>2, <2>3, Zenon
  <2> HIDE DEF h, i, p, q
  <2>5. /\ IsInjective(p) /\ IsInjective(q) /\ p \in Seq(Event) /\ q \in Seq(Event)
        /\ \A a \in DOMAIN p : /\ p[a] # hot.event /\ p[a] # io.event
                               /\ \A b \in DOMAIN q : p[a] # q[b]
        /\ \A b \in DOMAIN q : q[b] # hot.event /\ q[b] # io.event
        /\ hot.event # None => hot.event # io.event
    BY <2>1, Zenon DEF Ownership, p, q
  <2>6. /\ IsInjective(p \o q) /\ p \o q \in Seq(Event)
        /\ \A k \in DOMAIN (p \o q) : (p \o q)[k] # hot.event /\ (p \o q)[k] # io.event
    <3>1. /\ IsInjective(p \o q) /\ p \o q \in Seq(Event)
          /\ \A k \in DOMAIN (p \o q) :
               \/ \E a \in DOMAIN p : (p \o q)[k] = p[a]
               \/ \E b \in DOMAIN q : (p \o q)[k] = q[b]
      <4>1. \A a \in DOMAIN p, b \in DOMAIN q : p[a] # q[b]
        BY <2>5, Zenon
      <4> QED BY <2>5, <4>1, ConcatDistinct
    <3> QED BY <2>5, <3>1, Zenon
  <2> DEFINE pq == p \o q
  <2> HIDE DEF pq
  <2>7. /\ IsInjective(pq) /\ pq \in Seq(Event)
        /\ \A k \in DOMAIN pq : pq[k] # hot.event /\ pq[k] # io.event
    BY <2>6, Zenon DEF pq
  <2>8. /\ IsInjective(pq \o h) /\ pq \o h \in Seq(Event)
        /\ \A k \in DOMAIN (pq \o h) : (pq \o h)[k] # io.event
    <3>1. /\ IsInjective(pq \o h) /\ pq \o h \in Seq(Event)
          /\ \A k \in DOMAIN (pq \o h) :
               \/ \E a \in DOMAIN pq : (pq \o h)[k] = pq[a]
               \/ \E b \in DOMAIN h : (pq \o h)[k] = h[b]
      <4>1. \A a \in DOMAIN pq, b \in DOMAIN h : pq[a] # h[b]
        BY <2>4, <2>7, Zenon
      <4> QED BY <2>4, <2>7, <4>1, ConcatDistinct
    <3> QED BY <2>4, <2>5, <2>7, <3>1, Zenon
  <2> DEFINE pqh == pq \o h
  <2> HIDE DEF pqh
  <2>9. /\ IsInjective(pqh) /\ pqh \in Seq(Event) /\ \A k \in DOMAIN pqh : pqh[k] # io.event
    BY <2>8, Zenon DEF pqh
  <2>10. IsInjective(pqh \o i)
    <3>1. \A a \in DOMAIN pqh, b \in DOMAIN i : pqh[a] # i[b]
      BY <2>4, <2>9, Zenon
    <3> QED BY <2>4, <2>9, <3>1, ConcatDistinct
  <2> QED BY <2>1, <2>10, Zenon DEF EventOwnedOnce, pqh, pq, p, q, h, i
<1> QED BY <1>1, PipelineInvariance, PTL

(* The journal, and after it what the events on their way hold, is what    *)
(* process_market_data reported, in that order.                            *)
THEOREM ReportsKeptInOrder == Spec => []JournalInOrder
<1>1. IInv => JournalInOrder
  <2> SUFFICES ASSUME IInv PROVE JournalInOrder
    OBVIOUS
  <2> DEFINE R == [type : IOEventType, id : Nat \ {0}]
             Said(k) == [type |-> emitted[k].type, id |-> emitted[k].id]
             left == [k \in DOMAIN Pending |-> Record(pool[Pending[k]])]
             said == [k \in DOMAIN emitted |-> Said(k)]
             m == Len(journal)
             n == Len(emitted)
  <2>1. Types /\ Places /\ Delivery /\ io_filled_queue \in Seq(Event)
        /\ emitted \in Seq(ReportSet) /\ journal \in Seq(R)
    BY Zenon DEF IInv, TypeOK, Types
  <2>2. /\ InProcess \in {0, 1} /\ io.event \in Event \cup {None}
        /\ InProcess = 1 => io.event # None
    BY <2>1, HotType DEF InProcess, Places
  <2>3. /\ Pending \in Seq(Event) /\ Len(Pending) = InProcess + Len(io_filled_queue)
        /\ InProcess = 1 => Pending[1] = io.event
        /\ \A j \in DOMAIN io_filled_queue : Pending[InProcess + j] = io_filled_queue[j]
    <3>1. CASE InProcess = 1
      <4>1. Pending = <<io.event>> \o io_filled_queue /\ io.event \in Event
        BY <2>2, <3>1 DEF Pending, InProcess
      <4> QED BY <2>1, <3>1, <4>1
    <3>2. CASE InProcess = 0
      <4>0. io.pc \notin {"process", "drain_process"}
        BY <3>2 DEF InProcess
      <4>1. Pending = << >> \o io_filled_queue
        BY <4>0, Zenon DEF Pending
      <4>2. Pending = io_filled_queue
        BY <2>1, <4>1
      <4> QED BY <2>1, <3>2, <4>2
    <3> QED BY <2>2, <3>1, <3>2
  <2>4. m \in Nat /\ n \in Nat /\ Len(io_filled_queue) \in Nat /\ n = m + Len(Pending)
    <3>1. n = m + InProcess + Len(io_filled_queue)
      BY <2>1, Zenon DEF Delivery
    <3>2. m \in Nat
      BY <2>1
    <3>3. n \in Nat /\ Len(io_filled_queue) \in Nat
      BY <2>1
    <3> HIDE DEF m, n
    <3> QED BY <2>2, <2>3, <3>1, <3>2, <3>3
  <2>5. \A k \in 1 .. n : Said(k) \in R
    <3>1. \A k \in 1 .. n : emitted[k] \in ReportSet
      BY <2>1
    <3> QED BY <3>1 DEF ReportSet
  <2>6. said \in Seq(R) /\ Len(said) = n /\ \A k \in 1 .. n : said[k] = Said(k)
    <3>1. DOMAIN emitted = 1 .. n
      BY <2>1
    <3> HIDE DEF R, Said
    <3>2. said \in [1 .. n -> R] /\ \A k \in 1 .. n : said[k] = Said(k)
      BY <2>5, <3>1, Zenon
    <3> HIDE DEF said, n
    <3>3. n \in Nat
      BY <2>4
    <3> QED BY <3>2, <3>3
  <2>7. \A k \in 1 .. Len(Pending) : Record(pool[Pending[k]]) = Said(m + k)
    <3> SUFFICES ASSUME NEW k \in 1 .. Len(Pending)
                 PROVE  Record(pool[Pending[k]]) = Said(m + k)
      OBVIOUS
    <3>1. CASE InProcess = 1 /\ k = 1
      <4>1. Holds(io.event, emitted[m + 1])
        BY <2>1, <3>1, Zenon DEF Delivery
      <4> QED BY <2>3, <3>1, <4>1, Zenon DEF Holds
    <3>2. CASE ~ (InProcess = 1 /\ k = 1)
      <4>1. k - InProcess \in 1 .. Len(io_filled_queue) /\ k = InProcess + (k - InProcess)
            /\ m + k = m + InProcess + (k - InProcess)
        BY <2>2, <2>3, <2>4, <3>2
      <4>2. k - InProcess \in DOMAIN io_filled_queue
        BY <2>1, <4>1
      <4>3. Pending[k] = io_filled_queue[k - InProcess]
        BY <2>3, <4>1, <4>2, Zenon
      <4>4. Holds(io_filled_queue[k - InProcess], emitted[m + InProcess + (k - InProcess)])
        BY <2>1, <4>2, Zenon DEF Delivery
      <4> QED BY <4>1, <4>3, <4>4, Zenon DEF Holds
    <3> QED BY <3>1, <3>2
  <2>8. left \in Seq(R) /\ Len(left) = Len(Pending)
        /\ \A k \in 1 .. Len(Pending) : left[k] = Said(m + k)
    <3>1. DOMAIN Pending = 1 .. Len(Pending) /\ Len(Pending) \in Nat
      BY <2>3
    <3>2. \A k \in 1 .. Len(Pending) : m + k \in 1 .. n
      BY <2>4, <3>1
    <3> HIDE DEF R, Said
    <3>3. left \in [1 .. Len(Pending) -> R]
          /\ \A k \in 1 .. Len(Pending) : left[k] = Said(m + k)
      BY <2>5, <2>7, <3>1, <3>2, Zenon
    <3> HIDE DEF left
    <3> QED BY <3>1, <3>3
  <2>9. \A k \in 1 .. m : journal[k] = Said(k)
    <3>1. DOMAIN journal = 1 .. m
      BY <2>1
    <3> QED BY <2>1, <3>1, Zenon DEF Delivery
  <2> HIDE DEF R, Said, left, said, m, n
  <2>10. journal \o left \in Seq(R) /\ Len(journal \o left) = n
    <3>1. journal \o left \in Seq(R) /\ Len(journal \o left) = m + Len(left)
      BY <2>1, <2>8, ConcatProperties DEF m
    <3> QED BY <2>4, <2>8, <3>1, Zenon
  <2>11. \A k \in 1 .. n : (journal \o left)[k] = Said(k)
    <3> SUFFICES ASSUME NEW k \in 1 .. n PROVE (journal \o left)[k] = Said(k)
      OBVIOUS
    <3>1. CASE k \in 1 .. m
      <4>1. (journal \o left)[k] = journal[k]
        BY <2>1, <2>4, <2>8, <3>1 DEF m
      <4> QED BY <2>9, <3>1, <4>1, Zenon
    <3>2. CASE k \notin 1 .. m
      <4>1. (journal \o left)[k] = left[k - m] /\ k - m \in 1 .. Len(Pending)
            /\ m + (k - m) = k
        BY <2>1, <2>4, <2>8, <3>2 DEF m
      <4> QED BY <2>8, <4>1, Zenon
    <3> QED BY <3>1, <3>2
  <2>12. journal \o left = said
    <3>1. Len(journal \o left) = Len(said)
          /\ \A k \in 1 .. Len(journal \o left) : (journal \o left)[k] = said[k]
      BY <2>6, <2>10, <2>11, Zenon
    <3> QED BY <2>6, <2>10, <3>1, SeqEqual
  <2> QED BY <2>12, Zenon DEF JournalInOrder, left, said, Said
<1> QED BY <1>1, PipelineInvariance, PTL

=============================================================================
