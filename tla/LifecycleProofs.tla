-------------------------- MODULE LifecycleProofs ---------------------------
(***************************************************************************)
(* The shutdown of the program is in order for any number of events and    *)
(* signals, as long as signals only interrupt main in its loop.            *)
(***************************************************************************)
EXTENDS Lifecycle, TLAPS

(* A step of a context's pc. *)
LEMMA GoTo ==
  ASSUME Types, NEW c \in Contexts, NEW q \in AnyPc, Go(c, q)
  PROVE  /\ ctx' \in [Contexts -> [pc : AnyPc, ret : {"close", "destroy"}]]
         /\ ctx'[c].pc = q /\ ctx'[c].ret = ctx[c].ret
         /\ \A d \in Contexts \ {c} : ctx'[d] = ctx[d]
BY DEF Types, Go, Contexts

(* In a clean history the context that runs is the active one, and its     *)
(* step leaves the other where it was.                                     *)
LEMMA ActiveGoes ==
  ASSUME Types, OneContext, NEW c \in Contexts, NEW p \in AnyPc \ {"off"}, At(c, p),
         NEW q \in AnyPc, Go(c, q), sigOn' = sigOn,
         c = "main" => q \in MainPc, c = "handler" => q \in HandlerPc
  PROVE  /\ ActivePc = p /\ ActivePc' = q
         /\ OneContext'
         /\ IF c = "main" THEN ctx'["main"].pc = q ELSE ctx'["main"] = ctx["main"]
<1>1. /\ ctx'[c].pc = q /\ ctx'[c].ret = ctx[c].ret
      /\ \A d \in Contexts \ {c} : ctx'[d] = ctx[d]
  BY GoTo
<1>2. CASE c = "main"
  <2>1. sigOn = "none" /\ ctx["main"].pc = p /\ ctx["handler"].pc = "off"
    BY <1>2, Zenon DEF OneContext, At
  <2> QED BY <1>1, <1>2, <2>1 DEF OneContext, ActivePc, Active, Contexts
<1>3. CASE c = "handler"
  <2>1. sigOn = "main" /\ ctx["handler"].pc = p /\ ctx["main"].pc = "loop"
    BY <1>3 DEF OneContext, At
  <2> QED BY <1>1, <1>3, <2>1 DEF OneContext, ActivePc, Active, Contexts
<1> QED BY <1>2, <1>3 DEF Contexts

(* The same when main calls stop(). *)
LEMMA MainCalls ==
  ASSUME Types, OneContext, NEW p \in AnyPc, At("main", p), NEW r, sigOn' = sigOn,
         ctx' = [ctx EXCEPT !["main"] = [pc |-> "stop", ret |-> r]]
  PROVE  /\ ActivePc = p /\ ActivePc' = "stop"
         /\ OneContext'
         /\ ctx'["main"].pc # "loop"
<1>1. sigOn = "none" /\ ctx["main"].pc = p /\ ctx["handler"].pc = "off"
  BY Zenon DEF OneContext, At
<1> QED BY <1>1 DEF Types, OneContext, ActivePc, Active, Contexts, MainPc, StopPc

(* The stages of the program. *)
LEMMA Stages ==
  ASSUME OneContext
  PROVE  Stage \in {"create_io", "create_consumer", "up", "down"}
                     \cup Early \cup Failing \cup Joining \cup Late
BY DEF OneContext, Stage, StageOf, ActivePc, Active, MainPc, HandlerPc, StopPc, Early,
       Failing, Joining, Late

(* Steps of the workers leave the active context where it is. *)
LEMMA SameStage ==
  ASSUME OneContext, ctx' = ctx, sigOn' = sigOn, running' = running
  PROVE  OneContext' /\ ActivePc' = ActivePc /\ Stage' = Stage
BY DEF OneContext, Stage, StageOf, ActivePc, Active

(* A thread that is there is joined, without misuse. *)
LEMMA JoinsAlive ==
  ASSUME OneContext, NEW c, NEW t \in Workers, th[t] \in {"run", "exit"}, Join(c, t)
  PROVE  th' = [th EXCEPT ![t] = "joined"] /\ misuse' = misuse
BY DEF OneContext, Join, Workers

(* A history that is clean after a step was clean before it. *)
LEMMA CleanBefore == [Next]_vars /\ clean' => clean
BY DEF Next, Main, Startup, OpenJournal, Construct, InitLogger, InitRest,
       InitFails, Attach, StartFeed, StartFeedFails, CreateIO,
       CreateIOFails, CreateConsumer, CreateConsumerFails, StartFailed,
       TimeUp, Loop, Destructor, Destroy, Shutdown, StopCheck, StopClear,
       JoinConsumer, StopFeed, JoinFeed, JoinIO, StopGateway, StopLogger,
       JoinLogger, CloseJournal, ForgetJournal, NoJournal, Handler,
       HandlerReturn, Consumer, IO, FeedExit, Produce, ConsumerExit, IOPop,
       IOJournal, gw_send_order, IOExit, LoggerExit, Signal, Crash, Over,
       vars, signalVars

(* In a clean history every step of main on its way to the loop, and of    *)
(* its end, leaves the parts and the threads as the next stage expects.    *)
LEMMA StartupClean ==
  ASSUME IInv, clean, Startup
  PROVE  CleanInv'
<1> USE DEF IInv, CleanInv, Stage, StageOf, PartsAt, ThreadsAt, FeedAt, IOAt, ConsumerAt,
        LoggerAt, Early, Failing, Joining, Late, Connected
<1>a. Types /\ OneContext
  OBVIOUS
<1> HIDE DEF OneContext, ActivePc
<1>1. CASE OpenJournal
  <2>1. /\ ActivePc = "open" /\ ActivePc' = "construct" /\ OneContext'
        /\ ctx'["main"].pc = "construct"
    BY <1>a, <1>1, ActiveGoes DEF OpenJournal, MainGo, MainPc, AnyPc, StopPc, Contexts, signalVars
  <2> QED BY <1>a, <1>1, <2>1 DEF OpenJournal, Logged, Types, TypeOK, globals, workVars, Workers
<1>2. CASE Construct
  <2>1. /\ ActivePc = "construct" /\ ActivePc' = "init_logger" /\ OneContext'
        /\ ctx'["main"].pc = "init_logger"
    BY <1>a, <1>2, ActiveGoes DEF Construct, MainGo, MainPc, AnyPc, StopPc, Contexts, signalVars
  <2> QED BY <1>a, <1>2, <2>1 DEF Construct, Logged, Types, TypeOK, globals, workVars, Workers
<1>3. CASE InitLogger
  <2>1. /\ ActivePc = "init_logger" /\ ActivePc' = "init_rest" /\ OneContext'
        /\ ctx'["main"].pc = "init_rest"
    BY <1>a, <1>3, ActiveGoes DEF InitLogger, MainGo, MainPc, AnyPc, StopPc, Contexts, signalVars
  <2> QED BY <1>a, <1>3, <2>1 DEF InitLogger, Logged, Types, TypeOK, globals, workVars, Workers
<1>4. CASE InitRest
  <2>1. /\ ActivePc = "init_rest" /\ ActivePc' = "attach" /\ OneContext'
        /\ ctx'["main"].pc = "attach"
    BY <1>a, <1>4, ActiveGoes DEF InitRest, MainGo, MainPc, AnyPc, StopPc, Contexts, signalVars
  <2> QED BY <1>a, <1>4, <2>1 DEF InitRest, Logged, Types, TypeOK, globals, workVars, Workers
<1>5. CASE InitFails
  <2>1. /\ ActivePc \in {"init_logger", "init_rest"} /\ ActivePc' = "close" /\ OneContext'
        /\ ctx'["main"].pc = "close"
    BY <1>a, <1>5, ActiveGoes DEF InitFails, MainGo, MainPc, AnyPc, StopPc, Contexts, signalVars
  <2> QED BY <1>a, <1>5, <2>1 DEF InitFails, globals, workVars
<1>6. CASE Attach
  <2>1. /\ ActivePc = "attach" /\ ActivePc' = "start_feed" /\ OneContext'
        /\ ctx'["main"].pc = "start_feed"
    BY <1>a, <1>6, ActiveGoes DEF Attach, MainGo, MainPc, AnyPc, StopPc, Contexts, signalVars
  <2> QED BY <1>a, <1>6, <2>1 DEF Attach, Logged, Types, TypeOK, globals, workVars, Workers
<1>7. CASE StartFeed
  <2>1. /\ ActivePc = "start_feed" /\ ActivePc' = "create_io" /\ OneContext'
        /\ ctx'["main"].pc = "create_io"
    BY <1>a, <1>7, ActiveGoes DEF StartFeed, MainGo, MainPc, AnyPc, StopPc, Contexts, signalVars
  <2> QED BY <1>a, <1>7, <2>1 DEF StartFeed, Logged, Types, TypeOK, globals, workVars, Workers
<1>8. CASE StartFeedFails
  <2>1. /\ ActivePc = "start_feed" /\ ActivePc' = "close" /\ OneContext'
        /\ ctx'["main"].pc = "close"
    BY <1>a, <1>8, ActiveGoes DEF StartFeedFails, MainGo, MainPc, AnyPc, StopPc, Contexts, signalVars
  <2> QED BY <1>a, <1>8, <2>1 DEF StartFeedFails, Logged, Types, TypeOK, globals, workVars, Workers
<1>9. CASE CreateIO
  <2>1. /\ ActivePc = "create_io" /\ ActivePc' = "create_consumer" /\ OneContext'
        /\ ctx'["main"].pc = "create_consumer"
    BY <1>a, <1>9, ActiveGoes DEF CreateIO, MainGo, MainPc, AnyPc, StopPc, Contexts, signalVars
  <2> QED BY <1>a, <1>9, <2>1 DEF CreateIO, Logged, Types, TypeOK, globals, workVars, Workers
<1>10. CASE CreateIOFails
  <2>1. /\ ActivePc = "create_io" /\ ActivePc' = "fail_feed" /\ OneContext'
        /\ ctx'["main"].pc = "fail_feed"
    BY <1>a, <1>10, ActiveGoes DEF CreateIOFails, MainGo, MainPc, AnyPc, StopPc, Contexts, signalVars
  <2> QED BY <1>a, <1>10, <2>1 DEF CreateIOFails, Logged, Types, TypeOK, globals, workVars, Workers
<1>11. CASE CreateConsumer
  <2>1. /\ ActivePc = "create_consumer" /\ ActivePc' = "loop" /\ OneContext'
    BY <1>a, <1>11, ActiveGoes DEF CreateConsumer, MainGo, MainPc, AnyPc, StopPc, Contexts, signalVars
  <2> QED BY <1>a, <1>11, <2>1 DEF CreateConsumer, Logged, Types, TypeOK, globals, workVars, Workers
<1>12. CASE CreateConsumerFails
  <2>1. /\ ActivePc = "create_consumer" /\ ActivePc' = "fail_io" /\ OneContext'
        /\ ctx'["main"].pc = "fail_io"
    BY <1>a, <1>12, ActiveGoes DEF CreateConsumerFails, MainGo, MainPc, AnyPc, StopPc, Contexts, signalVars
  <2> QED BY <1>a, <1>12, <2>1 DEF CreateConsumerFails, Logged, Types, TypeOK, globals, workVars, Workers
<1>13. CASE StartFailed
  <2>1. /\ ActivePc = "fail_log" /\ ActivePc' = "close" /\ OneContext'
        /\ ctx'["main"].pc = "close"
    BY <1>a, <1>13, ActiveGoes DEF StartFailed, MainGo, MainPc, AnyPc, StopPc, Contexts, signalVars
  <2> QED BY <1>a, <1>13, <2>1 DEF StartFailed, Logged, Types, TypeOK, globals, workVars, Workers
<1>14. CASE TimeUp
  <2>1. /\ ActivePc = "loop" /\ ActivePc' = "stop" /\ OneContext'
        /\ ctx'["main"].pc # "loop"
    BY <1>a, <1>14, MainCalls DEF TimeUp, MainPc, AnyPc, Contexts, signalVars
  <2> QED BY <1>a, <1>14, <2>1 DEF TimeUp, globals, workVars
<1>15. CASE Loop
  <2>1. OneContext' /\ ActivePc' = ActivePc /\ Stage' = Stage
    BY <1>a, <1>15, SameStage DEF Loop, vars, signalVars
  <2> QED BY <1>15, <2>1 DEF Loop, vars, globals, workVars
<1>16. CASE Destructor
  <2>1. /\ ActivePc = "dtor" /\ ActivePc' = "stop" /\ OneContext'
        /\ ctx'["main"].pc # "loop"
    BY <1>a, <1>16, MainCalls DEF Destructor, MainPc, AnyPc, Contexts, signalVars
  <2> QED BY <1>a, <1>16, <2>1 DEF Destructor, globals, workVars
<1>17. CASE Destroy
  <2>1. /\ ActivePc = "destroy" /\ ActivePc' = "exited" /\ OneContext'
        /\ ctx'["main"].pc = "exited"
    BY <1>a, <1>17, ActiveGoes DEF Destroy, MainGo, MainPc, AnyPc, StopPc, Contexts, signalVars
  <2> QED BY <1>a, <1>17, <2>1 DEF Destroy, Logged, Types, TypeOK, globals, workVars, Workers
<1> QED BY <1>1, <1>2, <1>3, <1>4, <1>5, <1>6, <1>7, <1>8, <1>9, <1>10, <1>11, <1>12, <1>13, <1>14, <1>15, <1>16, <1>17 DEF Startup

(* The same for stop() and the closing of the journal, whoever runs them.  *)
LEMMA ShutdownClean ==
  ASSUME IInv, clean, NEW c \in Contexts, Shutdown(c)
  PROVE  CleanInv'
<1> USE DEF IInv, CleanInv, Stage, StageOf, PartsAt, ThreadsAt, FeedAt, IOAt, ConsumerAt,
        LoggerAt, Early, Failing, Joining, Late, Connected
<1>a. Types /\ OneContext /\ th \in [Workers -> {"none", "run", "exit", "joined"}]
  BY DEF TypeOK
<1>b. ASSUME NEW p \in AnyPc \ {"off"}, At(c, p), NEW q \in StopPc, Go(c, q), sigOn' = sigOn
      PROVE  /\ ActivePc = p /\ ActivePc' = q /\ OneContext'
             /\ ctx'["main"].pc # "loop" \/ ctx["main"].pc = "loop"
  BY <1>a, <1>b, ActiveGoes DEF MainPc, HandlerPc, StopPc, AnyPc, Contexts
<1> HIDE DEF OneContext, ActivePc
<1>1. CASE StopCheck(c)
  <2> DEFINE q == IF running THEN "clear" ELSE ctx[c].ret
  <2>1. Go(c, q) /\ At(c, "stop") /\ sigOn' = sigOn
    BY <1>1 DEF StopCheck, Return, signalVars
  <2>2. /\ q \in MainPc
        /\ c = "handler" => q \in HandlerPc
        /\ q \in {"clear", "close", "destroy"} /\ (~ running => q \in {"close", "destroy"})
    BY <1>a, <2>1 DEF Types, OneContext, At, MainPc, HandlerPc, StopPc, Contexts
  <2> HIDE DEF q
  <2>3. /\ ActivePc = "stop" /\ ActivePc' = q /\ OneContext'
        /\ ctx'["main"].pc # "loop" \/ ctx["main"].pc = "loop"
    BY <1>a, <2>1, <2>2, ActiveGoes DEF AnyPc, MainPc, StopPc
  <2>4. running => q = "clear"
    BY DEF q
  <2> QED BY <1>a, <1>1, <2>2, <2>3, <2>4 DEF StopCheck, Logged, globals, workVars
<1>2. CASE StopClear(c)
  <2>1. /\ ActivePc = "clear" /\ ActivePc' = "join_consumer" /\ OneContext'
        /\ ctx'["main"].pc # "loop" \/ ctx["main"].pc = "loop"
    BY <1>b, <1>2 DEF StopClear, AnyPc, MainPc, StopPc, signalVars
  <2> QED BY <1>a, <1>2, <2>1 DEF StopClear, Types, globals, workVars, Workers
<1>3. CASE JoinConsumer(c)
  <2>1. /\ ActivePc = "join_consumer" /\ ActivePc' = "stop_feed" /\ OneContext'
        /\ ctx'["main"].pc # "loop" \/ ctx["main"].pc = "loop"
    BY <1>b, <1>3 DEF JoinConsumer, AnyPc, MainPc, StopPc, signalVars
  <2>2. th' = [th EXCEPT !["consumer"] = "joined"] /\ misuse' = misuse
    BY <1>a, <1>3, <2>1, JoinsAlive DEF JoinConsumer, Workers
  <2> QED BY <1>a, <1>3, <2>1, <2>2 DEF JoinConsumer, Types, globals, workVars, Workers
<1>4. CASE StopFeed(c)
  <2>1. /\ \/ ActivePc = "stop_feed" /\ ActivePc' = "join_feed"
           \/ ActivePc = "fail_feed" /\ ActivePc' = "fail_join_feed"
        /\ OneContext'
        /\ ctx'["main"].pc # "loop" \/ ctx["main"].pc = "loop"
    <3>1. CASE At(c, "stop_feed") /\ Go(c, "join_feed")
      BY <1>4, <1>b, <3>1 DEF StopFeed, AnyPc, MainPc, StopPc, signalVars
    <3>2. CASE At(c, "fail_feed") /\ Go(c, "fail_join_feed")
      <4>1. c = "main"
        BY <1>a, <3>2 DEF OneContext, At, Contexts, HandlerPc, StopPc
      <4> QED BY <1>a, <1>4, <3>2, <4>1, ActiveGoes DEF StopFeed, AnyPc, MainPc, Contexts, signalVars
    <3> QED BY <1>4, <3>1, <3>2 DEF StopFeed
  <2> QED BY <1>a, <1>4, <2>1 DEF StopFeed, Types, globals, workVars
<1>5. CASE JoinFeed(c)
  <2>1. /\ \/ ActivePc = "join_feed" /\ ActivePc' = "join_io"
           \/ ActivePc = "fail_join_feed" /\ ActivePc' = "fail_log"
        /\ OneContext'
        /\ ctx'["main"].pc # "loop" \/ ctx["main"].pc = "loop"
    <3>1. CASE At(c, "join_feed") /\ Go(c, "join_io")
      BY <1>5, <1>b, <3>1 DEF JoinFeed, AnyPc, MainPc, StopPc, signalVars
    <3>2. CASE At(c, "fail_join_feed") /\ Go(c, "fail_log")
      <4>1. c = "main"
        BY <1>a, <3>2 DEF OneContext, At, Contexts, HandlerPc, StopPc
      <4> QED BY <1>a, <1>5, <3>2, <4>1, ActiveGoes DEF JoinFeed, AnyPc, MainPc, Contexts, signalVars
    <3> QED BY <1>5, <3>1, <3>2 DEF JoinFeed
  <2>2. th' = [th EXCEPT !["feed"] = "joined"] /\ misuse' = misuse
    BY <1>a, <1>5, <2>1, JoinsAlive DEF JoinFeed, Workers
  <2> QED BY <1>a, <1>5, <2>1, <2>2 DEF JoinFeed, globals, workVars, Workers
<1>6. CASE JoinIO(c)
  <2>1. /\ \/ ActivePc = "join_io" /\ ActivePc' = "gw_shutdown"
           \/ ActivePc = "fail_io" /\ ActivePc' = "fail_feed"
        /\ OneContext'
        /\ ctx'["main"].pc # "loop" \/ ctx["main"].pc = "loop"
    <3>1. CASE At(c, "join_io") /\ Go(c, "gw_shutdown")
      BY <1>6, <1>b, <3>1 DEF JoinIO, AnyPc, MainPc, StopPc, signalVars
    <3>2. CASE At(c, "fail_io") /\ Go(c, "fail_feed")
      <4>1. c = "main"
        BY <1>a, <3>2 DEF OneContext, At, Contexts, HandlerPc, StopPc
      <4> QED BY <1>a, <1>6, <3>2, <4>1, ActiveGoes DEF JoinIO, AnyPc, MainPc, Contexts, signalVars
    <3> QED BY <1>6, <3>1, <3>2 DEF JoinIO
  <2>2. th' = [th EXCEPT !["io"] = "joined"] /\ misuse' = misuse
    BY <1>a, <1>6, <2>1, JoinsAlive DEF JoinIO, Workers
  <2> QED BY <1>a, <1>6, <2>1, <2>2 DEF JoinIO, globals, workVars, Workers
<1>7. CASE StopGateway(c)
  <2>1. /\ ActivePc = "gw_shutdown" /\ ActivePc' = "stop_logger" /\ OneContext'
        /\ ctx'["main"].pc # "loop" \/ ctx["main"].pc = "loop"
    BY <1>b, <1>7 DEF StopGateway, AnyPc, MainPc, StopPc, signalVars
  <2> QED BY <1>a, <1>7, <2>1 DEF StopGateway, Logged, Types, globals, workVars, Workers
<1>8. CASE StopLogger(c)
  <2>1. /\ ActivePc = "stop_logger" /\ ActivePc' = "join_logger" /\ OneContext'
        /\ ctx'["main"].pc # "loop" \/ ctx["main"].pc = "loop"
    BY <1>b, <1>8 DEF StopLogger, AnyPc, MainPc, StopPc, signalVars
  <2> QED BY <1>a, <1>8, <2>1 DEF StopLogger, Types, globals, workVars, Workers
<1>9. CASE JoinLogger(c)
  <2> DEFINE q == ctx[c].ret
  <2>1. Go(c, q) /\ At(c, "join_logger") /\ sigOn' = sigOn
    BY <1>9 DEF JoinLogger, Return, signalVars
  <2>2. /\ q \in MainPc
        /\ c = "handler" => q \in HandlerPc
        /\ q \in {"close", "destroy"}
    BY <1>a, <2>1 DEF Types, OneContext, At, MainPc, HandlerPc, StopPc, Contexts
  <2> HIDE DEF q
  <2>3. /\ ActivePc = "join_logger" /\ ActivePc' = q /\ OneContext'
        /\ ctx'["main"].pc # "loop" \/ ctx["main"].pc = "loop"
    BY <1>a, <2>1, <2>2, ActiveGoes DEF AnyPc, MainPc, StopPc
  <2>4. th' = [th EXCEPT !["logger"] = "joined"] /\ misuse' = misuse
    BY <1>a, <1>9, <2>3, JoinsAlive DEF JoinLogger, Workers
  <2> QED BY <1>a, <1>9, <2>2, <2>3, <2>4 DEF JoinLogger, globals, workVars, Workers
<1>10. CASE CloseJournal(c)
  <2>1. /\ ActivePc = "close" /\ ActivePc' = "forget" /\ OneContext'
        /\ ctx'["main"].pc # "loop" \/ ctx["main"].pc = "loop"
    BY <1>b, <1>10 DEF CloseJournal, AnyPc, MainPc, StopPc, signalVars
  <2> QED BY <1>a, <1>10, <2>1 DEF CloseJournal, Types, globals, workVars, Workers
<1>11. CASE ForgetJournal(c)
  <2>1. /\ ActivePc = "forget" /\ ActivePc' \in {"dtor", "return"} /\ OneContext'
        /\ ctx'["main"].pc # "loop" \/ ctx["main"].pc = "loop"
    BY <1>a, <1>11, ActiveGoes DEF ForgetJournal, AfterClose, AnyPc, MainPc, HandlerPc, StopPc,
       Contexts, signalVars
  <2> QED BY <1>a, <1>11, <2>1 DEF ForgetJournal, globals, workVars
<1>12. CASE NoJournal(c)
  <2>1. /\ ActivePc = "close" /\ ActivePc' \in {"dtor", "return"} /\ OneContext'
        /\ ctx'["main"].pc # "loop" \/ ctx["main"].pc = "loop"
    BY <1>a, <1>12, ActiveGoes DEF NoJournal, AfterClose, AnyPc, MainPc, HandlerPc, StopPc,
       Contexts, signalVars
  <2> QED BY <1>a, <1>12, <2>1 DEF NoJournal, globals, workVars
<1> QED BY <1>1, <1>2, <1>3, <1>4, <1>5, <1>6, <1>7, <1>8, <1>9, <1>10, <1>11, <1>12
       DEF Shutdown

(* The workers find what they use: the I/O thread runs only while the      *)
(* logger runs, the journal is open and the gateway is connected.          *)
LEMMA WorkersClean ==
  ASSUME IInv, clean, FeedExit \/ Consumer \/ IO \/ LoggerExit
  PROVE  CleanInv'
<1> USE DEF IInv, CleanInv, PartsAt, ThreadsAt
<1>a. OneContext /\ th \in [Workers -> {"none", "run", "exit", "joined"}]
  BY DEF TypeOK
<1>s. Stage \in {"create_io", "create_consumer", "up", "down"}
                  \cup Early \cup Failing \cup Joining \cup Late
  BY Stages
<1>b. OneContext' /\ ActivePc' = ActivePc /\ Stage' = Stage
  BY SameStage DEF FeedExit, Consumer, Produce, ConsumerExit, IO, IOPop, IOJournal,
     gw_send_order, IOExit, LoggerExit, signalVars
<1>c. th["io"] = "run" => /\ flags.logger /\ gw.state = "GW_CONNECTED"
                          /\ attached => journal = "open"
  BY <1>s DEF IOAt, LoggerAt, Connected, Early, Failing, Joining, Late, Stage, StageOf
<1> HIDE DEF OneContext, ActivePc, Stage
<1> USE DEF FeedAt, IOAt, ConsumerAt, LoggerAt, Exit, Runs, Workers, globals, workVars
<1>1. CASE FeedExit
  BY <1>a, <1>b, <1>1 DEF FeedExit, Early, Late
<1>2. CASE Produce
  BY <1>b, <1>2 DEF Produce
<1>3. CASE ConsumerExit
  BY <1>a, <1>b, <1>3 DEF ConsumerExit, Early, Failing, Late
<1>4. CASE IOPop
  BY <1>b, <1>4 DEF IOPop
<1>5. CASE IOJournal
  BY <1>b, <1>c, <1>5 DEF IOJournal, Logged
<1>6. CASE gw_send_order
  BY <1>b, <1>c, <1>6 DEF gw_send_order, Types
<1>7. CASE IOExit
  BY <1>a, <1>b, <1>7 DEF IOExit, Early, Joining, Late
<1>8. CASE LoggerExit
  BY <1>a, <1>b, <1>8 DEF LoggerExit, Connected, Failing, Joining
<1> QED BY <1>1, <1>2, <1>3, <1>4, <1>5, <1>6, <1>7, <1>8 DEF Consumer, IO

(* A signal that keeps the history clean finds main in its loop, and the   *)
(* handler leaves it there.                                                *)
LEMMA SignalsClean ==
  ASSUME IInv, clean, clean',
         (\E t \in Workers \cup {"main"} : Signal(t)) \/ HandlerReturn
  PROVE  CleanInv'
<1>a. Types /\ OneContext /\ PartsAt(Stage)
  BY DEF IInv, CleanInv
<1>1. ASSUME NEW t \in Workers \cup {"main"}, Signal(t)
      PROVE  CleanInv'
  <2>1. t = "main" /\ ctx["main"].pc = "loop" /\ ctx["handler"].pc = "off" /\ sigOn' = "main"
    BY <1>1 DEF Signal
  <2>2. sigOn = "none"
    BY <1>a, <2>1 DEF OneContext, HandlerPc, StopPc, Joining, Late
  <2>3. ActivePc = "loop"
    BY <2>1, <2>2 DEF ActivePc, Active
  <2>4. g_pipeline
    BY <1>a, <2>3 DEF PartsAt, Stage, StageOf
  <2>5. ctx' = [ctx EXCEPT !["handler"] = [pc |-> "stop", ret |-> "close"]]
    BY <1>1, <2>4 DEF Signal
  <2>6. ActivePc' = "stop" /\ OneContext' /\ ctx'["main"].pc = "loop"
    BY <1>a, <2>1, <2>5 DEF Types, ActivePc, Active, OneContext, Contexts, HandlerPc,
       StopPc
  <2>7. Stage' = Stage
    BY <1>1, <2>3, <2>6 DEF Signal, Stage, StageOf
  <2> QED BY <1>1, <2>1, <2>3, <2>6, <2>7 DEF Signal, IInv, CleanInv, PartsAt, ThreadsAt,
             FeedAt, IOAt, ConsumerAt, LoggerAt, globals, workVars
<1>2. CASE HandlerReturn
  <2>1. sigOn = "main" /\ ctx["main"].pc = "loop" /\ ctx["handler"].pc = "return"
    BY <1>a, <1>2 DEF HandlerReturn, At, OneContext
  <2>2. ActivePc = "return"
    BY <2>1 DEF ActivePc, Active
  <2>3. ActivePc' = "loop" /\ OneContext' /\ ctx'["main"].pc = "loop"
    BY <1>a, <1>2, <2>1 DEF HandlerReturn, Go, Types, ActivePc, Active, OneContext,
       Contexts, MainPc
  <2>4. ~ running
    BY <1>a, <2>2 DEF PartsAt, Stage, StageOf
  <2>5. Stage' = Stage
    BY <1>2, <2>2, <2>3, <2>4 DEF HandlerReturn, Stage, StageOf
  <2> QED BY <1>2, <2>1, <2>2, <2>3, <2>5 DEF HandlerReturn, IInv, CleanInv, PartsAt,
             ThreadsAt, FeedAt, IOAt, ConsumerAt, LoggerAt, globals, workVars
<1> QED BY <1>1, <1>2

(* The types are kept by every step, clean or not. *)
LEMMA NextTypes == TypeOK /\ Types /\ [Next]_vars => TypeOK' /\ Types'
<1> SUFFICES ASSUME TypeOK, Types, [Next]_vars PROVE TypeOK' /\ Types'
  OBVIOUS
<1>b. MaxEvents \in Nat
  BY BoundsAssumption
<1>g. ASSUME NEW c \in Contexts, NEW q \in AnyPc, Go(c, q)
      PROVE  ctx' \in [Contexts -> [pc : AnyPc, ret : {"close", "destroy"}]]
  BY <1>g, GoTo
<1>r. \A c \in Contexts : ctx[c].ret \in AnyPc
  BY DEF Types, AnyPc, MainPc, StopPc
<1>l. Logged \subseteq {"log"}
  BY DEF Logged
<1>j. ASSUME NEW c, NEW t \in Workers, Join(c, t)
      PROVE  /\ th' \in [Workers -> {"none", "run", "exit", "joined"}]
             /\ misuse' \subseteq {"journal", "join", "log"}
  BY <1>j DEF Join, TypeOK
<1>m. "main" \in Contexts /\ "handler" \in Contexts
  BY DEF Contexts
<1>p. AnyPc = {"create_io", "create_consumer", "loop", "dtor", "destroy", "exited",
               "open", "construct", "init_logger", "init_rest", "attach", "start_feed",
               "fail_io", "fail_feed", "fail_join_feed", "fail_log", "stop", "clear",
               "close", "forget", "join_consumer", "stop_feed", "join_feed", "join_io",
               "gw_shutdown", "stop_logger", "join_logger", "return", "off", "crashed"}
  BY DEF AnyPc, MainPc, HandlerPc, StopPc, Early, Failing, Joining, Late
<1>1. CASE Startup
  <2>1. ctx' \in [Contexts -> [pc : AnyPc, ret : {"close", "destroy"}]]
    <3>1. ASSUME NEW p, NEW q \in AnyPc, MainGo(p, q)
          PROVE  ctx' \in [Contexts -> [pc : AnyPc, ret : {"close", "destroy"}]]
      BY <1>g, <1>m, <3>1 DEF MainGo
    <3>2. CASE TimeUp \/ Destructor
      BY <1>p, <3>2 DEF TimeUp, Destructor, Types
    <3>3. CASE Loop
      BY <3>3 DEF Loop, vars, Types
    <3> QED BY <1>1, <1>p, <3>1, <3>2, <3>3 DEF Startup, OpenJournal, Construct,
                InitLogger, InitRest, InitFails, Attach, StartFeed, StartFeedFails,
                CreateIO, CreateIOFails, CreateConsumer, CreateConsumerFails,
                StartFailed, Destroy
  <2>2. CASE OpenJournal \/ Construct \/ InitFails \/ Attach
    BY <2>1, <2>2 DEF OpenJournal, Construct, InitFails, Attach, TypeOK, Types, globals,
       workVars, signalVars
  <2>6. CASE InitLogger
    <3>1. /\ th' \in [Workers -> {"none", "run", "exit", "joined"}]
          /\ flags' \in [feed : BOOLEAN, logger : BOOLEAN]
      BY <2>6 DEF InitLogger, TypeOK, Types, Workers
    <3> QED BY <2>1, <2>6, <3>1 DEF InitLogger, TypeOK, Types, globals, workVars, signalVars
  <2>7. CASE InitRest
    <3>1. /\ gw'.state \in {"GW_CONNECTED", "GW_DISCONNECTED"}
          /\ gw' \in [state : {"GW_CONNECTED", "GW_DISCONNECTED"}, sim_file : BOOLEAN,
                      sent : Nat, acked : Nat]
      BY <2>7 DEF InitRest, Types
    <3> QED BY <2>1, <2>7, <3>1 DEF InitRest, TypeOK, Types, globals, workVars, signalVars
  <2>3. CASE StartFeed \/ CreateIO \/ CreateConsumer
    <3>1. th' \in [Workers -> {"none", "run", "exit", "joined"}]
      BY <2>3 DEF StartFeed, CreateIO, CreateConsumer, TypeOK, Workers
    <3>2. flags' \in [feed : BOOLEAN, logger : BOOLEAN]
      BY <2>3 DEF StartFeed, CreateIO, CreateConsumer, Types
    <3>3. misuse' \subseteq {"journal", "join", "log"}
      BY <1>l, <2>3 DEF StartFeed, CreateIO, CreateConsumer, TypeOK
    <3> QED BY <2>1, <2>3, <3>1, <3>2, <3>3 DEF StartFeed, CreateIO, CreateConsumer, TypeOK, Types,
               globals, workVars, signalVars
  <2>5. CASE StartFeedFails \/ CreateIOFails \/ CreateConsumerFails \/ StartFailed
    <3>1. misuse' \subseteq {"journal", "join", "log"}
      BY <1>l, <2>5 DEF StartFeedFails, CreateIOFails, CreateConsumerFails, StartFailed,
         TypeOK
    <3> QED BY <2>1, <2>5, <3>1 DEF StartFeedFails, CreateIOFails, CreateConsumerFails,
               StartFailed, TypeOK, Types, globals, workVars, signalVars
  <2>4. CASE TimeUp \/ Loop \/ Destructor \/ Destroy
    BY <2>1, <2>4 DEF TimeUp, Loop, Destructor, Destroy, TypeOK, Types, Workers, globals,
       workVars, signalVars, vars
  <2> QED BY <1>1, <2>2, <2>3, <2>4, <2>5, <2>6, <2>7 DEF Startup
<1>2. ASSUME NEW c \in Contexts, Shutdown(c)
      PROVE  TypeOK' /\ Types'
  <2>1. ctx' \in [Contexts -> [pc : AnyPc, ret : {"close", "destroy"}]]
    BY <1>2, <1>g, <1>r, <1>p DEF Shutdown, StopCheck, StopClear, JoinConsumer, StopFeed,
       JoinFeed, JoinIO, StopGateway, StopLogger, JoinLogger, CloseJournal,
       ForgetJournal, NoJournal, Return, AfterClose
  <2>2. CASE JoinConsumer(c) \/ JoinFeed(c) \/ JoinIO(c) \/ JoinLogger(c)
    BY <1>j, <2>1, <2>2 DEF JoinConsumer, JoinFeed, JoinIO, JoinLogger, TypeOK, Types,
       Workers, globals, workVars, signalVars
  <2>3. CASE StopCheck(c) \/ StopClear(c) \/ StopFeed(c) \/ StopGateway(c) \/ StopLogger(c)
    BY <1>l, <2>1, <2>3 DEF StopCheck, StopClear, StopFeed, StopGateway, StopLogger,
       TypeOK, Types, globals, workVars, signalVars
  <2>4. CASE CloseJournal(c) \/ ForgetJournal(c) \/ NoJournal(c)
    BY <2>1, <2>4 DEF CloseJournal, ForgetJournal, NoJournal, TypeOK, Types, globals,
       workVars, signalVars
  <2> QED BY <1>2, <2>2, <2>3, <2>4 DEF Shutdown
<1>3. CASE HandlerReturn
  <2>1. ctx' \in [Contexts -> [pc : AnyPc, ret : {"close", "destroy"}]]
    BY <1>3, <1>g, <1>m, <1>p DEF HandlerReturn
  <2> QED BY <1>3, <2>1 DEF HandlerReturn, TypeOK, Types, globals, workVars
<1>4. CASE FeedExit \/ ConsumerExit \/ IOExit \/ LoggerExit
  <2>1. th' \in [Workers -> {"none", "run", "exit", "joined"}]
    BY <1>4 DEF FeedExit, ConsumerExit, IOExit, LoggerExit, Exit, TypeOK, Workers
  <2> QED BY <1>4, <2>1 DEF FeedExit, ConsumerExit, IOExit, LoggerExit, TypeOK, Types,
             globals, workVars, signalVars
<1>5. CASE Produce \/ IOPop
  <2>1. /\ produced' \in 0 .. MaxEvents /\ pending' \in 0 .. MaxEvents
        /\ pending' <= produced'
    BY <1>b, <1>5 DEF Produce, IOPop, TypeOK, Types
  <2> QED BY <1>5, <2>1 DEF Produce, IOPop, TypeOK, Types, globals, signalVars
<1>6. CASE IOJournal \/ gw_send_order
  <2>1. misuse' \subseteq {"journal", "join", "log"}
    BY <1>l, <1>6 DEF IOJournal, gw_send_order, TypeOK
  <2>2. refused' \in Nat /\ gw'.state = gw.state
        /\ gw' \in [state : {"GW_CONNECTED", "GW_DISCONNECTED"}, sim_file : BOOLEAN,
                    sent : Nat, acked : Nat]
    <3>1. CASE UNCHANGED gw
      BY <1>6, <3>1 DEF IOJournal, gw_send_order, Types
    <3>2. CASE gw_send_order /\ ~ UNCHANGED gw
      <4> DEFINE a == IF gw.sim_file THEN gw.acked + 1 ELSE gw.acked
      <4>1. gw' = [gw EXCEPT !.sent = @ + 1, !.acked = a] /\ refused' = refused
        BY <3>2, Zenon DEF gw_send_order
      <4>2. a \in Nat
        BY DEF Types
      <4> HIDE DEF a
      <4>3. gw' = [state |-> gw.state, sim_file |-> gw.sim_file, sent |-> gw.sent + 1,
                   acked |-> a]
        BY <4>1 DEF Types
      <4>4. gw.state \in {"GW_CONNECTED", "GW_DISCONNECTED"} /\ gw.sim_file \in BOOLEAN
            /\ gw.sent + 1 \in Nat
        BY DEF Types
      <4> QED BY <4>1, <4>2, <4>3, <4>4, Zenon DEF Types
    <3> QED BY <1>6, <3>1, <3>2 DEF IOJournal
  <2> QED BY <1>6, <2>1, <2>2 DEF IOJournal, gw_send_order, TypeOK, Types, globals,
             signalVars
<1>7. ASSUME NEW t \in Workers \cup {"main"}, Signal(t)
      PROVE  TypeOK' /\ Types'
  <2>1. ctx' \in [Contexts -> [pc : AnyPc, ret : {"close", "destroy"}]]
    BY <1>7, <1>p DEF Signal, Types, Contexts
  <2> QED BY <1>7, <2>1 DEF Signal, TypeOK, Types, globals, workVars
<1>8. CASE Crash
  <2>1. ctx' \in [Contexts -> [pc : AnyPc, ret : {"close", "destroy"}]]
    BY <1>8, <1>p DEF Crash, Types, Contexts
  <2> QED BY <1>8, <2>1 DEF Crash, TypeOK, Types, globals, workVars, signalVars
<1>9. CASE UNCHANGED vars
  BY <1>9 DEF TypeOK, Types, vars, workVars, signalVars, globals
<1> QED BY <1>1, <1>2, <1>3, <1>4, <1>5, <1>6, <1>7, <1>8, <1>9, <1>m
       DEF Next, Main, Handler, Consumer, IO, Over

(* The invariant holds when main begins. *)
LEMMA InitIInv == Init => IInv
<1> SUFFICES ASSUME Init PROVE IInv
  OBVIOUS
<1>1. Types
  BY BoundsAssumption DEF Init, Types, Contexts, AnyPc, MainPc, Early
<1>2. TypeOK
  BY BoundsAssumption DEF Init, TypeOK, Workers
<1>3. OneContext /\ ActivePc = "open"
  BY DEF Init, OneContext, ActivePc, Active, Contexts, MainPc, Early
<1>4. Stage = "open"
  BY <1>3 DEF Stage, StageOf
<1>5. PartsAt("open")
  BY <1>3 DEF Init, PartsAt, Contexts, Failing, Connected, Joining
<1>6. ThreadsAt("open")
  BY DEF Init, ThreadsAt, FeedAt, IOAt, ConsumerAt, LoggerAt, Workers, Early, Failing,
     Joining, Late, Connected
<1> QED BY <1>1, <1>2, <1>3, <1>4, <1>5, <1>6 DEF Init, IInv, CleanInv

(* The invariant holds after every step of main, of the signal handler and *)
(* of the workers.                                                         *)
LEMMA NextIInv == IInv /\ [Next]_vars => IInv'
<1> SUFFICES ASSUME IInv, [Next]_vars PROVE IInv'
  OBVIOUS
<1>1. TypeOK' /\ Types'
  BY NextTypes DEF IInv
<1>2. ASSUME clean' PROVE CleanInv'
  <2>1. clean
    BY <1>2, CleanBefore
  <2>2. CASE UNCHANGED vars
    <3>1. CleanInv /\ OneContext
      BY <2>1 DEF IInv, CleanInv
    <3>2. OneContext' /\ ActivePc' = ActivePc /\ Stage' = Stage
      BY <2>2, <3>1, SameStage DEF vars, signalVars
    <3> QED BY <2>2, <3>1, <3>2 DEF CleanInv, PartsAt, ThreadsAt, FeedAt, IOAt,
               ConsumerAt, LoggerAt, vars, workVars, globals
  <2>3. CASE Crash
    BY <2>1, <2>3 DEF IInv, CleanInv, Crash
  <2>4. "main" \in Contexts /\ "handler" \in Contexts
    BY DEF Contexts
  <2> QED BY <1>2, <2>1, <2>2, <2>3, <2>4, StartupClean, ShutdownClean, WorkersClean,
             SignalsClean DEF Next, Main, Handler, Over
<1> QED BY <1>1, <1>2 DEF IInv

(* IInv is an invariant of the program for every bound on the events and   *)
(* on the signals.                                                         *)
THEOREM LifecycleInvariance == Spec => []IInv
BY InitIInv, NextIInv, PTL DEF Spec

(* Nothing is used when it is gone, whichever of main, the handler and the *)
(* destructor stops the pipeline and closes the journal, and however often *)
(* a signal comes while main is in its loop.                               *)
THEOREM ShutdownInOrder == Spec => []UsedInTime
<1>1. IInv => UsedInTime
  BY DEF IInv, CleanInv, UsedInTime
<1> QED BY LifecycleInvariance, <1>1, PTL

(* When main destroys the pipeline, no thread is left that uses it, but    *)
(* for the logger thread after a failed init() or start().                 *)
THEOREM ThreadsGoneFirst == Spec => []DestroyedAlone
<1>1. IInv => DestroyedAlone
  <2> SUFFICES ASSUME IInv, clean, ctx["main"].pc \in {"destroy", "exited"}
               PROVE  {t \in Workers : th[t] \in {"run", "exit"}}
                        \subseteq (IF failed THEN {"logger"} ELSE {})
    BY DEF DestroyedAlone
  <2>1. Stage = "down"
    BY DEF IInv, CleanInv, OneContext, Stage, StageOf, ActivePc, Active
  <2>2. ThreadsAt("down")
    BY <2>1 DEF IInv, CleanInv
  <2> QED BY <2>2 DEF ThreadsAt, FeedAt, IOAt, ConsumerAt, LoggerAt, Workers
<1> QED BY LifecycleInvariance, <1>1, PTL
=============================================================================
