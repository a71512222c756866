----------------------------- MODULE Lifecycle ------------------------------
(***************************************************************************)
(* The program from the first line of main() to its return (src/main.cpp): *)
(* the journal is opened, the pipeline initialised, started, stopped and   *)
(* destroyed, each of which can fail half way, while SIGINT or SIGTERM can *)
(* interrupt any thread and run signal_handler on it.  The handler calls   *)
(* the same stop() as main and closes the same journal.                    *)
(*                                                                         *)
(* main and the handler are two contexts that execute the same code.  The  *)
(* threads of the pipeline are reduced to what they use (EventPipeline,    *)
(* FeedHandler and Logger have the rest).  A use of something that is      *)
(* gone is recorded in misuse; from then on the program may also crash.    *)
(***************************************************************************)
EXTENDS Integers, FiniteSets

CONSTANTS
  MaxEvents,    \* bound of the model: events the consumer hands to the I/O thread
  MaxSignals    \* bound of the model: signals delivered

ASSUME BoundsAssumption == MaxEvents \in Nat /\ MaxSignals \in Nat

Workers == {"feed", "io", "consumer", "logger"}
Contexts == {"main", "handler"}

VARIABLES
  duration,    \* duration_sec > 0
  ctx,         \* pc of main and of the handler, and where their stop() returns to
  sigOn,       \* the thread the handler runs on, or "none"
  signals,     \* number of signals delivered
  th,          \* state of each worker thread
  running,     \* running_
  flags,       \* fh->running and log->running
  g_pipeline,  \* g_pipeline is set
  g_journal,   \* g_journal is set
  journal,     \* the journal: "none", "open" or "closed"
  attached,    \* the pipeline's journal_ is set
  gw,          \* the execution gateway
  io,          \* the I/O thread's pc
  pending,     \* events in io_filled_queue_
  produced,    \* number of events produced
  refused,     \* history: orders gw_send_order did not take
  clean,       \* history: signals have only interrupted main in its loop
  failed,      \* history: init() or start() has failed
  misuse       \* history: uses of something not there

globals == <<g_pipeline, g_journal, journal, attached>>
signalVars == <<sigOn, signals, clean>>
workVars == <<io, pending, produced, refused>>
vars == <<duration, ctx, signalVars, th, running, flags, globals, gw, workVars,
          failed, misuse>>

Init ==
  /\ duration \in BOOLEAN
  /\ ctx = [c \in Contexts |-> [pc |-> IF c = "main" THEN "open" ELSE "off", ret |-> "close"]]
  /\ sigOn = "none"
  /\ signals = 0
  /\ th = [t \in Workers |-> "none"]
  /\ running = FALSE
  /\ flags = [feed |-> FALSE, logger |-> FALSE]
  /\ g_pipeline = FALSE
  /\ g_journal = FALSE
  /\ journal = "none"
  /\ attached = FALSE
  /\ gw = [state |-> "GW_DISCONNECTED", sim_file |-> FALSE, sent |-> 0, acked |-> 0]
  /\ io = "check"
  /\ pending = 0
  /\ produced = 0
  /\ refused = 0
  /\ clean = TRUE
  /\ failed = FALSE
  /\ misuse = {}

-----------------------------------------------------------------------------
(* A context goes on unless the handler runs on top of it. *)
At(c, pc) ==
  /\ ctx[c].pc = pc
  /\ c = "main" => sigOn # "main"
  /\ c = "handler" => ctx["main"].pc # "exited"

Go(c, pc) == ctx' = [ctx EXCEPT ![c].pc = pc]

MainGo(from, to) == At("main", from) /\ Go("main", to)

(* logger_write: what is logged once the logger was shut down is lost. *)
Logged == IF flags.logger THEN {} ELSE {"log"}

-----------------------------------------------------------------------------
(***************************************************************************)
(* main() up to its loop, with EventPipeline::init and ::start             *)
(***************************************************************************)
OpenJournal ==
  /\ MainGo("open", "construct")
  /\ \E ok \in BOOLEAN : g_journal' = ok /\ journal' = IF ok THEN "open" ELSE "none"
  /\ UNCHANGED <<duration, signalVars, th, running, flags, g_pipeline, attached, gw,
                 workVars, failed, misuse>>

Construct_NotPublished ==
  /\ MainGo("construct", "init_logger")
  /\ UNCHANGED <<duration, signalVars, th, running, flags, globals, gw, workVars,
                 failed, misuse>>

Construct ==
  /\ MainGo("construct", "init_logger")
  /\ g_pipeline' = TRUE
  /\ UNCHANGED <<duration, signalVars, th, running, flags, g_journal, journal, attached,
                 gw, workVars, failed, misuse>>

InitLogger ==
  /\ MainGo("init_logger", "init_rest")
  /\ th' = [th EXCEPT !["logger"] = "run"]
  /\ flags' = [flags EXCEPT !.logger = TRUE]
  /\ UNCHANGED <<duration, signalVars, running, globals, gw, workVars, failed, misuse>>

(* The other parts of init(): book, risk engine, gateway, feed, queues. *)
InitRest ==
  /\ MainGo("init_rest", "attach")
  /\ \E file \in BOOLEAN : gw' = [gw EXCEPT !.state = "GW_CONNECTED", !.sim_file = file]
  /\ UNCHANGED <<duration, signalVars, th, running, flags, globals, workVars, failed, misuse>>

(* init() fails: main closes the journal and returns. *)
InitFails ==
  /\ MainGo("init_logger", "close") \/ MainGo("init_rest", "close")
  /\ failed' = TRUE
  /\ UNCHANGED <<duration, signalVars, th, running, flags, globals, gw, workVars, misuse>>

(* set_journal *)
Attach ==
  /\ MainGo("attach", "start_feed")
  /\ attached' = g_journal
  /\ UNCHANGED <<duration, signalVars, th, running, flags, g_pipeline, g_journal, journal,
                 gw, workVars, failed, misuse>>

(* start() logs, starts the feed and sets running_. *)
StartFeed ==
  /\ MainGo("start_feed", "create_io")
  /\ th' = [th EXCEPT !["feed"] = "run"]
  /\ flags' = [flags EXCEPT !.feed = TRUE]
  /\ running' = TRUE
  /\ misuse' = misuse \cup Logged
  /\ UNCHANGED <<duration, signalVars, globals, gw, workVars, failed>>

StartFeedFails ==
  /\ MainGo("start_feed", "close")
  /\ failed' = TRUE
  /\ misuse' = misuse \cup Logged
  /\ UNCHANGED <<duration, signalVars, th, running, flags, globals, gw, workVars>>

CreateIO ==
  /\ MainGo("create_io", "create_consumer")
  /\ th' = [th EXCEPT !["io"] = "run"]
  /\ UNCHANGED <<duration, signalVars, running, flags, globals, gw, workVars, failed, misuse>>

CreateIOFails ==
  /\ MainGo("create_io", "fail_feed")
  /\ running' = FALSE
  /\ failed' = TRUE
  /\ UNCHANGED <<duration, signalVars, th, flags, globals, gw, workVars, misuse>>

CreateConsumer ==
  /\ MainGo("create_consumer", "loop")
  /\ th' = [th EXCEPT !["consumer"] = "run"]
  /\ misuse' = misuse \cup Logged
  /\ UNCHANGED <<duration, signalVars, running, flags, globals, gw, workVars, failed>>

CreateConsumerFails_NoJoin ==
  /\ MainGo("create_consumer", "fail_feed")
  /\ running' = FALSE
  /\ failed' = TRUE
  /\ UNCHANGED <<duration, signalVars, th, flags, globals, gw, workVars, misuse>>

CreateConsumerFails ==
  /\ MainGo("create_consumer", "fail_io")
  /\ running' = FALSE
  /\ failed' = TRUE
  /\ UNCHANGED <<duration, signalVars, th, flags, globals, gw, workVars, misuse>>

(* start() has stopped what it had started; it logs that and returns -1. *)
StartFailed ==
  /\ MainGo("fail_log", "close")
  /\ misuse' = misuse \cup Logged
  /\ UNCHANGED <<duration, signalVars, th, running, flags, globals, gw, workVars, failed>>

(* The loop ends when the time is up; without a duration it never does. *)
TimeUp ==
  /\ At("main", "loop")
  /\ duration
  /\ ctx' = [ctx EXCEPT !["main"] = [pc |-> "stop", ret |-> "close"]]
  /\ UNCHANGED <<duration, signalVars, th, running, flags, globals, gw, workVars,
                 failed, misuse>>

(* sleep(1) and print_stats *)
Loop == At("main", "loop") /\ UNCHANGED vars

-----------------------------------------------------------------------------
(***************************************************************************)
(* EventPipeline::stop, by main or by the handler                          *)
(***************************************************************************)
Return(c) == Go(c, ctx[c].ret)

StopCheck_Always(c) ==
  /\ At(c, "stop")
  /\ Go(c, "clear")
  /\ misuse' = misuse \cup (IF running THEN Logged ELSE {})
  /\ UNCHANGED <<duration, signalVars, th, running, flags, globals, gw, workVars, failed>>

StopCheck(c) ==
  /\ At(c, "stop")
  /\ IF running THEN Go(c, "clear") ELSE Return(c)
  /\ misuse' = misuse \cup (IF running THEN Logged ELSE {})
  /\ UNCHANGED <<duration, signalVars, th, running, flags, globals, gw, workVars, failed>>

StopClear_Kept(c) ==
  /\ At(c, "clear")
  /\ Go(c, "join_consumer")
  /\ UNCHANGED <<duration, signalVars, th, running, flags, globals, gw, workVars,
                 failed, misuse>>

StopClear(c) ==
  /\ At(c, "clear")
  /\ running' = FALSE
  /\ Go(c, "join_consumer")
  /\ UNCHANGED <<duration, signalVars, th, flags, globals, gw, workVars, failed, misuse>>

(* pthread_join(t): waits for the exit of t.  A handler that runs on t     *)
(* itself gets EDEADLK; to join a thread that was joined or never created  *)
(* is undefined.                                                           *)
Join(c, t) ==
  \/ /\ th[t] = "exit"
     /\ th' = [th EXCEPT ![t] = "joined"]
     /\ UNCHANGED misuse
  \/ /\ c = "handler" /\ sigOn = t
     /\ UNCHANGED <<th, misuse>>
  \/ /\ th[t] \in {"none", "joined"}
     /\ misuse' = misuse \cup {"join"}
     /\ UNCHANGED th

JoinConsumer(c) ==
  /\ At(c, "join_consumer")
  /\ Join(c, "consumer")
  /\ Go(c, "stop_feed")
  /\ UNCHANGED <<duration, signalVars, running, flags, globals, gw, workVars, failed>>

(* feed_stop, by stop() and after a failed start() *)
StopFeed(c) ==
  /\ \/ At(c, "stop_feed") /\ Go(c, "join_feed")
     \/ At(c, "fail_feed") /\ Go(c, "fail_join_feed")
  /\ flags' = [flags EXCEPT !.feed = FALSE]
  /\ UNCHANGED <<duration, signalVars, th, running, globals, gw, workVars, failed, misuse>>

JoinFeed(c) ==
  /\ \/ At(c, "join_feed") /\ Go(c, "join_io")
     \/ At(c, "fail_join_feed") /\ Go(c, "fail_log")
  /\ Join(c, "feed")
  /\ UNCHANGED <<duration, signalVars, running, flags, globals, gw, workVars, failed>>

JoinIO_NotAwaited(c) ==
  /\ \/ At(c, "join_io") /\ Go(c, "gw_shutdown")
     \/ At(c, "fail_io") /\ Go(c, "fail_feed")
  /\ UNCHANGED <<duration, signalVars, th, running, flags, globals, gw, workVars, failed, misuse>>

JoinIO(c) ==
  /\ \/ At(c, "join_io") /\ Go(c, "gw_shutdown")
     \/ At(c, "fail_io") /\ Go(c, "fail_feed")
  /\ Join(c, "io")
  /\ UNCHANGED <<duration, signalVars, running, flags, globals, gw, workVars, failed>>

(* gw_shutdown, then the final statistics are logged. *)
StopGateway(c) ==
  /\ At(c, "gw_shutdown")
  /\ gw' = [gw EXCEPT !.state = "GW_DISCONNECTED"]
  /\ misuse' = misuse \cup Logged
  /\ Go(c, "stop_logger")
  /\ UNCHANGED <<duration, signalVars, th, running, flags, globals, workVars, failed>>

(* logger_shutdown *)
StopLogger(c) ==
  /\ At(c, "stop_logger")
  /\ flags' = [flags EXCEPT !.logger = FALSE]
  /\ Go(c, "join_logger")
  /\ UNCHANGED <<duration, signalVars, th, running, globals, gw, workVars, failed, misuse>>

JoinLogger(c) ==
  /\ At(c, "join_logger")
  /\ Join(c, "logger")
  /\ Return(c)
  /\ UNCHANGED <<duration, signalVars, running, flags, globals, gw, workVars, failed>>

-----------------------------------------------------------------------------
(***************************************************************************)
(* Closing the journal, by main or by the handler, and what follows        *)
(***************************************************************************)
AfterClose(c) == IF c = "main" THEN "dtor" ELSE "return"

CloseJournal(c) ==
  /\ At(c, "close")
  /\ g_journal
  /\ misuse' = IF journal = "closed" THEN misuse \cup {"journal"} ELSE misuse
  /\ journal' = "closed"
  /\ Go(c, "forget")
  /\ UNCHANGED <<duration, signalVars, th, running, flags, g_pipeline, g_journal,
                 attached, gw, workVars, failed>>

(* g_journal = nullptr *)
ForgetJournal(c) ==
  /\ At(c, "forget")
  /\ g_journal' = FALSE
  /\ Go(c, AfterClose(c))
  /\ UNCHANGED <<duration, signalVars, th, running, flags, g_pipeline, journal,
                 attached, gw, workVars, failed, misuse>>

NoJournal(c) ==
  /\ At(c, "close")
  /\ ~ g_journal
  /\ Go(c, AfterClose(c))
  /\ UNCHANGED <<duration, signalVars, th, running, flags, globals, gw, workVars,
                 failed, misuse>>

(* ~EventPipeline: stop() first, then the parts are destroyed. *)
Destructor ==
  /\ At("main", "dtor")
  /\ ctx' = [ctx EXCEPT !["main"] = [pc |-> "stop", ret |-> "destroy"]]
  /\ UNCHANGED <<duration, signalVars, th, running, flags, globals, gw, workVars,
                 failed, misuse>>

Destroy ==
  /\ MainGo("destroy", "exited")
  /\ gw' = [gw EXCEPT !.sim_file = FALSE]
  /\ UNCHANGED <<duration, signalVars, th, running, flags, globals, workVars, failed,
                 misuse>>

-----------------------------------------------------------------------------
(***************************************************************************)
(* signal_handler                                                          *)
(***************************************************************************)
Ended == ctx["main"].pc \in {"exited", "crashed"}

(* A signal is taken by any thread.  The model delivers the next one when  *)
(* this one is handled; in the program another thread may take it earlier, *)
(* but that is not a clean history, and nothing is claimed of the others.  *)
Signal(t) ==
  /\ ~ Ended
  /\ ctx["handler"].pc = "off"
  /\ signals < MaxSignals
  /\ t # "main" => th[t] = "run"
  /\ signals' = signals + 1
  /\ sigOn' = t
  /\ clean' = (clean /\ t = "main" /\ ctx["main"].pc = "loop")
  /\ ctx' = [ctx EXCEPT !["handler"] =
               [pc |-> IF g_pipeline THEN "stop" ELSE "close", ret |-> "close"]]
  /\ UNCHANGED <<duration, th, running, flags, globals, gw, workVars, failed, misuse>>

HandlerReturn ==
  /\ At("handler", "return")
  /\ Go("handler", "off")
  /\ sigOn' = "none"
  /\ UNCHANGED <<duration, signals, clean, th, running, flags, globals, gw, workVars,
                 failed, misuse>>

-----------------------------------------------------------------------------
(***************************************************************************)
(* The threads of the pipeline                                             *)
(***************************************************************************)
Runs(t) == th[t] = "run" /\ sigOn # t /\ ~ Ended

Exit(t) == th' = [th EXCEPT ![t] = "exit"]

FeedExit ==
  /\ Runs("feed")
  /\ ~ flags.feed
  /\ Exit("feed")
  /\ UNCHANGED <<duration, ctx, signalVars, running, flags, globals, gw, workVars,
                 failed, misuse>>

(* The hot path reports an order, also while it drains the feed's queue. *)
Produce ==
  /\ Runs("consumer")
  /\ produced < MaxEvents
  /\ produced' = produced + 1
  /\ pending' = pending + 1
  /\ UNCHANGED <<duration, ctx, signalVars, th, running, flags, globals, gw, io, refused,
                 failed, misuse>>

ConsumerExit ==
  /\ Runs("consumer")
  /\ ~ running
  /\ Exit("consumer")
  /\ UNCHANGED <<duration, ctx, signalVars, running, flags, globals, gw, workVars,
                 failed, misuse>>

IOPop ==
  /\ Runs("io")
  /\ io = "check"
  /\ pending > 0
  /\ pending' = pending - 1
  /\ io' = "journal"
  /\ UNCHANGED <<duration, ctx, signalVars, th, running, flags, globals, gw, produced,
                 refused, failed, misuse>>

(* process_io_event: the event is logged and journaled ... *)
IOJournal ==
  /\ Runs("io")
  /\ io = "journal"
  /\ io' = "send"
  /\ misuse' = misuse \cup Logged
                 \cup (IF attached /\ journal # "open" THEN {"journal"} ELSE {})
  /\ UNCHANGED <<duration, ctx, signalVars, th, running, flags, globals, gw, pending,
                 produced, refused, failed>>

(* ... and the order sent: gw_send_order refuses unless connected; with a  *)
(* simulation file it acknowledges at once.                                *)
gw_send_order ==
  /\ Runs("io")
  /\ io = "send"
  /\ io' = "check"
  /\ IF gw.state = "GW_CONNECTED"
       THEN /\ gw' = [gw EXCEPT !.sent = @ + 1,
                                !.acked = IF gw.sim_file THEN @ + 1 ELSE @]
            /\ UNCHANGED refused
       ELSE /\ refused' = refused + 1
            /\ UNCHANGED gw
  /\ UNCHANGED <<duration, ctx, signalVars, th, running, flags, globals, pending,
                 produced, failed, misuse>>

IOExit ==
  /\ Runs("io")
  /\ io = "check"
  /\ ~ running
  /\ pending = 0
  /\ Exit("io")
  /\ UNCHANGED <<duration, ctx, signalVars, running, flags, globals, gw, workVars,
                 failed, misuse>>

LoggerExit ==
  /\ Runs("logger")
  /\ ~ flags.logger
  /\ Exit("logger")
  /\ UNCHANGED <<duration, ctx, signalVars, running, flags, globals, gw, workVars,
                 failed, misuse>>

(* After undefined behaviour the program may crash. *)
Crash ==
  /\ misuse # {}
  /\ ~ Ended
  /\ ctx' = [ctx EXCEPT !["main"].pc = "crashed", !["handler"].pc = "crashed"]
  /\ th' = [t \in Workers |-> "none"]
  /\ UNCHANGED <<duration, signalVars, running, flags, globals, gw, workVars, failed, misuse>>

Over == Ended /\ UNCHANGED vars

-----------------------------------------------------------------------------
Startup ==
  \/ OpenJournal \/ Construct
  \/ InitLogger \/ InitRest \/ InitFails \/ Attach
  \/ StartFeed \/ StartFeedFails \/ CreateIO \/ CreateIOFails
  \/ CreateConsumer \/ CreateConsumerFails \/ StartFailed
  \/ TimeUp \/ Loop \/ Destructor \/ Destroy

Shutdown(c) ==
  \/ StopCheck(c) \/ StopClear(c) \/ JoinConsumer(c)
  \/ StopFeed(c) \/ JoinFeed(c) \/ JoinIO(c)
  \/ StopGateway(c) \/ StopLogger(c) \/ JoinLogger(c)
  \/ CloseJournal(c) \/ ForgetJournal(c) \/ NoJournal(c)

Main == Startup \/ Shutdown("main")
Handler == Shutdown("handler") \/ HandlerReturn
Consumer == Produce \/ ConsumerExit
IO == IOPop \/ IOJournal \/ gw_send_order \/ IOExit

Next ==
  \/ Main \/ Handler
  \/ FeedExit \/ Consumer \/ IO \/ LoggerExit
  \/ \E t \in Workers \cup {"main"} : Signal(t)
  \/ Crash \/ Over

(* The scheduler runs every thread, and time passes; signals may or may    *)
(* not come.                                                               *)
Fairness ==
  /\ WF_vars(Main) /\ WF_vars(Handler)
  /\ WF_vars(FeedExit) /\ WF_vars(ConsumerExit) /\ WF_vars(IO) /\ WF_vars(LoggerExit)

Spec == Init /\ [][Next]_vars /\ Fairness

-----------------------------------------------------------------------------
(***************************************************************************)
(* Properties.  stop() and the closing of the journal are safe as long as  *)
(* a signal interrupts nothing but main in its loop (clean).  Each of the  *)
(* invariants with this condition fails without it: the signal may come    *)
(* while main is in start() or stop(), or be taken by another thread.      *)
(***************************************************************************)
TypeOK ==
  /\ th \in [Workers -> {"none", "run", "exit", "joined"}]
  /\ journal \in {"none", "open", "closed"}
  /\ gw.state \in {"GW_CONNECTED", "GW_DISCONNECTED"}
  /\ pending \in 0 .. MaxEvents
  /\ sigOn \in Workers \cup {"main", "none"}
  /\ misuse \subseteq {"journal", "join", "log"}

(* Nothing is used when it is gone, or closed twice, though main and the   *)
(* handler both call stop() and close the journal and the destructor calls *)
(* stop() again: the I/O thread appends to an open journal, every thread   *)
(* is joined once, what is logged is logged before logger_shutdown, and    *)
(* gw_send_order refuses no order because the gateway was shut down.       *)
UsedInTime ==
  /\ TypeOK
  /\ clean => misuse = {} /\ refused = 0

(* ~EventPipeline frees what the threads use when they have gone.  The     *)
(* logger thread is the exception: after a failed init() or start() nobody *)
(* has called logger_shutdown, though logger.h:64 asks for it.             *)
DestroyedAlone ==
  clean /\ ctx["main"].pc \in {"destroy", "exited"} =>
    {t \in Workers : th[t] \in {"run", "exit"}} \subseteq (IF failed THEN {"logger"} ELSE {})

(* With a duration the program comes to its end, whether init() and        *)
(* start() succeed or fail and whether or not it is interrupted.           *)
TimedRunEnds == duration ~> Ended \/ ~ clean

(* A signal stops the trading: the threads end and the journal is closed.  *)
SignalStops ==
  sigOn # "none" /\ clean
    ~> ((\A t \in Workers : th[t] # "run") /\ journal # "open") \/ ~ clean

(* main.cpp:190 tells the user "Ctrl+C to stop": after the signal the      *)
(* program ends.                                                           *)
CtrlCEnds == sigOn # "none" /\ clean ~> Ended \/ ~ clean

-----------------------------------------------------------------------------
(***************************************************************************)
(* The invariant behind UsedInTime and DestroyedAlone.  In a clean history *)
(* one context is active at a time, so its pc tells how far the program    *)
(* has come; in the loop, and at the entry of stop(), running_ tells.      *)
(***************************************************************************)
Active == IF sigOn = "main" THEN "handler" ELSE "main"
ActivePc == ctx[Active].pc

StageOf(pc) ==
  CASE pc \in {"loop", "stop"} -> IF running THEN "up" ELSE "down"
    [] pc = "clear" -> "up"
    [] pc \in {"close", "forget", "return", "dtor", "destroy", "exited"} -> "down"
    [] OTHER -> pc

Stage == StageOf(ActivePc)

Early == {"open", "construct", "init_logger", "init_rest", "attach", "start_feed"}
Failing == {"fail_io", "fail_feed", "fail_join_feed", "fail_log"}
Joining == {"join_consumer", "stop_feed", "join_feed", "join_io"}
Late == {"gw_shutdown", "stop_logger", "join_logger"}
Connected == {"attach", "start_feed", "create_io", "create_consumer", "up", "gw_shutdown"}
               \cup Failing \cup Joining

StopPc == {"stop", "clear", "close", "forget"} \cup Joining \cup Late
MainPc == {"create_io", "create_consumer", "loop", "dtor", "destroy", "exited"}
            \cup Early \cup Failing \cup StopPc
HandlerPc == {"return"} \cup StopPc

AnyPc == MainPc \cup HandlerPc \cup {"off", "crashed"}

Types ==
  /\ ctx \in [Contexts -> [pc : AnyPc, ret : {"close", "destroy"}]]
  /\ flags \in [feed : BOOLEAN, logger : BOOLEAN]
  /\ gw \in [state : {"GW_CONNECTED", "GW_DISCONNECTED"}, sim_file : BOOLEAN,
             sent : Nat, acked : Nat]
  /\ produced \in 0 .. MaxEvents /\ pending <= produced
  /\ refused \in Nat

(* main is interrupted nowhere but in its loop. *)
OneContext ==
  /\ sigOn \in {"none", "main"}
  /\ sigOn = "none" => ctx["handler"].pc = "off" /\ ctx["main"].pc \in MainPc
  /\ sigOn = "main" => /\ ctx["handler"].pc \in HandlerPc
                       /\ ctx["handler"].ret = "close"
                       /\ ctx["main"].pc = "loop"

(* What the flags, the journal and the gateway are at each stage. *)
PartsAt(s) ==
  /\ running <=> s \in {"create_io", "create_consumer", "up"}
  /\ failed => s \in Failing \cup {"down"}
  /\ s \in Failing => failed
  /\ ctx["main"].pc = "loop" => ~ failed
  /\ s \notin {"open", "construct"} => g_pipeline
  /\ ActivePc = "forget" => journal = "closed"
  /\ ActivePc # "forget" => (g_journal <=> journal = "open")
  /\ s \in Connected => gw.state = "GW_CONNECTED"
  /\ s \in Connected \ {"attach"} => (attached => g_journal)

(* The state of each worker thread at each stage: a thread is there when   *)
(* it is joined, and gone when what it uses goes.                          *)
FeedAt(s) ==
  /\ s \in Early => th["feed"] = "none"
  /\ s \in {"create_io", "create_consumer", "up", "fail_io", "fail_feed",
            "join_consumer", "stop_feed"} => th["feed"] = "run"
  /\ s \in {"join_feed", "fail_join_feed"} => th["feed"] \in {"run", "exit"}
  /\ s \in {"fail_log", "join_io"} \cup Late => th["feed"] = "joined"
  /\ s = "down" => th["feed"] \in (IF failed THEN {"none", "joined"} ELSE {"joined"})
  /\ th["feed"] = "run" /\ s \notin {"join_feed", "fail_join_feed"} => flags.feed

IOAt(s) ==
  /\ s \in Early \cup {"create_io"} => th["io"] = "none"
  /\ s \in {"create_consumer", "up"} => th["io"] = "run"
  /\ s \in {"fail_io"} \cup Joining => th["io"] \in {"run", "exit"}
  /\ s \in {"fail_feed", "fail_join_feed", "fail_log"} => th["io"] \in {"none", "joined"}
  /\ s \in Late => th["io"] = "joined"
  /\ s = "down" => th["io"] \in (IF failed THEN {"none", "joined"} ELSE {"joined"})

ConsumerAt(s) ==
  /\ s \in {"create_io", "create_consumer"} \cup Early \cup Failing =>
       th["consumer"] = "none"
  /\ s = "up" => th["consumer"] = "run"
  /\ s = "join_consumer" => th["consumer"] \in {"run", "exit"}
  /\ s \in {"stop_feed", "join_feed", "join_io"} \cup Late => th["consumer"] = "joined"
  /\ s = "down" => th["consumer"] \in (IF failed THEN {"none", "joined"} ELSE {"joined"})

LoggerAt(s) ==
  /\ s \in {"open", "construct", "init_logger"} => th["logger"] = "none"
  /\ s \in {"init_rest", "stop_logger"} \cup Connected => th["logger"] = "run"
  /\ s = "join_logger" => th["logger"] \in {"run", "exit"}
  /\ s = "down" => th["logger"] \in (IF failed THEN {"none", "run"} ELSE {"joined"})
  /\ th["logger"] = "run" /\ s # "join_logger" => flags.logger

ThreadsAt(s) == FeedAt(s) /\ IOAt(s) /\ ConsumerAt(s) /\ LoggerAt(s)

CleanInv ==
  /\ misuse = {} /\ refused = 0
  /\ OneContext /\ PartsAt(Stage) /\ ThreadsAt(Stage)

IInv == TypeOK /\ Types /\ (clean => CleanInv)
=============================================================================
