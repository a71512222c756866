---------------------------- MODULE FeedHandler -----------------------------
(***************************************************************************)
(* The feed handler (src/feed_handler.c) with its message pool (module     *)
(* MemoryPool) and its output queue, between feed_start and feed_destroy.  *)
(* The receive thread takes a message object from the pool and pushes it   *)
(* to the queue; the consumer thread of the pipeline pops it and returns   *)
(* it with feed_return_msg; main stops both and drains what is left.       *)
(*                                                                         *)
(* Every atomic access to the pool is a step.  The output queue is a       *)
(* bounded queue (module RingBuffer), its operations are atomic.  Where    *)
(* the content of a message comes from, the simulation or a datagram, is   *)
(* left out; datagrams too short for a message change nothing here.        *)
(***************************************************************************)
EXTENDS MemoryPool, Sequences, Functions

CONSTANTS
  recv, consumer, main,   \* the three threads
  MaxMsgs                 \* bound of the model: passes of the receive loop

ASSUME ThreadsAssumption ==
  /\ Allocators = {recv}
  /\ Freers = {recv, consumer, main}
  /\ recv # consumer /\ recv # main /\ consumer # main
ASSUME MaxMsgsAssumption == MaxMsgs \in Nat

(* feed_init makes queue and pool of the same size. *)
QueueSize == Capacity

None == -1

VARIABLES
  simulation_mode,\* fh->config.simulation_mode; otherwise UDP
  running,        \* fh->running
  output_queue,   \* fh->output_queue
  rx,             \* the receive thread: pc and the message in hand
  hot,            \* the consumer thread: pc and the message in hand
  ctl,            \* where main is between start and destroy
  passes,         \* number of messages the receive thread made or got
  msgs_received,  \* fh->msgs_received
  msgs_dropped,   \* fh->msgs_dropped
  raced           \* history: an alloc and a free were in progress at once

threadVars == <<rx, hot, ctl, running>>
counts == <<passes, msgs_received, msgs_dropped>>
feedVars == <<vars, simulation_mode, output_queue, threadVars, counts, raced>>

Idle == [pc |-> "loop", msg |-> None]

FeedInit ==
  /\ Init
  /\ simulation_mode \in BOOLEAN
  /\ running = TRUE
  /\ output_queue = << >>
  /\ rx = Idle
  /\ hot = Idle
  /\ ctl = "run"
  /\ passes = 0
  /\ msgs_received = 0
  /\ msgs_dropped = 0
  /\ raced = FALSE

(* Two threads are inside calls of the pool. *)
Racing == \E t, u \in Threads : t # u /\ pc[t] # "idle" /\ pc[u] # "idle"

(* A step of the pool, seen by the history. *)
PoolStep(A) == A /\ raced' = (raced \/ Racing') /\ UNCHANGED simulation_mode

NoPoolStep == UNCHANGED <<vars, raced, simulation_mode>>

(* mempool_free(msg) up to its claim: an address outside the pool is       *)
(* ignored.                                                                *)
BeginFree(t, msg) ==
  PoolStep(IF msg \in Objects THEN FreeClaim(t, msg) ELSE FreeWild(t))

(* The rest of mempool_free, if there is any. *)
EndFree(t) ==
  IF pc[t] = "idle" THEN NoPoolStep ELSE PoolStep(FreeStore(t) \/ FreeBail(t))

-----------------------------------------------------------------------------
(***************************************************************************)
(* recv_thread_func                                                        *)
(***************************************************************************)

(* In UDP mode the rest of a batch of datagrams is read after running has  *)
(* been cleared; the bound on passes stands for the end of the batch.      *)
RecvAlloc ==
  /\ rx.pc = "loop"
  /\ running \/ ~ simulation_mode
  /\ passes < MaxMsgs
  /\ PoolStep(AllocClaim(recv))
  /\ passes' = passes + 1
  /\ rx' = [rx EXCEPT !.pc = "alloc"]
  /\ UNCHANGED <<output_queue, hot, ctl, running, msgs_received, msgs_dropped>>

(* mempool_alloc returned NULL. *)
RecvNoMsg ==
  /\ rx.pc = "alloc"
  /\ PoolStep(AllocUndo(recv))
  /\ msgs_dropped' = msgs_dropped + 1
  /\ rx' = Idle
  /\ UNCHANGED <<output_queue, hot, ctl, running, passes, msgs_received>>

RecvMsg ==
  /\ rx.pc = "alloc"
  /\ PoolStep(AllocRead(recv))
  /\ \E i \in Objects \cup {Wild} :
       held'[i] # held[i] /\ rx' = [pc |-> "push", msg |-> i]
  /\ UNCHANGED <<output_queue, hot, ctl, running, counts>>

RecvPush ==
  /\ rx.pc = "push"
  /\ Len(output_queue) < QueueSize - 1
  /\ output_queue' = Append(output_queue, rx.msg)
  /\ msgs_received' = msgs_received + 1
  /\ rx' = Idle
  /\ NoPoolStep
  /\ UNCHANGED <<hot, ctl, running, passes, msgs_dropped>>

(* The queue is full: the message goes back to the pool. *)
RecvPushFails ==
  /\ rx.pc = "push"
  /\ Len(output_queue) >= QueueSize - 1
  /\ rx' = [rx EXCEPT !.pc = "full"]
  /\ NoPoolStep
  /\ UNCHANGED <<output_queue, hot, ctl, running, counts>>

RecvFree ==
  /\ rx.pc = "full"
  /\ BeginFree(recv, rx.msg)
  /\ rx' = [rx EXCEPT !.pc = "free"]
  /\ UNCHANGED <<output_queue, hot, ctl, running, counts>>

RecvDrop ==
  /\ rx.pc = "free"
  /\ EndFree(recv)
  /\ msgs_dropped' = msgs_dropped + 1
  /\ rx' = Idle
  /\ UNCHANGED <<output_queue, hot, ctl, running, passes, msgs_received>>

(* A pass without a message: epoll_wait times out or the datagram is too   *)
(* short; in simulation mode only past the bound of the model.             *)
RecvIdle ==
  /\ rx.pc = "loop"
  /\ running
  /\ ~ simulation_mode \/ passes = MaxMsgs
  /\ UNCHANGED feedVars

(* The loop ends when it is told to; in UDP mode the thread also ends at   *)
(* once if epoll cannot be set up.                                         *)
RecvExit ==
  /\ rx.pc = "loop"
  /\ ~ running \/ (~ simulation_mode /\ passes = 0)
  /\ rx' = [rx EXCEPT !.pc = "exit"]
  /\ NoPoolStep
  /\ UNCHANGED <<output_queue, hot, ctl, running, counts>>

-----------------------------------------------------------------------------
(***************************************************************************)
(* The consumer thread, as far as it uses the feed                         *)
(***************************************************************************)
HotPop ==
  /\ hot.pc = "loop"
  /\ output_queue # << >>
  /\ hot' = [pc |-> "process", msg |-> Head(output_queue)]
  /\ output_queue' = Tail(output_queue)
  /\ NoPoolStep
  /\ UNCHANGED <<rx, ctl, running, counts>>

HotReturnMsg_Forgotten ==
  /\ hot.pc = "process"
  /\ hot' = Idle
  /\ NoPoolStep
  /\ UNCHANGED <<output_queue, rx, ctl, running, counts>>

(* feed_return_msg *)
HotReturnMsg ==
  /\ hot.pc = "process"
  /\ BeginFree(consumer, hot.msg)
  /\ hot' = [hot EXCEPT !.pc = "free"]
  /\ UNCHANGED <<output_queue, rx, ctl, running, counts>>

HotReturned ==
  /\ hot.pc = "free"
  /\ EndFree(consumer)
  /\ hot' = Idle
  /\ UNCHANGED <<output_queue, rx, ctl, running, counts>>

HotExit ==
  /\ hot.pc = "loop"
  /\ ctl # "run"
  /\ output_queue = << >>
  /\ hot' = [hot EXCEPT !.pc = "exit"]
  /\ NoPoolStep
  /\ UNCHANGED <<output_queue, rx, ctl, running, counts>>

-----------------------------------------------------------------------------
(***************************************************************************)
(* main: the consumer is stopped and joined, then the feed (feed_stop),    *)
(* and feed_destroy returns the messages left in the queue.                *)
(***************************************************************************)
Stop ==
  /\ ctl = "run"
  /\ ctl' = "join_consumer"
  /\ NoPoolStep
  /\ UNCHANGED <<output_queue, rx, hot, running, counts>>

feed_stop_RunningKept ==
  /\ ctl = "join_consumer"
  /\ hot.pc = "exit"
  /\ ctl' = "join_feed"
  /\ NoPoolStep
  /\ UNCHANGED <<output_queue, rx, hot, running, counts>>

feed_stop ==
  /\ ctl = "join_consumer"
  /\ hot.pc = "exit"
  /\ running' = FALSE
  /\ ctl' = "join_feed"
  /\ NoPoolStep
  /\ UNCHANGED <<output_queue, rx, hot, counts>>

feed_stop_joined ==
  /\ ctl = "join_feed"
  /\ rx.pc = "exit"
  /\ ctl' = "drain"
  /\ NoPoolStep
  /\ UNCHANGED <<output_queue, rx, hot, running, counts>>

DrainPop_KeepsMsg ==
  /\ ctl = "drain"
  /\ output_queue # << >>
  /\ output_queue' = Tail(output_queue)
  /\ NoPoolStep
  /\ UNCHANGED <<ctl, rx, hot, running, counts>>

DrainPop ==
  /\ ctl = "drain"
  /\ output_queue # << >>
  /\ BeginFree(main, Head(output_queue))
  /\ output_queue' = Tail(output_queue)
  /\ ctl' = "drain_free"
  /\ UNCHANGED <<rx, hot, running, counts>>

DrainFreed ==
  /\ ctl = "drain_free"
  /\ EndFree(main)
  /\ ctl' = "drain"
  /\ UNCHANGED <<output_queue, rx, hot, running, counts>>

DrainDone ==
  /\ ctl = "drain"
  /\ output_queue = << >>
  /\ ctl' = "destroyed"
  /\ NoPoolStep
  /\ UNCHANGED <<output_queue, rx, hot, running, counts>>

Destroyed == ctl = "destroyed" /\ UNCHANGED feedVars

-----------------------------------------------------------------------------
Recv ==
  \/ RecvAlloc \/ RecvNoMsg \/ RecvMsg
  \/ RecvPush \/ RecvPushFails \/ RecvFree \/ RecvDrop
  \/ RecvIdle \/ RecvExit

Hot == HotPop \/ HotReturnMsg \/ HotReturned \/ HotExit

Main ==
  \/ Stop \/ feed_stop \/ feed_stop_joined
  \/ DrainPop \/ DrainFreed \/ DrainDone
  \/ Destroyed

FeedNext == Recv \/ Hot \/ Main

(* The scheduler runs every thread; when main calls stop is left open. *)
FeedSpec ==
  /\ FeedInit
  /\ [][FeedNext]_feedVars
  /\ WF_feedVars(Recv)
  /\ WF_feedVars(Hot)
  /\ WF_feedVars(ctl # "run" /\ Main)

-----------------------------------------------------------------------------
(***************************************************************************)
(* Properties.  The pool is correct only as long as no alloc overlaps a    *)
(* free (run feed_double); what holds up to the first overlap has          *)
(* ~ raced as its condition.                                               *)
(***************************************************************************)

(* Where the message objects are. *)
Hand(thread) == IF thread.msg = None THEN << >> ELSE <<thread.msg>>

InUse ==
  Hand(rx) \o output_queue
    \o (IF hot.pc = "process" THEN Hand(hot) ELSE << >>)

(* As long as no alloc overlaps a free, a message the consumer reads is    *)
(* never refilled by the receive thread: every object is in one place,     *)
(* and those in no place are on the free list, each once.                  *)
MessageOwnedOnce ==
  ~ raced =>
    /\ NoDoubleAllocation
    /\ FreeListExact
    /\ rx.pc \in {"loop", "push"} /\ hot.pc \in {"loop", "process"} => IsInjective(InUse)

(* feed_handler.c:214 says the pool never exhausts.  It does: the queue    *)
(* holds all objects but one, and the consumer can hold that one.  What is *)
(* true is that mempool_alloc fails only while the output queue is full,   *)
(* so no message is dropped that the queue had room for.                   *)
ExhaustedOnlyWhenFull ==
  ~ raced /\ pc[recv] = "undo" => Len(output_queue) = QueueSize - 1

(* When feed_destroy releases the pool no message is in use any more: each *)
(* was returned once, by whoever had it last, also those the feed pushed   *)
(* after the consumer had gone.  And each was counted once, as received or *)
(* as dropped.                                                             *)
AllReturned ==
  ctl = "destroyed" =>
    /\ Outstanding = 0
    /\ ~ raced => mempool_available = Capacity
    /\ msgs_received + msgs_dropped = passes

(* Once feed_stop has cleared running, the receive thread ends and main    *)
(* gets through feed_destroy, in whatever state the pool is.               *)
DestroyEnds == ctl = "join_feed" ~> ctl = "destroyed"

-----------------------------------------------------------------------------
(***************************************************************************)
(* The invariant behind the properties.                                    *)
(***************************************************************************)
Msg == Objects \cup {Wild}

FeedTypes ==
  /\ simulation_mode \in BOOLEAN /\ running \in BOOLEAN /\ raced \in BOOLEAN
  /\ output_queue \in Seq(Msg) /\ Len(output_queue) <= QueueSize - 1
  /\ rx \in [pc : {"loop", "alloc", "push", "full", "free", "exit"}, msg : Msg \cup {None}]
  /\ hot \in [pc : {"loop", "process", "free", "exit"}, msg : Msg \cup {None}]
  /\ ctl \in {"run", "join_consumer", "join_feed", "drain", "drain_free", "destroyed"}
  /\ passes \in Nat /\ msgs_received \in Nat /\ msgs_dropped \in Nat

(* Where the threads are in the calls of the pool, and in what order main  *)
(* sees them end.                                                          *)
Calls ==
  /\ rx.pc = "alloc" <=> pc[recv] \in {"undo", "read"}
  /\ pc[recv] \in {"bail", "store"} => rx.pc = "free"
  /\ pc[consumer] # "idle" => pc[consumer] \in {"bail", "store"} /\ hot.pc = "free"
  /\ pc[main] # "idle" => pc[main] \in {"bail", "store"} /\ ctl = "drain_free"
  /\ rx.pc \in {"loop", "alloc", "exit"} => rx.msg = None
  /\ rx.pc \in {"push", "full"} => rx.msg # None
  /\ hot.pc = "process" => hot.msg # None
  /\ ctl \in {"join_feed", "drain", "drain_free", "destroyed"} => hot.pc = "exit"
  /\ ctl \in {"drain", "drain_free", "destroyed"} => rx.pc = "exit"
  /\ ctl = "destroyed" => output_queue = << >>

(* Every pass ends in one of the two counters. *)
Passes ==
  passes = msgs_received + msgs_dropped
             + (IF rx.pc \in {"alloc", "push", "full", "free"} THEN 1 ELSE 0)

(* The pointers held are those in the queue and in the threads' hands.     *)
QueuedAt(queue, i) == {k \in DOMAIN queue : queue[k] = i}

InHand(thread, pcs, i) == IF thread.pc \in pcs /\ thread.msg = i THEN 1 ELSE 0

HeldInPlaces ==
  \A i \in Msg :
    held[i] = Cardinality(QueuedAt(output_queue, i))
                + InHand(rx, {"push", "full"}, i) + InHand(hot, {"process"}, i)

(* The first n entries of a stack are the objects of S, each once. *)
StackHolds(stack, n, S) ==
  /\ n \in 0 .. Capacity
  /\ \A i, j \in 0 .. n - 1 : stack[i] = stack[j] => i = j
  /\ {stack[i] : i \in 0 .. n - 1} = S

Unheld == {i \in Objects : held[i] = 0}

(* The pool up to the first overlap of calls. *)
Exact ==
  /\ lost = 0
  /\ NoDoubleAllocation
  /\ \A t, u \in Threads : pc[t] # "idle" /\ pc[u] # "idle" => t = u
  /\ (\A t \in Threads : pc[t] = "idle") => StackHolds(free_list, free_top, Unheld)
  /\ \A t \in Threads :
       /\ pc[t] # "bail"
       /\ pc[t] \in {"undo", "read"} =>
            /\ StackHolds(free_list, claim[t], Unheld)
            /\ free_top = Dec(claim[t])
            /\ pc[t] = "undo" <=> claim[t] = 0
       /\ pc[t] = "store" =>
            /\ StackHolds(free_list, claim[t], Unheld \ {idx[t]})
            /\ idx[t] \in Unheld /\ claim[t] < Capacity
            /\ free_top = claim[t] + 1

FeedInv ==
  PoolInv /\ FeedTypes /\ Calls /\ Passes /\ HeldInPlaces /\ (~ raced => Exact)
=============================================================================
