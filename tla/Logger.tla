------------------------------- MODULE Logger -------------------------------
(***************************************************************************)
(* The asynchronous logger (src/logger.c): entries circulate between a     *)
(* free and a filled queue; threads of the pipeline fill them in           *)
(* logger_write, the logger thread writes them to the file.                *)
(*                                                                         *)
(* Both queues are ring buffers for one producer and one consumer, but two *)
(* threads log: main, while it starts and stops the pipeline, and the I/O  *)
(* thread.  The accesses of logger_write to the queues are therefore steps *)
(* of their own.  The logger thread is alone on its ends of the queues,    *)
(* its push and pop are atomic (module RingBuffer).                        *)
(***************************************************************************)
EXTENDS Integers, Sequences, SequencesExt, FiniteSets

CONSTANTS
  main, io,          \* the threads that log
  QueueSize,         \* queue_size, a power of two
  LOG_FLUSH_BATCH,   \* entries written between two flushes
  MaxWrites          \* bound of the model: calls of logger_write

ASSUME QueueAssumption == QueueSize \in Nat \ {0, 1}
ASSUME BatchAssumption == LOG_FLUSH_BATCH \in Nat \ {0}
ASSUME WritesAssumption == MaxWrites \in Nat

Writers == {main, io}
Slots == 0 .. QueueSize - 1
Entries == 1 .. QueueSize
NULL == 0

VARIABLES
  free_queue_, filled_queue_,   \* ring buffers
  msg,        \* the message in each entry, 0 when msg_len is 0
  w,          \* each writer inside logger_write
  lt,         \* the logger thread: pc, entry, batch_count
  running,    \* log->running
  phase,      \* how far main has come
  io_on,      \* the I/O thread runs
  calls,      \* calls of logger_write so far; the messages are numbered by it
  accepted,   \* history: messages pushed to filled_queue_
  written,    \* history: messages written to the file
  flushed,    \* how many of them have left the stdio buffer
  overlap     \* history: two threads were inside logger_write at once

queues == <<free_queue_, filled_queue_>>
mainVars == <<running, phase, io_on>>
fileVars == <<written, flushed>>
vars == <<queues, msg, w, lt, mainVars, calls, accepted, fileVars, overlap>>

-----------------------------------------------------------------------------
(***************************************************************************)
(* The ring buffer as the logger uses it                                   *)
(***************************************************************************)
Advance(i) == (i + 1) % QueueSize

Empty(q) == q.head = q.tail
Full(q) == Advance(q.head) = q.tail

(* ring_buffer_push by a thread that is the only producer. *)
Push(q, e) ==
  IF Full(q) THEN q
             ELSE [q EXCEPT !.buffer[q.head] = e, !.head = Advance(@)]

(* The slots between tail and head, oldest first. *)
Content(q) ==
  [k \in 1 .. (q.head - q.tail) % QueueSize |->
     q.buffer[(q.tail + k - 1) % QueueSize]]

NewQueue == [buffer |-> [i \in Slots |-> NULL], head |-> 0, tail |-> 0]

NotWriting == [pc |-> "idle", pos |-> 0, entry |-> NULL, id |-> 0]

(* logger_init: all entries are pushed to free_queue_; the last one finds  *)
(* it full.                                                                *)
Init ==
  /\ free_queue_ = FoldLeft(Push, NewQueue, [e \in Entries |-> e])
  /\ filled_queue_ = NewQueue
  /\ msg = [e \in Entries |-> 0]
  /\ w = [t \in Writers |-> NotWriting]
  /\ lt = [pc |-> "pop", entry |-> NULL, batch_count |-> 0]
  /\ running = TRUE
  /\ phase = "init"
  /\ io_on = FALSE
  /\ calls = 0
  /\ accepted = << >>
  /\ written = << >>
  /\ flushed = 0
  /\ overlap = FALSE

-----------------------------------------------------------------------------
(***************************************************************************)
(* logger_write                                                            *)
(***************************************************************************)

(* When the pipeline logs: main in init() and start(), at the beginning of *)
(* stop() and, with the I/O thread gone, for the final statistics.         *)
MayLog(t) ==
  IF t = main THEN phase \in {"init", "started", "final"} ELSE io_on

CallWrite(t) == w[t].pc = "idle" /\ MayLog(t) /\ calls < MaxWrites

(* No entry is free: the message is dropped. *)
WriteDropped(t) ==
  /\ CallWrite(t)
  /\ Empty(free_queue_)
  /\ calls' = calls + 1
  /\ UNCHANGED <<queues, msg, w, lt, mainVars, accepted, fileVars, overlap>>

PopLoad(t) ==
  /\ CallWrite(t)
  /\ ~ Empty(free_queue_)
  /\ calls' = calls + 1
  /\ w' = [w EXCEPT ![t] = [pc |-> "popped", pos |-> free_queue_.tail,
                            entry |-> free_queue_.buffer[free_queue_.tail],
                            id |-> calls + 1]]
  /\ overlap' = (overlap \/ \E u \in Writers \ {t} : w[u].pc # "idle")
  /\ UNCHANGED <<queues, msg, lt, mainVars, accepted, fileVars>>

PopPublish(t) ==
  /\ w[t].pc = "popped"
  /\ free_queue_' = [free_queue_ EXCEPT !.tail = Advance(w[t].pos)]
  /\ w' = IF w[t].entry = NULL THEN [w EXCEPT ![t] = NotWriting]
                               ELSE [w EXCEPT ![t].pc = "fill"]
  /\ UNCHANGED <<filled_queue_, msg, lt, mainVars, calls, accepted, fileVars, overlap>>

FillEntry(t) ==
  /\ w[t].pc = "fill"
  /\ msg' = [msg EXCEPT ![w[t].entry] = w[t].id]
  /\ w' = [w EXCEPT ![t].pc = "push"]
  /\ UNCHANGED <<queues, lt, mainVars, calls, accepted, fileVars, overlap>>

(* The result of ring_buffer_push is ignored: when the queue is full the   *)
(* message is lost, though logger_write has taken it.                      *)
PushRefused(t) ==
  /\ w[t].pc = "push"
  /\ Full(filled_queue_)
  /\ accepted' = Append(accepted, w[t].id)
  /\ w' = [w EXCEPT ![t] = NotWriting]
  /\ UNCHANGED <<queues, msg, lt, mainVars, calls, fileVars, overlap>>

PushStore(t) ==
  /\ w[t].pc = "push"
  /\ ~ Full(filled_queue_)
  /\ filled_queue_' = [filled_queue_ EXCEPT !.buffer[filled_queue_.head] = w[t].entry]
  /\ w' = [w EXCEPT ![t].pc = "stored", ![t].pos = filled_queue_.head]
  /\ UNCHANGED <<free_queue_, msg, lt, mainVars, calls, accepted, fileVars, overlap>>

PushPublish(t) ==
  /\ w[t].pc = "stored"
  /\ filled_queue_' = [filled_queue_ EXCEPT !.head = Advance(w[t].pos)]
  /\ accepted' = Append(accepted, w[t].id)
  /\ w' = [w EXCEPT ![t] = NotWriting]
  /\ UNCHANGED <<free_queue_, msg, lt, mainVars, calls, fileVars, overlap>>

logger_write(t) ==
  \/ WriteDropped(t) \/ PopLoad(t) \/ PopPublish(t) \/ FillEntry(t)
  \/ PushRefused(t) \/ PushStore(t) \/ PushPublish(t)

-----------------------------------------------------------------------------
(***************************************************************************)
(* logger_thread                                                           *)
(***************************************************************************)
(* What ring_buffer_pop returns; a slot that was never filled gives NULL   *)
(* as an empty queue does.                                                 *)
Popped ==
  IF Empty(filled_queue_) THEN NULL ELSE filled_queue_.buffer[filled_queue_.tail]

PopFilled ==
  filled_queue_' = IF Empty(filled_queue_) THEN filled_queue_
                   ELSE [filled_queue_ EXCEPT !.tail = Advance(@)]

TakeEntry(pc) ==
  /\ Popped # NULL
  /\ PopFilled
  /\ lt' = [lt EXCEPT !.pc = pc, !.entry = Popped]

(* flush_entry: an entry of length 0 is skipped. *)
flush_entry == written' = IF msg[lt.entry] = 0 THEN written
                                               ELSE Append(written, msg[lt.entry])

ThreadPop ==
  /\ lt.pc = "pop"
  /\ running
  /\ TakeEntry("write")
  /\ UNCHANGED <<free_queue_, msg, w, mainVars, calls, accepted, fileVars, overlap>>

ThreadWrite_ClearedFirst ==
  /\ lt.pc = "write"
  /\ msg' = [msg EXCEPT ![lt.entry] = 0]
  /\ lt' = [lt EXCEPT !.pc = "return"]
  /\ UNCHANGED <<queues, w, mainVars, calls, accepted, fileVars, overlap>>

ThreadWrite ==
  /\ lt.pc = "write"
  /\ flush_entry
  /\ msg' = [msg EXCEPT ![lt.entry] = 0]
  /\ lt' = [lt EXCEPT !.pc = "return"]
  /\ UNCHANGED <<queues, w, mainVars, calls, accepted, flushed, overlap>>

(* The entry goes back to free_queue_; a full batch is flushed. *)
ThreadReturn ==
  /\ lt.pc = "return"
  /\ free_queue_' = Push(free_queue_, lt.entry)
  /\ LET batch == lt.batch_count + 1 >= LOG_FLUSH_BATCH
     IN  /\ flushed' = IF batch THEN Len(written) ELSE flushed
         /\ lt' = [pc |-> "pop", entry |-> NULL,
                   batch_count |-> IF batch THEN 0 ELSE lt.batch_count + 1]
  /\ UNCHANGED <<filled_queue_, msg, w, mainVars, calls, accepted, written, overlap>>

ThreadIdle_NoFlush ==
  /\ lt.pc = "pop"
  /\ running
  /\ Popped = NULL
  /\ UNCHANGED vars

(* Nothing to write: flush what is pending, then sleep. *)
ThreadIdle ==
  /\ lt.pc = "pop"
  /\ running
  /\ Popped = NULL
  /\ PopFilled
  /\ flushed' = IF lt.batch_count > 0 THEN Len(written) ELSE flushed
  /\ lt' = [lt EXCEPT !.batch_count = 0]
  /\ UNCHANGED <<free_queue_, msg, w, mainVars, calls, accepted, written, overlap>>

ThreadStopped ==
  /\ lt.pc = "pop"
  /\ ~ running
  /\ lt' = [lt EXCEPT !.pc = "drain"]
  /\ UNCHANGED <<queues, msg, w, mainVars, calls, accepted, fileVars, overlap>>

DrainPop ==
  /\ lt.pc = "drain"
  /\ TakeEntry("drain_write")
  /\ UNCHANGED <<free_queue_, msg, w, mainVars, calls, accepted, fileVars, overlap>>

DrainWrite ==
  /\ lt.pc = "drain_write"
  /\ flush_entry
  /\ lt' = [lt EXCEPT !.pc = "drain"]
  /\ UNCHANGED <<queues, msg, w, mainVars, calls, accepted, flushed, overlap>>

ThreadExit_NotDrained ==
  /\ lt.pc = "drain"
  /\ flushed' = Len(written)
  /\ lt' = [lt EXCEPT !.pc = "exit"]
  /\ UNCHANGED <<queues, msg, w, mainVars, calls, accepted, written, overlap>>

ThreadExit ==
  /\ lt.pc = "drain"
  /\ Popped = NULL
  /\ PopFilled
  /\ flushed' = Len(written)
  /\ lt' = [lt EXCEPT !.pc = "exit"]
  /\ UNCHANGED <<free_queue_, msg, w, mainVars, calls, accepted, written, overlap>>

logger_thread ==
  \/ ThreadPop \/ ThreadWrite \/ ThreadReturn \/ ThreadIdle
  \/ ThreadStopped \/ DrainPop \/ DrainWrite \/ ThreadExit

-----------------------------------------------------------------------------
(***************************************************************************)
(* The pipeline around the logger: start() and stop() with respect to the  *)
(* I/O thread, then logger_shutdown.                                       *)
(***************************************************************************)
StartIO ==
  /\ phase = "init"
  /\ w[main].pc = "idle"
  /\ phase' = "started"
  /\ io_on' = TRUE
  /\ UNCHANGED <<queues, msg, w, lt, running, calls, accepted, fileVars, overlap>>

StopIO ==
  /\ phase = "started"
  /\ w[main].pc = "idle"
  /\ phase' = "join_io"
  /\ UNCHANGED <<queues, msg, w, lt, running, io_on, calls, accepted, fileVars, overlap>>

IOExit ==
  /\ phase = "join_io"
  /\ io_on
  /\ w[io].pc = "idle"
  /\ io_on' = FALSE
  /\ UNCHANGED <<queues, msg, w, lt, running, phase, calls, accepted, fileVars, overlap>>

JoinIO ==
  /\ phase = "join_io"
  /\ ~ io_on
  /\ phase' = "final"
  /\ UNCHANGED <<queues, msg, w, lt, running, io_on, calls, accepted, fileVars, overlap>>

logger_shutdown_RunningKept ==
  /\ phase = "final"
  /\ w[main].pc = "idle"
  /\ phase' = "shutdown"
  /\ UNCHANGED <<queues, msg, w, lt, running, io_on, calls, accepted, fileVars, overlap>>

logger_shutdown ==
  /\ phase = "final"
  /\ w[main].pc = "idle"
  /\ running' = FALSE
  /\ phase' = "shutdown"
  /\ UNCHANGED <<queues, msg, w, lt, io_on, calls, accepted, fileVars, overlap>>

ShutdownJoined ==
  /\ phase = "shutdown"
  /\ lt.pc = "exit"
  /\ phase' = "down"
  /\ UNCHANGED <<queues, msg, w, lt, running, io_on, calls, accepted, fileVars, overlap>>

Down == phase = "down" /\ UNCHANGED vars

Main ==
  \/ StartIO \/ StopIO \/ JoinIO \/ logger_shutdown \/ ShutdownJoined \/ Down

Next == Main \/ IOExit \/ logger_thread \/ \E t \in Writers : logger_write(t)

(* The scheduler runs the logger thread, and a writer inside logger_write; *)
(* when the others act is left open, except that the join returns.         *)
Fairness ==
  /\ WF_vars(logger_thread)
  /\ \A t \in Writers : WF_vars(w[t].pc # "idle" /\ logger_write(t))
  /\ WF_vars(ShutdownJoined)

Spec == Init /\ [][Next]_vars /\ Fairness

-----------------------------------------------------------------------------
(***************************************************************************)
(* Properties.  What needs the queues to have one producer and one         *)
(* consumer (logger.c:8) is stated for histories in which no two calls of  *)
(* logger_write have overlapped.                                           *)
(***************************************************************************)
TypeOK ==
  /\ \A q \in {free_queue_, filled_queue_} :
       q.buffer \in [Slots -> Entries \cup {NULL}] /\ q.head \in Slots /\ q.tail \in Slots
  /\ msg \in [Entries -> 0 .. MaxWrites]
  /\ \A t \in Writers : w[t].pc \in {"idle", "popped", "fill", "push", "stored"}
  /\ lt.batch_count \in 0 .. LOG_FLUSH_BATCH - 1
  /\ flushed \in 0 .. Len(written)

Pending ==
  (IF lt.pc \in {"write", "drain_write"} THEN <<lt.entry>> ELSE << >>)
    \o Content(filled_queue_)

(* The file gets every message logger_write has taken, once, in order and  *)
(* with the text it was given: what is written and what is pending is what *)
(* was accepted.  So no push to the filled queue is refused either.        *)
WrittenInOrder ==
  /\ TypeOK
  /\ ~ overlap =>
       written \o [k \in 1 .. Len(Pending) |-> msg[Pending[k]]] = accepted

(* logger.h:59: logger_shutdown returns after all pending messages are     *)
(* written, and they have left the stdio buffer.                           *)
ShutdownWritesAll ==
  phase = "down" =>
    /\ flushed = Len(written)
    /\ ~ overlap => written = accepted

(* While the logger runs, an accepted message reaches the file without     *)
(* waiting for a batch to fill up or for the shutdown.                     *)
MessagesReachFile ==
  \A n \in 1 .. MaxWrites :
    Len(accepted) >= n /\ ~ overlap ~> flushed >= n \/ overlap

(* logger_shutdown returns, also when overlapping calls have left the      *)
(* queues inconsistent.                                                    *)
ShutdownReturns == phase = "shutdown" ~> phase = "down"
=============================================================================
