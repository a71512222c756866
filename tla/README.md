# A TLA+ model of the Aspira trading engine

TLA+ modules, TLC configurations and TLAPS proofs for the C/C++ trading engine
in this repository. Paths below are relative to the repository.

## The system

| Part | Source | State | Operations that change it |
|---|---|---|---|
| Ring buffer | `include/ring_buffer.h`, `src/ring_buffer.c` | slots, `head`, `tail` | init, push, pop |
| Memory pool | `include/memory_pool.h`, `src/memory_pool.c` | free list, `free_top` | init, alloc, free |
| Order book | `include/order.h`, `include/order_book.h`, `src/order_book.cpp` | bid and ask levels, order index, two trade buffers | add, add market, cancel, modify, update level, drain trades |
| Risk engine | `src/risk_engine.cpp` | limits, positions, rate window, kill switch | validate, on executed, reset, kill switch |
| Feed handler | `src/feed_handler.c` | output queue, message pool, `running`, counters | receive loop, start, stop, return message |
| Event pipeline | `include/event_pipeline.h`, `src/event_pipeline.cpp` | event pool, free and filled queue, `running_`, statistics | start, stop, hot path, I/O loop |
| Journal | `src/journal.c` | file, mapping, offset, sequence | open, append, sync, close |
| Logger | `src/logger.c` | entry pool, free and filled queue, `running` | write, writer loop, shutdown |
| Gateway | `src/execution_gateway.c` | connection state, sent and acked counters | init, send, shutdown |
| Main | `src/main.cpp` | global pipeline and journal pointers | main, signal handler |

**How they interact.** The feed's receive thread takes a message from the memory
pool and pushes it to a ring buffer. The consumer thread (hot path) pops it,
makes two orders, asks the risk engine, submits to the book, and reports orders
and trades to the I/O thread through a pool of events that circulates between a
free and a filled ring buffer. The I/O thread journals each report and sends
orders to the gateway. Main starts the threads and stops them in a fixed order;
a signal handler may call the same stop. Main and the I/O thread write to the logger.

**What is hard.** The lock-free accesses of buffer and pool; loads of stale
indices; counters that wrap; events that are reused; four threads that shut down
through one flag; errors half way through start; matching that erases from the
containers it walks; the journal across a crash; and a signal in the middle of
stop. `PROJECT.json` lists these as hazards, each at its line.

**What makes each part correct.** A ring buffer is a bounded FIFO queue. A pool
hands out no object twice and loses none. A book is uncrossed, consistent with
its index, and matches by price and then time. A pipeline journals what the hot
path did, in order, and ends when told to. A journal keeps what it was given
across crashes and never overwrites it. A logger writes what it accepted, in order.
The program uses nothing after it has closed it, and comes to its end.

## Modules

### `RingBuffer`, `BoundedQueue`, `RingBufferProofs`, `RingSizing`

`RingBuffer` has one producer and one consumer. Each push is load, store,
publish; each pop is load, read, publish. A thread that loads the other's index
may get any value from the newest back to the one it saw last (`TailLag`,
`HeadLag`). The slot contents written before a published head are visible to the
consumer (RELEASE/ACQUIRE). The push loads the tail RELAXED; the model relies on
the branch on that load to keep the later store to the slot behind it. This
holds on the hardware the code targets, while the C memory model alone does not
order the two. `BoundedQueue` is the promise: an atomic queue of
`Capacity - 1` pointers, in the form of its history. `RingSizing` has the bit
operations that round a capacity up to a power of two, on a word of 10 bits; it is a
module of its own because it needs `Bitwise`, which the prover cannot use.

### `OrderBook`

Names follow the C++ members: `levels` are the keys of the two maps, `book` the
lists, `entry` the list nodes, `order_index` the index. One pass of the inner
matching loop is a step (`MatchEntry`), so invariants also hold between passes.
The mirrored buy and sell branches are one definition. Ids are fresh, as the
pipeline's counter makes them; reuse of an id that still rests is not modelled.
Prices are natural numbers, since the book only compares them.

### `MemoryPool`, `FeedHandler`

In `MemoryPool` every atomic access is a step, and `free_top` is a word that wraps.
`src/memory_pool.c` defines the functions the header already defines inline; the
bodies agree, and the model follows the header. `FeedHandler` extends it by the
pool's only user: the receive thread (simulation and UDP mode) allocates, fills and
pushes, or frees when the queue is full; the consumer pops and returns; main stops
the consumer, then the feed, and `feed_destroy` frees what is left. The output queue
is an atomic bounded queue.

The pool is correct as long as no alloc overlaps a free, and not beyond that (run
`feed_double`). The history variable `raced` says whether it has happened.
`MessageOwnedOnce`, `ExhaustedOnlyWhenFull` and a part of `AllReturned` hold up to
then; `TopAccounts`, the rest of `AllReturned` and `DestroyEnds` hold always. Three
more effects of an overlap were seen while modelling and are counted in `lost` or
allowed for by `TopAccounts`: a free that meets the undone decrement of an exhausted
alloc drops its object; two frees get one slot when an alloc comes between; and
with two allocating threads, which this program does not have, the second can load
outside the free list.

### `EventPipeline`

Main, feed, consumer and I/O thread, each with a program counter. Operations on
queues are atomic and hold `size - 1` entries, which is what `RingBuffer` is
proved to implement. Risk engine and book are an open choice: reject, rest, or
make trades, `MaxTrades` in all. An `IOEvent` keeps the fields its next use does not
set, as in the code. The hot path's statistics are updated with the step they
belong to; main reads them only to print. The feed's pool is left out here: when
it is exhausted its queue is full as well (`ExhaustedOnlyWhenFull`), and the message
is dropped either way.

### `RiskEngine`, `RiskEngineProofs`

The checks of `validate` keep their names and their order; `Verdict` is the first
that fails. As in `process_market_data`, an accepted order is in the hands of the
hot path (`accepted`) until the book has filled any part of it and
`on_order_executed` has been called, and only then comes the next order. The
second shown by CLOCK_REALTIME may change between any two steps, also backwards.
`reset` and `kill_switch`, which the pipeline itself never calls, may be called by
a user of the class. Limits are set once, as `init` does. Prices and notional
values are integers instead of doubles, so rounding is left out. Positions are
unbounded integers: with checks on they stay within the limits and cannot
overflow; with checks off the code has no bound for them.

### `Journal`, `Crc32`

`file` is the file as processes see it, `disk` what is certain to be on the disk, both
as sequences of cells; a record is two cells, header and payload, which
`journal_append` copies one after the other. Order and trade records have the same
size in the code (84 bytes), so one size is enough. `DEFAULT_MMAP_SIZE` is 5 cells: as in
the code it is no multiple of a record, so a record may not fit. Sessions follow one
another, mapped or through stdio. Every call that the code checks may fail; `fstat`,
`msync`, `fflush` and `fsync` are taken to succeed. The process may die at any step,
which loses the stdio buffer; the system may die at any step, after which every cell
that was not synced is old or new, and the file has its old or new size. `promised` are
the records which the crashes so far must have spared. `Crc32` has the table-driven
checksum, with bytes and the register as sets of bits, against a bit-serial reference;
`MCJournal` joins the two, a cell of the file being one byte to the checksum.

### `Logger`

`logger_write` runs on main and on the I/O thread, on queues for one producer and
one consumer, so each of its accesses is a step. The logger thread is alone on its ends
of the queues and uses them atomically. Message texts are numbers; an entry holds 0
when its length is 0. Once two calls of `logger_write` have overlapped (`overlap`) a
message can be lost or written twice; the properties about messages hold up to then.

### `Lifecycle`

Main and the signal handler are two contexts that run the same `stop()` and close the
same journal. Init and start can fail at each call. The four threads are reduced to
what they share with stop: their flags, and for the I/O thread the journal, the
logger and the gateway. `misuse` records a use of something gone: an append to or a
second close of a closed journal, a join of a thread that was joined or never created,
a message logged after `logger_shutdown`. After a misuse the program may crash.

The properties are stated for histories in which signals interrupted nothing but main
in its loop (`clean`), which is where main spends its time. `UsedInTime` and
`DestroyedAlone` fail without that condition: a signal during `start()` is lost or
leaves the program trading without a journal; one during `stop()` joins threads twice;
one taken by the I/O or consumer thread makes the handler close the journal under it.
That the handler calls functions which are not async-signal-safe is not modelled. After
a failed init or start the logger is destroyed while its thread runs; `DestroyedAlone`
makes an exception for it.

## Runs

| Run | Shows | Bounds |
|---|---|---|
| `ring` | FIFO, no slot race, exact counts, refinement of `BoundedQueue`, every pushed pointer is popped; capacity rounded correctly | 4 slots, 6 pushes: the indices wrap, and full and empty occur |
| `book` | index, no crossing, fills, price-time priority, trades, end of matching | 3 prices, quantities 0, 1, 3, 3 orders, 4 calls: an order can sweep two levels or two orders of a level |
| `feed` | the pool's counter, ownership of messages, exhaustion, return of all messages, end of `feed_destroy` | 4 objects, 6 messages: the pool exhausts, the queue fills; at most 5 pointers are out at once, `MaxHeld` never limits |
| `pipe` | ownership of events, ignored pushes, journal, gateway, statistics, shutdown ends, reports reach the journal | 3 slots, 2 messages, 1 trade: events are reused and reports dropped |
| `risk` | position, exposure, notional value and rate stay within the limits | 1 symbol, 2 seconds, 3 calls, quantities 0, 2, 3, limits that two orders reach, checks on and off |
| `journal` | records survive, are in order, never overwritten, never stored outside the mapping; the checksum is CRC-32 and tells a torn record from an intact one | 3 sessions, 3 appends, 1 system crash: the mapping is extended, and a session follows a crash |
| `logger` | messages written once, in order, and soon; the shutdown writes all and returns | 4 slots, batches of 2, 4 messages: entries are reused and batches complete |
| `lifecycle` | nothing used after its end, destroyed when alone, timed runs end, a signal stops the trading | 1 event, 2 signals: main and handler stop twice |

The type invariants are conjuncts of one property of each run (`IndexMatchesLists`,
`TopAccounts`, `EventOwnedOnce`, `StoresInMapping`, `WrittenInOrder`, `UsedInTime`); those of
`RingBuffer` and `RiskEngine` are proved.

Runs that end in a counterexample, each of a sentence in the repository:

| Run | Sentence | What happens |
|---|---|---|
| `feed_double` | `include/memory_pool.h:66`, `README.md:113` | the consumer's free moves `free_top` before it writes the slot; the feed's alloc reads the old index |
| `pipe_drain` | `src/event_pipeline.cpp:581` | the I/O thread exits while the consumer still drains |
| `journal_replay` | `include/journal.h:8` | a new journal begins with 256 MB of zeros |
| `lifecycle_ctrlc` | `src/main.cpp:190` | with duration 0 main loops on after Ctrl+C has stopped everything |

Seen while modelling, without a run: `modify_order` sets `filled_qty` back to 0 under the
same id, so `FillsMatchTrades` counts from the last modification. `feed_handler.c:214` says
the pool never exhausts; it does, but only when the queue is full. A queue of 4096
slots holds 4095 entries, so the last entry of the event pool never circulates: that is
what makes `NoPushRefused` hold. Capacities above 2^31 round to 0; no caller asks for one.

**Fairness.** The ring buffer's and the pipeline's threads are weakly fair: the
operating system runs every thread, and all loops poll. Main is fair except in
`run`: when it stops is its own choice. The matching loop is fair because it is
plain sequential code. `ShutdownEnds` also uses that `MaxMsgs` bounds the feed: the
consumer drains until it finds the queue empty, so a feed that is always faster
would keep it from ending. For the same reason `DestroyEnds` starts at `feed_stop`. In the
logger the logger thread, a writer inside `logger_write` and the join are fair; in the
lifecycle all threads, main and the handler are, and a run with a duration reaches its
end because time passes. Signals never have to come.

## Proofs

`RingBufferProofs` proves, for every capacity, every set of data and every bound
`MaxPush`: `TypeOK`, `FIFO`, `NoSlotRace`, `CountExact`, and that `RingBuffer`
implements `BoundedQueue`. Assumptions: `Capacity` is a positive natural number,
`NULL` is not data.

None of these is inductive. `IInv` adds that `head` is `tail` advanced by the number of
queued pointers, of which there are fewer than `Capacity` (`Occupancy`); that the
slot `k` places after the tail holds the `k`-th queued pointer (`Contents`); and
what each thread may conclude from a view that can be stale (`ProducerView`,
`ConsumerView`): a stale tail only makes the buffer look fuller, a stale head only
emptier. Arithmetic modulo `Capacity` is in lemmas of its own.

`RiskEngineProofs` proves, for all limits, symbols, prices and quantities, that
`TypeOK`, `WithinLimits` and `NotionalWithinLimit` are invariants. Assumptions: all
limits but the rate limit are natural numbers, prices are natural numbers, and
quantities are integers. The inductive invariant adds `AcceptedFits`: the order in
the hands of the hot path passes the checks against the positions of now, because
nothing was executed since it was validated. That a part of such an order fits as
well is arithmetic (`PartFits`, `PartIsWorthLess`): after a part the position lies
between the one before and the one after the whole order.
`WithinLimits` is about fills that are reported. The orders that rest in the book
are filled later without a report; see the plan.

Only model-checked: `RateWithinLimit`; liveness and anything that needs ENABLED, which is
beyond the prover; the rounding of capacities and the checksum, which need induction over
data or bit operations; `OrderBook`, `MemoryPool`, `FeedHandler`, `EventPipeline`,
`Journal`, `Logger` and `Lifecycle` so far.

## Not modelled, and the plan

1. Risk engine composed with the book, whose resting orders are filled without a
   position update.
2. A second signal while the first is handled on another thread, and locks held by
   the interrupted code.
3. Proofs: `IndexMatchesLists`, `NotCrossed` and `FillsMatchTrades` of the book;
   `EventOwnedOnce`, `NoPushRefused` and `JournalInOrder` of the pipeline;
   `TopAccounts` of the pool; `StoresInMapping` and `AppendOnly` of the journal;
   `UsedInTime` of the lifecycle; the risk engine's rate limit.

Left out for good: sockets and price generation of the feed, formatting, the wire
format of the gateway, option parsing and printing, latency measurement, and the
read-only depth queries of the book.
