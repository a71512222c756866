----------------------------- MODULE RingBuffer -----------------------------
(***************************************************************************)
(* The lock-free single-producer single-consumer ring buffer               *)
(* (include/ring_buffer.h, src/ring_buffer.c).                             *)
(*                                                                         *)
(* One producer thread runs ring_buffer_push and one consumer thread runs  *)
(* ring_buffer_pop.  Every shared access that the other thread can observe *)
(* is a step of its own: the load of the other side's index, the access to *)
(* the slot, and the store that publishes the own index.                   *)
(*                                                                         *)
(* Memory order.  An index is owned by one thread and read by the other.   *)
(* The reader may see an old value of it: any value that is not older than *)
(* the last one it saw (coherence).  `lag' is how many stores the reader   *)
(* is behind.  The push loads the tail with RELAXED order and the pop      *)
(* loads the head with ACQUIRE order, so only the pop may rely on the slot *)
(* contents that were written before the value it read.                    *)
(***************************************************************************)
EXTENDS Integers, Sequences

CONSTANTS
  Data,       \* the pointers that are pushed
  NULL,       \* the null pointer
  Capacity,   \* rb->capacity: total slots (rb->mask + 1)
  MaxPush     \* bound of the model: pushes that succeed

ASSUME CapacityAssumption == Capacity \in Nat \ {0}
ASSUME MaxPushAssumption  == MaxPush \in Nat
ASSUME NullAssumption     == NULL \notin Data

VARIABLES
  buffer,     \* rb->buffer
  head,       \* rb->head, written by the producer
  tail,       \* rb->tail, written by the consumer
  p_pc,       \* where the producer is inside ring_buffer_push
  p_data,     \* the argument `data' of the push in progress
  p_seen,     \* history: number of pops behind the tail value seen last
  c_pc,       \* where the consumer is inside ring_buffer_pop
  c_data,     \* the local `data' of the pop in progress
  c_seen,     \* history: number of pushes behind the head value seen last
  sent,       \* history: pointers whose push was published
  received    \* history: pointers that pop returned

producerVars == <<p_pc, p_data, p_seen>>
consumerVars == <<c_pc, c_data, c_seen>>
vars == <<buffer, head, tail, p_pc, p_data, p_seen, c_pc, c_data, c_seen,
          sent, received>>

Slots == 0 .. Capacity - 1

(***************************************************************************)
(* Index arithmetic.  The capacity is a power of two, so `& rb->mask' is   *)
(* the remainder modulo Capacity.                                          *)
(***************************************************************************)
Advance(i) == (i + 1) % Capacity

Older(i, lag) == (i - lag) % Capacity

(* Variants of the definitions below, each with one plausible mistake. *)
Full_Never(h, t)     == FALSE
Full_WholeRing(h, t) == h = t
Empty_Never(h, t)    == FALSE

Full(h, t) == Advance(h) = t

Empty(h, t) == t = h

ring_buffer_count == (head - tail) % Capacity
ring_buffer_empty == Empty(head, tail)
ring_buffer_full  == Full(head, tail)

-----------------------------------------------------------------------------
(* ring_buffer_init: calloc'ed slots, both indices 0. *)
Init ==
  /\ buffer = [i \in Slots |-> NULL]
  /\ head = 0
  /\ tail = 0
  /\ p_pc = "idle" /\ p_data = NULL /\ p_seen = 0
  /\ c_pc = "idle" /\ c_data = NULL /\ c_seen = 0
  /\ sent = << >>
  /\ received = << >>

-----------------------------------------------------------------------------
(***************************************************************************)
(* ring_buffer_push(rb, data)                                              *)
(***************************************************************************)

(* The tail values the producer may load, named by how stale they are. *)
TailLag == 0 .. Len(received) - p_seen

(* Loads head and tail and finds the buffer full: the push returns false. *)
PushRefuse(lag) ==
  /\ p_pc = "idle"
  /\ Len(sent) < MaxPush
  /\ Full(head, Older(tail, lag))
  /\ p_seen' = Len(received) - lag
  /\ UNCHANGED <<buffer, head, tail, p_pc, p_data, consumerVars, sent, received>>

(* Loads head and tail and finds a free slot. *)
PushLoad(d, lag) ==
  /\ p_pc = "idle"
  /\ Len(sent) < MaxPush
  /\ ~ Full(head, Older(tail, lag))
  /\ p_seen' = Len(received) - lag
  /\ p_pc' = "store"
  /\ p_data' = d
  /\ UNCHANGED <<buffer, head, tail, consumerVars, sent, received>>

(* rb->buffer[head] = data *)
PushStore ==
  /\ p_pc = "store"
  /\ buffer' = [buffer EXCEPT ![head] = p_data]
  /\ p_pc' = "publish"
  /\ UNCHANGED <<head, tail, p_data, p_seen, consumerVars, sent, received>>

(* The RELEASE store of the new head; the push returns true. *)
PushPublish ==
  /\ p_pc = "publish"
  /\ head' = Advance(head)
  /\ sent' = Append(sent, p_data)
  /\ p_pc' = "idle"
  /\ p_data' = NULL
  /\ UNCHANGED <<buffer, tail, p_seen, consumerVars, received>>

-----------------------------------------------------------------------------
(***************************************************************************)
(* ring_buffer_pop(rb)                                                     *)
(***************************************************************************)

(* The head values the consumer may load. *)
HeadLag == 0 .. Len(sent) - c_seen

(* Loads tail and head and finds the buffer empty: the pop returns NULL. *)
PopEmpty(lag) ==
  /\ c_pc = "idle"
  /\ Empty(Older(head, lag), tail)
  /\ c_seen' = Len(sent) - lag
  /\ UNCHANGED <<buffer, head, tail, producerVars, c_pc, c_data, sent, received>>

(* Loads tail and head and finds an element. *)
PopLoad(lag) ==
  /\ c_pc = "idle"
  /\ ~ Empty(Older(head, lag), tail)
  /\ c_seen' = Len(sent) - lag
  /\ c_pc' = "read"
  /\ UNCHANGED <<buffer, head, tail, producerVars, c_data, sent, received>>

PopRead_NextSlot ==
  /\ c_pc = "read"
  /\ c_data' = buffer[Advance(tail)]
  /\ c_pc' = "publish"
  /\ UNCHANGED <<buffer, head, tail, producerVars, c_seen, sent, received>>

(* data = rb->buffer[tail] *)
PopRead ==
  /\ c_pc = "read"
  /\ c_data' = buffer[tail]
  /\ c_pc' = "publish"
  /\ UNCHANGED <<buffer, head, tail, producerVars, c_seen, sent, received>>

PopPublish_TailKept ==
  /\ c_pc = "publish"
  /\ received' = Append(received, c_data)
  /\ c_pc' = "idle"
  /\ c_data' = NULL
  /\ UNCHANGED <<buffer, head, tail, producerVars, c_seen, sent>>

(* The RELEASE store of the new tail; the pop returns data. *)
PopPublish ==
  /\ c_pc = "publish"
  /\ tail' = Advance(tail)
  /\ received' = Append(received, c_data)
  /\ c_pc' = "idle"
  /\ c_data' = NULL
  /\ UNCHANGED <<buffer, head, producerVars, c_seen, sent>>

-----------------------------------------------------------------------------
Producer ==
  \/ \E lag \in TailLag : PushRefuse(lag)
  \/ \E d \in Data, lag \in TailLag : PushLoad(d, lag)
  \/ PushStore
  \/ PushPublish

Consumer ==
  \/ \E lag \in HeadLag : PopEmpty(lag)
  \/ \E lag \in HeadLag : PopLoad(lag)
  \/ PopRead
  \/ PopPublish

Next == Producer \/ Consumer

Spec == Init /\ [][Next]_vars

(***************************************************************************)
(* Both threads keep running, and a store becomes visible to the other     *)
(* thread in finite time: a thread that keeps loading an index eventually  *)
(* loads its current value (lag 0).                                        *)
(***************************************************************************)
Fairness ==
  /\ WF_vars(\E d \in Data : PushLoad(d, 0))
  /\ WF_vars(PushStore)
  /\ WF_vars(PushPublish)
  /\ WF_vars(PopLoad(0))
  /\ WF_vars(PopRead)
  /\ WF_vars(PopPublish)

FairSpec == Spec /\ Fairness

-----------------------------------------------------------------------------
(***************************************************************************)
(* Properties                                                              *)
(***************************************************************************)

(* The fields of ring_buffer_t and the locals of push and pop keep their   *)
(* types; in particular both indices stay inside the buffer.               *)
TypeOK ==
  /\ buffer \in [Slots -> Data \cup {NULL}]
  /\ head \in Slots
  /\ tail \in Slots
  /\ p_pc \in {"idle", "store", "publish"}
  /\ p_data \in Data \cup {NULL}
  /\ p_seen \in Nat
  /\ c_pc \in {"idle", "read", "publish"}
  /\ c_data \in Data \cup {NULL}
  /\ c_seen \in Nat
  /\ sent \in Seq(Data)
  /\ received \in Seq(Data)

(* ring_buffer_pop returns the pushed pointers in push order: none is      *)
(* lost, duplicated, reordered or made up, whatever stale indices the two  *)
(* threads load.                                                           *)
FIFO ==
  /\ Len(received) <= Len(sent)
  /\ \A i \in 1 .. Len(received) : received[i] = sent[i]

(* The plain (non-atomic) accesses to rb->buffer never collide: while the  *)
(* producer is about to write a slot the consumer is not about to read it. *)
NoSlotRace ==
  p_pc = "store" /\ c_pc = "read" => head # tail

(* What ring_buffer_count, ring_buffer_empty and ring_buffer_full compute  *)
(* from the masked indices is the number of pointers really queued: one    *)
(* slot always stays free, so a full ring is never mistaken for an empty   *)
(* one.                                                                    *)
CountExact ==
  LET queued == Len(sent) - Len(received) IN
  /\ ring_buffer_count = queued
  /\ ring_buffer_empty <=> queued = 0
  /\ ring_buffer_full  <=> queued = Capacity - 1

(* The ring buffer implements the atomic bounded FIFO queue that the rest  *)
(* of the engine relies on; a push takes effect when the head is stored    *)
(* and a pop when the tail is stored.                                      *)
Queue == INSTANCE BoundedQueue WITH Bound <- Capacity - 1

QueueSpec == Queue!Spec

(* A producer that retries refused pushes and a consumer that keeps        *)
(* polling get every pointer across: neither thread can starve the other   *)
(* by way of stale indices.                                                *)
AllDelivered == <>(Len(received) = MaxPush)

-----------------------------------------------------------------------------
(***************************************************************************)
(* The inductive invariant behind TypeOK, FIFO, NoSlotRace and CountExact. *)
(***************************************************************************)
Queued == Len(sent) - Len(received)

(* Slot k positions after the tail. *)
SlotAt(k) == (tail + k) % Capacity

(* The indices are as far apart as there are pointers queued. *)
Occupancy ==
  /\ Queued \in 0 .. Capacity - 1
  /\ head = SlotAt(Queued)

(* The slots from the tail to the head hold the queued pointers in order. *)
Contents ==
  \A k \in 0 .. Queued - 1 : buffer[SlotAt(k)] = sent[Len(received) + k + 1]

(* The producer's view of the tail is old but safe: seen from it the ring  *)
(* is at least as full as it really is, and a push that went past the      *)
(* check has a free slot.                                                  *)
ProducerView ==
  /\ p_seen <= Len(received)
  /\ Len(sent) - p_seen <= Capacity - 1
  /\ p_pc # "idle" => Len(sent) - p_seen < Capacity - 1 /\ p_data \in Data
  /\ p_pc = "publish" => buffer[head] = p_data

(* The consumer's view of the head is old but safe: what it sees as queued *)
(* is queued.                                                              *)
ConsumerView ==
  /\ Len(received) <= c_seen
  /\ c_seen <= Len(sent)
  /\ c_pc # "idle" => Len(received) < c_seen
  /\ c_pc = "publish" => c_data = sent[Len(received) + 1]

IInv ==
  /\ TypeOK
  /\ Occupancy
  /\ Contents
  /\ ProducerView
  /\ ConsumerView
  /\ FIFO
=============================================================================
