-------------------------- MODULE RingBufferProofs --------------------------
(***************************************************************************)
(* Proofs about RingBuffer, for every capacity, every set of pointers and  *)
(* every number of pushes.                                                 *)
(***************************************************************************)
EXTENDS RingBuffer, TLAPS

(* Masking an index that moved one slot forward wraps at the capacity. *)
LEMMA AdvanceWraps ==
  ASSUME NEW i \in Slots
  PROVE  /\ Advance(i) = IF i + 1 = Capacity THEN 0 ELSE i + 1
         /\ Advance(i) \in Slots
BY CapacityAssumption DEF Slots, Advance

(* An index some stores ago, without the mask. *)
LEMMA OlderWraps ==
  ASSUME NEW i \in Slots, NEW k \in Slots
  PROVE  Older(i, k) = IF i >= k THEN i - k ELSE i - k + Capacity
BY CapacityAssumption DEF Slots, Older

(* A slot some places after the tail, without the mask. *)
LEMMA SlotAtWraps ==
  ASSUME tail \in Slots, NEW k \in Slots
  PROVE  SlotAt(k) = IF tail + k < Capacity THEN tail + k ELSE tail + k - Capacity
BY CapacityAssumption DEF Slots, SlotAt

(* The state ring_buffer_init leaves satisfies the inductive invariant. *)
LEMMA InitIInv == Init => IInv
<1> SUFFICES ASSUME Init PROVE IInv
  OBVIOUS
<1>1. TypeOK
  BY CapacityAssumption DEF Init, TypeOK, Slots
<1>2. Occupancy
  BY CapacityAssumption DEF Init, Occupancy, Queued, SlotAt
<1>3. Contents
  BY DEF Init, Contents, Queued
<1>4. ProducerView /\ ConsumerView
  BY CapacityAssumption DEF Init, ProducerView, ConsumerView
<1>5. FIFO
  BY DEF Init, FIFO
<1> QED
  BY <1>1, <1>2, <1>3, <1>4, <1>5 DEF IInv

(* Both indices of a state that satisfies the invariant, without the mask. *)
LEMMA HeadPosition ==
  ASSUME IInv
  PROVE  /\ Queued \in Slots
         /\ Len(sent) \in Nat /\ Len(received) \in Nat
         /\ Queued = Len(sent) - Len(received)
         /\ head = IF tail + Queued < Capacity THEN tail + Queued
                                               ELSE tail + Queued - Capacity
<1>1. Queued \in Slots /\ tail \in Slots /\ head = SlotAt(Queued)
  BY DEF IInv, Occupancy, Slots, TypeOK
<1> QED
  BY <1>1, SlotAtWraps DEF IInv, TypeOK, Queued

(* The arithmetic of the full check: h and t are the indices after s      *)
(* pushes and r pops, and the ring looks full from the t of lag pops ago   *)
(* only if there were C - 1 more pushes than pops by then.                 *)
LEMMA FullArithmetic ==
  ASSUME NEW C \in Nat, NEW h \in Int, NEW t \in Int,
         NEW s \in Nat, NEW r \in Nat, NEW lag \in Nat,
         0 <= h, h < C, 0 <= t, t < C, r <= s, lag < C,
         s - (r - lag) <= C - 1,
         h = IF t + (s - r) < C THEN t + (s - r) ELSE t + (s - r) - C,
         (IF h + 1 = C THEN 0 ELSE h + 1)
           # (IF t >= lag THEN t - lag ELSE t - lag + C)
  PROVE  s - (r - lag) < C - 1
OBVIOUS

(* A producer that did not find the ring full has a free slot, however old *)
(* the tail it loaded.                                                     *)
LEMMA NotFullMeansRoom ==
  ASSUME IInv, NEW lag \in TailLag, ~ Full(head, Older(tail, lag))
  PROVE  Len(sent) - (Len(received) - lag) < Capacity - 1
<1>1. /\ lag \in Nat /\ p_seen \in Nat
      /\ lag <= Len(received) - p_seen
      /\ Len(sent) - p_seen <= Capacity - 1
      /\ head \in Slots /\ tail \in Slots
  BY HeadPosition DEF TailLag, IInv, TypeOK, ProducerView
<1>2. lag \in Slots
  BY <1>1, HeadPosition, CapacityAssumption DEF Slots
<1>3. (IF head + 1 = Capacity THEN 0 ELSE head + 1)
        # (IF tail >= lag THEN tail - lag ELSE tail - lag + Capacity)
  BY <1>1, <1>2, AdvanceWraps, OlderWraps DEF Full
<1>4. /\ Len(sent) \in Nat /\ Len(received) \in Nat
      /\ Len(received) <= Len(sent)
      /\ head = IF tail + (Len(sent) - Len(received)) < Capacity
                THEN tail + (Len(sent) - Len(received))
                ELSE tail + (Len(sent) - Len(received)) - Capacity
  BY HeadPosition, CapacityAssumption DEF Slots
<1>5. /\ Capacity \in Nat /\ head \in Int /\ tail \in Int
      /\ 0 <= head /\ head < Capacity /\ 0 <= tail /\ tail < Capacity
      /\ lag < Capacity
  BY <1>1, <1>2, CapacityAssumption DEF Slots
<1>6. Len(sent) - (Len(received) - lag) <= Capacity - 1
  BY <1>1, <1>4, <1>5
<1> QED
  BY <1>1, <1>3, <1>4, <1>5, <1>6, FullArithmetic

(* A consumer that did not find the ring empty has a pointer to take. *)
LEMMA NotEmptyMeansQueued ==
  ASSUME IInv, NEW lag \in HeadLag, ~ Empty(Older(head, lag), tail)
  PROVE  Len(received) < Len(sent) - lag
<1>1. /\ lag \in Nat /\ c_seen \in Nat
      /\ lag <= Len(sent) - c_seen
      /\ Len(received) <= c_seen
      /\ head \in Slots /\ tail \in Slots
  BY HeadPosition DEF HeadLag, IInv, TypeOK, ConsumerView
<1>2. lag \in Slots
  BY <1>1, HeadPosition, CapacityAssumption DEF Slots
<1>3. (IF head >= lag THEN head - lag ELSE head - lag + Capacity) # tail
  BY <1>1, <1>2, OlderWraps DEF Empty
<1>4. /\ Len(sent) \in Nat /\ Len(received) \in Nat
      /\ Len(received) <= Len(sent)
      /\ head = IF tail + (Len(sent) - Len(received)) < Capacity
                THEN tail + (Len(sent) - Len(received))
                ELSE tail + (Len(sent) - Len(received)) - Capacity
  BY HeadPosition, CapacityAssumption DEF Slots
<1>5. /\ Capacity \in Nat /\ head \in Int /\ tail \in Int
      /\ 0 <= head /\ head < Capacity /\ 0 <= tail /\ tail < Capacity
      /\ lag < Capacity
  BY <1>1, <1>2, CapacityAssumption DEF Slots
<1> QED
  BY <1>1, <1>3, <1>4, <1>5

(* Different queued positions are different slots, and none of them is the *)
(* slot the producer writes.                                               *)
LEMMA QueuedSlotsApart ==
  ASSUME IInv, NEW k \in 0 .. Queued - 1
  PROVE  SlotAt(k) # head /\ SlotAt(k) \in Slots
<1>0. Queued \in Slots /\ tail \in Slots
  BY HeadPosition DEF IInv, TypeOK
<1>1. tail \in Slots /\ k \in Slots /\ k < Queued /\ Queued \in Slots
  BY <1>0, CapacityAssumption DEF Slots
<1>2. SlotAt(k) = IF tail + k < Capacity THEN tail + k ELSE tail + k - Capacity
  BY <1>1, SlotAtWraps
<1>3. head = IF tail + Queued < Capacity THEN tail + Queued
                                         ELSE tail + Queued - Capacity
  BY HeadPosition
<1> QED
  BY <1>1, <1>2, <1>3, CapacityAssumption DEF Slots

(* No step of the producer or the consumer leaves the invariant. *)
LEMMA NextIInv == IInv /\ [Next]_vars => IInv'
<1> SUFFICES ASSUME IInv, [Next]_vars
             PROVE  IInv'
  OBVIOUS
<1> USE DEF producerVars, consumerVars
<1>0. /\ TypeOK /\ Occupancy /\ Contents /\ ProducerView /\ ConsumerView /\ FIFO
      /\ Len(sent) \in Nat /\ Len(received) \in Nat
  BY HeadPosition DEF IInv
<1>1. ASSUME NEW lag \in TailLag, PushRefuse(lag)
      PROVE  IInv'
  <2>1. /\ lag \in Nat /\ lag <= Len(received) - p_seen /\ p_seen \in Nat
        /\ p_pc = "idle" /\ p_pc' = "idle"
        /\ p_seen' = Len(received) - lag
    BY <1>0, <1>1 DEF PushRefuse, TailLag, TypeOK
  <2>2. TypeOK' /\ Occupancy' /\ Contents' /\ ConsumerView' /\ FIFO'
    BY <1>0, <1>1, <2>1
       DEF PushRefuse, TypeOK, Occupancy, Contents, ConsumerView, FIFO, Queued, SlotAt
  <2>3. ProducerView'
    BY <1>0, <1>1, <2>1, CapacityAssumption DEF PushRefuse, ProducerView
  <2> QED
    BY <2>2, <2>3 DEF IInv
<1>2. ASSUME NEW d \in Data, NEW lag \in TailLag, PushLoad(d, lag)
      PROVE  IInv'
  <2>1. /\ lag \in Nat /\ lag <= Len(received) - p_seen /\ p_seen \in Nat
        /\ p_pc' = "store" /\ p_data' = d
        /\ p_seen' = Len(received) - lag
    BY <1>0, <1>2 DEF PushLoad, TailLag, TypeOK
  <2>2. TypeOK' /\ Occupancy' /\ Contents' /\ ConsumerView' /\ FIFO'
    BY <1>0, <1>2, <2>1
       DEF PushLoad, TypeOK, Occupancy, Contents, ConsumerView, FIFO, Queued, SlotAt
  <2>3. Len(sent) - p_seen' < Capacity - 1
    BY <1>2, <2>1, NotFullMeansRoom DEF PushLoad
  <2>4. ProducerView'
    BY <1>0, <1>2, <2>1, <2>3, CapacityAssumption DEF PushLoad, ProducerView
  <2> QED
    BY <2>2, <2>4 DEF IInv
<1>3. CASE PushStore
  <2>1. p_data \in Data /\ head \in Slots
    BY <1>0, <1>3 DEF PushStore, ProducerView, TypeOK
  <2>2. TypeOK' /\ Occupancy' /\ ConsumerView' /\ FIFO'
    BY <1>0, <1>3, <2>1 DEF PushStore, TypeOK, Occupancy, ConsumerView, FIFO, Queued, SlotAt
  <2>3. Contents'
    <3> SUFFICES ASSUME NEW k \in 0 .. Queued - 1
                 PROVE  buffer'[SlotAt(k)] = sent[Len(received) + k + 1]
      BY <1>3 DEF PushStore, Contents, Queued, SlotAt
    <3>1. SlotAt(k) # head /\ SlotAt(k) \in Slots
      BY QueuedSlotsApart
    <3> QED
      BY <1>0, <1>3, <3>1 DEF PushStore, Contents, TypeOK
  <2>4. ProducerView'
    BY <1>0, <1>3, <2>1 DEF PushStore, ProducerView, TypeOK
  <2> QED
    BY <2>2, <2>3, <2>4 DEF IInv
<1>4. CASE PushPublish
  <2>1. /\ p_data \in Data /\ buffer[head] = p_data
        /\ head' = Advance(head) /\ tail' = tail /\ buffer' = buffer
        /\ sent' = Append(sent, p_data) /\ received' = received
        /\ p_pc' = "idle" /\ p_data' = NULL /\ p_seen' = p_seen
        /\ UNCHANGED consumerVars
    BY <1>0, <1>4 DEF PushPublish, ProducerView
  <2>2. /\ Len(sent') = Len(sent) + 1
        /\ \A i \in 1 .. Len(sent) : sent'[i] = sent[i]
        /\ sent'[Len(sent) + 1] = p_data
        /\ sent' \in Seq(Data)
    BY <1>0, <2>1 DEF TypeOK
  <2>3. Queued' = Queued + 1 /\ Queued \in Nat /\ Queued + 1 \in Slots
    BY <1>0, <1>4, <2>1, <2>2, CapacityAssumption
       DEF PushPublish, ProducerView, Occupancy, Queued, Slots, TypeOK
  <2>4. TypeOK'
    BY <1>0, <2>1, <2>2, AdvanceWraps DEF TypeOK
  <2>5. Occupancy'
    <3>1. head' = IF head + 1 = Capacity THEN 0 ELSE head + 1
      BY <1>0, <2>1, AdvanceWraps DEF TypeOK
    <3>2. head = IF tail + Queued < Capacity THEN tail + Queued
                                             ELSE tail + Queued - Capacity
      BY HeadPosition
    <3>3. SlotAt(Queued + 1) = IF tail + (Queued + 1) < Capacity
                               THEN tail + (Queued + 1)
                               ELSE tail + (Queued + 1) - Capacity
      BY <1>0, <2>3, SlotAtWraps DEF TypeOK
    <3>4. head' = SlotAt(Queued + 1)
      BY <1>0, <2>3, <3>1, <3>2, <3>3, CapacityAssumption DEF Slots, TypeOK
    <3> QED
      BY <2>1, <2>3, <3>4 DEF Occupancy, SlotAt, Slots
  <2>6. Contents'
    <3>0. Queued' - 1 = Queued
      BY <2>3
    <3> SUFFICES ASSUME NEW k \in 0 .. Queued
                 PROVE  buffer[SlotAt(k)] = sent'[Len(received) + k + 1]
      BY <2>1, <3>0 DEF Contents, SlotAt
    <3>1. CASE k = Queued
      BY <1>0, <2>1, <2>2, <3>1 DEF Occupancy, Queued
    <3>2. CASE k # Queued
      <4>1. k \in 0 .. Queued - 1 /\ Len(received) + k + 1 \in 1 .. Len(sent)
        BY <1>0, <2>3, <3>2 DEF Queued
      <4> QED
        BY <1>0, <2>2, <4>1 DEF Contents
    <3> QED
      BY <3>1, <3>2
  <2>7. ProducerView'
    BY <1>0, <1>4, <2>1, <2>2, CapacityAssumption DEF PushPublish, ProducerView, TypeOK
  <2>8. ConsumerView'
    BY <1>0, <2>1, <2>2 DEF ConsumerView, TypeOK
  <2>9. FIFO'
    BY <1>0, <2>1, <2>2 DEF FIFO
  <2> QED
    BY <2>4, <2>5, <2>6, <2>7, <2>8, <2>9 DEF IInv
<1>5. ASSUME NEW lag \in HeadLag, PopEmpty(lag)
      PROVE  IInv'
  <2>1. /\ lag \in Nat /\ lag <= Len(sent) - c_seen /\ c_seen \in Nat
        /\ c_pc = "idle" /\ c_pc' = "idle"
        /\ c_seen' = Len(sent) - lag
    BY <1>0, <1>5 DEF PopEmpty, HeadLag, TypeOK
  <2>2. TypeOK' /\ Occupancy' /\ Contents' /\ ProducerView' /\ FIFO'
    BY <1>0, <1>5, <2>1
       DEF PopEmpty, TypeOK, Occupancy, Contents, ProducerView, FIFO, Queued, SlotAt
  <2>3. ConsumerView'
    BY <1>0, <1>5, <2>1 DEF PopEmpty, ConsumerView
  <2> QED
    BY <2>2, <2>3 DEF IInv
<1>6. ASSUME NEW lag \in HeadLag, PopLoad(lag)
      PROVE  IInv'
  <2>1. /\ lag \in Nat /\ lag <= Len(sent) - c_seen /\ c_seen \in Nat
        /\ c_pc' = "read" /\ c_seen' = Len(sent) - lag
    BY <1>0, <1>6 DEF PopLoad, HeadLag, TypeOK
  <2>2. TypeOK' /\ Occupancy' /\ Contents' /\ ProducerView' /\ FIFO'
    BY <1>0, <1>6, <2>1
       DEF PopLoad, TypeOK, Occupancy, Contents, ProducerView, FIFO, Queued, SlotAt
  <2>3. Len(received) < c_seen'
    BY <1>6, <2>1, NotEmptyMeansQueued DEF PopLoad
  <2>4. ConsumerView'
    BY <1>0, <1>6, <2>1, <2>3 DEF PopLoad, ConsumerView
  <2> QED
    BY <2>2, <2>4 DEF IInv
<1>7. CASE PopRead
  <2>1. Queued \in Nat /\ 0 < Queued /\ tail \in Slots
    BY <1>0, <1>7 DEF PopRead, ConsumerView, TypeOK, Queued
  <2>2. SlotAt(0) = tail
    BY <2>1, SlotAtWraps, CapacityAssumption DEF Slots
  <2>3. buffer[tail] = sent[Len(received) + 1]
    BY <1>0, <2>1, <2>2 DEF Contents
  <2>4. Len(received) + 1 \in 1 .. Len(sent)
    BY <1>0, <2>1 DEF Queued
  <2>5. TypeOK' /\ Occupancy' /\ Contents' /\ ProducerView' /\ FIFO'
    BY <1>0, <1>7, <2>1
       DEF PopRead, TypeOK, Occupancy, Contents, ProducerView, FIFO, Queued, SlotAt
  <2>6. ConsumerView'
    BY <1>0, <1>7, <2>3 DEF PopRead, ConsumerView
  <2> QED
    BY <2>5, <2>6 DEF IInv
<1>8. CASE PopPublish
  <2>1. /\ c_data = sent[Len(received) + 1] /\ Len(received) < c_seen
        /\ c_seen <= Len(sent) /\ c_seen \in Nat
        /\ tail' = Advance(tail) /\ head' = head /\ buffer' = buffer
        /\ received' = Append(received, c_data) /\ sent' = sent
        /\ c_pc' = "idle" /\ c_data' = NULL /\ c_seen' = c_seen
        /\ UNCHANGED producerVars
    BY <1>0, <1>8 DEF PopPublish, ConsumerView, TypeOK
  <2>2. c_data \in Data
    BY <1>0, <2>1 DEF TypeOK
  <2>3. /\ Len(received') = Len(received) + 1
        /\ \A i \in 1 .. Len(received) : received'[i] = received[i]
        /\ received'[Len(received) + 1] = c_data
        /\ received' \in Seq(Data)
    BY <1>0, <2>1, <2>2 DEF TypeOK
  <2>4. /\ Queued' = Queued - 1
        /\ Queued \in Slots /\ 0 < Queued
    BY <1>0, <2>1, <2>3, HeadPosition DEF Queued
  <2>5. \A k \in Slots : k < Queued => (tail' + k) % Capacity = SlotAt(k + 1)
    <3> SUFFICES ASSUME NEW k \in Slots, k < Queued
                 PROVE  (tail' + k) % Capacity = SlotAt(k + 1)
      OBVIOUS
    <3>1. tail \in Slots /\ k + 1 \in Slots
      BY <1>0, <2>4, CapacityAssumption DEF Slots, TypeOK
    <3>2. SlotAt(k + 1) = IF tail + (k + 1) < Capacity THEN tail + (k + 1)
                                           ELSE tail + (k + 1) - Capacity
      BY <3>1, SlotAtWraps
    <3>3. tail' = IF tail + 1 = Capacity THEN 0 ELSE tail + 1
      BY <2>1, <3>1, AdvanceWraps
    <3> QED
      BY <3>1, <3>2, <3>3, CapacityAssumption DEF Slots, SlotAt
  <2>6. TypeOK'
    BY <1>0, <2>1, <2>3, AdvanceWraps DEF TypeOK
  <2>7. Occupancy'
    <3>1. Queued - 1 \in Slots /\ Queued - 1 < Queued
      BY <2>4, CapacityAssumption DEF Slots
    <3>2. (tail' + (Queued - 1)) % Capacity = SlotAt(Queued)
      BY <2>4, <2>5, <3>1 DEF Slots
    <3> QED
      BY <1>0, <2>1, <2>4, <3>1, <3>2 DEF Occupancy, Slots, SlotAt
  <2>8. Contents'
    <3>0. Queued' - 1 = Queued - 2
      BY <2>4 DEF Slots
    <3> SUFFICES ASSUME NEW k \in 0 .. Queued - 2
                 PROVE  buffer[(tail' + k) % Capacity] = sent[Len(received) + 1 + k + 1]
      BY <2>1, <2>3, <3>0 DEF Contents, SlotAt
    <3>1. k \in Slots /\ k < Queued /\ k + 1 \in 0 .. Queued - 1
      BY <2>4, CapacityAssumption DEF Slots
    <3>2. buffer[SlotAt(k + 1)] = sent[Len(received) + (k + 1) + 1]
      BY <1>0, <3>1 DEF Contents
    <3> QED
      BY <1>0, <2>5, <3>1, <3>2
  <2>9. ProducerView'
    BY <1>0, <2>1, <2>3 DEF ProducerView, TypeOK
  <2>10. ConsumerView'
    BY <1>0, <2>1, <2>3 DEF ConsumerView
  <2>11. FIFO'
    BY <1>0, <2>1, <2>3 DEF FIFO
  <2> QED
    BY <2>6, <2>7, <2>8, <2>9, <2>10, <2>11 DEF IInv
<1>9. CASE UNCHANGED vars
  BY <1>9 DEF vars, IInv, TypeOK, Occupancy, Contents, ProducerView,
              ConsumerView, FIFO, Queued, SlotAt
<1> QED
  BY <1>1, <1>2, <1>3, <1>4, <1>5, <1>6, <1>7, <1>8, <1>9
     DEF Next, Producer, Consumer

(* The inductive invariant holds in every reachable state. *)
THEOREM Invariance == Spec => []IInv
BY InitIInv, NextIInv, PTL DEF Spec

(* The fields of the ring buffer keep their types and both indices stay in *)
(* the buffer, for every capacity.                                         *)
THEOREM TypeCorrect == Spec => []TypeOK
<1>1. IInv => TypeOK
  BY DEF IInv
<1> QED
  BY <1>1, Invariance, PTL

(* ring_buffer_pop returns the pushed pointers in order, none lost and     *)
(* none twice, for every capacity and however stale the indices are that   *)
(* the two threads load.                                                   *)
THEOREM FirstInFirstOut == Spec => []FIFO
<1>1. IInv => FIFO
  BY DEF IInv
<1> QED
  BY <1>1, Invariance, PTL

(* Producer and consumer never access the same slot at the same time. *)
THEOREM SlotRaceFree == Spec => []NoSlotRace
<1>1. IInv => NoSlotRace
  <2> SUFFICES ASSUME IInv, p_pc = "store", c_pc = "read"
               PROVE  head # tail
    BY DEF NoSlotRace
  <2>1. Queued \in Slots /\ tail \in Slots /\ 0 < Queued
    BY HeadPosition DEF IInv, ConsumerView, TypeOK
  <2>2. head = IF tail + Queued < Capacity THEN tail + Queued
                                           ELSE tail + Queued - Capacity
    BY HeadPosition
  <2> QED
    BY <2>1, <2>2, CapacityAssumption DEF Slots
<1> QED
  BY <1>1, Invariance, PTL

(* The count, empty and full queries computed from the masked indices      *)
(* agree with the number of pointers really queued.                        *)
THEOREM CountsAreExact == Spec => []CountExact
<1>1. IInv => CountExact
  <2> SUFFICES ASSUME IInv
               PROVE  CountExact
    OBVIOUS
  <2>1. /\ Queued \in Slots /\ tail \in Slots /\ head \in Slots
        /\ head = IF tail + Queued < Capacity THEN tail + Queued
                                              ELSE tail + Queued - Capacity
    BY HeadPosition DEF IInv, TypeOK
  <2>2. (head - tail) % Capacity
          = IF head >= tail THEN head - tail ELSE head - tail + Capacity
    BY <2>1, OlderWraps DEF Older
  <2>3. Advance(head) = IF head + 1 = Capacity THEN 0 ELSE head + 1
    BY <2>1, AdvanceWraps
  <2>4. ring_buffer_count = Queued
    BY <2>1, <2>2, CapacityAssumption DEF ring_buffer_count, Slots
  <2>5. ring_buffer_empty <=> Queued = 0
    BY <2>1, CapacityAssumption DEF ring_buffer_empty, Empty, Slots
  <2>6. ring_buffer_full <=> Queued = Capacity - 1
    BY <2>1, <2>3, CapacityAssumption DEF ring_buffer_full, Full, Slots
  <2> QED
    BY <2>4, <2>5, <2>6 DEF CountExact, Queued
<1> QED
  BY <1>1, Invariance, PTL

(* The lock-free ring buffer implements the atomic bounded queue: every    *)
(* step of the two threads is a put, a get or invisible.                   *)
THEOREM Refinement == Spec => QueueSpec
<1>1. Init => Queue!Init
  BY DEF Init, Queue!Init
<1>2. IInv /\ [Next]_vars => [Queue!Next]_(Queue!vars)
  <2> SUFFICES ASSUME IInv, [Next]_vars
               PROVE  [Queue!Next]_(Queue!vars)
    OBVIOUS
  <2>1. CASE PushPublish
    <3>1. Len(sent) - Len(received) < Capacity - 1 /\ p_data \in Data
      BY <2>1, HeadPosition, CapacityAssumption
         DEF PushPublish, IInv, ProducerView, TypeOK
    <3> QED
      BY <2>1, <3>1 DEF PushPublish, Queue!Next, Queue!Put
  <2>2. CASE PopPublish
    <3>1. Len(received) < Len(sent) /\ c_data = sent[Len(received) + 1]
      BY <2>2, HeadPosition DEF PopPublish, IInv, ConsumerView, TypeOK
    <3> QED
      BY <2>2, <3>1 DEF PopPublish, Queue!Next, Queue!Get
  <2>3. CASE UNCHANGED <<sent, received>>
    BY <2>3 DEF Queue!vars
  <2> QED
    BY <2>1, <2>2, <2>3
       DEF Next, Producer, Consumer, vars, PushRefuse, PushLoad, PushStore,
           PopEmpty, PopLoad, PopRead
<1> QED
  BY <1>1, <1>2, Invariance, PTL DEF Spec, QueueSpec, Queue!Spec
=============================================================================
