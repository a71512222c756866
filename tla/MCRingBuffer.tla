---------------------------- MODULE MCRingBuffer ----------------------------
(* Model values for the model checking of RingBuffer. *)
EXTENDS RingBuffer, RingSizing

CONSTANTS d1, d2

MCData == {d1, d2}

-----------------------------------------------------------------------------
LeastPowerOfTwo ==
  \A n \in 1 .. MaxWord - 1 :
    LET c == InitCapacity(n) IN
      IF n <= MaxWord \div 2
        THEN /\ \E k \in 0 .. WordBits - 1 : c = 2 ^ k
             /\ n <= c /\ c < 2 * n
        ELSE c = 0

(* The capacities asked for that give the buffer its Capacity. *)
Asked == {n \in 1 .. MaxWord - 1 : InitCapacity(n) = Capacity}

(* ring_buffer_init gives the least power of two that is not below the     *)
(* capacity asked for (above the largest power of two of the word the      *)
(* rounding wraps to a capacity of 0), so that "& rb->mask" in             *)
(* ring_buffer_push, ring_buffer_pop and ring_buffer_count is a remainder: *)
(* it takes either index to the next slot, and their distance to the       *)
(* count.                                                                  *)
CapacityRounded ==
  /\ LeastPowerOfTwo
  /\ \A n \in Asked :
       LET mask == InitCapacity(n) - 1 IN
       /\ \A i \in {head, tail} : ((i + 1) & mask) = Advance(i)
       /\ (((head - tail) % MaxWord) & mask) = ring_buffer_count
=============================================================================
