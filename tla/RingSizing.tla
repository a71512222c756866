----------------------------- MODULE RingSizing -----------------------------
(***************************************************************************)
(* How ring_buffer_init (src/ring_buffer.c) rounds a capacity up to a      *)
(* power of two, with the bit operations of the code on a smaller word, on *)
(* which the last shift, by 16, has no effect.                             *)
(***************************************************************************)
EXTENDS Integers, Bitwise

WordBits == 10          \* 32 in the code
MaxWord  == 2 ^ WordBits

is_power_of_two(n) == n > 0 /\ (n & (n - 1)) = 0

(* n |= n >> s *)
Smear(n, s) == n | (n \div 2 ^ s)

next_power_of_two_NoShift4(n) ==
  IF n = 0 THEN 1
  ELSE (Smear(Smear(Smear(n - 1, 1), 2), 8) + 1) % MaxWord

next_power_of_two(n) ==
  IF n = 0 THEN 1
  ELSE (Smear(Smear(Smear(Smear(n - 1, 1), 2), 4), 8) + 1) % MaxWord

(* rb->capacity after ring_buffer_init(rb, capacity) with capacity > 0. *)
InitCapacity(capacity) ==
  IF is_power_of_two(capacity) THEN capacity ELSE next_power_of_two(capacity)
=============================================================================
