---------------------------- MODULE BoundedQueue ----------------------------
(***************************************************************************)
(* What a lock-free SPSC ring buffer promises to the threads that share    *)
(* it: an atomic first-in first-out queue that never holds more than Bound *)
(* pointers.  The state is the history of the queue: every pointer that    *)
(* was put in, and every pointer that was taken out.                       *)
(***************************************************************************)
EXTENDS Integers, Sequences

CONSTANTS
  Data,    \* the pointers that can be queued
  Bound    \* the number of pointers the queue can hold

VARIABLES
  sent,      \* all pointers put so far, oldest first
  received   \* all pointers taken so far, oldest first

vars == <<sent, received>>

Init ==
  /\ sent = << >>
  /\ received = << >>

(* A push that returned true. *)
Put(d) ==
  /\ Len(sent) - Len(received) < Bound
  /\ sent' = Append(sent, d)
  /\ UNCHANGED received

(* A pop that returned a pointer: always the oldest one still queued. *)
Get ==
  /\ Len(received) < Len(sent)
  /\ received' = Append(received, sent[Len(received) + 1])
  /\ UNCHANGED sent

Next ==
  \/ \E d \in Data : Put(d)
  \/ Get

Spec == Init /\ [][Next]_vars
=============================================================================
