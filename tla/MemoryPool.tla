----------------------------- MODULE MemoryPool -----------------------------
(***************************************************************************)
(* The fixed-size object pool (include/memory_pool.h, src/memory_pool.c):  *)
(* a stack of free object indices whose top is moved with atomic           *)
(* fetch_add / fetch_sub.                                                  *)
(*                                                                         *)
(* Every atomic access is a step.  free_top is an unsigned 32 bit integer; *)
(* the model keeps the wrap-around with a smaller word.  The clients are   *)
(* modelled by the pointers they hold: a pointer that alloc returned may   *)
(* be handed to any thread that frees, and is freed once.  Module          *)
(* FeedHandler puts the pool between the threads that use it.              *)
(***************************************************************************)
EXTENDS Integers, FiniteSets

CONSTANTS
  Allocators,   \* threads that call mempool_alloc
  Freers,       \* threads that call mempool_free
  Capacity,     \* mp->capacity
  Word,         \* number of values of free_top (2^32 in the code)
  MaxHeld       \* bound of the model: pointers held by clients

ASSUME CapacityAssumption == Capacity \in Nat \ {0}
ASSUME WordAssumption     == Word \in Nat /\ Capacity < Word
ASSUME MaxHeldAssumption  == MaxHeld \in Nat
ASSUME FiniteThreads      == IsFiniteSet(Allocators \cup Freers)

Threads == Allocators \cup Freers

Objects == 0 .. Capacity - 1

(* The address computed from whatever lies outside free_list. *)
Wild == Capacity

VARIABLES
  free_top,    \* mp->free_top
  free_list,   \* mp->free_list
  pc,          \* where each thread is
  claim,       \* each thread's old_top or slot
  idx,         \* the index each thread is freeing
  held,        \* how many pointers to each object the clients hold
  lost         \* history: number of pointers mempool_free dropped, modulo Word

vars == <<free_top, free_list, pc, claim, idx, held, lost>>

Inc(n) == (n + 1) % Word
Dec(n) == (n - 1) % Word

(* The pointers the clients hold: n to an object that is held n times. *)
Pointers == UNION {{i} \X (1 .. held[i]) : i \in DOMAIN held}

Outstanding == Cardinality(Pointers)

mempool_available == free_top

(* mempool_init *)
Init ==
  /\ free_top = Capacity
  /\ free_list = [i \in Objects |-> Capacity - 1 - i]
  /\ pc = [t \in Threads |-> "idle"]
  /\ claim = [t \in Threads |-> 0]
  /\ idx = [t \in Threads |-> 0]
  /\ held = [i \in Objects \cup {Wild} |-> 0]
  /\ lost = 0

-----------------------------------------------------------------------------
(***************************************************************************)
(* mempool_alloc                                                           *)
(***************************************************************************)

(* Threads that have moved free_top down but hold no object yet. *)
Claiming == {t \in Threads : pc[t] \in {"undo", "read"}}

AllocClaim(t) ==
  /\ pc[t] = "idle"
  /\ Outstanding + Cardinality(Claiming) < MaxHeld
  /\ claim' = [claim EXCEPT ![t] = free_top]
  /\ free_top' = Dec(free_top)
  /\ pc' = [pc EXCEPT ![t] = IF free_top = 0 THEN "undo" ELSE "read"]
  /\ UNCHANGED <<free_list, idx, held, lost>>

AllocUndo_Forgotten(t) ==
  /\ pc[t] = "undo"
  /\ pc' = [pc EXCEPT ![t] = "idle"]
  /\ claim' = [claim EXCEPT ![t] = 0]
  /\ UNCHANGED <<free_top, free_list, idx, held, lost>>

(* Pool exhausted: the decrement is undone and NULL returned. *)
AllocUndo(t) ==
  /\ pc[t] = "undo"
  /\ free_top' = Inc(free_top)
  /\ pc' = [pc EXCEPT ![t] = "idle"]
  /\ claim' = [claim EXCEPT ![t] = 0]
  /\ UNCHANGED <<free_list, idx, held, lost>>

(* What the load of free_list[old_top - 1] can give; outside the array it  *)
(* can give anything.                                                      *)
Loaded(old_top) ==
  IF old_top <= Capacity THEN {free_list[old_top - 1]}
                         ELSE Objects \cup {Wild}

AllocRead(t) ==
  /\ pc[t] = "read"
  /\ \E i \in Loaded(claim[t]) : held' = [held EXCEPT ![i] = @ + 1]
  /\ pc' = [pc EXCEPT ![t] = "idle"]
  /\ claim' = [claim EXCEPT ![t] = 0]
  /\ UNCHANGED <<free_top, free_list, idx, lost>>

-----------------------------------------------------------------------------
(***************************************************************************)
(* mempool_free                                                            *)
(***************************************************************************)

(* A pointer that is not from this pool is ignored. *)
FreeWild(t) ==
  /\ pc[t] = "idle"
  /\ held[Wild] > 0
  /\ held' = [held EXCEPT ![Wild] = @ - 1]
  /\ lost' = Inc(lost)
  /\ UNCHANGED <<free_top, free_list, pc, claim, idx>>

FreeClaim(t, i) ==
  /\ pc[t] = "idle"
  /\ held[i] > 0
  /\ held' = [held EXCEPT ![i] = @ - 1]
  /\ idx' = [idx EXCEPT ![t] = i]
  /\ claim' = [claim EXCEPT ![t] = free_top]
  /\ free_top' = Inc(free_top)
  /\ pc' = [pc EXCEPT ![t] = IF free_top >= Capacity THEN "bail" ELSE "store"]
  /\ UNCHANGED <<free_list, lost>>

(* The slot lies beyond the stack: the increment is undone and the object  *)
(* forgotten.                                                              *)
FreeBail(t) ==
  /\ pc[t] = "bail"
  /\ free_top' = Dec(free_top)
  /\ lost' = Inc(lost)
  /\ pc' = [pc EXCEPT ![t] = "idle"]
  /\ claim' = [claim EXCEPT ![t] = 0]
  /\ idx' = [idx EXCEPT ![t] = 0]
  /\ UNCHANGED <<free_list, held>>

FreeStore_Skipped(t) ==
  /\ pc[t] = "store"
  /\ pc' = [pc EXCEPT ![t] = "idle"]
  /\ claim' = [claim EXCEPT ![t] = 0]
  /\ idx' = [idx EXCEPT ![t] = 0]
  /\ UNCHANGED <<free_top, free_list, held, lost>>

FreeStore(t) ==
  /\ pc[t] = "store"
  /\ free_list' = [free_list EXCEPT ![claim[t]] = idx[t]]
  /\ pc' = [pc EXCEPT ![t] = "idle"]
  /\ claim' = [claim EXCEPT ![t] = 0]
  /\ idx' = [idx EXCEPT ![t] = 0]
  /\ UNCHANGED <<free_top, held, lost>>

-----------------------------------------------------------------------------
Next ==
  \/ \E t \in Allocators : AllocClaim(t) \/ AllocUndo(t) \/ AllocRead(t)
  \/ \E t \in Freers : FreeWild(t) \/ FreeBail(t) \/ FreeStore(t)
  \/ \E t \in Freers, i \in Objects : FreeClaim(t, i)

Spec == Init /\ [][Next]_vars

-----------------------------------------------------------------------------
(***************************************************************************)
(* Properties                                                              *)
(***************************************************************************)

(* The counter and the locals are machine words, and what is written into  *)
(* the free list is always an index of the pool.                           *)
TypeOK ==
  /\ free_top \in 0 .. Word - 1
  /\ free_list \in [Objects -> Objects]
  /\ pc \in [Threads -> {"idle", "undo", "read", "bail", "store"}]
  /\ claim \in [Threads -> 0 .. Word - 1]
  /\ idx \in [Threads -> Objects]
  /\ held \in [Objects \cup {Wild} -> Nat]
  /\ lost \in 0 .. Word - 1

(* free_top never drifts: at every moment it is the capacity less the      *)
(* pointers the clients hold, the pointers free dropped and the claims in  *)
(* progress, modulo the word.  So mempool_available is exact whenever no   *)
(* call is in progress, unless free dropped a pointer.                     *)
TopAccounts ==
  /\ TypeOK
  /\ free_top = (Capacity - Outstanding - lost - Cardinality(Claiming)) % Word

(* No object is handed to two clients, and no pointer outside the pool is  *)
(* handed out.  memory_pool.h says of mempool_alloc that the ACQUIRE load  *)
(* guarantees that it sees the index written by the thread that freed the  *)
(* slot, ruling out a double allocation.                                   *)
NoDoubleAllocation ==
  /\ \A i \in Objects : held[i] <= 1
  /\ held[Wild] = 0

(* The stack below free_top holds each object that is not held exactly     *)
(* once whenever no call is in progress.                                   *)
FreeListExact ==
  (\A t \in Threads : pc[t] = "idle") =>
    /\ \A i, j \in 0 .. free_top - 1 : free_list[i] = free_list[j] => i = j
    /\ {free_list[i] : i \in 0 .. free_top - 1} = {i \in Objects : held[i] = 0}

-----------------------------------------------------------------------------
(* The invariant behind TopAccounts: who reads free_list claimed a slot.   *)
PoolInv ==
  /\ TopAccounts
  /\ IsFiniteSet(Pointers)
  /\ \A t \in Threads : pc[t] = "read" => claim[t] # 0
=============================================================================
