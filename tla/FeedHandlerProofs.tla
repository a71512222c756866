------------------------- MODULE FeedHandlerProofs --------------------------
(***************************************************************************)
(* The message pool and the threads of the feed handler are right for      *)
(* every size of the pool, every word and any number of messages.          *)
(***************************************************************************)
EXTENDS FeedHandler, FiniteSetTheorems, TLAPS

-----------------------------------------------------------------------------
(***************************************************************************)
(* Arithmetic modulo a word                                                *)
(***************************************************************************)

(* A multiple of the word that is smaller than the word is zero. *)
LEMMA SmallMultiple ==
  ASSUME NEW w \in Nat \ {0}, NEW q \in Int, q * w < w, -w < q * w
  PROVE  q = 0
<1>1. CASE q >= 1
  <2>1. q * w >= w
    BY <1>1
  <2> QED BY <2>1
<1>2. CASE q <= -1
  <2>1. q * w <= -w
    BY <1>2
  <2> QED BY <2>1
<1> QED BY <1>1, <1>2

(* Quotient and remainder. *)
LEMMA ModType ==
  ASSUME NEW w \in Nat \ {0}, NEW s \in Int
  PROVE  s % w \in 0 .. w - 1 /\ s \div w \in Int /\ s = w * (s \div w) + (s % w)
OBVIOUS

(* The remainder is the only one of its size. *)
LEMMA ModUnique ==
  ASSUME NEW w \in Nat \ {0}, NEW q \in Int, NEW r \in 0 .. w - 1
  PROVE  (q * w + r) % w = r
<1> DEFINE s == q * w + r
           d == q - (s \div w)
<1>1. s \in Int
  OBVIOUS
<1>2. s % w \in 0 .. w - 1 /\ s \div w \in Int /\ s = w * (s \div w) + (s % w)
  BY <1>1, ModType
<1>3. d \in Int /\ d * w = (s % w) - r
  BY <1>2
<1>4. d = 0
  BY <1>2, <1>3, SmallMultiple
<1> QED BY <1>2, <1>3, <1>4

(* The steps of free_top. *)
LEMMA Steps ==
  ASSUME NEW n \in 0 .. Word - 1
  PROVE  /\ Inc(n) = IF n = Word - 1 THEN 0 ELSE n + 1
         /\ Dec(n) = IF n = 0 THEN Word - 1 ELSE n - 1
         /\ Inc(n) \in 0 .. Word - 1 /\ Dec(n) \in 0 .. Word - 1
<1>1. Word \in Nat \ {0}
  BY CapacityAssumption, WordAssumption
<1>2. Inc(n) = (IF n = Word - 1 THEN 0 ELSE n + 1) /\ Inc(n) \in 0 .. Word - 1
  <2>1. CASE n = Word - 1
    <3>1. Inc(n) = (1 * Word + 0) % Word /\ 0 \in 0 .. Word - 1
      BY <1>1, <2>1 DEF Inc
    <3>2. Inc(n) = 0
      BY <1>1, <3>1, ModUnique
    <3> QED BY <1>1, <2>1, <3>2
  <2>2. CASE n # Word - 1
    <3>1. Inc(n) = (0 * Word + (n + 1)) % Word /\ n + 1 \in 0 .. Word - 1
      BY <1>1, <2>2 DEF Inc
    <3>2. Inc(n) = n + 1
      BY <1>1, <3>1, ModUnique
    <3> QED BY <1>1, <2>2, <3>1, <3>2
  <2> QED BY <2>1, <2>2
<1>3. Dec(n) = (IF n = 0 THEN Word - 1 ELSE n - 1) /\ Dec(n) \in 0 .. Word - 1
  <2>1. CASE n = 0
    <3>1. Dec(n) = ((-1) * Word + (Word - 1)) % Word /\ Word - 1 \in 0 .. Word - 1
      BY <1>1, <2>1 DEF Dec
    <3>2. Dec(n) = Word - 1
      BY <1>1, <3>1, ModUnique
    <3> QED BY <1>1, <2>1, <3>1, <3>2
  <2>2. CASE n # 0
    <3>1. Dec(n) = (0 * Word + (n - 1)) % Word /\ n - 1 \in 0 .. Word - 1
      BY <1>1, <2>2 DEF Dec
    <3>2. Dec(n) = n - 1
      BY <1>1, <3>1, ModUnique
    <3> QED BY <1>1, <2>2, <3>1, <3>2
  <2> QED BY <2>1, <2>2
<1> QED BY <1>2, <1>3

-----------------------------------------------------------------------------
(***************************************************************************)
(* The pool: free_top accounts for every pointer                           *)
(***************************************************************************)

(* What the pointers are. *)
LEMMA PointersIn ==
  ASSUME NEW h
  PROVE  \A p : p \in UNION {{j} \X (1 .. h[j]) : j \in DOMAIN h}
                  <=> \E j \in DOMAIN h : p \in {j} \X (1 .. h[j])
BY Zenon

(* One pointer more, one pointer less. *)
LEMMA MorePointers ==
  ASSUME held \in [Objects \cup {Wild} -> Nat], IsFiniteSet(Pointers),
         NEW i \in Objects \cup {Wild}, held' = [held EXCEPT ![i] = held[i] + 1]
  PROVE  /\ IsFiniteSet(Pointers') /\ Outstanding' = Outstanding + 1
         /\ Outstanding \in Nat /\ held' \in [Objects \cup {Wild} -> Nat]
<1>1. held[i] \in Nat /\ DOMAIN held = Objects \cup {Wild}
      /\ DOMAIN held' = Objects \cup {Wild} /\ held'[i] = held[i] + 1
      /\ \A j \in (Objects \cup {Wild}) \ {i} : held'[j] = held[j]
  OBVIOUS
<1>2. \A p : p \in Pointers <=> \E j \in Objects \cup {Wild} : p \in {j} \X (1 .. held[j])
  BY <1>1, Zenon DEF Pointers
<1>3. \A p : p \in Pointers' <=> \E j \in Objects \cup {Wild} : p \in {j} \X (1 .. held'[j])
  <2> DEFINE h == held'
  <2>1. Pointers' = UNION {{j} \X (1 .. h[j]) : j \in DOMAIN h}
    BY DEF Pointers
  <2>2. DOMAIN h = Objects \cup {Wild}
    BY <1>1
  <2> HIDE DEF h
  <2>3. \A p : p \in Pointers' <=> \E j \in Objects \cup {Wild} : p \in {j} \X (1 .. h[j])
    BY <2>1, <2>2, PointersIn, Zenon
  <2> QED BY <2>3 DEF h
<1>4. \A p : p \in {i} \X (1 .. held'[i])
              <=> p \in {i} \X (1 .. held[i]) \/ p = <<i, held[i] + 1>>
  BY <1>1
<1>5. Pointers' = Pointers \cup {<<i, held[i] + 1>>}
  BY <1>1, <1>2, <1>3, <1>4, Zenon
<1>6. <<i, held[i] + 1>> \notin Pointers
  BY <1>1, <1>2
<1>7. IsFiniteSet(Pointers') /\ Cardinality(Pointers') = Cardinality(Pointers) + 1
  BY <1>5, <1>6, FS_AddElement
<1>8. held' \in [Objects \cup {Wild} -> Nat]
  BY <1>1
<1> QED BY <1>7, <1>8, FS_CardinalityType, Zenon DEF Outstanding

(* A client that gives back a pointer holds one less. *)
LEMMA FewerPointers ==
  ASSUME held \in [Objects \cup {Wild} -> Nat], IsFiniteSet(Pointers),
         NEW i \in Objects \cup {Wild}, held[i] > 0,
         held' = [held EXCEPT ![i] = held[i] - 1]
  PROVE  /\ IsFiniteSet(Pointers') /\ Outstanding' = Outstanding - 1
         /\ Outstanding \in Nat /\ held' \in [Objects \cup {Wild} -> Nat]
<1>1. held[i] \in Nat /\ held[i] - 1 \in Nat /\ DOMAIN held = Objects \cup {Wild}
      /\ DOMAIN held' = Objects \cup {Wild} /\ held'[i] = held[i] - 1
      /\ \A j \in (Objects \cup {Wild}) \ {i} : held'[j] = held[j]
  OBVIOUS
<1>2. \A p : p \in Pointers <=> \E j \in Objects \cup {Wild} : p \in {j} \X (1 .. held[j])
  BY <1>1, Zenon DEF Pointers
<1>3. \A p : p \in Pointers' <=> \E j \in Objects \cup {Wild} : p \in {j} \X (1 .. held'[j])
  <2> DEFINE h == held'
  <2>1. Pointers' = UNION {{j} \X (1 .. h[j]) : j \in DOMAIN h}
    BY DEF Pointers
  <2>2. DOMAIN h = Objects \cup {Wild}
    BY <1>1
  <2> HIDE DEF h
  <2>3. \A p : p \in Pointers' <=> \E j \in Objects \cup {Wild} : p \in {j} \X (1 .. h[j])
    BY <2>1, <2>2, PointersIn, Zenon
  <2> QED BY <2>3 DEF h
<1>4. \A p : p \in {i} \X (1 .. held'[i])
              <=> p \in {i} \X (1 .. held[i]) /\ p # <<i, held[i]>>
  BY <1>1
<1>4b. \A j : j # i => <<i, held[i]>> \notin {j} \X (1 .. held[j])
  OBVIOUS
<1>5. Pointers' = Pointers \ {<<i, held[i]>>}
  BY <1>1, <1>2, <1>3, <1>4, <1>4b, Zenon
<1>6. <<i, held[i]>> \in Pointers
  BY <1>1, <1>2
<1>7. IsFiniteSet(Pointers') /\ Cardinality(Pointers') = Cardinality(Pointers) - 1
  BY <1>5, <1>6, FS_RemoveElement
<1>8. held' \in [Objects \cup {Wild} -> Nat]
  BY <1>1
<1> QED BY <1>7, <1>8, FS_CardinalityType, Zenon DEF Outstanding

(* The threads that have claimed and not taken: one more, one less. *)
LEMMA ClaimingFinite == IsFiniteSet(Claiming) /\ Cardinality(Claiming) \in Nat
<1>1. IsFiniteSet(Threads) /\ Claiming \in SUBSET Threads
  BY FiniteThreads DEF Claiming, Threads
<1>2. IsFiniteSet(Claiming)
  BY <1>1, FS_Subset
<1> QED BY <1>2, FS_CardinalityType

(* The set of claiming threads after one thread has moved. *)
LEMMA ClaimingChanges ==
  ASSUME pc \in [Threads -> {"idle", "undo", "read", "bail", "store"}],
         NEW t \in Threads, NEW to \in {"idle", "undo", "read", "bail", "store"},
         pc' = [pc EXCEPT ![t] = to]
  PROVE  /\ pc' \in [Threads -> {"idle", "undo", "read", "bail", "store"}]
         /\ pc[t] \notin {"undo", "read"} /\ to \in {"undo", "read"} =>
              Cardinality(Claiming') = Cardinality(Claiming) + 1
         /\ pc[t] \in {"undo", "read"} /\ to \notin {"undo", "read"} =>
              Cardinality(Claiming') = Cardinality(Claiming) - 1
         /\ pc[t] \notin {"undo", "read"} /\ to \notin {"undo", "read"} =>
              Claiming' = Claiming
<1>1. pc' \in [Threads -> {"idle", "undo", "read", "bail", "store"}]
  OBVIOUS
<1>2. pc'[t] = to /\ \A u \in Threads \ {t} : pc'[u] = pc[u]
  OBVIOUS
<1>3. ASSUME pc[t] \notin {"undo", "read"}, to \in {"undo", "read"}
      PROVE  Cardinality(Claiming') = Cardinality(Claiming) + 1
  <2>1. Claiming' = Claiming \cup {t} /\ t \notin Claiming
    BY <1>2, <1>3 DEF Claiming
  <2> QED BY <2>1, ClaimingFinite, FS_AddElement
<1>4. ASSUME pc[t] \in {"undo", "read"}, to \notin {"undo", "read"}
      PROVE  Cardinality(Claiming') = Cardinality(Claiming) - 1
  <2>1. Claiming' = Claiming \ {t} /\ t \in Claiming
    BY <1>2, <1>4 DEF Claiming
  <2> QED BY <2>1, ClaimingFinite, FS_RemoveElement
<1>5. ASSUME pc[t] \notin {"undo", "read"}, to \notin {"undo", "read"}
      PROVE  Claiming' = Claiming
  BY <1>2, <1>5 DEF Claiming
<1> QED BY <1>1, <1>3, <1>4, <1>5, Zenon

(* What the invariant of the pool says of each variable. *)
LEMMA PoolTypes ==
  ASSUME PoolInv
  PROVE  /\ TopAccounts /\ TypeOK /\ IsFiniteSet(Pointers)
         /\ Outstanding \in Int /\ Cardinality(Claiming) \in Int
         /\ free_top \in 0 .. Word - 1 /\ lost \in 0 .. Word - 1
         /\ held \in [Objects \cup {Wild} -> Nat]
         /\ pc \in [Threads -> {"idle", "undo", "read", "bail", "store"}]
         /\ claim \in [Threads -> 0 .. Word - 1] /\ idx \in [Threads -> Objects]
         /\ free_list \in [Objects -> Objects]
         /\ 0 \in Objects /\ 0 \in 0 .. Word - 1
         /\ Capacity \in Nat \ {0} /\ Word \in Nat /\ Capacity < Word
         /\ \A t \in Threads : pc[t] = "read" => claim[t] # 0
<1>1. /\ TopAccounts /\ TypeOK /\ IsFiniteSet(Pointers)
      /\ \A t \in Threads : pc[t] = "read" => claim[t] # 0
  BY Zenon DEF PoolInv, TopAccounts
<1>2. Outstanding \in Int /\ Cardinality(Claiming) \in Int
  BY <1>1, FS_CardinalityType, ClaimingFinite DEF Outstanding
<1>3. 0 \in Objects /\ 0 \in 0 .. Word - 1
  BY CapacityAssumption, WordAssumption DEF Objects
<1> QED BY <1>1, <1>2, <1>3, CapacityAssumption, WordAssumption, Zenon DEF TypeOK

(* free_top still accounts for the pointers after a step in which the four *)
(* counters change by amounts that cancel out, up to a word.               *)
LEMMA Accounts ==
  ASSUME PoolInv, TypeOK',
         NEW o \in {-1, 0, 1}, NEW l \in Int, NEW c \in {-1, 0, 1}, NEW k \in {-1, 0, 1},
         Outstanding' = Outstanding + o, lost' = lost + l,
         Cardinality(Claiming') = Cardinality(Claiming) + c,
         free_top' = free_top - (o + l + c + k * Word)
  PROVE  TopAccounts'
<1> DEFINE held0 == Outstanding
           lost0 == lost
           claims0 == Cardinality(Claiming)
           s == Capacity - held0 - lost0 - claims0
           t == Capacity - (held0 + o) - (lost0 + l) - (claims0 + c)
           f == free_top
           g == free_top'
           d == k * Word
<1>1. Word \in Nat \ {0} /\ Capacity \in Int
  BY CapacityAssumption, WordAssumption
<1>2. /\ f \in 0 .. Word - 1 /\ g \in 0 .. Word - 1 /\ f = s % Word
  BY PoolTypes, Zenon DEF TopAccounts, TypeOK
<1>3. held0 \in Int /\ lost0 \in Int /\ claims0 \in Int /\ d \in Int /\ f \in Int
  <2>1. held0 \in Int /\ claims0 \in Int
    BY PoolTypes, Zenon
  <2>2. lost0 \in Int /\ f \in Int
    BY PoolTypes
  <2>3. d \in Int
    BY <1>1
  <2> QED BY <2>1, <2>2, <2>3
<1>4. g = f - (o + l + c + d)
  OBVIOUS
<1>5. t = Capacity - Outstanding' - lost' - Cardinality(Claiming')
  BY Zenon
<1> HIDE DEF held0, lost0, claims0, d, f, g
<1>6. s \in Int /\ t \in Int /\ t = s + (g - f) + d
  BY <1>1, <1>3, <1>4
<1> HIDE DEF s, t
<1>7. g = t % Word
  <2>1. t = s + (g - f) + k * Word
    BY <1>6, Zenon DEF d
  <2>2. /\ Word \in Nat \ {0} /\ f \in 0 .. Word - 1 /\ g \in 0 .. Word - 1
        /\ s \in Int /\ t \in Int /\ f = s % Word
    BY <1>1, <1>2, <1>6, Zenon DEF s
  <2> DEFINE q == s \div Word
  <2>3. q \in Int /\ s = Word * q + f
    BY <2>2, ModType
  <2> HIDE DEF q
  <2>4. q + k \in Int /\ t = (q + k) * Word + g
    BY <2>1, <2>2, <2>3
  <2>5. ((q + k) * Word + g) % Word = g
    BY <2>2, <2>4, ModUnique
  <2> QED BY <2>4, <2>5, Zenon
<1> QED BY <1>5, <1>7, Zenon DEF TopAccounts, g

(* mempool_alloc: the claim, its undoing and the load. *)
LEMMA AllocSteps ==
  ASSUME PoolInv, NEW t \in Threads, AllocClaim(t) \/ AllocUndo(t) \/ AllocRead(t)
  PROVE  PoolInv'
<1> USE PoolTypes
<1>1. CASE AllocClaim(t)
  <2> DEFINE to == IF free_top = 0 THEN "undo" ELSE "read"
  <2>1. /\ pc[t] = "idle" /\ claim' = [claim EXCEPT ![t] = free_top]
        /\ free_top' = Dec(free_top) /\ pc' = [pc EXCEPT ![t] = to]
        /\ UNCHANGED <<free_list, idx, held, lost>>
    BY <1>1, Zenon DEF AllocClaim
  <2>2. to \in {"undo", "read"} /\ (to = "read" => free_top # 0)
    BY Zenon
  <2> HIDE DEF to
  <2>3. /\ pc' \in [Threads -> {"idle", "undo", "read", "bail", "store"}]
        /\ Cardinality(Claiming') = Cardinality(Claiming) + 1
    BY <2>1, <2>2, ClaimingChanges
  <2>4. /\ free_top' \in 0 .. Word - 1
        /\ \/ free_top' = free_top - (0 + 0 + 1 + 0 * Word)
           \/ free_top' = free_top - (0 + 0 + 1 + (-1) * Word)
    BY <2>1, Steps
  <2>5. claim' \in [Threads -> 0 .. Word - 1]
    BY <2>1
  <2>6. TypeOK'
    BY <2>1, <2>3, <2>4, <2>5, Zenon DEF TypeOK
  <2>7. Pointers' = Pointers /\ Outstanding' = Outstanding + 0 /\ lost' = lost + 0
    BY <2>1 DEF Pointers, Outstanding
  <2>8. TopAccounts'
    BY <2>3, <2>4, <2>6, <2>7, Accounts
  <2>9. \A u \in Threads : pc'[u] = "read" => claim'[u] # 0
    BY <2>1, <2>2
  <2> QED BY <2>7, <2>8, <2>9, Zenon DEF PoolInv
<1>2. CASE AllocUndo(t)
  <2>1. /\ pc[t] = "undo" /\ claim' = [claim EXCEPT ![t] = 0]
        /\ free_top' = Inc(free_top) /\ pc' = [pc EXCEPT ![t] = "idle"]
        /\ UNCHANGED <<free_list, idx, held, lost>>
    BY <1>2, Zenon DEF AllocUndo
  <2>3. /\ pc' \in [Threads -> {"idle", "undo", "read", "bail", "store"}]
        /\ Cardinality(Claiming') = Cardinality(Claiming) + (-1)
    BY <2>1, ClaimingChanges
  <2>4. /\ free_top' \in 0 .. Word - 1
        /\ \/ free_top' = free_top - (0 + 0 + (-1) + 0 * Word)
           \/ free_top' = free_top - (0 + 0 + (-1) + 1 * Word)
    BY <2>1, Steps
  <2>5. claim' \in [Threads -> 0 .. Word - 1]
    BY <2>1
  <2>6. TypeOK'
    BY <2>1, <2>3, <2>4, <2>5, Zenon DEF TypeOK
  <2>7. Pointers' = Pointers /\ Outstanding' = Outstanding + 0 /\ lost' = lost + 0
    BY <2>1 DEF Pointers, Outstanding
  <2>8. TopAccounts'
    BY <2>3, <2>4, <2>6, <2>7, Accounts
  <2>9. \A u \in Threads : pc'[u] = "read" => claim'[u] # 0
    BY <2>1
  <2> QED BY <2>7, <2>8, <2>9, Zenon DEF PoolInv
<1>3. CASE AllocRead(t)
  <2>1. /\ pc[t] = "read" /\ claim' = [claim EXCEPT ![t] = 0]
        /\ pc' = [pc EXCEPT ![t] = "idle"]
        /\ \E i \in Loaded(claim[t]) : held' = [held EXCEPT ![i] = held[i] + 1]
        /\ UNCHANGED <<free_top, free_list, idx, lost>>
    BY <1>3, Zenon DEF AllocRead
  <2>2. \A i \in Loaded(claim[t]) : i \in Objects \cup {Wild}
    <3>1. claim[t] <= Capacity => claim[t] - 1 \in Objects
      BY <2>1 DEF Objects
    <3> QED BY <3>1 DEF Loaded
  <2>3. PICK i \in Objects \cup {Wild} : held' = [held EXCEPT ![i] = held[i] + 1]
    BY <2>1, <2>2, Zenon
  <2>4. /\ pc' \in [Threads -> {"idle", "undo", "read", "bail", "store"}]
        /\ Cardinality(Claiming') = Cardinality(Claiming) + (-1)
    BY <2>1, ClaimingChanges
  <2>5. /\ IsFiniteSet(Pointers') /\ Outstanding' = Outstanding + 1
        /\ held' \in [Objects \cup {Wild} -> Nat]
    BY <2>3, MorePointers
  <2>6. claim' \in [Threads -> 0 .. Word - 1]
    BY <2>1
  <2>7. TypeOK'
    BY <2>1, <2>4, <2>5, <2>6, Zenon DEF TypeOK
  <2>8. TopAccounts'
    <3>1. lost' = lost + 0 /\ free_top' = free_top - (1 + 0 + (-1) + 0 * Word)
      BY <2>1
    <3> QED BY <2>4, <2>5, <2>7, <3>1, Accounts
  <2>9. \A u \in Threads : pc'[u] = "read" => claim'[u] # 0
    BY <2>1
  <2> QED BY <2>5, <2>8, <2>9, Zenon DEF PoolInv
<1> QED BY <1>1, <1>2, <1>3

(* mempool_free: the claim, its undoing, the store, and a pointer that is  *)
(* not of the pool.                                                        *)
LEMMA FreeSteps ==
  ASSUME PoolInv, NEW t \in Threads,
         \/ FreeWild(t) \/ FreeBail(t) \/ FreeStore(t)
         \/ \E i \in Objects : FreeClaim(t, i)
  PROVE  PoolInv'
<1> USE PoolTypes
<1>1. CASE FreeWild(t)
  <2>1. /\ held[Wild] > 0 /\ held' = [held EXCEPT ![Wild] = held[Wild] - 1]
        /\ lost' = Inc(lost) /\ UNCHANGED <<free_top, free_list, pc, claim, idx>>
    BY <1>1, Zenon DEF FreeWild
  <2>2. Wild \in Objects \cup {Wild}
    OBVIOUS
  <2>3. /\ IsFiniteSet(Pointers') /\ Outstanding' = Outstanding + (-1)
        /\ held' \in [Objects \cup {Wild} -> Nat]
    BY <2>1, <2>2, FewerPointers
  <2>4. /\ lost' \in 0 .. Word - 1 /\ lost' - lost \in Int /\ lost' = lost + (lost' - lost)
        /\ \/ free_top' = free_top - ((-1) + (lost' - lost) + 0 + 0 * Word)
           \/ free_top' = free_top - ((-1) + (lost' - lost) + 0 + 1 * Word)
    <3>1. /\ lost' \in 0 .. Word - 1 /\ free_top' = free_top
          /\ lost' = lost + 1 \/ lost' = lost + 1 - Word
      BY <2>1, Steps
    <3> QED BY <3>1
  <2>5. Cardinality(Claiming') = Cardinality(Claiming) + 0
    BY <2>1 DEF Claiming
  <2>6. TypeOK'
    BY <2>1, <2>3, <2>4, Zenon DEF TypeOK
  <2>7. TopAccounts'
    BY <2>3, <2>4, <2>5, <2>6, Accounts
  <2> QED BY <2>1, <2>3, <2>7, Zenon DEF PoolInv
<1>2. CASE FreeBail(t)
  <2>1. /\ pc[t] = "bail" /\ free_top' = Dec(free_top) /\ lost' = Inc(lost)
        /\ pc' = [pc EXCEPT ![t] = "idle"] /\ claim' = [claim EXCEPT ![t] = 0]
        /\ idx' = [idx EXCEPT ![t] = 0] /\ UNCHANGED <<free_list, held>>
    BY <1>2, Zenon DEF FreeBail
  <2>2. /\ pc' \in [Threads -> {"idle", "undo", "read", "bail", "store"}]
        /\ Cardinality(Claiming') = Cardinality(Claiming) + 0
    <3>1. /\ Claiming' = Claiming
          /\ pc' \in [Threads -> {"idle", "undo", "read", "bail", "store"}]
      BY <2>1, ClaimingChanges
    <3> QED BY <3>1
  <2>3. Pointers' = Pointers /\ Outstanding' = Outstanding + 0
    BY <2>1 DEF Pointers, Outstanding
  <2>4. /\ lost' \in 0 .. Word - 1 /\ lost' - lost \in Int /\ lost' = lost + (lost' - lost)
        /\ free_top' \in 0 .. Word - 1
        /\ \/ free_top' = free_top - (0 + (lost' - lost) + 0 + 0 * Word)
           \/ free_top' = free_top - (0 + (lost' - lost) + 0 + 1 * Word)
           \/ free_top' = free_top - (0 + (lost' - lost) + 0 + (-1) * Word)
    <3>1. /\ lost' \in 0 .. Word - 1 /\ free_top' \in 0 .. Word - 1
          /\ lost' = lost + 1 \/ lost' = lost + 1 - Word
          /\ free_top' = free_top - 1 \/ free_top' = free_top - 1 + Word
      BY <2>1, Steps
    <3> QED BY <3>1
  <2>5. claim' \in [Threads -> 0 .. Word - 1] /\ idx' \in [Threads -> Objects]
    BY <2>1
  <2>6. TypeOK'
    BY <2>1, <2>2, <2>4, <2>5, Zenon DEF TypeOK
  <2>7. TopAccounts'
    BY <2>2, <2>3, <2>4, <2>6, Accounts
  <2>8. \A u \in Threads : pc'[u] = "read" => claim'[u] # 0
    BY <2>1
  <2> QED BY <2>3, <2>7, <2>8, Zenon DEF PoolInv
<1>3. CASE FreeStore(t)
  <2>1. /\ pc[t] = "store" /\ pc' = [pc EXCEPT ![t] = "idle"]
        /\ free_list' = [free_list EXCEPT ![claim[t]] = idx[t]]
        /\ claim' = [claim EXCEPT ![t] = 0] /\ idx' = [idx EXCEPT ![t] = 0]
        /\ UNCHANGED <<free_top, held, lost>>
    BY <1>3, Zenon DEF FreeStore
  <2>2. /\ pc' \in [Threads -> {"idle", "undo", "read", "bail", "store"}]
        /\ Cardinality(Claiming') = Cardinality(Claiming)
    BY <2>1, ClaimingChanges
  <2>3. Pointers' = Pointers /\ Outstanding' = Outstanding
    BY <2>1 DEF Pointers, Outstanding
  <2>4. claim' \in [Threads -> 0 .. Word - 1] /\ idx' \in [Threads -> Objects]
    BY <2>1
  <2>5. free_list' \in [Objects -> Objects]
    <3> DEFINE i == idx[t]
    <3>1. i \in Objects /\ free_list' = [free_list EXCEPT ![claim[t]] = i]
      BY <2>1
    <3> HIDE DEF i
    <3> QED BY <3>1
  <2>6. TypeOK'
    BY <2>1, <2>2, <2>4, <2>5, Zenon DEF TypeOK
  <2>7. TopAccounts'
    BY <2>1, <2>2, <2>3, <2>6, Zenon DEF TopAccounts
  <2>8. \A u \in Threads : pc'[u] = "read" => claim'[u] # 0
    BY <2>1
  <2> QED BY <2>3, <2>7, <2>8, Zenon DEF PoolInv
<1>4. ASSUME NEW i \in Objects, FreeClaim(t, i)
      PROVE  PoolInv'
  <2> DEFINE to == IF free_top >= Capacity THEN "bail" ELSE "store"
  <2>1. /\ pc[t] = "idle" /\ held[i] > 0 /\ held' = [held EXCEPT ![i] = held[i] - 1]
        /\ idx' = [idx EXCEPT ![t] = i] /\ claim' = [claim EXCEPT ![t] = free_top]
        /\ free_top' = Inc(free_top) /\ pc' = [pc EXCEPT ![t] = to]
        /\ UNCHANGED <<free_list, lost>>
    BY <1>4, Zenon DEF FreeClaim
  <2>2. to \in {"bail", "store"}
    BY Zenon
  <2> HIDE DEF to
  <2>3. /\ pc' \in [Threads -> {"idle", "undo", "read", "bail", "store"}]
        /\ Cardinality(Claiming') = Cardinality(Claiming) + 0
    <3>1. /\ Claiming' = Claiming
          /\ pc' \in [Threads -> {"idle", "undo", "read", "bail", "store"}]
      BY <2>1, <2>2, ClaimingChanges
    <3> QED BY <3>1
  <2>4. i \in Objects \cup {Wild}
    OBVIOUS
  <2>5. /\ IsFiniteSet(Pointers') /\ Outstanding' = Outstanding + (-1)
        /\ held' \in [Objects \cup {Wild} -> Nat]
    BY <2>1, <2>4, FewerPointers
  <2>6. /\ lost' = lost + 0 /\ free_top' \in 0 .. Word - 1
        /\ \/ free_top' = free_top - ((-1) + 0 + 0 + 0 * Word)
           \/ free_top' = free_top - ((-1) + 0 + 0 + 1 * Word)
    BY <2>1, Steps
  <2>7. claim' \in [Threads -> 0 .. Word - 1] /\ idx' \in [Threads -> Objects]
    BY <2>1
  <2>8. TypeOK'
    BY <2>1, <2>3, <2>5, <2>6, <2>7, Zenon DEF TypeOK
  <2>9. TopAccounts'
    BY <2>3, <2>5, <2>6, <2>8, Accounts
  <2>10. \A u \in Threads : pc'[u] = "read" => claim'[u] # 0
    BY <2>1, <2>2
  <2> QED BY <2>5, <2>9, <2>10, Zenon DEF PoolInv
<1> QED BY <1>1, <1>2, <1>3, <1>4

-----------------------------------------------------------------------------
(***************************************************************************)
(* The stack of free objects up to the first overlap of calls              *)
(***************************************************************************)

(* The height of the stack is the number of objects on it. *)
LEMMA StackHeight ==
  ASSUME NEW stack \in [Objects -> Objects], NEW n, NEW S, StackHolds(stack, n, S)
  PROVE  n \in Nat /\ IsFiniteSet(S) /\ Cardinality(S) = n
<1>1. n \in 0 .. Capacity /\ n \in Nat
  BY CapacityAssumption DEF StackHolds
<1> DEFINE f == [i \in 0 .. n - 1 |-> stack[i]]
<1>2. f \in Bijection(0 .. n - 1, S)
  <2>1. \A i, j \in 0 .. n - 1 : stack[i] = stack[j] => i = j
    BY DEF StackHolds
  <2>2. {stack[i] : i \in 0 .. n - 1} = S
    BY DEF StackHolds
  <2> QED BY <2>1, <2>2, Zenon DEF Bijection, Injection, Surjection, IsInjective
<1>3. IsFiniteSet(0 .. n - 1) /\ Cardinality(0 .. n - 1) = n
  BY <1>1, FS_Interval
<1>4. ExistsBijection(0 .. n - 1, S)
  BY <1>2, Zenon DEF ExistsBijection
<1> QED BY <1>1, <1>3, <1>4, FS_Bijection

(* Taking the top entry, and putting one more. *)
LEMMA StackPop ==
  ASSUME NEW stack \in [Objects -> Objects], NEW n, NEW S,
         StackHolds(stack, n, S), n # 0
  PROVE  stack[n - 1] \in S /\ StackHolds(stack, n - 1, S \ {stack[n - 1]})
<1>1. n \in 1 .. Capacity /\ n - 1 \in 0 .. Capacity
  BY CapacityAssumption DEF StackHolds
<1>2. \A i, j \in 0 .. n - 1 : stack[i] = stack[j] => i = j
  BY DEF StackHolds
<1>3. {stack[i] : i \in 0 .. n - 1} = S
  BY DEF StackHolds
<1>4. stack[n - 1] \in S
  BY <1>1, <1>3, CapacityAssumption
<1>5. {stack[i] : i \in 0 .. (n - 1) - 1} = S \ {stack[n - 1]}
  BY <1>1, <1>2, <1>3, CapacityAssumption
<1>6. \A i, j \in 0 .. (n - 1) - 1 : stack[i] = stack[j] => i = j
  BY <1>1, <1>2, CapacityAssumption
<1> QED BY <1>1, <1>4, <1>5, <1>6 DEF StackHolds

(* An object put on the stack. *)
LEMMA StackPush ==
  ASSUME NEW stack \in [Objects -> Objects], NEW n, NEW S, NEW x \in Objects,
         StackHolds(stack, n, S), n < Capacity, x \notin S
  PROVE  StackHolds([stack EXCEPT ![n] = x], n + 1, S \cup {x})
<1> DEFINE g == [stack EXCEPT ![n] = x]
<1>1. n \in 0 .. Capacity - 1 /\ n + 1 \in 0 .. Capacity
  BY CapacityAssumption DEF StackHolds
<1>2. \A i, j \in 0 .. n - 1 : stack[i] = stack[j] => i = j
  BY DEF StackHolds
<1>3. {stack[i] : i \in 0 .. n - 1} = S
  BY DEF StackHolds
<1>4. g[n] = x /\ \A i \in 0 .. n - 1 : g[i] = stack[i] /\ g[i] # x
  <2>1. n \in Objects /\ \A i \in 0 .. n - 1 : i \in Objects /\ i # n
    BY <1>1, CapacityAssumption DEF Objects
  <2>2. \A i \in 0 .. n - 1 : stack[i] # x
    BY <1>3
  <2> QED BY <2>1, <2>2
<1>5. \A i \in 0 .. (n + 1) - 1 : i \in 0 .. n - 1 \/ i = n
  BY <1>1, CapacityAssumption
<1> HIDE DEF g
<1>6. \A i, j \in 0 .. (n + 1) - 1 : g[i] = g[j] => i = j
  BY <1>2, <1>4, <1>5, Zenon
<1>7. {g[i] : i \in 0 .. (n + 1) - 1} = S \cup {x}
  BY <1>1, <1>3, <1>4, <1>5, CapacityAssumption
<1> QED BY <1>1, <1>6, <1>7 DEF StackHolds, g

(* While some object is held, the stack has room. *)
LEMMA StackRoom ==
  ASSUME NEW stack \in [Objects -> Objects], NEW n, NEW S, NEW x \in Objects,
         StackHolds(stack, n, S), S \subseteq Objects, x \notin S
  PROVE  n < Capacity
<1>1. n \in Nat /\ IsFiniteSet(S) /\ Cardinality(S) = n
  BY StackHeight
<1>2. IsFiniteSet(Objects) /\ Cardinality(Objects) = Capacity
  BY CapacityAssumption, FS_Interval DEF Objects
<1>3. S \in SUBSET Objects /\ S # Objects
  OBVIOUS
<1>4. n <= Capacity /\ n # Capacity
  BY <1>1, <1>2, <1>3, FS_Subset
<1> QED BY <1>1, <1>4, CapacityAssumption

(* What has to be shown of a step of one thread, when no other thread is   *)
(* inside a call.                                                          *)
LEMMA ExactAfter ==
  ASSUME NEW t \in Threads, lost' = 0, NoDoubleAllocation',
         \A u \in Threads : u # t => pc'[u] = "idle",
         \/ pc'[t] = "idle" /\ StackHolds(free_list', free_top', Unheld')
         \/ /\ pc'[t] \in {"undo", "read"}
            /\ StackHolds(free_list', claim'[t], Unheld')
            /\ free_top' = Dec(claim'[t])
            /\ pc'[t] = "undo" <=> claim'[t] = 0
         \/ /\ pc'[t] = "store"
            /\ StackHolds(free_list', claim'[t], Unheld' \ {idx'[t]})
            /\ idx'[t] \in Unheld' /\ claim'[t] < Capacity
            /\ free_top' = claim'[t] + 1
  PROVE  Exact'
<1> DEFINE Busy(u) ==
             /\ pc'[u] # "bail"
             /\ pc'[u] \in {"undo", "read"} =>
                  /\ StackHolds(free_list', claim'[u], Unheld')
                  /\ free_top' = Dec(claim'[u])
                  /\ pc'[u] = "undo" <=> claim'[u] = 0
             /\ pc'[u] = "store" =>
                  /\ StackHolds(free_list', claim'[u], Unheld' \ {idx'[u]})
                  /\ idx'[u] \in Unheld' /\ claim'[u] < Capacity
                  /\ free_top' = claim'[u] + 1
<1>1. Busy(t)
  OBVIOUS
<1>2. \A u \in Threads : u # t => Busy(u)
  OBVIOUS
<1>3. \A u \in Threads : Busy(u)
  BY <1>1, <1>2, Zenon
<1>4. \A u, v \in Threads : pc'[u] # "idle" /\ pc'[v] # "idle" => u = v
  BY Zenon
<1>5. (\A u \in Threads : pc'[u] = "idle") => StackHolds(free_list', free_top', Unheld')
  OBVIOUS
<1> QED BY <1>3, <1>4, <1>5, Zenon DEF Exact

(* mempool_alloc while no other call is in progress: the object handed out *)
(* is the top of the stack, which nobody holds.                            *)
LEMMA AllocExact ==
  ASSUME PoolInv, Exact, NEW t \in Threads, ~ Racing',
         AllocClaim(t) \/ AllocUndo(t) \/ AllocRead(t)
  PROVE  Exact'
<1> USE PoolTypes
<1>1. CASE AllocClaim(t)
  <2> DEFINE to == IF free_top = 0 THEN "undo" ELSE "read"
  <2>1. /\ pc[t] = "idle" /\ claim' = [claim EXCEPT ![t] = free_top]
        /\ free_top' = Dec(free_top) /\ pc' = [pc EXCEPT ![t] = to]
        /\ UNCHANGED <<free_list, idx, held, lost>>
    BY <1>1, Zenon DEF AllocClaim
  <2>2. to \in {"undo", "read"} /\ (to = "undo" <=> free_top = 0)
    BY Zenon
  <2> HIDE DEF to
  <2>3. pc'[t] = to /\ claim'[t] = free_top /\ \A u \in Threads : u # t => pc'[u] = pc[u]
    BY <2>1
  <2>4. \A u \in Threads : u # t => pc'[u] = "idle"
    BY <2>2, <2>3 DEF Racing
  <2>5. StackHolds(free_list, free_top, Unheld)
    BY <2>1, <2>3, <2>4, Zenon DEF Exact
  <2>6. lost' = 0 /\ NoDoubleAllocation' /\ Unheld' = Unheld /\ free_list' = free_list
    BY <2>1, Zenon DEF Exact, NoDoubleAllocation, Unheld
  <2>7. StackHolds(free_list', claim'[t], Unheld') /\ free_top' = Dec(claim'[t])
    BY <2>1, <2>3, <2>5, <2>6, Zenon
  <2>8. pc'[t] = "undo" <=> claim'[t] = 0
    BY <2>2, <2>3, Zenon
  <2> QED BY <2>2, <2>3, <2>4, <2>6, <2>7, <2>8, ExactAfter, Zenon
<1>2. CASE AllocUndo(t)
  <2>1. /\ pc[t] = "undo" /\ free_top' = Inc(free_top) /\ pc' = [pc EXCEPT ![t] = "idle"]
        /\ UNCHANGED <<free_list, idx, held, lost>>
    BY <1>2, Zenon DEF AllocUndo
  <2>2. pc'[t] = "idle" /\ \A u \in Threads : u # t => pc'[u] = pc[u]
    BY <2>1
  <2>3. \A u \in Threads : u # t => pc'[u] = "idle"
    BY <2>1, <2>2, Zenon DEF Exact
  <2>4. StackHolds(free_list, claim[t], Unheld) /\ free_top = Dec(claim[t]) /\ claim[t] = 0
    BY <2>1, Zenon DEF Exact
  <2>5. free_top' = 0
    BY <2>1, <2>4, Steps
  <2>6. lost' = 0 /\ NoDoubleAllocation' /\ Unheld' = Unheld /\ free_list' = free_list
    BY <2>1, Zenon DEF Exact, NoDoubleAllocation, Unheld
  <2>7. StackHolds(free_list', free_top', Unheld')
    BY <2>4, <2>5, <2>6, Zenon
  <2> QED BY <2>2, <2>3, <2>6, <2>7, ExactAfter, Zenon
<1>3. CASE AllocRead(t)
  <2>1. PICK i \in Loaded(claim[t]) : held' = [held EXCEPT ![i] = held[i] + 1]
    BY <1>3, Zenon DEF AllocRead
  <2>2. /\ pc[t] = "read" /\ pc' = [pc EXCEPT ![t] = "idle"]
        /\ UNCHANGED <<free_top, free_list, idx, lost>>
    BY <1>3, Zenon DEF AllocRead
  <2>3. pc'[t] = "idle" /\ \A u \in Threads : u # t => pc'[u] = pc[u]
    BY <2>2
  <2>4. \A u \in Threads : u # t => pc'[u] = "idle"
    BY <2>2, <2>3, Zenon DEF Exact
  <2>5. /\ StackHolds(free_list, claim[t], Unheld) /\ free_top = Dec(claim[t])
        /\ claim[t] # 0 /\ claim[t] \in 0 .. Word - 1
    BY <2>2, Zenon DEF Exact
  <2>6. claim[t] \in 1 .. Capacity /\ free_top = claim[t] - 1
    BY <2>5, Steps DEF StackHolds
  <2>7. i = free_list[claim[t] - 1]
    BY <2>1, <2>6 DEF Loaded
  <2>8. i \in Unheld /\ StackHolds(free_list, free_top, Unheld \ {i})
    BY <2>5, <2>6, <2>7, StackPop
  <2>9. i \in Objects /\ held[i] = 0 /\ held'[i] = 1
        /\ \A j \in Objects \cup {Wild} : j # i => held'[j] = held[j]
    BY <2>1, <2>8 DEF Unheld
  <2>10. Unheld' = Unheld \ {i}
    BY <2>9 DEF Unheld
  <2>11. NoDoubleAllocation'
    <3>1. NoDoubleAllocation
      BY Zenon DEF Exact
    <3>2. Wild # i
      BY <2>9 DEF Wild, Objects
    <3> QED BY <2>9, <3>1, <3>2 DEF NoDoubleAllocation
  <2>12. lost' = 0 /\ StackHolds(free_list', free_top', Unheld')
    BY <2>2, <2>8, <2>10, Zenon DEF Exact
  <2> QED BY <2>3, <2>4, <2>11, <2>12, ExactAfter, Zenon
<1> QED BY <1>1, <1>2, <1>3

(* mempool_free while no other call is in progress: the stack has room for *)
(* the object, so nothing is dropped.                                      *)
LEMMA FreeExact ==
  ASSUME PoolInv, Exact, NEW t \in Threads, ~ Racing',
         \/ FreeWild(t) \/ FreeBail(t) \/ FreeStore(t)
         \/ \E i \in Objects : FreeClaim(t, i)
  PROVE  Exact'
<1> USE PoolTypes
<1>1. ~ FreeWild(t)
  BY DEF FreeWild, Exact, NoDoubleAllocation
<1>2. ~ FreeBail(t)
  BY Zenon DEF FreeBail, Exact
<1>3. CASE FreeStore(t)
  <2>1. /\ pc[t] = "store" /\ pc' = [pc EXCEPT ![t] = "idle"]
        /\ free_list' = [free_list EXCEPT ![claim[t]] = idx[t]]
        /\ UNCHANGED <<free_top, held, lost>>
    BY <1>3, Zenon DEF FreeStore
  <2>2. pc'[t] = "idle" /\ \A u \in Threads : u # t => pc'[u] = pc[u]
    BY <2>1
  <2>3. \A u \in Threads : u # t => pc'[u] = "idle"
    BY <2>1, <2>2, Zenon DEF Exact
  <2>4. /\ StackHolds(free_list, claim[t], Unheld \ {idx[t]})
        /\ idx[t] \in Unheld /\ claim[t] < Capacity /\ free_top = claim[t] + 1
    BY <2>1, Zenon DEF Exact
  <2>5. lost' = 0 /\ NoDoubleAllocation' /\ Unheld' = Unheld /\ free_top' = free_top
    BY <2>1, Zenon DEF Exact, NoDoubleAllocation, Unheld
  <2>6. idx[t] \in Objects /\ idx[t] \notin Unheld \ {idx[t]}
        /\ (Unheld \ {idx[t]}) \cup {idx[t]} = Unheld
    BY <2>4 DEF Unheld
  <2>7. StackHolds(free_list', claim[t] + 1, (Unheld \ {idx[t]}) \cup {idx[t]})
    BY <2>1, <2>4, <2>6, StackPush
  <2>8. StackHolds(free_list', free_top', Unheld')
    BY <2>4, <2>5, <2>6, <2>7, Zenon
  <2> QED BY <2>2, <2>3, <2>5, <2>8, ExactAfter, Zenon
<1>4. ASSUME NEW i \in Objects, FreeClaim(t, i)
      PROVE  Exact'
  <2>1. /\ pc[t] = "idle" /\ held[i] > 0 /\ held' = [held EXCEPT ![i] = held[i] - 1]
        /\ idx' = [idx EXCEPT ![t] = i] /\ claim' = [claim EXCEPT ![t] = free_top]
        /\ free_top' = Inc(free_top)
        /\ pc' = [pc EXCEPT ![t] = IF free_top >= Capacity THEN "bail" ELSE "store"]
        /\ UNCHANGED <<free_list, lost>>
    BY <1>4, Zenon DEF FreeClaim
  <2>2. /\ pc'[t] \in {"bail", "store"} /\ idx'[t] = i /\ claim'[t] = free_top
        /\ \A u \in Threads : u # t => pc'[u] = pc[u]
    BY <2>1
  <2>3. \A u \in Threads : u # t => pc'[u] = "idle"
    BY <2>2 DEF Racing
  <2>4. StackHolds(free_list, free_top, Unheld)
    BY <2>1, <2>2, <2>3, Zenon DEF Exact
  <2>5. held[i] = 1 /\ held'[i] = 0
        /\ \A j \in Objects \cup {Wild} : j # i => held'[j] = held[j]
    <3>1. held[i] <= 1
      BY Zenon DEF Exact, NoDoubleAllocation
    <3> QED BY <2>1, <3>1
  <2>6. i \notin Unheld /\ Unheld \subseteq Objects /\ Unheld' = Unheld \cup {i}
    BY <2>5 DEF Unheld
  <2>7. free_top < Capacity
    BY <2>4, <2>6, StackRoom
  <2>8. pc'[t] = "store" /\ free_top' = claim'[t] + 1
    BY <2>1, <2>2, <2>7, Steps
  <2>9. NoDoubleAllocation'
    <3>1. NoDoubleAllocation
      BY Zenon DEF Exact
    <3>2. Wild # i
      BY DEF Wild, Objects
    <3> QED BY <2>5, <3>1, <3>2 DEF NoDoubleAllocation
  <2>10. Unheld' \ {idx'[t]} = Unheld /\ idx'[t] \in Unheld' /\ claim'[t] < Capacity
    BY <2>2, <2>6, <2>7
  <2>11. lost' = 0 /\ StackHolds(free_list', claim'[t], Unheld' \ {idx'[t]})
    BY <2>1, <2>2, <2>4, <2>10, Zenon DEF Exact
  <2> QED BY <2>3, <2>8, <2>9, <2>10, <2>11, ExactAfter, Zenon
<1> QED BY <1>1, <1>2, <1>3, <1>4

-----------------------------------------------------------------------------
(***************************************************************************)
(* Where the pointers are                                                  *)
(***************************************************************************)

(* The places of a pointer in a queue are finitely many; a push adds one,  *)
(* a pop takes one.                                                        *)
LEMMA QueuedFinite ==
  ASSUME NEW q \in Seq(Msg), NEW i
  PROVE  IsFiniteSet(QueuedAt(q, i)) /\ Cardinality(QueuedAt(q, i)) \in Nat
<1>1. IsFiniteSet(1 .. Len(q))
  BY FS_Interval
<1>2. QueuedAt(q, i) \in SUBSET (1 .. Len(q))
  BY DEF QueuedAt
<1>3. IsFiniteSet(QueuedAt(q, i))
  BY <1>1, <1>2, FS_Subset
<1> QED BY <1>3, FS_CardinalityType

(* A push adds one place, to the pointer pushed. *)
LEMMA QueuedAppend ==
  ASSUME NEW q \in Seq(Msg), NEW m \in Msg, NEW i
  PROVE  Cardinality(QueuedAt(Append(q, m), i))
           = Cardinality(QueuedAt(q, i)) + (IF m = i THEN 1 ELSE 0)
<1> DEFINE a == Append(q, m)
           n == Len(q) + 1
<1>1. /\ a \in Seq(Msg) /\ DOMAIN a = 1 .. n /\ DOMAIN q = 1 .. Len(q) /\ a[n] = m
      /\ \A k \in 1 .. Len(q) : a[k] = q[k]
      /\ n \notin 1 .. Len(q) /\ 1 .. n = 1 .. Len(q) \cup {n}
  OBVIOUS
<1> HIDE DEF a, n
<1>2. CASE m = i
  <2>1. QueuedAt(a, i) = QueuedAt(q, i) \cup {n} /\ n \notin QueuedAt(q, i)
    BY <1>1, <1>2 DEF QueuedAt
  <2>2. Cardinality(QueuedAt(a, i)) = Cardinality(QueuedAt(q, i)) + 1
    BY <2>1, QueuedFinite, FS_AddElement
  <2> QED BY <1>2, <2>2 DEF a
<1>3. CASE m # i
  <2>1. QueuedAt(a, i) = QueuedAt(q, i)
    BY <1>1, <1>3 DEF QueuedAt
  <2> QED BY <1>3, <2>1, QueuedFinite DEF a
<1> QED BY <1>2, <1>3

(* A pop takes one place, from the pointer at the head. *)
LEMMA QueuedTail ==
  ASSUME NEW q \in Seq(Msg), q # << >>, NEW i
  PROVE  /\ Tail(q) \in Seq(Msg) /\ Head(q) \in Msg /\ Len(Tail(q)) = Len(q) - 1
         /\ Cardinality(QueuedAt(q, i))
              = Cardinality(QueuedAt(Tail(q), i)) + (IF Head(q) = i THEN 1 ELSE 0)
<1> DEFINE r == Tail(q)
<1>1. /\ r \in Seq(Msg) /\ Head(q) = q[1] /\ Head(q) \in Msg /\ Len(r) = Len(q) - 1
      /\ DOMAIN q = 1 .. Len(q) /\ DOMAIN r = 1 .. Len(q) - 1 /\ Len(q) \in Nat \ {0}
      /\ \A k \in 1 .. Len(q) - 1 : r[k] = q[k + 1]
  OBVIOUS
<1> HIDE DEF r
<1> DEFINE S == QueuedAt(r, i)
           T == QueuedAt(q, i) \ {1}
           f == [k \in S |-> k + 1]
<1>2. IsFiniteSet(S) /\ Cardinality(S) \in Nat /\ IsFiniteSet(QueuedAt(q, i))
      /\ Cardinality(QueuedAt(q, i)) \in Nat
  BY <1>1, QueuedFinite
<1>3. f \in Bijection(S, T)
  <2>1. \A k \in S : k \in Nat /\ k + 1 \in T
    BY <1>1 DEF QueuedAt
  <2>2. \A k \in T : k - 1 \in S /\ (k - 1) + 1 = k
    BY <1>1 DEF QueuedAt
  <2>3. \A k \in T : f[k - 1] = k
    BY <2>2
  <2>4. f \in [S -> T]
    BY <2>1
  <2>5. \A k, l \in S : f[k] = f[l] => k = l
    BY <2>1
  <2> HIDE DEF f, S, T
  <2>6. \A k \in T : \E l \in S : f[l] = k
    BY <2>2, <2>3, Zenon
  <2> QED BY <2>4, <2>5, <2>6, Zenon DEF Bijection, Injection, Surjection, IsInjective
<1>4. Cardinality(T) = Cardinality(S)
  <2>1. ExistsBijection(S, T)
    BY <1>3, Zenon DEF ExistsBijection
  <2> HIDE DEF S, T
  <2> QED BY <1>2, <2>1, FS_Bijection
<1>5. 1 \in QueuedAt(q, i) <=> Head(q) = i
  BY <1>1 DEF QueuedAt
<1>6. CASE Head(q) = i
  <2>1. Cardinality(T) = Cardinality(QueuedAt(q, i)) - 1
    BY <1>2, <1>5, <1>6, FS_RemoveElement
  <2>2. Cardinality(QueuedAt(q, i)) = Cardinality(S) + 1
    BY <1>2, <1>4, <2>1
  <2> QED BY <1>1, <1>6, <2>2 DEF r
<1>7. CASE Head(q) # i
  <2>1. T = QueuedAt(q, i)
    BY <1>5, <1>7
  <2>2. Cardinality(QueuedAt(q, i)) = Cardinality(S)
    <3> HIDE DEF S, T
    <3> QED BY <1>4, <2>1, Zenon
  <2> QED BY <1>1, <1>2, <1>7, <2>2 DEF r
<1> QED BY <1>6, <1>7

-----------------------------------------------------------------------------
(***************************************************************************)
(* Calls of the pool made by the threads of the feed                       *)
(***************************************************************************)
LEMMA TheThreads ==
  /\ recv \in Threads /\ consumer \in Threads /\ main \in Threads
  /\ recv # consumer /\ recv # main /\ consumer # main
  /\ \A t \in Threads : t = recv \/ t = consumer \/ t = main
BY ThreadsAssumption DEF Threads

(* What a step of a thread that does not enter the pool leaves alone. *)
LEMMA NoCall ==
  ASSUME PoolInv, ~ raced => Exact, raced \in BOOLEAN, NoPoolStep
  PROVE  /\ PoolInv' /\ (~ raced' => Exact') /\ raced' \in BOOLEAN
         /\ held' = held /\ pc' = pc /\ simulation_mode' = simulation_mode
<1>1. /\ raced' = raced /\ simulation_mode' = simulation_mode
      /\ UNCHANGED <<free_top, free_list, pc, claim, idx, held, lost>>
  BY Zenon DEF NoPoolStep, vars
<1>2. PoolInv'
  BY <1>1, Zenon DEF PoolInv, TopAccounts, TypeOK, Pointers, Outstanding, Claiming
<1>3. Exact => Exact'
  BY <1>1, Zenon DEF Exact, NoDoubleAllocation, Unheld
<1> QED BY <1>1, <1>2, <1>3, Zenon

(* The two steps of mempool_alloc. *)
LEMMA AllocCall ==
  ASSUME PoolInv, ~ raced => Exact, raced \in BOOLEAN,
         \/ PoolStep(AllocClaim(recv)) \/ PoolStep(AllocUndo(recv))
         \/ PoolStep(AllocRead(recv))
  PROVE  /\ PoolInv' /\ (~ raced' => Exact') /\ raced' \in BOOLEAN
         /\ simulation_mode' = simulation_mode
         /\ \A u \in Threads : u # recv => pc'[u] = pc[u]
         /\ PoolStep(AllocClaim(recv)) => pc'[recv] \in {"undo", "read"} /\ held' = held
         /\ PoolStep(AllocUndo(recv)) => pc'[recv] = "idle" /\ held' = held
         /\ PoolStep(AllocRead(recv)) =>
              /\ pc'[recv] = "idle"
              /\ \E i \in Msg : held' = [held EXCEPT ![i] = held[i] + 1]
<1> USE TheThreads, PoolTypes
<1>1. /\ AllocClaim(recv) \/ AllocUndo(recv) \/ AllocRead(recv)
      /\ raced' = (raced \/ Racing') /\ simulation_mode' = simulation_mode
  BY Zenon DEF PoolStep
<1>2. PoolInv'
  BY <1>1, AllocSteps, Zenon
<1>3. ~ raced' => Exact'
  BY <1>1, AllocExact, Zenon
<1>4. raced' \in BOOLEAN
  <2>1. Racing' \in BOOLEAN
    BY Zenon DEF Racing
  <2> QED BY <1>1, <2>1, Zenon
<1>5. \A u \in Threads : u # recv => pc'[u] = pc[u]
  BY <1>1 DEF AllocClaim, AllocUndo, AllocRead
<1>6. AllocClaim(recv) => pc'[recv] \in {"undo", "read"} /\ held' = held
  BY DEF AllocClaim
<1>7. AllocUndo(recv) => pc'[recv] = "idle" /\ held' = held
  BY DEF AllocUndo
<1>8. ASSUME AllocRead(recv)
      PROVE  pc'[recv] = "idle" /\ \E i \in Msg : held' = [held EXCEPT ![i] = held[i] + 1]
  <2>1. /\ pc[recv] = "read" /\ pc' = [pc EXCEPT ![recv] = "idle"]
        /\ \E i \in Loaded(claim[recv]) : held' = [held EXCEPT ![i] = held[i] + 1]
    BY <1>8, Zenon DEF AllocRead
  <2>2. Loaded(claim[recv]) \subseteq Msg
    <3>1. CASE claim[recv] <= Capacity
      <4> DEFINE c == claim[recv]
      <4>0. c \in Int /\ 0 <= c /\ c # 0 /\ Capacity \in Int
        <5>1. recv \in Threads /\ c # 0
          BY <2>1, Zenon DEF PoolInv
        <5> QED BY <5>1, CapacityAssumption
      <4>a. c <= Capacity
        BY <3>1
      <4> HIDE DEF c
      <4>b. c - 1 \in Objects
        BY <4>0, <4>a DEF Objects
      <4>1. claim[recv] - 1 \in Objects
        BY <4>b DEF c
      <4> QED BY <3>1, <4>1 DEF Loaded, Msg
    <3>2. CASE ~ (claim[recv] <= Capacity)
      BY <3>2 DEF Loaded, Msg
    <3> QED BY <3>1, <3>2
  <2> QED BY <2>1, <2>2, Zenon
<1> QED BY <1>1, <1>2, <1>3, <1>4, <1>5, <1>6, <1>7, <1>8, Zenon DEF PoolStep

(* The two halves of mempool_free. *)
LEMMA FreeBegins ==
  ASSUME PoolInv, ~ raced => Exact, raced \in BOOLEAN,
         NEW t \in Threads, NEW m \in Msg, BeginFree(t, m)
  PROVE  /\ PoolInv' /\ (~ raced' => Exact') /\ raced' \in BOOLEAN
         /\ simulation_mode' = simulation_mode
         /\ \A u \in Threads : u # t => pc'[u] = pc[u]
         /\ pc[t] = "idle" /\ pc'[t] \in {"idle", "bail", "store"}
         /\ held' = [held EXCEPT ![m] = held[m] - 1]
<1> USE PoolTypes
<1>1. /\ raced' = (raced \/ Racing') /\ simulation_mode' = simulation_mode
      /\ \/ m \in Objects /\ FreeClaim(t, m)
         \/ m = Wild /\ FreeWild(t)
  BY Zenon DEF BeginFree, PoolStep, Msg
<1>2. PoolInv'
  BY <1>1, FreeSteps, Zenon
<1>3. ~ raced' => Exact'
  BY <1>1, FreeExact, Zenon
<1>4. raced' \in BOOLEAN
  <2>1. Racing' \in BOOLEAN
    BY Zenon DEF Racing
  <2> QED BY <1>1, <2>1, Zenon
<1>5. /\ \A u \in Threads : u # t => pc'[u] = pc[u]
      /\ pc[t] = "idle" /\ pc'[t] \in {"idle", "bail", "store"}
  <2>1. CASE FreeClaim(t, m)
    BY <2>1 DEF FreeClaim
  <2>2. CASE FreeWild(t)
    BY <2>2 DEF FreeWild
  <2> QED BY <1>1, <2>1, <2>2, Zenon
<1>6. held' = [held EXCEPT ![m] = held[m] - 1]
  BY <1>1, Zenon DEF FreeClaim, FreeWild
<1> QED BY <1>1, <1>2, <1>3, <1>4, <1>5, <1>6, Zenon

(* The second half of mempool_free, if the first has left one. *)
LEMMA FreeEnds ==
  ASSUME PoolInv, ~ raced => Exact, raced \in BOOLEAN, NEW t \in Threads, EndFree(t)
  PROVE  /\ PoolInv' /\ (~ raced' => Exact') /\ raced' \in BOOLEAN
         /\ simulation_mode' = simulation_mode
         /\ \A u \in Threads : u # t => pc'[u] = pc[u]
         /\ pc'[t] = "idle" /\ held' = held
<1>1. CASE pc[t] = "idle"
  <2>1. NoPoolStep
    BY <1>1, Zenon DEF EndFree
  <2> QED BY <1>1, <2>1, NoCall, Zenon
<1>2. CASE pc[t] # "idle"
  <2> USE PoolTypes
  <2>1. /\ FreeStore(t) \/ FreeBail(t)
        /\ raced' = (raced \/ Racing') /\ simulation_mode' = simulation_mode
    BY <1>2, Zenon DEF EndFree, PoolStep
  <2>2. PoolInv' /\ (~ raced' => Exact')
    BY <2>1, FreeSteps, FreeExact, Zenon
  <2>3. raced' \in BOOLEAN
    <3>1. Racing' \in BOOLEAN
      BY Zenon DEF Racing
    <3> QED BY <2>1, <3>1, Zenon
  <2>4. /\ \A u \in Threads : u # t => pc'[u] = pc[u]
        /\ pc'[t] = "idle" /\ held' = held
    BY <2>1 DEF FreeStore, FreeBail
  <2> QED BY <2>1, <2>2, <2>3, <2>4, Zenon
<1> QED BY <1>1, <1>2

-----------------------------------------------------------------------------
(***************************************************************************)
(* Every step of the feed keeps the invariant                              *)
(***************************************************************************)
RxThread == [pc : {"loop", "alloc", "push", "full", "free", "exit"}, msg : Msg \cup {None}]
HotThread == [pc : {"loop", "process", "free", "exit"}, msg : Msg \cup {None}]

(* The parts of the invariant, one by one. *)
LEMMA FeedFacts ==
  ASSUME FeedInv
  PROVE  /\ PoolInv /\ (~ raced => Exact) /\ raced \in BOOLEAN
         /\ FeedTypes /\ Calls /\ Passes /\ HeldInPlaces
         /\ simulation_mode \in BOOLEAN /\ running \in BOOLEAN
         /\ output_queue \in Seq(Msg) /\ Len(output_queue) <= QueueSize - 1
         /\ Len(output_queue) \in Nat
         /\ rx \in RxThread /\ hot \in HotThread
         /\ ctl \in {"run", "join_consumer", "join_feed", "drain", "drain_free", "destroyed"}
         /\ passes \in Nat /\ msgs_received \in Nat /\ msgs_dropped \in Nat
         /\ QueueSize \in Nat /\ held \in [Msg -> Nat]
         /\ None \notin Msg
<1>1. PoolInv /\ (~ raced => Exact) /\ FeedTypes /\ Calls /\ Passes /\ HeldInPlaces
  BY Zenon DEF FeedInv
<1>2. /\ raced \in BOOLEAN /\ simulation_mode \in BOOLEAN /\ running \in BOOLEAN
      /\ output_queue \in Seq(Msg) /\ Len(output_queue) <= QueueSize - 1
      /\ rx \in RxThread /\ hot \in HotThread
      /\ ctl \in {"run", "join_consumer", "join_feed", "drain", "drain_free", "destroyed"}
      /\ passes \in Nat /\ msgs_received \in Nat /\ msgs_dropped \in Nat
  BY <1>1, Zenon DEF FeedTypes, RxThread, HotThread
<1>3. QueueSize \in Nat /\ None \notin Msg
  BY CapacityAssumption DEF QueueSize, None, Msg, Objects, Wild
<1>4. held \in [Msg -> Nat]
  BY <1>1, PoolTypes DEF Msg
<1>5. Len(output_queue) \in Nat
  BY <1>2
<1> QED BY <1>1, <1>2, <1>3, <1>4, <1>5, Zenon

(* Steps that move no message keep the places: neither the queue nor what  *)
(* a thread has in hand changes.                                           *)
LEMMA SamePlaces ==
  ASSUME HeldInPlaces, held' = held, output_queue' = output_queue,
         \/ rx' = rx
         \/ rx.pc \notin {"push", "full"} /\ rx'.pc \notin {"push", "full"},
         \/ hot' = hot
         \/ hot.pc # "process" /\ hot'.pc # "process"
  PROVE  HeldInPlaces'
<1>1. \A i \in Msg : /\ InHand(rx', {"push", "full"}, i) = InHand(rx, {"push", "full"}, i)
                     /\ InHand(hot', {"process"}, i) = InHand(hot, {"process"}, i)
  BY DEF InHand
<1> QED BY <1>1, Zenon DEF HeldInPlaces

(* The receive thread takes a message object from the pool. *)
LEMMA RecvAllocKeeps ==
  ASSUME FeedInv, RecvAlloc \/ RecvNoMsg \/ RecvMsg
  PROVE  FeedInv'
<1> USE FeedFacts, TheThreads
<1>1. CASE RecvAlloc
  <2>1. /\ rx.pc = "loop" /\ passes' = passes + 1 /\ PoolStep(AllocClaim(recv))
        /\ rx' = [rx EXCEPT !.pc = "alloc"]
        /\ UNCHANGED <<output_queue, hot, ctl, running, msgs_received, msgs_dropped>>
    BY <1>1, Zenon DEF RecvAlloc
  <2>2. /\ PoolInv' /\ (~ raced' => Exact') /\ raced' \in BOOLEAN
        /\ simulation_mode' = simulation_mode
        /\ \A u \in Threads : u # recv => pc'[u] = pc[u]
        /\ pc'[recv] \in {"undo", "read"} /\ held' = held
    BY <2>1, AllocCall, Zenon
  <2>3. rx' \in RxThread /\ rx'.pc = "alloc" /\ rx'.msg = rx.msg
    BY <2>1 DEF RxThread
  <2>4. FeedTypes'
    BY <2>1, <2>2, <2>3, SMT DEF FeedTypes, RxThread, HotThread
  <2>5. Calls'
    BY <2>1, <2>2, <2>3 DEF Calls
  <2>6. Passes'
    BY <2>1, <2>3 DEF Passes
  <2>7. HeldInPlaces'
    <3>1. rx.pc \notin {"push", "full"} /\ rx'.pc \notin {"push", "full"}
      BY <2>1, <2>3
    <3> QED BY <2>1, <2>2, <3>1, SamePlaces, Zenon
  <2> QED BY <2>2, <2>4, <2>5, <2>6, <2>7, Zenon DEF FeedInv
<1>2. CASE RecvNoMsg
  <2>1. /\ rx.pc = "alloc" /\ msgs_dropped' = msgs_dropped + 1 /\ PoolStep(AllocUndo(recv))
        /\ rx' = Idle
        /\ UNCHANGED <<output_queue, hot, ctl, running, passes, msgs_received>>
    BY <1>2, Zenon DEF RecvNoMsg
  <2>2. /\ PoolInv' /\ (~ raced' => Exact') /\ raced' \in BOOLEAN
        /\ simulation_mode' = simulation_mode
        /\ \A u \in Threads : u # recv => pc'[u] = pc[u]
        /\ pc'[recv] = "idle" /\ held' = held
    BY <2>1, AllocCall, Zenon
  <2>3. rx' \in RxThread /\ rx'.pc = "loop" /\ rx'.msg = None
    BY <2>1 DEF RxThread, Idle
  <2>4. FeedTypes'
    BY <2>1, <2>2, <2>3, SMT DEF FeedTypes, RxThread, HotThread
  <2>5. Calls'
    BY <2>1, <2>2, <2>3 DEF Calls
  <2>6. Passes'
    BY <2>1, <2>3 DEF Passes
  <2>7. HeldInPlaces'
    <3>1. rx.pc \notin {"push", "full"} /\ rx'.pc \notin {"push", "full"}
      BY <2>1, <2>3
    <3> QED BY <2>1, <2>2, <3>1, SamePlaces, Zenon
  <2> QED BY <2>2, <2>4, <2>5, <2>6, <2>7, Zenon DEF FeedInv
<1>3. CASE RecvMsg
  <2>1. /\ rx.pc = "alloc" /\ PoolStep(AllocRead(recv))
        /\ UNCHANGED <<output_queue, hot, ctl, running, passes, msgs_received, msgs_dropped>>
    BY <1>3, Zenon DEF RecvMsg, counts
  <2>m. PICK m \in Msg : held'[m] # held[m] /\ rx' = [pc |-> "push", msg |-> m]
    BY <1>3, Zenon DEF RecvMsg, Msg
  <2>2. /\ PoolInv' /\ (~ raced' => Exact') /\ raced' \in BOOLEAN
        /\ simulation_mode' = simulation_mode
        /\ \A u \in Threads : u # recv => pc'[u] = pc[u]
        /\ pc'[recv] = "idle"
        /\ \E i \in Msg : held' = [held EXCEPT ![i] = held[i] + 1]
    BY <2>1, AllocCall, Zenon
  <2>h. held' = [held EXCEPT ![m] = held[m] + 1]
    BY <2>m, <2>2
  <2>3. rx' \in RxThread /\ rx'.pc = "push" /\ rx'.msg = m /\ m # None
    BY <2>m DEF RxThread
  <2>4. FeedTypes'
    BY <2>1, <2>2, <2>3, SMT DEF FeedTypes, RxThread, HotThread
  <2>5. Calls'
    BY <2>1, <2>2, <2>3 DEF Calls
  <2>6. Passes'
    BY <2>1, <2>3 DEF Passes
  <2>7. ASSUME NEW i \in Msg
        PROVE  held'[i] = Cardinality(QueuedAt(output_queue', i))
                            + InHand(rx', {"push", "full"}, i) + InHand(hot', {"process"}, i)
    <3>1. held[i] = Cardinality(QueuedAt(output_queue, i))
                      + InHand(rx, {"push", "full"}, i) + InHand(hot, {"process"}, i)
      BY Zenon DEF HeldInPlaces
    <3>2. /\ InHand(rx, {"push", "full"}, i) = 0
          /\ InHand(rx', {"push", "full"}, i) = IF m = i THEN 1 ELSE 0
      BY <2>1, <2>3 DEF InHand
    <3>3. InHand(hot, {"process"}, i) \in Nat
      BY DEF InHand
    <3>4. held'[i] = held[i] + (IF m = i THEN 1 ELSE 0)
      BY <2>h
    <3> QED BY <2>1, <3>1, <3>2, <3>3, <3>4, QueuedFinite
  <2>8. HeldInPlaces'
    BY <2>7, Zenon DEF HeldInPlaces
  <2> QED BY <2>2, <2>4, <2>5, <2>6, <2>8, Zenon DEF FeedInv
<1> QED BY <1>1, <1>2, <1>3

(* The receive thread pushes the message, or finds the queue full. *)
LEMMA RecvPushKeeps ==
  ASSUME FeedInv, RecvPush \/ RecvPushFails
  PROVE  FeedInv'
<1> USE FeedFacts, TheThreads
<1>1. CASE RecvPush
  <2>1. /\ rx.pc = "push" /\ Len(output_queue) < QueueSize - 1
        /\ output_queue' = Append(output_queue, rx.msg)
        /\ msgs_received' = msgs_received + 1 /\ rx' = Idle /\ NoPoolStep
        /\ UNCHANGED <<hot, ctl, running, passes, msgs_dropped>>
    BY <1>1, Zenon DEF RecvPush
  <2>2. /\ PoolInv' /\ (~ raced' => Exact') /\ raced' \in BOOLEAN
        /\ held' = held /\ pc' = pc /\ simulation_mode' = simulation_mode
    BY <2>1, NoCall, Zenon
  <2>3. rx' \in RxThread /\ rx'.pc = "loop" /\ rx'.msg = None
    BY <2>1 DEF RxThread, Idle
  <2>m. rx.msg \in Msg
    BY <2>1 DEF Calls, RxThread
  <2>q. /\ output_queue' \in Seq(Msg) /\ Len(output_queue') = Len(output_queue) + 1
        /\ Len(output_queue') <= QueueSize - 1
    BY <2>1, <2>m
  <2>4. FeedTypes'
    BY <2>1, <2>2, <2>3, <2>q, SMT DEF FeedTypes, RxThread, HotThread
  <2>5. Calls'
    BY <2>1, <2>2, <2>3 DEF Calls
  <2>6. Passes'
    BY <2>1, <2>3 DEF Passes
  <2>7. ASSUME NEW i \in Msg
        PROVE  held'[i] = Cardinality(QueuedAt(output_queue', i))
                            + InHand(rx', {"push", "full"}, i) + InHand(hot', {"process"}, i)
    <3>1. held[i] = Cardinality(QueuedAt(output_queue, i))
                      + InHand(rx, {"push", "full"}, i) + InHand(hot, {"process"}, i)
      BY Zenon DEF HeldInPlaces
    <3>2. /\ InHand(rx, {"push", "full"}, i) = IF rx.msg = i THEN 1 ELSE 0
          /\ InHand(rx', {"push", "full"}, i) = 0
      BY <2>1, <2>3 DEF InHand
    <3>3. InHand(hot, {"process"}, i) \in Nat /\ hot' = hot /\ held' = held
      BY <2>1, <2>2 DEF InHand
    <3>4. Cardinality(QueuedAt(output_queue', i))
            = Cardinality(QueuedAt(output_queue, i)) + (IF rx.msg = i THEN 1 ELSE 0)
      BY <2>1, <2>m, QueuedAppend, Zenon
    <3>5. Cardinality(QueuedAt(output_queue, i)) \in Nat
      BY QueuedFinite, Zenon
    <3> QED BY <3>1, <3>2, <3>3, <3>4, <3>5
  <2>8. HeldInPlaces'
    BY <2>7, Zenon DEF HeldInPlaces
  <2> QED BY <2>2, <2>4, <2>5, <2>6, <2>8, Zenon DEF FeedInv
<1>2. CASE RecvPushFails
  <2>1. /\ rx.pc = "push" /\ rx' = [rx EXCEPT !.pc = "full"] /\ NoPoolStep
        /\ UNCHANGED <<output_queue, hot, ctl, running, passes, msgs_received, msgs_dropped>>
    BY <1>2, Zenon DEF RecvPushFails, counts
  <2>2. /\ PoolInv' /\ (~ raced' => Exact') /\ raced' \in BOOLEAN
        /\ held' = held /\ pc' = pc /\ simulation_mode' = simulation_mode
    BY <2>1, NoCall, Zenon
  <2>3. rx' \in RxThread /\ rx'.pc = "full" /\ rx'.msg = rx.msg
    BY <2>1 DEF RxThread
  <2>4. FeedTypes'
    BY <2>1, <2>2, <2>3, SMT DEF FeedTypes, RxThread, HotThread
  <2>5. Calls'
    BY <2>1, <2>2, <2>3 DEF Calls
  <2>6. Passes'
    BY <2>1, <2>3 DEF Passes
  <2>7. \A i : InHand(rx', {"push", "full"}, i) = InHand(rx, {"push", "full"}, i)
    BY <2>1, <2>3 DEF InHand
  <2>8. HeldInPlaces'
    BY <2>1, <2>2, <2>7, Zenon DEF HeldInPlaces
  <2> QED BY <2>2, <2>4, <2>5, <2>6, <2>8, Zenon DEF FeedInv
<1> QED BY <1>1, <1>2

(* The receive thread gives a message back, waits for the next or ends. *)
LEMMA RecvRestKeeps ==
  ASSUME FeedInv, RecvFree \/ RecvDrop \/ RecvExit
  PROVE  FeedInv'
<1> USE FeedFacts, TheThreads
<1>1. CASE RecvFree
  <2>1. /\ rx.pc = "full" /\ BeginFree(recv, rx.msg) /\ rx' = [rx EXCEPT !.pc = "free"]
        /\ UNCHANGED <<output_queue, hot, ctl, running, passes, msgs_received, msgs_dropped>>
    BY <1>1, Zenon DEF RecvFree, counts
  <2>m. rx.msg \in Msg
    BY <2>1 DEF Calls, RxThread
  <2>2. /\ PoolInv' /\ (~ raced' => Exact') /\ raced' \in BOOLEAN
        /\ simulation_mode' = simulation_mode
        /\ \A u \in Threads : u # recv => pc'[u] = pc[u]
        /\ pc[recv] = "idle" /\ pc'[recv] \in {"idle", "bail", "store"}
        /\ held' = [held EXCEPT ![rx.msg] = held[rx.msg] - 1]
    BY <2>1, <2>m, FreeBegins, Zenon
  <2>3. rx' \in RxThread /\ rx'.pc = "free" /\ rx'.msg = rx.msg
    BY <2>1 DEF RxThread
  <2>4. FeedTypes'
    BY <2>1, <2>2, <2>3, SMT DEF FeedTypes, RxThread, HotThread
  <2>5. Calls'
    BY <2>1, <2>2, <2>3 DEF Calls
  <2>6. Passes'
    BY <2>1, <2>3 DEF Passes
  <2>7. ASSUME NEW i \in Msg
        PROVE  held'[i] = Cardinality(QueuedAt(output_queue', i))
                            + InHand(rx', {"push", "full"}, i) + InHand(hot', {"process"}, i)
    <3>1. held[i] = Cardinality(QueuedAt(output_queue, i))
                      + InHand(rx, {"push", "full"}, i) + InHand(hot, {"process"}, i)
      BY Zenon DEF HeldInPlaces
    <3>2. /\ InHand(rx, {"push", "full"}, i) = IF rx.msg = i THEN 1 ELSE 0
          /\ InHand(rx', {"push", "full"}, i) = 0
      BY <2>1, <2>3 DEF InHand
    <3>3. /\ InHand(hot, {"process"}, i) \in Nat /\ hot' = hot
          /\ output_queue' = output_queue
      BY <2>1 DEF InHand
    <3>4. held'[i] = held[i] - (IF rx.msg = i THEN 1 ELSE 0)
      BY <2>2, <2>m
    <3>5. Cardinality(QueuedAt(output_queue, i)) \in Nat
      BY QueuedFinite, Zenon
    <3> QED BY <3>1, <3>2, <3>3, <3>4, <3>5
  <2>8. HeldInPlaces'
    BY <2>7, Zenon DEF HeldInPlaces
  <2> QED BY <2>2, <2>4, <2>5, <2>6, <2>8, Zenon DEF FeedInv
<1>2. CASE RecvDrop
  <2>1. /\ rx.pc = "free" /\ EndFree(recv) /\ rx' = Idle
        /\ msgs_dropped' = msgs_dropped + 1
        /\ UNCHANGED <<output_queue, hot, ctl, running, passes, msgs_received>>
    BY <1>2, Zenon DEF RecvDrop
  <2>2. /\ PoolInv' /\ (~ raced' => Exact') /\ raced' \in BOOLEAN
        /\ simulation_mode' = simulation_mode
        /\ \A u \in Threads : u # recv => pc'[u] = pc[u]
        /\ pc'[recv] = "idle" /\ held' = held
    BY <2>1, FreeEnds, Zenon
  <2>3. rx' \in RxThread /\ rx'.pc = "loop" /\ rx'.msg = None
    BY <2>1 DEF RxThread, Idle
  <2>4. FeedTypes'
    BY <2>1, <2>2, <2>3, SMT DEF FeedTypes, RxThread, HotThread
  <2>5. Calls'
    BY <2>1, <2>2, <2>3 DEF Calls
  <2>6. Passes'
    BY <2>1, <2>3 DEF Passes
  <2>7. HeldInPlaces'
    <3>1. rx.pc \notin {"push", "full"} /\ rx'.pc \notin {"push", "full"}
      BY <2>1, <2>3
    <3> QED BY <2>1, <2>2, <3>1, SamePlaces, Zenon
  <2> QED BY <2>2, <2>4, <2>5, <2>6, <2>7, Zenon DEF FeedInv
<1>3. CASE RecvExit
  <2>1. /\ rx.pc = "loop" /\ rx' = [rx EXCEPT !.pc = "exit"] /\ NoPoolStep
        /\ UNCHANGED <<output_queue, hot, ctl, running, passes, msgs_received, msgs_dropped>>
    BY <1>3, Zenon DEF RecvExit, counts
  <2>2. /\ PoolInv' /\ (~ raced' => Exact') /\ raced' \in BOOLEAN
        /\ held' = held /\ pc' = pc /\ simulation_mode' = simulation_mode
    BY <2>1, NoCall, Zenon
  <2>3. rx' \in RxThread /\ rx'.pc = "exit" /\ rx'.msg = rx.msg
    BY <2>1 DEF RxThread
  <2>4. FeedTypes'
    BY <2>1, <2>2, <2>3, SMT DEF FeedTypes, RxThread, HotThread
  <2>5. Calls'
    BY <2>1, <2>2, <2>3 DEF Calls
  <2>6. Passes'
    BY <2>1, <2>3 DEF Passes
  <2>7. HeldInPlaces'
    <3>1. rx.pc \notin {"push", "full"} /\ rx'.pc \notin {"push", "full"}
      BY <2>1, <2>3
    <3> QED BY <2>1, <2>2, <3>1, SamePlaces, Zenon
  <2> QED BY <2>2, <2>4, <2>5, <2>6, <2>7, Zenon DEF FeedInv
<1> QED BY <1>1, <1>2, <1>3

(* The consumer takes a message from the queue and returns it. *)
LEMMA HotKeeps ==
  ASSUME FeedInv, Hot
  PROVE  FeedInv'
<1> USE FeedFacts, TheThreads
<1>1. CASE HotPop
  <2>1. /\ hot.pc = "loop" /\ output_queue # << >> /\ NoPoolStep
        /\ hot' = [pc |-> "process", msg |-> Head(output_queue)]
        /\ output_queue' = Tail(output_queue)
        /\ UNCHANGED <<rx, ctl, running, passes, msgs_received, msgs_dropped>>
    BY <1>1, Zenon DEF HotPop, counts
  <2>2. /\ PoolInv' /\ (~ raced' => Exact') /\ raced' \in BOOLEAN
        /\ held' = held /\ pc' = pc /\ simulation_mode' = simulation_mode
    BY <2>1, NoCall, Zenon
  <2>q. /\ output_queue' \in Seq(Msg) /\ Head(output_queue) \in Msg
        /\ Len(output_queue') = Len(output_queue) - 1
    BY <2>1, QueuedTail, Zenon
  <2>3. hot' \in HotThread /\ hot'.pc = "process" /\ hot'.msg = Head(output_queue)
    BY <2>1, <2>q DEF HotThread
  <2>4. FeedTypes'
    BY <2>1, <2>2, <2>3, <2>q, SMT DEF FeedTypes, RxThread, HotThread
  <2>5. Calls'
    BY <2>1, <2>2, <2>3, <2>q DEF Calls
  <2>6. Passes'
    BY <2>1 DEF Passes
  <2>7. ASSUME NEW i \in Msg
        PROVE  held'[i] = Cardinality(QueuedAt(output_queue', i))
                            + InHand(rx', {"push", "full"}, i) + InHand(hot', {"process"}, i)
    <3>1. held[i] = Cardinality(QueuedAt(output_queue, i))
                      + InHand(rx, {"push", "full"}, i) + InHand(hot, {"process"}, i)
      BY Zenon DEF HeldInPlaces
    <3>2. /\ InHand(hot, {"process"}, i) = 0
          /\ InHand(hot', {"process"}, i) = IF Head(output_queue) = i THEN 1 ELSE 0
      BY <2>1, <2>3 DEF InHand
    <3>3. InHand(rx, {"push", "full"}, i) \in Nat /\ rx' = rx /\ held' = held
      BY <2>1, <2>2 DEF InHand
    <3>4. Cardinality(QueuedAt(output_queue, i))
            = Cardinality(QueuedAt(output_queue', i))
                + (IF Head(output_queue) = i THEN 1 ELSE 0)
      BY <2>1, QueuedTail, Zenon
    <3>5. Cardinality(QueuedAt(output_queue', i)) \in Nat
      BY <2>q, QueuedFinite, Zenon
    <3> QED BY <3>1, <3>2, <3>3, <3>4, <3>5
  <2>8. HeldInPlaces'
    BY <2>7, Zenon DEF HeldInPlaces
  <2> QED BY <2>2, <2>4, <2>5, <2>6, <2>8, Zenon DEF FeedInv
<1>2. CASE HotReturnMsg
  <2>1. /\ hot.pc = "process" /\ BeginFree(consumer, hot.msg)
        /\ hot' = [hot EXCEPT !.pc = "free"]
        /\ UNCHANGED <<output_queue, rx, ctl, running, passes, msgs_received, msgs_dropped>>
    BY <1>2, Zenon DEF HotReturnMsg, counts
  <2>m. hot.msg \in Msg
    BY <2>1 DEF Calls, HotThread
  <2>2. /\ PoolInv' /\ (~ raced' => Exact') /\ raced' \in BOOLEAN
        /\ simulation_mode' = simulation_mode
        /\ \A u \in Threads : u # consumer => pc'[u] = pc[u]
        /\ pc'[consumer] \in {"idle", "bail", "store"}
        /\ held' = [held EXCEPT ![hot.msg] = held[hot.msg] - 1]
    BY <2>1, <2>m, FreeBegins, Zenon
  <2>3. hot' \in HotThread /\ hot'.pc = "free" /\ hot'.msg = hot.msg
    BY <2>1 DEF HotThread
  <2>4. FeedTypes'
    BY <2>1, <2>2, <2>3, SMT DEF FeedTypes, RxThread, HotThread
  <2>5. Calls'
    BY <2>1, <2>2, <2>3 DEF Calls
  <2>6. Passes'
    BY <2>1 DEF Passes
  <2>7. ASSUME NEW i \in Msg
        PROVE  held'[i] = Cardinality(QueuedAt(output_queue', i))
                            + InHand(rx', {"push", "full"}, i) + InHand(hot', {"process"}, i)
    <3>1. held[i] = Cardinality(QueuedAt(output_queue, i))
                      + InHand(rx, {"push", "full"}, i) + InHand(hot, {"process"}, i)
      BY Zenon DEF HeldInPlaces
    <3>2. /\ InHand(hot, {"process"}, i) = IF hot.msg = i THEN 1 ELSE 0
          /\ InHand(hot', {"process"}, i) = 0
      BY <2>1, <2>3 DEF InHand
    <3>3. /\ InHand(rx, {"push", "full"}, i) \in Nat /\ rx' = rx
          /\ output_queue' = output_queue
      BY <2>1 DEF InHand
    <3>4. held'[i] = held[i] - (IF hot.msg = i THEN 1 ELSE 0)
      BY <2>2, <2>m
    <3>5. Cardinality(QueuedAt(output_queue, i)) \in Nat
      BY QueuedFinite, Zenon
    <3> QED BY <3>1, <3>2, <3>3, <3>4, <3>5
  <2>8. HeldInPlaces'
    BY <2>7, Zenon DEF HeldInPlaces
  <2> QED BY <2>2, <2>4, <2>5, <2>6, <2>8, Zenon DEF FeedInv
<1>3. CASE HotReturned
  <2>1. /\ hot.pc = "free" /\ EndFree(consumer) /\ hot' = Idle
        /\ UNCHANGED <<output_queue, rx, ctl, running, passes, msgs_received, msgs_dropped>>
    BY <1>3, Zenon DEF HotReturned, counts
  <2>2. /\ PoolInv' /\ (~ raced' => Exact') /\ raced' \in BOOLEAN
        /\ simulation_mode' = simulation_mode
        /\ \A u \in Threads : u # consumer => pc'[u] = pc[u]
        /\ pc'[consumer] = "idle" /\ held' = held
    BY <2>1, FreeEnds, Zenon
  <2>3. hot' \in HotThread /\ hot'.pc = "loop" /\ hot'.msg = None
    BY <2>1 DEF HotThread, Idle
  <2>4. FeedTypes'
    BY <2>1, <2>2, <2>3, SMT DEF FeedTypes, RxThread, HotThread
  <2>5. Calls'
    BY <2>1, <2>2, <2>3 DEF Calls
  <2>6. Passes'
    BY <2>1 DEF Passes
  <2>7. HeldInPlaces'
    <3>1. hot.pc # "process" /\ hot'.pc # "process"
      BY <2>1, <2>3
    <3> QED BY <2>1, <2>2, <3>1, SamePlaces, Zenon
  <2> QED BY <2>2, <2>4, <2>5, <2>6, <2>7, Zenon DEF FeedInv
<1>4. CASE HotExit
  <2>1. /\ hot.pc = "loop" /\ hot' = [hot EXCEPT !.pc = "exit"] /\ NoPoolStep
        /\ UNCHANGED <<output_queue, rx, ctl, running, passes, msgs_received, msgs_dropped>>
    BY <1>4, Zenon DEF HotExit, counts
  <2>2. /\ PoolInv' /\ (~ raced' => Exact') /\ raced' \in BOOLEAN
        /\ held' = held /\ pc' = pc /\ simulation_mode' = simulation_mode
    BY <2>1, NoCall, Zenon
  <2>3. hot' \in HotThread /\ hot'.pc = "exit" /\ hot'.msg = hot.msg
    BY <2>1 DEF HotThread
  <2>4. FeedTypes'
    BY <2>1, <2>2, <2>3, SMT DEF FeedTypes, RxThread, HotThread
  <2>5. Calls'
    BY <2>1, <2>2, <2>3 DEF Calls
  <2>6. Passes'
    BY <2>1 DEF Passes
  <2>7. HeldInPlaces'
    <3>1. hot.pc # "process" /\ hot'.pc # "process"
      BY <2>1, <2>3
    <3> QED BY <2>1, <2>2, <3>1, SamePlaces, Zenon
  <2> QED BY <2>2, <2>4, <2>5, <2>6, <2>7, Zenon DEF FeedInv
<1> QED BY <1>1, <1>2, <1>3, <1>4, Zenon DEF Hot

(* A step that changes nothing. *)
LEMMA FeedStutters ==
  ASSUME FeedInv, UNCHANGED feedVars
  PROVE  FeedInv'
<1> USE FeedFacts
<1>1. /\ UNCHANGED <<output_queue, rx, hot, ctl, running, passes, msgs_received, msgs_dropped>>
      /\ NoPoolStep
  BY Zenon DEF feedVars, threadVars, counts, NoPoolStep
<1>2. /\ PoolInv' /\ (~ raced' => Exact') /\ raced' \in BOOLEAN
      /\ held' = held /\ pc' = pc /\ simulation_mode' = simulation_mode
  BY <1>1, NoCall, Zenon
<1>3. FeedTypes' /\ Calls' /\ Passes'
  <2>1. FeedTypes'
    BY <1>1, <1>2, Zenon DEF FeedTypes
  <2>2. Calls'
    BY <1>1, <1>2, Zenon DEF Calls
  <2>3. Passes'
    BY <1>1, Zenon DEF Passes
  <2> QED BY <2>1, <2>2, <2>3, Zenon
<1>4. HeldInPlaces'
  BY <1>1, <1>2, SamePlaces, Zenon
<1> QED BY <1>2, <1>3, <1>4, Zenon DEF FeedInv

(* main stops the threads and drains the queue. *)
LEMMA MainKeeps ==
  ASSUME FeedInv, Main
  PROVE  FeedInv'
<1> USE FeedFacts, TheThreads
<1>1. CASE Stop \/ feed_stop \/ feed_stop_joined \/ DrainDone
  <2>1. /\ NoPoolStep /\ running' \in BOOLEAN
        /\ UNCHANGED <<output_queue, rx, hot, passes, msgs_received, msgs_dropped>>
    <3>1. CASE Stop
      BY <3>1, Zenon DEF Stop, counts
    <3>2. CASE feed_stop
      BY <3>2, Zenon DEF feed_stop, counts
    <3>3. CASE feed_stop_joined
      BY <3>3, Zenon DEF feed_stop_joined, counts
    <3>4. CASE DrainDone
      BY <3>4, Zenon DEF DrainDone, counts
    <3> QED BY <1>1, <3>1, <3>2, <3>3, <3>4, Zenon
  <2>c. \/ ctl = "run" /\ ctl' = "join_consumer"
        \/ ctl = "join_consumer" /\ hot.pc = "exit" /\ ctl' = "join_feed"
        \/ ctl = "join_feed" /\ rx.pc = "exit" /\ ctl' = "drain"
        \/ ctl = "drain" /\ output_queue = << >> /\ ctl' = "destroyed"
    BY <1>1, Zenon DEF Stop, feed_stop, feed_stop_joined, DrainDone
  <2>2. /\ PoolInv' /\ (~ raced' => Exact') /\ raced' \in BOOLEAN
        /\ held' = held /\ pc' = pc /\ simulation_mode' = simulation_mode
    BY <2>1, NoCall, Zenon
  <2>4. FeedTypes'
    BY <2>1, <2>2, <2>c, SMT DEF FeedTypes, RxThread, HotThread
  <2>5. Calls'
    BY <2>1, <2>2, <2>c DEF Calls
  <2>6. Passes'
    BY <2>1 DEF Passes
  <2>7. HeldInPlaces'
    BY <2>1, <2>2, SamePlaces, Zenon
  <2> QED BY <2>2, <2>4, <2>5, <2>6, <2>7, Zenon DEF FeedInv
<1>2. CASE DrainPop
  <2> DEFINE m == Head(output_queue)
  <2>1. /\ ctl = "drain" /\ output_queue # << >> /\ BeginFree(main, m)
        /\ output_queue' = Tail(output_queue) /\ ctl' = "drain_free"
        /\ UNCHANGED <<rx, hot, running, passes, msgs_received, msgs_dropped>>
    BY <1>2, Zenon DEF DrainPop, counts
  <2>q. /\ output_queue' \in Seq(Msg) /\ m \in Msg
        /\ Len(output_queue') = Len(output_queue) - 1
    BY <2>1, QueuedTail, Zenon
  <2>2. /\ PoolInv' /\ (~ raced' => Exact') /\ raced' \in BOOLEAN
        /\ simulation_mode' = simulation_mode
        /\ \A u \in Threads : u # main => pc'[u] = pc[u]
        /\ pc'[main] \in {"idle", "bail", "store"}
        /\ held' = [held EXCEPT ![m] = held[m] - 1]
    BY <2>1, <2>q, FreeBegins, Zenon
  <2>4. FeedTypes'
    BY <2>1, <2>2, <2>q, SMT DEF FeedTypes, RxThread, HotThread
  <2>5. Calls'
    BY <2>1, <2>2 DEF Calls
  <2>6. Passes'
    BY <2>1 DEF Passes
  <2>7. ASSUME NEW i \in Msg
        PROVE  held'[i] = Cardinality(QueuedAt(output_queue', i))
                            + InHand(rx', {"push", "full"}, i) + InHand(hot', {"process"}, i)
    <3>1. held[i] = Cardinality(QueuedAt(output_queue, i))
                      + InHand(rx, {"push", "full"}, i) + InHand(hot, {"process"}, i)
      BY Zenon DEF HeldInPlaces
    <3>2. /\ InHand(hot, {"process"}, i) \in Nat /\ InHand(rx, {"push", "full"}, i) \in Nat
          /\ hot' = hot /\ rx' = rx
      BY <2>1 DEF InHand
    <3>3. Cardinality(QueuedAt(output_queue, i))
            = Cardinality(QueuedAt(output_queue', i)) + (IF m = i THEN 1 ELSE 0)
      BY <2>1, QueuedTail, Zenon
    <3> HIDE DEF m
    <3>4. held'[i] = held[i] - (IF m = i THEN 1 ELSE 0)
      BY <2>2, <2>q
    <3>5. Cardinality(QueuedAt(output_queue', i)) \in Nat
      BY <2>q, QueuedFinite, Zenon
    <3> QED BY <3>1, <3>2, <3>3, <3>4, <3>5
  <2>8. HeldInPlaces'
    BY <2>7, Zenon DEF HeldInPlaces
  <2> QED BY <2>2, <2>4, <2>5, <2>6, <2>8, Zenon DEF FeedInv
<1>3. CASE DrainFreed
  <2>1. /\ ctl = "drain_free" /\ EndFree(main) /\ ctl' = "drain"
        /\ UNCHANGED <<output_queue, rx, hot, running, passes, msgs_received, msgs_dropped>>
    BY <1>3, Zenon DEF DrainFreed, counts
  <2>2. /\ PoolInv' /\ (~ raced' => Exact') /\ raced' \in BOOLEAN
        /\ simulation_mode' = simulation_mode
        /\ \A u \in Threads : u # main => pc'[u] = pc[u]
        /\ pc'[main] = "idle" /\ held' = held
    BY <2>1, FreeEnds, Zenon
  <2>4. FeedTypes'
    BY <2>1, <2>2, SMT DEF FeedTypes, RxThread, HotThread
  <2>5. Calls'
    BY <2>1, <2>2 DEF Calls
  <2>6. Passes'
    BY <2>1 DEF Passes
  <2>7. HeldInPlaces'
    BY <2>1, <2>2, SamePlaces, Zenon
  <2> QED BY <2>2, <2>4, <2>5, <2>6, <2>7, Zenon DEF FeedInv
<1>4. CASE Destroyed
  BY <1>4, FeedStutters, Zenon DEF Destroyed
<1> QED BY <1>1, <1>2, <1>3, <1>4, Zenon DEF Main

(* The invariant holds after feed_init and feed_start. *)
LEMMA InitFeedInv == FeedInit => FeedInv
<1> SUFFICES ASSUME FeedInit
             PROVE  FeedInv
  OBVIOUS
<1> USE CapacityAssumption, WordAssumption, TheThreads
<1>1. /\ free_top = Capacity /\ free_list = [i \in Objects |-> Capacity - 1 - i]
      /\ pc = [t \in Threads |-> "idle"] /\ claim = [t \in Threads |-> 0]
      /\ idx = [t \in Threads |-> 0] /\ held = [i \in Objects \cup {Wild} |-> 0] /\ lost = 0
  BY Zenon DEF FeedInit, Init
<1>2. /\ simulation_mode \in BOOLEAN /\ running = TRUE /\ output_queue = << >>
      /\ rx = Idle /\ hot = Idle /\ ctl = "run"
      /\ passes = 0 /\ msgs_received = 0 /\ msgs_dropped = 0 /\ raced = FALSE
  BY Zenon DEF FeedInit
<1>3. TypeOK
  BY <1>1 DEF TypeOK, Objects
<1>4. Pointers = {} /\ Claiming = {}
  <2>1. \A i \in DOMAIN held : 1 .. held[i] = {}
    BY <1>1
  <2> QED BY <1>1, <2>1 DEF Pointers, Claiming
<1>5. PoolInv
  <2>1. Outstanding = 0 /\ Cardinality(Claiming) = 0 /\ IsFiniteSet(Pointers)
    BY <1>4, FS_EmptySet DEF Outstanding
  <2>2. Capacity = 0 * Word + Capacity /\ Capacity \in 0 .. Word - 1 /\ Word \in Nat \ {0}
        /\ 0 \in Int /\ Capacity - 0 - 0 - 0 = 0 * Word + Capacity
    OBVIOUS
  <2>3. (Capacity - 0 - 0 - 0) % Word = Capacity
    BY <2>2, ModUnique
  <2>4. TopAccounts
    BY <1>1, <1>3, <2>1, <2>3, Zenon DEF TopAccounts
  <2>5. \A t \in Threads : pc[t] = "read" => claim[t] # 0
    BY <1>1
  <2> QED BY <2>1, <2>4, <2>5, Zenon DEF PoolInv
<1>6. FeedTypes
  <2>1. rx \in RxThread /\ hot \in HotThread
    BY <1>2 DEF Idle, RxThread, HotThread
  <2>2. output_queue \in Seq(Msg) /\ Len(output_queue) <= QueueSize - 1
    BY <1>2 DEF QueueSize
  <2>3. running \in BOOLEAN /\ raced \in BOOLEAN
    BY <1>2, Zenon
  <2>4. passes \in Nat /\ msgs_received \in Nat /\ msgs_dropped \in Nat
    BY <1>2
  <2> QED BY <1>2, <2>1, <2>2, <2>3, <2>4, Zenon DEF FeedTypes, RxThread, HotThread
<1>7. Calls
  BY <1>1, <1>2 DEF Calls, Idle
<1>8. Passes
  BY <1>2 DEF Passes, Idle
<1>9. HeldInPlaces
  <2>1. \A i \in Msg : QueuedAt(output_queue, i) = {}
    BY <1>2 DEF QueuedAt
  <2>2. \A i \in Msg : InHand(rx, {"push", "full"}, i) = 0 /\ InHand(hot, {"process"}, i) = 0
    BY <1>2 DEF InHand, Idle
  <2>3. \A i \in Msg : held[i] = 0
    BY <1>1 DEF Msg
  <2>4. Cardinality({}) = 0
    BY FS_EmptySet
  <2> QED BY <2>1, <2>2, <2>3, <2>4 DEF HeldInPlaces
<1>10. Exact
  <2>1. \A t \in Threads : pc[t] = "idle"
    BY <1>1
  <2>2. Unheld = Objects
    BY <1>1 DEF Unheld
  <2>3. StackHolds(free_list, free_top, Unheld)
    <3>1. free_top \in 0 .. Capacity
      BY <1>1
    <3>2. \A i \in 0 .. free_top - 1 : i \in Objects /\ free_list[i] = Capacity - 1 - i
      BY <1>1 DEF Objects
    <3>3. \A i, j \in 0 .. free_top - 1 : free_list[i] = free_list[j] => i = j
      BY <1>1, <3>2
    <3>4. \A k \in Objects : /\ k = free_list[Capacity - 1 - k]
                             /\ Capacity - 1 - k \in 0 .. free_top - 1
      BY <1>1 DEF Objects
    <3>5. \A i \in 0 .. free_top - 1 : free_list[i] \in Objects
      BY <1>1, <3>2 DEF Objects
    <3>6. {free_list[i] : i \in 0 .. free_top - 1} = Objects
      BY <3>4, <3>5, Zenon
    <3> QED BY <2>2, <3>1, <3>3, <3>6 DEF StackHolds
  <2>4. NoDoubleAllocation
    BY <1>1 DEF NoDoubleAllocation
  <2> QED BY <1>1, <2>1, <2>3, <2>4 DEF Exact
<1> QED BY <1>2, <1>5, <1>6, <1>7, <1>8, <1>9, <1>10, Zenon DEF FeedInv

(* The invariant holds after every step of the three threads. *)
LEMMA NextFeedInv == FeedInv /\ [FeedNext]_feedVars => FeedInv'
<1> SUFFICES ASSUME FeedInv, [FeedNext]_feedVars
             PROVE  FeedInv'
  OBVIOUS
<1>1. CASE Recv
  <2>1. CASE RecvIdle
    BY <2>1, FeedStutters, Zenon DEF RecvIdle
  <2> QED
    BY <1>1, <2>1, RecvAllocKeeps, RecvPushKeeps, RecvRestKeeps, Zenon DEF Recv
<1>2. CASE Hot
  BY <1>2, HotKeeps
<1>3. CASE Main
  BY <1>3, MainKeeps
<1>4. CASE UNCHANGED feedVars
  BY <1>4, FeedStutters
<1> QED BY <1>1, <1>2, <1>3, <1>4, Zenon DEF FeedNext

(* The pool, the queue and the three threads stay consistent: each pointer *)
(* a client holds is in the queue or in one thread's hands, and until two  *)
(* calls of the pool overlap the free list is exactly the rest.            *)
THEOREM FeedInvariance == FeedSpec => []FeedInv
<1>1. FeedInit => FeedInv
  BY InitFeedInv
<1>2. FeedInv /\ [FeedNext]_feedVars => FeedInv'
  BY NextFeedInv
<1> QED BY <1>1, <1>2, PTL DEF FeedSpec

(* memory_pool.h: free_top accounts for every pointer, modulo the word, in *)
(* every interleaving of mempool_alloc and mempool_free.                   *)
THEOREM TopExact == FeedSpec => []TopAccounts
<1>1. FeedInv => TopAccounts
  BY Zenon DEF FeedInv, PoolInv
<1> QED BY <1>1, FeedInvariance, PTL

(* feed_destroy: no message is in use any more, the free list is full      *)
(* again unless calls of the pool overlapped, and every message was        *)
(* counted once.                                                           *)
THEOREM MessagesReturned == FeedSpec => []AllReturned
<1>1. FeedInv => AllReturned
  <2> SUFFICES ASSUME FeedInv, ctl = "destroyed"
               PROVE  /\ Outstanding = 0
                      /\ ~ raced => mempool_available = Capacity
                      /\ msgs_received + msgs_dropped = passes
    BY DEF AllReturned
  <2> USE FeedFacts, TheThreads
  <2>1. rx.pc = "exit" /\ hot.pc = "exit" /\ output_queue = << >>
    BY Zenon DEF Calls
  <2>2. \A i \in Msg : held[i] = 0
    <3>1. \A i \in Msg : QueuedAt(output_queue, i) = {}
      BY <2>1 DEF QueuedAt
    <3>2. \A i \in Msg : /\ InHand(rx, {"push", "full"}, i) = 0
                         /\ InHand(hot, {"process"}, i) = 0
      BY <2>1 DEF InHand
    <3>3. Cardinality({}) = 0
      BY FS_EmptySet
    <3>4. \A i \in Msg : held[i] = 0 + 0 + 0
      BY <3>1, <3>2, <3>3, Zenon DEF HeldInPlaces
    <3> QED BY <3>4
  <2>3. Outstanding = 0
    <3>1. \A i \in Msg : 1 .. held[i] = {}
      BY <2>2
    <3>2. Pointers = {}
      BY <3>1 DEF Pointers
    <3> QED BY <3>2, FS_EmptySet DEF Outstanding
  <2>4. ASSUME ~ raced
        PROVE  mempool_available = Capacity
    <3>1. pc[recv] = "idle" /\ pc[consumer] = "idle" /\ pc[main] = "idle"
      <4>1. pc[recv] \in {"idle", "undo", "read", "bail", "store"}
        BY PoolTypes, Zenon
      <4> QED BY <2>1, <4>1 DEF Calls
    <3>2. \A t \in Threads : pc[t] = "idle"
      BY <3>1, Zenon
    <3>3. StackHolds(free_list, free_top, Unheld)
      BY <2>4, <3>2, Zenon DEF Exact
    <3>4. Unheld = Objects
      BY <2>2 DEF Unheld, Msg
    <3>5. free_list \in [Objects -> Objects]
      BY PoolTypes, Zenon
    <3>6. Cardinality(Objects) = free_top
      BY <3>3, <3>4, <3>5, StackHeight, Zenon
    <3>7. Cardinality(Objects) = Capacity
      BY CapacityAssumption, FS_Interval DEF Objects
    <3> QED BY <3>6, <3>7, Zenon DEF mempool_available
  <2>5. msgs_received + msgs_dropped = passes
    BY <2>1 DEF Passes
  <2> QED BY <2>3, <2>4, <2>5, Zenon
<1> QED BY <1>1, FeedInvariance, PTL

(* feed_handler.c: mempool_alloc returns NULL only while the output queue  *)
(* is full, unless calls of the pool overlapped.                           *)
THEOREM NullOnlyWhenFull == FeedSpec => []ExhaustedOnlyWhenFull
<1>1. FeedInv => ExhaustedOnlyWhenFull
  <2> SUFFICES ASSUME FeedInv, ~ raced, pc[recv] = "undo"
               PROVE  Len(output_queue) = QueueSize - 1
    BY DEF ExhaustedOnlyWhenFull
  <2> USE FeedFacts, TheThreads
  <2>1. StackHolds(free_list, claim[recv], Unheld) /\ claim[recv] = 0
    BY Zenon DEF Exact
  <2>2. Unheld = {}
    BY <2>1 DEF StackHolds
  <2>3. rx.pc = "alloc"
    BY DEF Calls
  <2>4. ASSUME NEW i \in Objects
        PROVE  (\E k \in 1 .. Len(output_queue) : output_queue[k] = i) \/ hot.msg = i
    <3>1. i \in Msg /\ held[i] # 0
      BY <2>2 DEF Unheld, Msg
    <3>2. held[i] = Cardinality(QueuedAt(output_queue, i))
                      + InHand(rx, {"push", "full"}, i) + InHand(hot, {"process"}, i)
      BY <3>1, Zenon DEF HeldInPlaces
    <3>3. InHand(rx, {"push", "full"}, i) = 0
      BY <2>3 DEF InHand
    <3>4. CASE hot.msg = i
      BY <3>4
    <3>5. CASE hot.msg # i
      <4>1. InHand(hot, {"process"}, i) = 0
        BY <3>5 DEF InHand
      <4>2. Cardinality(QueuedAt(output_queue, i)) # 0
        BY <3>1, <3>2, <3>3, <4>1
      <4>3. QueuedAt(output_queue, i) # {}
        BY <4>2, FS_EmptySet
      <4> QED BY <4>3 DEF QueuedAt
    <3> QED BY <3>4, <3>5
  <2> DEFINE n == Len(output_queue)
             f == [i \in Objects |-> IF \E k \in 1 .. n : output_queue[k] = i
                                       THEN CHOOSE k \in 1 .. n : output_queue[k] = i
                                       ELSE n + 1]
  <2>5. \A i \in Objects : \/ f[i] \in 1 .. n /\ output_queue[f[i]] = i
                           \/ f[i] = n + 1 /\ hot.msg = i
    BY <2>4, Zenon
  <2>6. n \in Nat
    OBVIOUS
  <2> HIDE DEF f, n
  <2>7. f \in [Objects -> 1 .. n + 1]
    <3>1. \A i \in Objects : f[i] \in 1 .. n + 1
      BY <2>5, <2>6
    <3> QED BY <3>1 DEF f
  <2>8. \A i, j \in Objects : f[i] = f[j] => i = j
    <3>1. n + 1 \notin 1 .. n
      BY <2>6
    <3> QED BY <2>5, <3>1, Zenon
  <2>9. f \in Injection(Objects, 1 .. n + 1)
    BY <2>7, <2>8, Zenon DEF Injection, IsInjective
  <2>10. /\ IsFiniteSet(1 .. n + 1) /\ Cardinality(1 .. n + 1) = n + 1
         /\ Cardinality(Objects) = Capacity
    <3>1. IsFiniteSet(1 .. n + 1) /\ Cardinality(1 .. n + 1) = n + 1
      <4>1. 1 \in Int /\ n + 1 \in Int /\ ~ (1 > n + 1) /\ (n + 1) - 1 + 1 = n + 1
        BY <2>6
      <4> QED BY <4>1, FS_Interval
    <3>2. Cardinality(Objects) = Capacity
      BY CapacityAssumption, FS_Interval DEF Objects
    <3> QED BY <3>1, <3>2
  <2>11. Capacity <= n + 1
    <3>1. Cardinality(Objects) <= Cardinality(1 .. n + 1)
      <4> DEFINE I == 1 .. n + 1
      <4>1. f \in Injection(Objects, I) /\ IsFiniteSet(I)
        BY <2>9, <2>10
      <4> HIDE DEF I
      <4>2. Cardinality(Objects) <= Cardinality(I)
        BY <4>1, FS_Injection
      <4> QED BY <4>2 DEF I
    <3> QED BY <2>10, <3>1
  <2> QED BY <2>6, <2>11, CapacityAssumption DEF n, QueueSize
<1> QED BY <1>1, FeedInvariance, PTL

(* Sequences without repetition, one after the other. *)
LEMMA JoinInjective ==
  ASSUME NEW p \in Seq(Msg), NEW q \in Seq(Msg), IsInjective(p), IsInjective(q),
         \A a \in DOMAIN p, b \in DOMAIN q : p[a] # q[b]
  PROVE  /\ IsInjective(p \o q) /\ p \o q \in Seq(Msg)
         /\ \A a \in DOMAIN (p \o q) :
              \/ \E b \in DOMAIN p : (p \o q)[a] = p[b]
              \/ \E b \in DOMAIN q : (p \o q)[a] = q[b]
<1> DEFINE c == p \o q
           n == Len(p)
<1>1. /\ \A a, b \in DOMAIN p : p[a] = p[b] => a = b
      /\ \A a, b \in DOMAIN q : q[a] = q[b] => a = b
  BY Zenon DEF IsInjective
<1>2. c \in Seq(Msg) /\ n \in Nat /\ DOMAIN p = 1 .. n
  OBVIOUS
<1>3. \A a \in DOMAIN p : c[a] = p[a]
  OBVIOUS
<1>4. \A a \in DOMAIN c \ DOMAIN p : a - n \in DOMAIN q /\ c[a] = q[a - n] /\ a \in Int
  OBVIOUS
<1> HIDE DEF c, n
<1>5. ASSUME NEW a \in DOMAIN c, NEW b \in DOMAIN c, c[a] = c[b]
      PROVE  a = b
  <2>1. CASE a \in DOMAIN p /\ b \in DOMAIN p
    BY <1>1, <1>3, <1>5, <2>1, Zenon
  <2>2. CASE a \notin DOMAIN p /\ b \notin DOMAIN p
    <3>1. a - n = b - n
      BY <1>1, <1>4, <1>5, <2>2, Zenon
    <3> QED BY <1>2, <1>4, <2>2, <3>1
  <2>3. CASE a \in DOMAIN p /\ b \notin DOMAIN p
    BY <1>3, <1>4, <1>5, <2>3, Zenon
  <2>4. CASE a \notin DOMAIN p /\ b \in DOMAIN p
    BY <1>3, <1>4, <1>5, <2>4, Zenon
  <2> QED BY <2>1, <2>2, <2>3, <2>4, Zenon
<1>6. IsInjective(c)
  BY <1>5, Zenon DEF IsInjective
<1>7. \A a \in DOMAIN c : (\E b \in DOMAIN p : c[a] = p[b]) \/ (\E b \in DOMAIN q : c[a] = q[b])
  BY <1>3, <1>4, Zenon
<1> QED BY <1>2, <1>6, <1>7, Zenon DEF c

(* Three sequences without repetition and without common elements. *)
LEMMA JoinThree ==
  ASSUME NEW p \in Seq(Msg), NEW q \in Seq(Msg), NEW r \in Seq(Msg),
         IsInjective(p), IsInjective(q), IsInjective(r),
         \A a \in DOMAIN p, b \in DOMAIN q : p[a] # q[b],
         \A a \in DOMAIN p, b \in DOMAIN r : p[a] # r[b],
         \A a \in DOMAIN q, b \in DOMAIN r : q[a] # r[b]
  PROVE  IsInjective(p \o q \o r)
<1> DEFINE c == p \o q
<1>0. /\ IsInjective(p \o q) /\ p \o q \in Seq(Msg)
      /\ \A a \in DOMAIN (p \o q) :
           \/ \E b \in DOMAIN p : (p \o q)[a] = p[b]
           \/ \E b \in DOMAIN q : (p \o q)[a] = q[b]
  BY JoinInjective, Zenon
<1>1. /\ IsInjective(c) /\ c \in Seq(Msg)
      /\ \A a \in DOMAIN c :
           (\E b \in DOMAIN p : c[a] = p[b]) \/ (\E b \in DOMAIN q : c[a] = q[b])
  BY <1>0, Zenon
<1> HIDE DEF c
<1>2. ASSUME NEW a \in DOMAIN c, NEW b \in DOMAIN r
      PROVE  c[a] # r[b]
  <2>1. CASE \E d \in DOMAIN p : c[a] = p[d]
    BY <2>1, Zenon
  <2>2. CASE \E d \in DOMAIN q : c[a] = q[d]
    BY <2>2, Zenon
  <2> QED BY <1>1, <2>1, <2>2, Zenon
<1>3. IsInjective(c \o r)
  BY <1>1, <1>2, JoinInjective, SMTT(30)
<1> QED BY <1>3 DEF c

(* Two places of a pointer are two pointers. *)
LEMMA OncePlaced ==
  ASSUME NEW q \in Seq(Msg), NEW a \in DOMAIN q, NEW b \in DOMAIN q, a # b,
         NEW i, q[a] = i, q[b] = i
  PROVE  Cardinality(QueuedAt(q, i)) >= 2
<1>1. IsFiniteSet(QueuedAt(q, i))
  BY QueuedFinite
<1>2. {a, b} \in SUBSET QueuedAt(q, i)
  BY Zenon DEF QueuedAt
<1>3. IsFiniteSet({a}) /\ Cardinality({a}) = 1
  BY FS_Singleton, Zenon
<1>4. Cardinality({a, b}) = 2
  <2> DEFINE A == {a}
  <2>1. {a, b} = A \cup {b} /\ b \notin A /\ IsFiniteSet(A) /\ Cardinality(A) = 1
    BY <1>3
  <2> HIDE DEF A
  <2>2. Cardinality(A \cup {b}) = Cardinality(A) + 1
    BY <2>1, FS_AddElement
  <2>3. Cardinality({a, b}) = 1 + 1
    BY <2>1, <2>2, Zenon
  <2> QED BY <2>3
<1>5. Cardinality({a, b}) <= Cardinality(QueuedAt(q, i))
  <2> DEFINE Q == QueuedAt(q, i)
             D == {a, b}
  <2>1. IsFiniteSet(Q) /\ D \in SUBSET Q
    BY <1>1, <1>2
  <2> HIDE DEF Q, D
  <2>2. Cardinality(D) <= Cardinality(Q)
    BY <2>1, FS_Subset, Zenon
  <2> QED BY <2>2 DEF Q, D
<1>6. Cardinality(QueuedAt(q, i)) \in Nat
  BY QueuedFinite
<1> QED BY <1>4, <1>5, <1>6

(* What is in the queue has a place there. *)
LEMMA Placed ==
  ASSUME NEW q \in Seq(Msg), NEW a \in DOMAIN q
  PROVE  Cardinality(QueuedAt(q, q[a])) >= 1 /\ q[a] \in Msg
<1>1. a \in QueuedAt(q, q[a]) /\ q[a] \in Msg
  BY DEF QueuedAt
<1>2. IsFiniteSet(QueuedAt(q, q[a])) /\ Cardinality(QueuedAt(q, q[a])) \in Nat
  BY <1>1, QueuedFinite
<1>3. Cardinality(QueuedAt(q, q[a])) # 0
  BY <1>1, <1>2, FS_EmptySet
<1> QED BY <1>1, <1>2, <1>3

(* As long as no two calls of the pool overlap, no message object is in    *)
(* two places: what the consumer reads, the receive thread does not        *)
(* refill.                                                                 *)
THEOREM OneOwner == FeedSpec => []MessageOwnedOnce
<1>1. FeedInv => MessageOwnedOnce
  <2> SUFFICES ASSUME FeedInv, ~ raced
               PROVE  /\ NoDoubleAllocation /\ FreeListExact
                      /\ rx.pc \in {"loop", "push"} /\ hot.pc \in {"loop", "process"}
                           => IsInjective(InUse)
    BY Zenon DEF MessageOwnedOnce
  <2> USE FeedFacts, TheThreads
  <2>1. NoDoubleAllocation
    BY Zenon DEF Exact
  <2>2. FreeListExact
    <3>1. (\A t \in Threads : pc[t] = "idle") => StackHolds(free_list, free_top, Unheld)
      BY Zenon DEF Exact
    <3> QED BY <3>1, Zenon DEF FreeListExact, StackHolds, Unheld
  <2>3. ASSUME rx.pc \in {"loop", "push"}, hot.pc \in {"loop", "process"}
        PROVE  IsInjective(InUse)
    <3> DEFINE mine == Hand(rx)
               its == IF hot.pc = "process" THEN Hand(hot) ELSE << >>
    <3>1. \A i \in Msg : held[i] <= 1
      BY <2>1 DEF NoDoubleAllocation, Msg
    <3>2. ASSUME NEW i \in Msg
          PROVE  /\ ~ (Cardinality(QueuedAt(output_queue, i)) >= 2)
                 /\ Cardinality(QueuedAt(output_queue, i)) >= 1
                      => /\ InHand(rx, {"push", "full"}, i) # 1
                         /\ InHand(hot, {"process"}, i) # 1
                 /\ InHand(rx, {"push", "full"}, i) = 1 => InHand(hot, {"process"}, i) # 1
      <4> DEFINE c == Cardinality(QueuedAt(output_queue, i))
                 x == InHand(rx, {"push", "full"}, i)
                 y == InHand(hot, {"process"}, i)
      <4>1. c \in Nat
        BY QueuedFinite, Zenon
      <4>2. c + x + y <= 1
        BY <3>1, Zenon DEF HeldInPlaces
      <4>3. x \in {0, 1} /\ y \in {0, 1}
        BY DEF InHand
      <4> HIDE DEF c, x, y
      <4>4. ~ (c >= 2) /\ (c >= 1 => x # 1 /\ y # 1) /\ (x = 1 => y # 1)
        BY <4>1, <4>2, <4>3
      <4> QED BY <4>4, Zenon DEF c, x, y
    <3>3. /\ mine \in Seq(Msg) /\ IsInjective(mine)
          /\ \A a \in DOMAIN mine : InHand(rx, {"push", "full"}, mine[a]) = 1
      <4>1. CASE rx.msg = None
        BY <4>1 DEF Hand, IsInjective
      <4>2. CASE rx.msg # None
        <5>1. rx.pc = "push" /\ rx.msg \in Msg
          BY <2>3, <4>2 DEF Calls, RxThread
        <5>2. mine = <<rx.msg>>
          BY <4>2 DEF Hand
        <5> HIDE DEF mine
        <5> QED BY <5>1, <5>2 DEF InHand, IsInjective
      <4> QED BY <4>1, <4>2
    <3>4. /\ its \in Seq(Msg) /\ IsInjective(its)
          /\ \A a \in DOMAIN its : InHand(hot, {"process"}, its[a]) = 1
      <4>1. CASE hot.pc # "process"
        BY <4>1 DEF IsInjective
      <4>2. CASE hot.pc = "process"
        <5>1. hot.msg # None /\ hot.msg \in Msg
          BY <4>2 DEF Calls, HotThread
        <5>2. its = <<hot.msg>>
          BY <4>2, <5>1 DEF Hand
        <5> HIDE DEF its
        <5> QED BY <4>2, <5>1, <5>2 DEF InHand, IsInjective
      <4> QED BY <4>1, <4>2
    <3>5. IsInjective(output_queue)
      <4>1. ASSUME NEW a \in DOMAIN output_queue, NEW b \in DOMAIN output_queue,
                   output_queue[a] = output_queue[b], a # b
            PROVE  FALSE
        <5>1. output_queue[a] \in Msg
          BY Placed, Zenon
        <5>2. Cardinality(QueuedAt(output_queue, output_queue[a])) >= 2
          BY <4>1, OncePlaced, Zenon
        <5> DEFINE i == output_queue[a]
        <5> HIDE DEF i
        <5>3. i \in Msg /\ Cardinality(QueuedAt(output_queue, i)) >= 2
          BY <5>1, <5>2, Zenon DEF i
        <5> QED BY <3>2, <5>3, Zenon
      <4> QED BY <4>1, Zenon DEF IsInjective
    <3> HIDE DEF mine, its
    <3>6. \A a \in DOMAIN mine, b \in DOMAIN output_queue : mine[a] # output_queue[b]
      <4> SUFFICES ASSUME NEW a \in DOMAIN mine, NEW b \in DOMAIN output_queue,
                          mine[a] = output_queue[b]
                   PROVE  FALSE
        BY Zenon
      <4> DEFINE i == output_queue[b]
      <4>1. /\ i \in Msg /\ Cardinality(QueuedAt(output_queue, i)) >= 1
            /\ InHand(rx, {"push", "full"}, i) = 1
        BY <3>3, Placed, Zenon
      <4> HIDE DEF i
      <4> QED BY <3>2, <4>1, Zenon
    <3>7. \A a \in DOMAIN its, b \in DOMAIN output_queue : its[a] # output_queue[b]
      <4> SUFFICES ASSUME NEW a \in DOMAIN its, NEW b \in DOMAIN output_queue,
                          its[a] = output_queue[b]
                   PROVE  FALSE
        BY Zenon
      <4> DEFINE i == output_queue[b]
      <4>1. /\ i \in Msg /\ Cardinality(QueuedAt(output_queue, i)) >= 1
            /\ InHand(hot, {"process"}, i) = 1
        BY <3>4, Placed, Zenon
      <4> HIDE DEF i
      <4> QED BY <3>2, <4>1, Zenon
    <3>8. \A a \in DOMAIN mine, b \in DOMAIN its : mine[a] # its[b]
      <4> SUFFICES ASSUME NEW a \in DOMAIN mine, NEW b \in DOMAIN its, mine[a] = its[b]
                   PROVE  FALSE
        BY Zenon
      <4> DEFINE i == mine[a]
      <4>1. i \in Msg
        BY <3>3
      <4>2. InHand(rx, {"push", "full"}, i) = 1 /\ InHand(hot, {"process"}, i) = 1
        BY <3>3, <3>4, Zenon
      <4> HIDE DEF i
      <4> QED BY <3>2, <4>1, <4>2, Zenon
    <3>9. output_queue \in Seq(Msg)
      OBVIOUS
    <3>10. \A b \in DOMAIN output_queue, a \in DOMAIN its : output_queue[b] # its[a]
      BY <3>7, Zenon
    <3>11. IsInjective(mine \o output_queue \o its)
      BY <3>3, <3>4, <3>5, <3>6, <3>8, <3>9, <3>10, JoinThree
    <3> QED BY <3>11, Zenon DEF InUse, mine, its
  <2> QED BY <2>1, <2>2, <2>3, Zenon
<1> QED BY <1>1, FeedInvariance, PTL

=============================================================================
