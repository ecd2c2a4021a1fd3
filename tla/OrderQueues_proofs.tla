------------------------- MODULE OrderQueues_proofs --------------------------
(***************************************************************************)
(* Proofs that the queues keep their order, that no slot is lost or used   *)
(* twice, and that the pool's block stays mapped, for every set of prices, *)
(* every quantity bound, every width of the slot index, every initial size *)
(* of the pool and every size of a huge page.                              *)
(***************************************************************************)
EXTENDS OrderQueues, Foundations, TLAPS

-----------------------------------------------------------------------------
(***************************************************************************)
(* The block                                                               *)
(***************************************************************************)

LEMMA RoundUpFacts ==
    ASSUME NEW n \in Nat
    PROVE  /\ round_up(n) \in Nat /\ n <= round_up(n)
           /\ round_up(n) < n + kHugePage
           /\ round_up(n) % kHugePage = 0
<1>. DEFINE k == (n + kHugePage - 1) \div kHugePage
            r == (n + kHugePage - 1) % kHugePage
<1>0. kHugePage \in Nat \ {0} /\ n + kHugePage - 1 \in Nat
  BY PagesAssumption
<1>1. /\ k \in Nat /\ r \in 0..(kHugePage - 1)
      /\ n + kHugePage - 1 = k * kHugePage + r
  BY <1>0, Division
<1>2. round_up(n) = k * kHugePage
  BY DEF round_up
<1>. HIDE DEF k, r
<1>3. k * kHugePage \in Nat /\ (k * kHugePage) % kHugePage = 0
  BY <1>0, <1>1, MultipleOf
<1>. QED  BY <1>0, <1>1, <1>2, <1>3

\* allocate(): a small block is on the heap. A large one starts at a boundary,
\* where nothing was mapped, and is what is mapped beside what was before.
LEMMA AllocationFacts ==
    ASSUME NEW M, NEW n \in Nat, NEW a \in Allocations(M, n)
    PROVE  IF n < kHugePage THEN a.start = Heap /\ a.mapped = M
           ELSE /\ a.start \in Nat /\ a.start % kHugePage = 0
                /\ Pages(a.start, round_up(n)) \cap M = {}
                /\ a.mapped = M \cup Pages(a.start, round_up(n))
<1>1. CASE n < kHugePage
  BY <1>1 DEF Allocations
<1>2. CASE ~(n < kHugePage)
  <2>. DEFINE size == round_up(n)
  <2>1. PICK base \in FreeRuns(M, size + kHugePage) :
            a = [start |-> round_up(base), mapped |-> Trimmed(M, base, size)]
    BY <1>2 DEF Allocations
  <2>2. size \in Nat /\ kHugePage \in Nat \ {0} /\ AddressSpace \in Nat
    BY RoundUpFacts, PagesAssumption
  <2>3. base \in Nat /\ Pages(base, size + kHugePage) \cap M = {}
    BY <2>1, <2>2 DEF FreeRuns
  <2>. DEFINE from == round_up(base)
  <2>4. /\ from \in Nat /\ base <= from /\ from < base + kHugePage
        /\ from % kHugePage = 0
    BY <2>3, RoundUpFacts
  <2>. HIDE DEF size, from
  <2>5. Pages(from, size) \subseteq Pages(base, size + kHugePage)
    BY <2>2, <2>3, <2>4 DEF Pages
  <2>6. Pages(base, size + kHugePage)
            \ (Pages(base, from - base)
               \cup Pages(from + size, (base + size + kHugePage) - (from + size)))
        = Pages(from, size)
    BY <2>2, <2>3, <2>4 DEF Pages
  <2>7. (Pages(base, from - base)
         \cup Pages(from + size, (base + size + kHugePage) - (from + size)))
            \subseteq Pages(base, size + kHugePage)
    BY <2>2, <2>3, <2>4 DEF Pages
  <2>8. Trimmed(M, base, size) =
            (M \cup Pages(base, size + kHugePage))
                \ (Pages(base, from - base)
                   \cup Pages(from + size, (base + size + kHugePage) - (from + size)))
    BY Zenon DEF Trimmed, from
  <2>9. Trimmed(M, base, size) = M \cup Pages(from, size)
    BY <2>3, <2>6, <2>7, <2>8, Zenon
  <2>10. Pages(from, size) \cap M = {}
    BY <2>3, <2>5
  <2>. QED  BY <1>2, <2>1, <2>4, <2>9, <2>10 DEF size, from
<1>. QED  BY <1>1, <1>2

\* A block of n pages, and what is mapped for it.
MappedFor(b, M) ==
    IF b.capacity < kHugePage THEN b.start = Heap /\ M = {}
    ELSE /\ b.start \in Nat /\ b.start % kHugePage = 0
         /\ M = Pages(b.start, round_up(b.capacity))

\* Moving to a new block, and giving the old one back, leaves the new one mapped
\* and nothing else.
LEMMA MoveFacts ==
    ASSUME NEW b, b.capacity \in Nat, NEW M, MappedFor(b, M),
           NEW n \in Nat, b.capacity <= n, NEW a \in Allocations(M, n)
    PROVE  MappedFor([start |-> a.start, capacity |-> n],
                     Deallocated(a.mapped, b.start, b.capacity))
<1>. DEFINE c == [start |-> a.start, capacity |-> n]
<1>0. c.start = a.start /\ c.capacity = n /\ kHugePage \in Nat
  BY PagesAssumption
<1>1. IF n < kHugePage THEN a.start = Heap /\ a.mapped = M
      ELSE /\ a.start \in Nat /\ a.start % kHugePage = 0
           /\ Pages(a.start, round_up(n)) \cap M = {}
           /\ a.mapped = M \cup Pages(a.start, round_up(n))
  BY AllocationFacts
<1>. HIDE DEF c
<1>2. CASE n < kHugePage
  <2>1. b.capacity < kHugePage /\ M = {}
    BY <1>0, <1>2 DEF MappedFor
  <2>2. Deallocated(a.mapped, b.start, b.capacity) = M
    BY <1>1, <1>2, <2>1 DEF Deallocated
  <2>3. MappedFor(c, M)
    BY <1>0, <1>1, <1>2, <2>1 DEF MappedFor
  <2>. QED  BY <2>2, <2>3 DEF c
<1>3. CASE ~(n < kHugePage)
  <2>. DEFINE new == Pages(a.start, round_up(n))
              left == Deallocated(a.mapped, b.start, b.capacity)
  <2>1. new \cap M = {} /\ a.mapped = M \cup new
    BY <1>1, <1>3
  <2>2. left = a.mapped \ M
    <3>1. CASE b.capacity < kHugePage
      BY <3>1 DEF Deallocated, MappedFor
    <3>2. CASE ~(b.capacity < kHugePage)
      BY <3>2 DEF Deallocated, MappedFor
    <3>. QED  BY <3>1, <3>2
  <2>. HIDE DEF new, left
  <2>3. left = new
    BY <2>1, <2>2, Zenon
  <2>4. MappedFor(c, new)
    BY <1>0, <1>1, <1>3 DEF MappedFor, new
  <2>. QED  BY <2>3, <2>4 DEF c, left
<1>. QED  BY <1>2, <1>3

-----------------------------------------------------------------------------
(***************************************************************************)
(* What the operators of SlotPool and QueueLinks write, slot by slot       *)
(***************************************************************************)
SlotOf(V) == [value : V, prev : SlotIndex, next : SlotIndex]

PoolOf(P, V) ==
    /\ P.size \in 1..kNoSlot
    /\ P \in [slots : [0..(P.size - 1) -> SlotOf(V)], size : 1..kNoSlot,
              used : 0..P.size, live : Int, free_head : SlotIndex,
              grow_count : Nat]

Range0(P) == 0..(P.size - 1)

\* A neighbour of slot i: another slot of the block, or none.
Neighbour(P, i, j) == j = kNoSlot \/ (j \in Range0(P) /\ j # i)

\* Pools as records: one field is written at a time.
PoolRecord(S, N, U) ==
    [slots : S, size : N, used : U, live : Int, free_head : SlotIndex,
     grow_count : Nat]

LEMMA RecordWrites ==
    ASSUME NEW S, NEW N, NEW U, NEW P \in PoolRecord(S, N, U)
    PROVE  /\ \A t \in S :
                     LET Q == [P EXCEPT !.slots = t] IN
                     /\ Q \in PoolRecord(S, N, U) /\ Q.slots = t
                     /\ Q.size = P.size /\ Q.used = P.used /\ Q.live = P.live
                     /\ Q.free_head = P.free_head
                     /\ Q.grow_count = P.grow_count
           /\ \A h \in SlotIndex :
                     LET Q == [P EXCEPT !.free_head = h] IN
                     /\ Q \in PoolRecord(S, N, U) /\ Q.slots = P.slots
                     /\ Q.size = P.size /\ Q.used = P.used /\ Q.live = P.live
                     /\ Q.free_head = h /\ Q.grow_count = P.grow_count
           /\ \A u \in U :
                     LET Q == [P EXCEPT !.used = u] IN
                     /\ Q \in PoolRecord(S, N, U) /\ Q.slots = P.slots
                     /\ Q.size = P.size /\ Q.used = u /\ Q.live = P.live
                     /\ Q.free_head = P.free_head
                     /\ Q.grow_count = P.grow_count
           /\ \A l \in Int :
                     LET Q == [P EXCEPT !.live = l] IN
                     /\ Q \in PoolRecord(S, N, U) /\ Q.slots = P.slots
                     /\ Q.size = P.size /\ Q.used = P.used /\ Q.live = l
                     /\ Q.free_head = P.free_head
                     /\ Q.grow_count = P.grow_count
  BY DEF PoolRecord

LEMMA PoolIsRecord ==
    ASSUME NEW V, NEW P
    PROVE  PoolOf(P, V) <=>
               /\ P.size \in 1..kNoSlot
               /\ P \in PoolRecord([Range0(P) -> SlotOf(V)], 1..kNoSlot, 0..P.size)
  BY DEF PoolOf, PoolRecord, Range0

\* A pool with one slot written.
LEMMA WriteSlot ==
    ASSUME NEW V, NEW P, PoolOf(P, V), NEW i \in Range0(P), NEW s \in SlotOf(V)
    PROVE  LET Q == [P EXCEPT !.slots[i] = s] IN
           /\ PoolOf(Q, V)
           /\ Q.size = P.size /\ Q.used = P.used /\ Q.live = P.live
           /\ Q.free_head = P.free_head /\ Q.grow_count = P.grow_count
           /\ Q.slots[i] = s
           /\ \A j \in Range0(P) : j # i => Q.slots[j] = P.slots[j]
<1>. DEFINE t == [P.slots EXCEPT ![i] = s]
            Q == [P EXCEPT !.slots = t]
<1>0. PICK S, N, U : /\ S = [Range0(P) -> SlotOf(V)]
                     /\ N = 1..kNoSlot /\ U = 0..P.size
  OBVIOUS
<1>1. P \in PoolRecord(S, N, U)
  BY <1>0, PoolIsRecord
<1>2. P.slots \in [Range0(P) -> SlotOf(V)]
  BY <1>0, <1>1 DEF PoolRecord
<1>3. /\ t \in S /\ t[i] = s
      /\ \A j \in Range0(P) : j # i => t[j] = P.slots[j]
  BY <1>0, <1>2
<1>. HIDE DEF t
<1>4. /\ Q \in PoolRecord(S, N, U) /\ Q.slots = t
      /\ Q.size = P.size /\ Q.used = P.used /\ Q.live = P.live
      /\ Q.free_head = P.free_head /\ Q.grow_count = P.grow_count
  BY <1>1, <1>3, RecordWrites
<1>5. Range0(Q) = Range0(P) /\ P.size \in 1..kNoSlot
  BY <1>4 DEF Range0, PoolOf
<1>6. PoolOf(Q, V)
  BY <1>0, <1>4, <1>5, PoolIsRecord
<1>7. Q = [P EXCEPT !.slots[i] = s]
  BY DEF t
<1>. HIDE DEF Q
<1>. QED  BY <1>3, <1>4, <1>6, <1>7

\* append(): slot i follows the old tail, which knows it.
LEMMA AppendLinksFacts ==
    ASSUME NEW V, NEW P, PoolOf(P, V), NEW i \in Range0(P),
           NEW level, level.tail \in SlotIndex, Neighbour(P, i, level.tail)
    PROVE  LET Q == AppendLinks(P, level, i) IN
           /\ PoolOf(Q, V)
           /\ Q.size = P.size /\ Q.used = P.used /\ Q.live = P.live
           /\ Q.free_head = P.free_head /\ Q.grow_count = P.grow_count
           /\ \A j \in Range0(P) :
                  /\ Q.slots[j].value = P.slots[j].value
                  /\ Q.slots[j].prev = IF j = i THEN level.tail ELSE P.slots[j].prev
                  /\ Q.slots[j].next = IF j = i THEN kNoSlot
                                       ELSE IF j = level.tail THEN i
                                       ELSE P.slots[j].next
<1>. DEFINE s == [P.slots[i] EXCEPT !.prev = level.tail, !.next = kNoSlot]
            S == [P EXCEPT !.slots[i] = s]
<1>0. kNoSlot \in SlotIndex /\ i \in SlotIndex /\ P.slots[i] \in SlotOf(V)
  BY PoolAssumption DEF SlotIndex, PoolOf, Range0
<1>1. /\ s \in SlotOf(V) /\ s.value = P.slots[i].value
      /\ s.prev = level.tail /\ s.next = kNoSlot
  BY <1>0 DEF SlotOf
<1>2. S = [P EXCEPT !.slots[i].prev = level.tail, !.slots[i].next = kNoSlot]
  BY <1>0 DEF PoolOf, SlotOf, Range0
<1>. HIDE DEF s
<1>3. /\ PoolOf(S, V) /\ Range0(S) = Range0(P)
      /\ S.size = P.size /\ S.used = P.used /\ S.live = P.live
      /\ S.free_head = P.free_head /\ S.grow_count = P.grow_count
      /\ S.slots[i] = s /\ \A j \in Range0(P) : j # i => S.slots[j] = P.slots[j]
  BY <1>1, WriteSlot DEF Range0
<1>. HIDE DEF S
<1>4. CASE level.tail = kNoSlot
  <2>1. AppendLinks(P, level, i) = S
    BY <1>2, <1>4 DEF AppendLinks
  <2>2. kNoSlot \notin Range0(P)
    BY PoolAssumption DEF Range0, PoolOf
  <2>. QED  BY <1>1, <1>3, <1>4, <2>1, <2>2
<1>5. CASE level.tail # kNoSlot
  <2>. DEFINE t == [S.slots[level.tail] EXCEPT !.next = i]
              T == [S EXCEPT !.slots[level.tail] = t]
  <2>1. AppendLinks(P, level, i) = T
    BY <1>2, <1>5 DEF AppendLinks
  <2>2. level.tail \in Range0(P) /\ level.tail # i
    BY <1>5 DEF Neighbour
  <2>3. S.slots[level.tail] \in SlotOf(V)
    BY <1>3, <2>2 DEF PoolOf, Range0
  <2>4. /\ t \in SlotOf(V) /\ t.value = S.slots[level.tail].value
        /\ t.prev = S.slots[level.tail].prev /\ t.next = i
    BY <1>0, <2>3 DEF SlotOf
  <2>. HIDE DEF t
  <2>5. /\ PoolOf(T, V)
        /\ T.size = S.size /\ T.used = S.used /\ T.live = S.live
        /\ T.free_head = S.free_head /\ T.grow_count = S.grow_count
        /\ T.slots[level.tail] = t
        /\ \A j \in Range0(P) : j # level.tail => T.slots[j] = S.slots[j]
    BY <1>3, <2>2, <2>4, WriteSlot
  <2>. HIDE DEF T
  <2>. QED  BY <1>1, <1>3, <2>1, <2>2, <2>4, <2>5
<1>. QED  BY <1>4, <1>5

\* detach(): the neighbours of slot i know each other, and the slot heads the
\* free list.
LEMMA DetachFacts ==
    ASSUME NEW V, Garbage \in V, NEW P, PoolOf(P, V), NEW i \in Range0(P),
           Neighbour(P, i, P.slots[i].prev), Neighbour(P, i, P.slots[i].next)
    PROVE  LET Q == Release(DetachLinks(P, i), i) IN
           /\ PoolOf(Q, V)
           /\ Q.size = P.size /\ Q.used = P.used /\ Q.live = P.live - 1
           /\ Q.free_head = i /\ Q.grow_count = P.grow_count
           /\ Q.slots[i].next = P.free_head /\ Q.slots[i].value = Garbage
           /\ \A j \in Range0(P) : j # i =>
                  /\ Q.slots[j].value = P.slots[j].value
                  /\ Q.slots[j].prev = IF j = P.slots[i].next THEN P.slots[i].prev
                                       ELSE P.slots[j].prev
                  /\ Q.slots[j].next = IF j = P.slots[i].prev THEN P.slots[i].next
                                       ELSE P.slots[j].next
<1>. DEFINE s == P.slots[i]
            B == IF s.prev = kNoSlot THEN P
                 ELSE [P EXCEPT !.slots[s.prev].next = s.next]
            C == IF s.next = kNoSlot THEN B
                 ELSE [B EXCEPT !.slots[s.next].prev = s.prev]
            R == Release(C, i)
<1>0. /\ kNoSlot \in SlotIndex /\ i \in SlotIndex /\ kNoSlot \notin Range0(P)
      /\ s.prev \in SlotIndex /\ s.next \in SlotIndex
      /\ DetachLinks(P, i) = C
  BY PoolAssumption DEF SlotIndex, PoolOf, Range0, SlotOf, DetachLinks
<1>1. PICK x \in SlotIndex, y \in SlotIndex : x = s.prev /\ y = s.next
  BY <1>0
<1>2. /\ PoolOf(B, V)
      /\ B.size = P.size /\ B.used = P.used /\ B.live = P.live
      /\ B.free_head = P.free_head /\ B.grow_count = P.grow_count
      /\ \A j \in Range0(P) :
             /\ B.slots[j].value = P.slots[j].value
             /\ B.slots[j].prev = P.slots[j].prev
             /\ B.slots[j].next = IF j = x THEN y ELSE P.slots[j].next
  <2>1. CASE x = kNoSlot
    <3>1. B = P
      BY <1>1, <2>1
    <3>. HIDE DEF B
    <3>. QED  BY <1>0, <2>1, <3>1
  <2>2. CASE x # kNoSlot
    <3>. DEFINE t == [P.slots[x] EXCEPT !.next = y]
    <3>1. B = [P EXCEPT !.slots[x] = t] /\ x \in Range0(P)
      BY <1>1, <2>2 DEF Neighbour
    <3>2. P.slots[x] \in SlotOf(V)
      BY <3>1 DEF PoolOf, Range0
    <3>3. /\ t \in SlotOf(V) /\ t.next = y
          /\ t.value = P.slots[x].value /\ t.prev = P.slots[x].prev
      BY <3>2 DEF SlotOf
    <3>. HIDE DEF B, s, t
    <3>. QED  BY <3>1, <3>3, WriteSlot
  <2>. QED  BY <2>1, <2>2
<1>3. /\ PoolOf(C, V)
      /\ C.size = P.size /\ C.used = P.used /\ C.live = P.live
      /\ C.free_head = P.free_head /\ C.grow_count = P.grow_count
      /\ \A j \in Range0(P) :
             /\ C.slots[j].value = P.slots[j].value
             /\ C.slots[j].prev = IF j = y THEN x ELSE P.slots[j].prev
             /\ C.slots[j].next = IF j = x THEN y ELSE P.slots[j].next
  <2>1. CASE y = kNoSlot
    <3>1. C = B
      BY <1>1, <2>1
    <3>. HIDE DEF B, C
    <3>. QED  BY <1>0, <1>2, <2>1, <3>1
  <2>2. CASE y # kNoSlot
    <3>. DEFINE t == [B.slots[y] EXCEPT !.prev = x]
    <3>1. C = [B EXCEPT !.slots[y] = t] /\ y \in Range0(P)
      BY <1>1, <2>2 DEF Neighbour
    <3>. HIDE DEF B, C, s
    <3>2. B.slots[y] \in SlotOf(V) /\ Range0(B) = Range0(P)
      BY <1>2, <3>1 DEF PoolOf, Range0
    <3>3. /\ t \in SlotOf(V) /\ t.prev = x
          /\ t.value = B.slots[y].value /\ t.next = B.slots[y].next
      BY <3>2 DEF SlotOf
    <3>. HIDE DEF t
    <3>4. /\ PoolOf(C, V)
          /\ C.size = B.size /\ C.used = B.used /\ C.live = B.live
          /\ C.free_head = B.free_head /\ C.grow_count = B.grow_count
          /\ C.slots[y] = t
          /\ \A j \in Range0(P) : j # y => C.slots[j] = B.slots[j]
      BY <1>2, <3>1, <3>2, <3>3, WriteSlot
    <3>. QED  BY <1>2, <3>1, <3>3, <3>4
  <2>. QED  BY <2>1, <2>2
<1>. HIDE DEF B, C
<1>4. /\ PoolOf(R, V)
      /\ R.size = P.size /\ R.used = P.used /\ R.live = P.live - 1
      /\ R.free_head = i /\ R.grow_count = P.grow_count
      /\ R.slots[i].next = P.free_head /\ R.slots[i].value = Garbage
      /\ \A j \in Range0(P) : j # i => R.slots[j] = C.slots[j]
  <2>. DEFINE gone == [value |-> Garbage, prev |-> kNoSlot, next |-> C.free_head]
              D == [C EXCEPT !.slots[i] = gone]
              E == [D EXCEPT !.free_head = i]
              l == C.live - 1
  <2>1. /\ gone \in SlotOf(V) /\ gone.next = P.free_head /\ gone.value = Garbage
        /\ l \in Int /\ C.live \in Int
    BY <1>0, <1>3 DEF PoolOf, SlotOf
  <2>2. R = [E EXCEPT !.live = l]
    BY <1>3 DEF Release, PoolOf
  <2>. HIDE DEF gone, R, l
  <2>3. Range0(C) = Range0(P) /\ PoolOf(C, V) /\ i \in Range0(C)
    BY <1>3 DEF Range0
  <2>4. /\ PoolOf(D, V)
        /\ D.size = C.size /\ D.used = C.used /\ D.live = C.live
        /\ D.free_head = C.free_head /\ D.grow_count = C.grow_count
        /\ D.slots[i] = gone
        /\ \A j \in Range0(P) : j # i => D.slots[j] = C.slots[j]
    BY ONLY <2>1, <2>3, WriteSlot
  <2>. HIDE DEF D
  <2>. DEFINE S == [Range0(D) -> SlotOf(V)]
              N == 1..kNoSlot
              U == 0..D.size
  <2>5. D \in PoolRecord(S, N, U) /\ D.size \in 1..kNoSlot
    BY <2>4, PoolIsRecord
  <2>. HIDE DEF S, N, U
  <2>6. /\ E \in PoolRecord(S, N, U) /\ E.slots = D.slots
        /\ E.size = D.size /\ E.used = D.used /\ E.live = D.live
        /\ E.free_head = i /\ E.grow_count = D.grow_count
    BY <1>0, <2>5, RecordWrites
  <2>. HIDE DEF E
  <2>7. /\ R \in PoolRecord(S, N, U) /\ R.slots = D.slots
        /\ R.size = D.size /\ R.used = D.used /\ R.live = l
        /\ R.free_head = i /\ R.grow_count = D.grow_count
    BY <2>1, <2>2, <2>6, RecordWrites
  <2>8. PoolOf(R, V)
    <3>1. S = [Range0(R) -> SlotOf(V)] /\ U = 0..R.size /\ R.size \in 1..kNoSlot
      BY <2>5, <2>7 DEF S, U, Range0
    <3>. QED  BY <2>7, <3>1, PoolIsRecord DEF N
  <2>. QED  BY <1>3, <2>1, <2>4, <2>7, <2>8 DEF l
<1>. QED  BY <1>0, <1>1, <1>3, <1>4

\* grow(): the block is larger, though never beyond the reserved index, and what
\* it held is still there.
LEMMA GrowFacts ==
    ASSUME NEW V, Garbage \in V, NEW P, PoolOf(P, V), P.size < kNoSlot
    PROVE  LET G == Grow(P) IN
           /\ PoolOf(G, V) /\ P.size < G.size /\ G.size <= 2 * P.size
           /\ G.used = P.used /\ G.live = P.live /\ G.free_head = P.free_head
           /\ \A j \in Range0(P) : G.slots[j] = P.slots[j]
<1>. DEFINE n == Bigger(P.size)
            t == [j \in 0..(n - 1) |-> IF j < P.size THEN P.slots[j] ELSE FreshSlot]
            G == Grow(P)
<1>1. /\ P.size \in 1..kNoSlot /\ P.used \in 0..P.size
      /\ P.slots \in [Range0(P) -> SlotOf(V)] /\ P.grow_count \in Nat
  BY DEF PoolOf, Range0
<1>2. n \in 1..kNoSlot /\ P.size < n /\ n <= 2 * P.size
  BY <1>1, PoolAssumption DEF Bigger
<1>. HIDE DEF n
<1>3. FreshSlot \in SlotOf(V)
  BY PoolAssumption DEF FreshSlot, SlotOf, SlotIndex
<1>4. /\ t \in [0..(n - 1) -> SlotOf(V)]
      /\ \A j \in Range0(P) : t[j] = P.slots[j]
  BY <1>1, <1>2, <1>3 DEF Range0
<1>. DEFINE c == P.grow_count + 1
            S == [0..(n - 1) -> SlotOf(V)]
            U == 0..n
            N == 1..kNoSlot
<1>5. /\ c \in Nat /\ t \in S /\ n \in N /\ P.used \in U
      /\ G = [P EXCEPT !.slots = t, !.size = n, !.grow_count = c]
  BY <1>1, <1>2, <1>4 DEF Grow, n
<1>6. P \in PoolRecord([Range0(P) -> SlotOf(V)], 1..kNoSlot, 0..P.size)
  BY PoolIsRecord
<1>. HIDE DEF t, c, S, U, N, G
<1>7. /\ G \in PoolRecord(S, N, U) /\ G.slots = t /\ G.size = n
      /\ G.used = P.used /\ G.live = P.live /\ G.free_head = P.free_head
  BY <1>5, <1>6 DEF PoolRecord
<1>8. PoolOf(G, V)
  BY <1>2, <1>7, PoolIsRecord DEF S, U, N, Range0
<1>. QED  BY <1>2, <1>4, <1>7, <1>8 DEF G

\* acquire(): the slot handed out is in the block and has no neighbours; every
\* other slot is as it was.
LEMMA AcquireFacts ==
    ASSUME NEW V, Garbage \in V, NEW P, PoolOf(P, V), ~Exhausted(P),
           P.free_head = kNoSlot \/ P.free_head \in Range0(P)
    PROVE  LET i == NextSlot(P)
               Q == Acquire(P)
               reuse == P.free_head # kNoSlot
           IN
           /\ PoolOf(Q, V) /\ i \in Range0(Q)
           /\ P.size <= Q.size /\ Q.size <= 2 * P.size
           /\ Q.used = IF reuse THEN P.used ELSE P.used + 1
           /\ Q.live = P.live + 1
           /\ Q.free_head = IF reuse THEN P.slots[i].next ELSE kNoSlot
           /\ Q.slots[i].prev = kNoSlot /\ Q.slots[i].next = kNoSlot
           /\ \A j \in Range0(P) : j # i => Q.slots[j] = P.slots[j]
<1>. DEFINE i == NextSlot(P)
            reuse == P.free_head # kNoSlot
            G == IF ~reuse /\ P.used = P.size THEN Grow(P) ELSE P
            h == IF reuse THEN P.slots[i].next ELSE kNoSlot
            u == IF reuse THEN P.used ELSE P.used + 1
            l == P.live + 1
<1>1. /\ P.size \in 1..kNoSlot /\ P.used \in 0..P.size /\ P.live \in Int
      /\ P.slots \in [Range0(P) -> SlotOf(V)]
      /\ kNoSlot \in SlotIndex
  BY PoolAssumption DEF PoolOf, Range0, SlotIndex
<1>2. /\ PoolOf(G, V) /\ P.size <= G.size /\ G.size <= 2 * P.size
      /\ G.used = P.used /\ G.live = P.live /\ G.free_head = P.free_head
      /\ \A j \in Range0(P) : G.slots[j] = P.slots[j]
      /\ i \in Range0(G) /\ u \in 0..G.size /\ G.size \in 1..kNoSlot
  <2>1. CASE ~reuse /\ P.used = P.size
    <3>1. P.size < kNoSlot
      BY <1>1, <2>1, PoolAssumption DEF Exhausted
    <3>2. G = Grow(P) /\ i = P.used
      BY <2>1 DEF NextSlot
    <3>. HIDE DEF G, i
    <3>3. /\ PoolOf(G, V) /\ P.size < G.size /\ G.size <= 2 * P.size
          /\ G.used = P.used /\ G.live = P.live /\ G.free_head = P.free_head
          /\ \A j \in Range0(P) : G.slots[j] = P.slots[j]
      BY <3>1, <3>2, GrowFacts
    <3>4. G.size \in 1..kNoSlot
      BY <3>3 DEF PoolOf
    <3>. QED  BY <1>1, <2>1, <3>2, <3>3, <3>4 DEF Range0
  <2>2. CASE ~(~reuse /\ P.used = P.size)
    <3>1. G = P
      BY <2>2
    <3>2. i \in Range0(P)
      BY <1>1, <2>2 DEF Range0, NextSlot
    <3>. HIDE DEF G, i
    <3>. QED  BY <1>1, <2>2, <3>1, <3>2
  <2>. QED  BY <2>1, <2>2
<1>3. h \in SlotIndex /\ l \in Int
  <2>1. reuse => i \in Range0(P)
    BY DEF NextSlot
  <2>. QED  BY <1>1, <2>1 DEF SlotOf
<1>. DEFINE s == [G.slots[i] EXCEPT !.prev = kNoSlot, !.next = kNoSlot]
            A == [G EXCEPT !.slots[i] = s]
            B == [A EXCEPT !.free_head = h]
            C == [B EXCEPT !.used = u]
            Q == [C EXCEPT !.live = l]
<1>4. Acquire(P) = Q
  <2>1. G.slots[i] \in SlotOf(V) /\ G.slots \in [Range0(G) -> SlotOf(V)]
    BY <1>2 DEF PoolOf, Range0
  <2>2. Acquire(P) = [G EXCEPT !.slots[i].prev = kNoSlot,
                               !.slots[i].next = kNoSlot,
                               !.free_head = h, !.used = u, !.live = l]
    BY <1>2 DEF Acquire
  <2>. HIDE DEF G, i, h, u, l
  <2>3. [G EXCEPT !.slots[i].prev = kNoSlot, !.slots[i].next = kNoSlot] = A
    BY <2>1 DEF SlotOf
  <2>4. [G EXCEPT !.slots[i].prev = kNoSlot, !.slots[i].next = kNoSlot,
                  !.free_head = h, !.used = u, !.live = l]
        = [[G EXCEPT !.slots[i].prev = kNoSlot, !.slots[i].next = kNoSlot]
               EXCEPT !.free_head = h, !.used = u, !.live = l]
    OBVIOUS
  <2>. HIDE DEF A
  <2>5. [A EXCEPT !.free_head = h, !.used = u, !.live = l] = Q
    OBVIOUS
  <2>. QED  BY <2>2, <2>3, <2>4, <2>5
<1>. HIDE DEF G, i, h, u, l
<1>5. G.slots[i] \in SlotOf(V)
  BY <1>2 DEF PoolOf, Range0
<1>6. s \in SlotOf(V) /\ s.prev = kNoSlot /\ s.next = kNoSlot
  BY <1>1, <1>5 DEF SlotOf
<1>. HIDE DEF s
<1>7. /\ PoolOf(A, V)
      /\ A.size = G.size /\ A.used = G.used /\ A.live = G.live
      /\ A.free_head = G.free_head /\ A.grow_count = G.grow_count
      /\ A.slots[i] = s
      /\ \A j \in Range0(G) : j # i => A.slots[j] = G.slots[j]
  BY <1>2, <1>6, WriteSlot
<1>. HIDE DEF A
<1>. DEFINE S == [Range0(A) -> SlotOf(V)]
            N == 1..kNoSlot
            U == 0..A.size
<1>8. A \in PoolRecord(S, N, U) /\ u \in U
  BY <1>2, <1>7, PoolIsRecord
<1>. HIDE DEF S, N, U
<1>9. /\ B \in PoolRecord(S, N, U) /\ B.slots = A.slots
      /\ B.size = A.size /\ B.free_head = h
  BY <1>3, <1>8, RecordWrites
<1>. HIDE DEF B
<1>10. /\ C \in PoolRecord(S, N, U) /\ C.slots = A.slots
       /\ C.size = A.size /\ C.free_head = h /\ C.used = u
  BY <1>8, <1>9, RecordWrites
<1>. HIDE DEF C
<1>11. /\ Q \in PoolRecord(S, N, U) /\ Q.slots = A.slots
       /\ Q.size = A.size /\ Q.free_head = h /\ Q.used = u /\ Q.live = l
  BY <1>3, <1>10, RecordWrites
<1>. HIDE DEF Q
<1>12. PoolOf(Q, V) /\ Range0(Q) = Range0(G)
  <2>1. /\ S = [Range0(Q) -> SlotOf(V)] /\ U = 0..Q.size
        /\ Q.size \in 1..kNoSlot /\ Range0(Q) = Range0(G)
    BY <1>2, <1>7, <1>11 DEF S, U, Range0
  <2>. QED  BY <1>11, <2>1, PoolIsRecord DEF N
<1>13. \A j \in Range0(P) : j # i => Q.slots[j] = P.slots[j]
  <2>1. Range0(P) \subseteq Range0(G)
    BY <1>1, <1>2 DEF Range0
  <2>. QED  BY <1>2, <1>7, <1>11, <2>1
<1>14. P.size <= Q.size /\ Q.size <= 2 * P.size
  BY <1>2, <1>7, <1>11
<1>. QED  BY <1>2, <1>4, <1>6, <1>7, <1>11, <1>12, <1>13, <1>14 DEF i, u, h, l

-----------------------------------------------------------------------------
(***************************************************************************)
(* A queue in the slots S: what the links say when a slot joins or leaves  *)
(***************************************************************************)
Distinct(q) == \A j, k \in DOMAIN q : q[j] = q[k] => j = k

Chain(S, q) == \A k \in DOMAIN q : /\ S[q[k]].prev = At(q, k - 1)
                                   /\ S[q[k]].next = At(q, k + 1)

LEMMA AppendChain ==
    ASSUME NEW q \in Seq(Nat), NEW i \in Nat, Distinct(q),
           \A k \in DOMAIN q : q[k] # i /\ q[k] # kNoSlot,
           NEW S, NEW T, Chain(S, q),
           T[i].prev = At(q, Len(q)), T[i].next = kNoSlot,
           \A k \in DOMAIN q :
               /\ T[q[k]].prev = S[q[k]].prev
               /\ T[q[k]].next = IF q[k] = At(q, Len(q)) THEN i ELSE S[q[k]].next
    PROVE  LET r == Append(q, i) IN
           /\ Chain(T, r) /\ At(r, Len(r)) = i
           /\ At(r, 1) = IF At(q, Len(q)) = kNoSlot THEN i ELSE At(q, 1)
<1>. DEFINE n == Len(q)
            r == Append(q, i)
<1>1. /\ n \in Nat /\ DOMAIN q = 1..n /\ Len(r) = n + 1 /\ DOMAIN r = 1..(n + 1)
      /\ r[n + 1] = i /\ \A k \in 1..n : r[k] = q[k]
  OBVIOUS
<1>2. At(r, n + 1) = i /\ At(r, n + 2) = kNoSlot /\ At(r, 0) = kNoSlot
      /\ \A k \in 1..n : At(r, k) = q[k] /\ At(q, k) = q[k]
  BY <1>1 DEF At
<1>3. At(q, 0) = kNoSlot /\ At(q, n + 1) = kNoSlot
  BY <1>1 DEF At
<1>. HIDE DEF n, r
<1>4. ASSUME NEW k \in 1..n
      PROVE  T[r[k]].prev = At(r, k - 1) /\ T[r[k]].next = At(r, k + 1)
  <2>1. r[k] = q[k] /\ S[q[k]].prev = At(q, k - 1) /\ S[q[k]].next = At(q, k + 1)
    BY <1>1 DEF Chain
  <2>2. At(r, k - 1) = At(q, k - 1)
    <3>1. CASE k = 1
      BY <1>2, <1>3, <3>1
    <3>2. CASE k # 1
      <4>1. k - 1 \in 1..n
        BY <1>1, <3>2
      <4>. QED  BY <1>2, <4>1
    <3>. QED  BY <3>1, <3>2
  <2>3. CASE k = n
    <3>1. q[k] = At(q, Len(q))
      BY <1>2, <2>3 DEF n
    <3>. QED  BY <1>1, <1>2, <2>1, <2>2, <2>3, <3>1
  <2>4. CASE k # n
    <3>1. k + 1 \in 1..n /\ n \in 1..n
      BY <1>1, <2>4
    <3>2. q[k] # q[n]
      BY <1>1, <2>4, <3>1 DEF Distinct
    <3>3. q[k] # At(q, Len(q))
      BY <1>2, <3>1, <3>2 DEF n
    <3>. QED  BY <1>1, <1>2, <2>1, <2>2, <3>1, <3>3
  <2>. QED  BY <2>3, <2>4
<1>5. T[r[n + 1]].prev = At(r, n) /\ T[r[n + 1]].next = At(r, n + 2)
  <2>1. At(r, n) = At(q, n)
    <3>1. CASE n = 0
      BY <1>2, <1>3, <3>1
    <3>2. CASE n # 0
      <4>1. n \in 1..n
        BY <1>1, <3>2
      <4>. QED  BY <1>2, <4>1
    <3>. QED  BY <3>1, <3>2
  <2>. QED  BY <1>1, <1>2, <2>1 DEF n
<1>6. Chain(T, r)
  <2>. SUFFICES ASSUME NEW k \in 1..(n + 1)
                PROVE  T[r[k]].prev = At(r, k - 1) /\ T[r[k]].next = At(r, k + 1)
    BY <1>1 DEF Chain
  <2>1. CASE k = n + 1
    <3>1. k - 1 = n /\ k + 1 = n + 2
      BY <1>1, <2>1
    <3>. QED  BY <1>5, <2>1, <3>1
  <2>2. CASE k # n + 1
    <3>1. k \in 1..n
      BY <1>1, <2>2
    <3>. QED  BY <1>4, <3>1
  <2>. QED  BY <2>1, <2>2
<1>7. At(r, 1) = IF At(q, n) = kNoSlot THEN i ELSE At(q, 1)
  <2>1. CASE n = 0
    BY <1>2, <1>3, <2>1
  <2>2. CASE n # 0
    <3>1. 1 \in 1..n /\ n \in 1..n
      BY <1>1, <2>2
    <3>2. At(q, n) # kNoSlot
      BY <1>1, <1>2, <3>1
    <3>. QED  BY <1>2, <3>1, <3>2
  <2>. QED  BY <2>1, <2>2
<1>. QED  BY <1>1, <1>2, <1>6, <1>7 DEF n, r

LEMMA DetachChain ==
    ASSUME NEW q \in Seq(Nat), Distinct(q), \A k \in DOMAIN q : q[k] # kNoSlot,
           NEW S, NEW T, Chain(S, q), NEW m \in DOMAIN q,
           \A k \in DOMAIN q : k # m =>
               /\ T[q[k]].prev = IF q[k] = S[q[m]].next THEN S[q[m]].prev
                                 ELSE S[q[k]].prev
               /\ T[q[k]].next = IF q[k] = S[q[m]].prev THEN S[q[m]].next
                                 ELSE S[q[k]].next
    PROVE  LET r == RemoveAt(q, m) IN
           /\ Chain(T, r)
           /\ At(r, 1) = IF S[q[m]].prev = kNoSlot THEN S[q[m]].next ELSE At(q, 1)
           /\ At(r, Len(r)) = IF S[q[m]].next = kNoSlot THEN S[q[m]].prev
                              ELSE At(q, Len(q))
<1>. DEFINE n == Len(q)
            r == RemoveAt(q, m)
<1>0. n \in Nat /\ DOMAIN q = 1..n /\ m \in 1..n
  OBVIOUS
<1>1. /\ r \in Seq(Nat) /\ Len(r) = n - 1 /\ DOMAIN r = 1..(n - 1)
      /\ \A j \in 1..(n - 1) : r[j] = IF j < m THEN q[j] ELSE q[j + 1]
  <2>1. /\ r \in Seq(Nat) /\ Len(r) = n - 1
        /\ \A j \in 1..(n - 1) : r[j] = IF j < m THEN q[j] ELSE q[j + 1]
    BY <1>0, RemoveAtFacts, Zenon
  <2>. HIDE DEF n, r
  <2>. QED  BY <2>1
<1>. HIDE DEF n, r
<1>2. /\ \A k \in 0..(m - 1) : At(r, k) = At(q, k)
      /\ \A k \in m..n : At(r, k) = At(q, k + 1)
  <2>1. ASSUME NEW k \in 0..(m - 1)  PROVE At(r, k) = At(q, k)
    BY <1>0, <1>1 DEF At
  <2>2. ASSUME NEW k \in m..n  PROVE At(r, k) = At(q, k + 1)
    BY <1>0, <1>1 DEF At
  <2>. QED  BY <2>1, <2>2
<1>3. /\ At(q, 0) = kNoSlot /\ At(q, n + 1) = kNoSlot
      /\ \A k \in 1..n : At(q, k) = q[k] /\ q[k] # kNoSlot
  BY <1>0 DEF At
<1>4. S[q[m]].prev = At(q, m - 1) /\ S[q[m]].next = At(q, m + 1)
  BY DEF Chain
<1>5. ASSUME NEW k \in 1..n, NEW j \in 0..(n + 1)
      PROVE  q[k] = At(q, j) <=> k = j
  <2>1. CASE j \in 1..n
    BY <1>0, <1>3, <2>1 DEF Distinct
  <2>2. CASE j \notin 1..n
    <3>1. At(q, j) = kNoSlot
      BY <1>0, <2>2 DEF At
    <3>. QED  BY <1>3, <2>2, <3>1
  <2>. QED  BY <2>1, <2>2
<1>6. ASSUME NEW k \in 1..n, k # m
      PROVE  /\ T[q[k]].prev = IF k = m + 1 THEN At(q, m - 1) ELSE At(q, k - 1)
             /\ T[q[k]].next = IF k = m - 1 THEN At(q, m + 1) ELSE At(q, k + 1)
  <2>1. m + 1 \in 0..(n + 1) /\ m - 1 \in 0..(n + 1)
    BY <1>0
  <2>2. (q[k] = At(q, m + 1) <=> k = m + 1) /\ (q[k] = At(q, m - 1) <=> k = m - 1)
    BY <1>5, <2>1
  <2>3. S[q[k]].prev = At(q, k - 1) /\ S[q[k]].next = At(q, k + 1)
    BY <1>0 DEF Chain
  <2>. QED  BY <1>0, <1>4, <1>6, <2>2, <2>3
<1>7. Chain(T, r)
  <2>. SUFFICES ASSUME NEW k \in 1..(n - 1)
                PROVE  T[r[k]].prev = At(r, k - 1) /\ T[r[k]].next = At(r, k + 1)
    BY <1>1 DEF Chain
  <2>1. CASE k < m
    <3>1. r[k] = q[k] /\ k \in 1..n /\ k # m /\ k # m + 1 /\ k - 1 \in 0..(m - 1)
      BY <1>0, <1>1, <2>1
    <3>2. T[r[k]].prev = At(r, k - 1)
      BY <1>2, <1>6, <3>1
    <3>3. CASE k = m - 1
      <4>1. k + 1 = m /\ m \in m..n
        BY <1>0, <3>3
      <4>. QED  BY <1>2, <1>6, <3>1, <3>2, <3>3, <4>1
    <3>4. CASE k # m - 1
      <4>1. k + 1 \in 0..(m - 1)
        BY <1>0, <2>1, <3>4
      <4>. QED  BY <1>2, <1>6, <3>1, <3>2, <3>4, <4>1
    <3>. QED  BY <3>3, <3>4
  <2>2. CASE ~(k < m)
    <3>1. /\ r[k] = q[k + 1] /\ k + 1 \in 1..n /\ k + 1 # m /\ k + 1 # m - 1
          /\ k + 1 \in m..n /\ (k + 1) - 1 = k
      <4>1. r[k] = q[k + 1]
        BY <1>1, <2>2
      <4>. HIDE DEF r
      <4>. QED  BY <1>0, <2>2, <4>1
    <3>2. T[r[k]].next = At(r, k + 1)
      <4>1. T[q[k + 1]].next = At(q, (k + 1) + 1)
        BY <1>6, <3>1
      <4>. QED  BY <1>2, <3>1, <4>1
    <3>3. CASE k = m
      <4>1. k - 1 \in 0..(m - 1) /\ k + 1 = m + 1 /\ k - 1 = m - 1
        BY <1>0, <3>3
      <4>. QED  BY <1>2, <1>6, <3>1, <3>2, <4>1
    <3>4. CASE k # m
      <4>1. k - 1 \in m..n /\ (k - 1) + 1 = k /\ k + 1 # m + 1
        BY <1>0, <2>2, <3>4
      <4>. QED  BY <1>2, <1>6, <3>1, <3>2, <4>1
    <3>. QED  BY <3>3, <3>4
  <2>. QED  BY <2>1, <2>2
<1>8. At(r, 1) = IF At(q, m - 1) = kNoSlot THEN At(q, m + 1) ELSE At(q, 1)
  <2>1. CASE m = 1
    <3>1. 1 \in m..n /\ m - 1 = 0 /\ m + 1 = 1 + 1
      BY <1>0, <2>1
    <3>. QED  BY <1>2, <1>3, <3>1
  <2>2. CASE m # 1
    <3>1. m - 1 \in 1..n /\ 1 \in 0..(m - 1)
      BY <1>0, <2>2
    <3>. QED  BY <1>2, <1>3, <3>1
  <2>. QED  BY <2>1, <2>2
<1>9. At(r, n - 1) = IF At(q, m + 1) = kNoSlot THEN At(q, m - 1) ELSE At(q, n)
  <2>1. CASE m = n
    <3>1. n - 1 \in 0..(m - 1) /\ m + 1 = n + 1 /\ m - 1 = n - 1
      BY <1>0, <2>1
    <3>. QED  BY <1>2, <1>3, <3>1
  <2>2. CASE m # n
    <3>1. m + 1 \in 1..n /\ n - 1 \in m..n /\ (n - 1) + 1 = n
      BY <1>0, <2>2
    <3>. QED  BY <1>2, <1>3, <3>1
  <2>. QED  BY <2>1, <2>2
<1>. QED  BY <1>1, <1>4, <1>7, <1>8, <1>9 DEF n, r

-----------------------------------------------------------------------------
(***************************************************************************)
(* Sums, by their partial sums, and counting                               *)
(***************************************************************************)

\* f[k] is the sum of the first k of the n numbers w.
RunningSums(f, w, n) ==
    /\ f \in [0..n -> Nat] /\ f[0] = 0
    /\ \A k \in 1..n : w[k] \in Nat /\ f[k] = f[k - 1] + w[k]
    /\ \A j, k \in 0..n : j <= k => f[j] <= f[k]

\* The n numbers w add up to t.
HasSum(w, n, t) == \E f : RunningSums(f, w, n) /\ f[n] = t

LEMMA SumIsNatural ==
    ASSUME NEW n \in Nat, NEW w, NEW t, HasSum(w, n, t)
    PROVE  t \in Nat
  BY DEF HasSum, RunningSums

LEMMA HasSumOfNone ==
    ASSUME NEW w
    PROVE  HasSum(w, 0, 0)
<1>. DEFINE f == [k \in 0..0 |-> 0]
<1>1. RunningSums(f, w, 0) /\ f[0] = 0
  BY DEF RunningSums
<1>. QED  BY <1>1 DEF HasSum

LEMMA HasSumAppend ==
    ASSUME NEW n \in Nat, NEW w, NEW t, HasSum(w, n, t),
           NEW v, v[n + 1] \in Nat, \A k \in 1..n : v[k] = w[k]
    PROVE  HasSum(v, n + 1, t + v[n + 1])
<1>1. PICK f : RunningSums(f, w, n) /\ f[n] = t
  BY DEF HasSum
<1>. DEFINE d == v[n + 1]
            g == [k \in 0..(n + 1) |-> IF k = n + 1 THEN t + d ELSE f[k]]
<1>2. /\ f \in [0..n -> Nat] /\ t \in Nat /\ f[0] = 0
      /\ \A k \in 1..n : w[k] \in Nat /\ f[k] = f[k - 1] + w[k]
      /\ \A j, k \in 0..n : j <= k => f[j] <= f[k]
  BY <1>1 DEF RunningSums
<1>3. \A k \in 0..n : g[k] = f[k] /\ f[k] \in Nat /\ f[k] <= t
  <2>1. \A k \in 0..n : f[k] <= f[n]
    BY <1>2
  <2>. QED  BY <1>1, <1>2, <2>1
<1>4. g[n + 1] = t + d /\ g \in [0..(n + 1) -> Nat]
  BY <1>2, <1>3
<1>. HIDE DEF g, d
<1>5. ASSUME NEW k \in 1..(n + 1)
      PROVE  v[k] \in Nat /\ g[k] = g[k - 1] + v[k]
  <2>1. CASE k = n + 1
    <3>1. k - 1 = n /\ n \in 0..n
      BY <2>1
    <3>. QED  BY <1>1, <1>3, <1>4, <2>1, <3>1 DEF d
  <2>2. CASE k # n + 1
    <3>1. k \in 1..n /\ k \in 0..n /\ k - 1 \in 0..n
      BY <2>2
    <3>. QED  BY <1>2, <1>3, <3>1
  <2>. QED  BY <2>1, <2>2
<1>6. ASSUME NEW j \in 0..(n + 1), NEW k \in 0..(n + 1), j <= k
      PROVE  g[j] <= g[k]
  <2>1. CASE k = n + 1
    <3>1. j \in 0..n \/ j = n + 1
      BY <2>1
    <3>2. d \in Nat
      BY DEF d
    <3>. QED  BY <1>2, <1>3, <1>4, <2>1, <3>1, <3>2
  <2>2. CASE k # n + 1
    <3>1. k \in 0..n /\ j \in 0..n
      BY <1>6, <2>2
    <3>. QED  BY <1>2, <1>3, <1>6, <3>1
  <2>. QED  BY <2>1, <2>2
<1>7. RunningSums(g, v, n + 1)
  BY <1>2, <1>3, <1>4, <1>5, <1>6 DEF RunningSums
<1>. QED  BY <1>4, <1>7 DEF HasSum, d

LEMMA HasSumRemove ==
    ASSUME NEW n \in Nat, NEW w, NEW t, HasSum(w, n, t),
           NEW m \in 1..n, w[m] \in Nat,
           NEW v, \A k \in 1..(n - 1) : v[k] = IF k < m THEN w[k] ELSE w[k + 1]
    PROVE  HasSum(v, n - 1, t - w[m])
<1>1. PICK f : RunningSums(f, w, n) /\ f[n] = t
  BY DEF HasSum
<1>. DEFINE d == w[m]
            g == [k \in 0..(n - 1) |-> IF k < m THEN f[k] ELSE f[k + 1] - d]
<1>2. /\ f \in [0..n -> Nat] /\ f[0] = 0 /\ f[n] = t
      /\ \A k \in 1..n : w[k] \in Nat /\ f[k] = f[k - 1] + w[k]
      /\ \A j, k \in 0..n : j <= k => f[j] <= f[k]
  BY <1>1 DEF RunningSums
<1>3. d \in Nat /\ f[m] = f[m - 1] + d /\ f[m - 1] \in Nat
  BY <1>2
<1>. HIDE DEF d
<1>4. ASSUME NEW k \in m..n
      PROVE  f[k] - d \in Nat /\ f[m - 1] <= f[k] - d /\ f[k] \in Nat
  <2>1. f[m] <= f[k] /\ f[k] \in Nat
    BY <1>2
  <2>. QED  BY <1>3, <2>1
<1>5. /\ \A k \in 0..(n - 1) : k < m => g[k] = f[k] /\ f[k] \in Nat
      /\ \A k \in 0..(n - 1) : ~(k < m) => g[k] = f[k + 1] - d
  BY <1>2
<1>6. g \in [0..(n - 1) -> Nat]
  <2>. SUFFICES ASSUME NEW k \in 0..(n - 1)
                PROVE  (IF k < m THEN f[k] ELSE f[k + 1] - d) \in Nat
    OBVIOUS
  <2>1. CASE k < m
    BY <1>2, <2>1
  <2>2. CASE ~(k < m)
    <3>1. k + 1 \in m..n
      BY <2>2
    <3>. QED  BY <1>4, <2>2, <3>1
  <2>. QED  BY <2>1, <2>2
<1>. HIDE DEF g
<1>7. ASSUME NEW k \in 1..(n - 1)
      PROVE  v[k] \in Nat /\ g[k] = g[k - 1] + v[k]
  <2>0. k \in 1..n /\ k \in 0..(n - 1) /\ k - 1 \in 0..(n - 1)
    OBVIOUS
  <2>1. CASE k < m
    <3>1. k - 1 < m
      BY <2>1
    <3>. QED  BY <1>2, <1>5, <2>0, <2>1, <3>1
  <2>2. CASE k = m
    <3>1. ~(k < m) /\ k - 1 < m /\ k + 1 \in 1..n /\ (k + 1) - 1 = k
      BY <2>2
    <3>2. /\ g[k] = f[k + 1] - d /\ f[k + 1] = f[k] + w[k + 1] /\ v[k] = w[k + 1]
          /\ w[k + 1] \in Nat
      BY <1>2, <1>5, <2>0, <3>1
    <3>3. g[k - 1] = f[m - 1]
      BY <1>5, <2>0, <2>2, <3>1
    <3>4. f[k] = f[m - 1] + d
      BY <1>3, <2>2
    <3>5. f[k + 1] \in Nat /\ f[k] \in Nat
      BY <1>2, <2>0, <3>1
    <3>. QED  BY <1>3, <3>2, <3>3, <3>4, <3>5
  <2>3. CASE k > m
    <3>1. /\ ~(k < m) /\ ~(k - 1 < m) /\ k + 1 \in 1..n /\ (k + 1) - 1 = k
          /\ (k - 1) + 1 = k
      BY <2>3
    <3>2. /\ g[k] = f[k + 1] - d /\ f[k + 1] = f[k] + w[k + 1] /\ v[k] = w[k + 1]
          /\ w[k + 1] \in Nat
      BY <1>2, <1>5, <2>0, <3>1
    <3>3. g[k - 1] = f[k] - d
      BY <1>5, <2>0, <3>1
    <3>4. f[k + 1] \in Nat /\ f[k] \in Nat
      BY <1>2, <2>0, <3>1
    <3>. QED  BY <1>3, <3>2, <3>3, <3>4
  <2>. QED  BY <2>1, <2>2, <2>3
<1>8. ASSUME NEW j \in 0..(n - 1), NEW k \in 0..(n - 1), j <= k
      PROVE  g[j] <= g[k]
  <2>1. CASE k < m
    <3>1. j < m /\ j \in 0..n /\ k \in 0..n
      BY <1>8, <2>1
    <3>. QED  BY <1>2, <1>5, <1>8, <2>1, <3>1
  <2>2. CASE ~(k < m)
    <3>1. k + 1 \in m..n /\ k + 1 \in 0..n /\ g[k] = f[k + 1] - d
      BY <1>5, <2>2
    <3>2. CASE j < m
      <4>1. j \in 0..n /\ m - 1 \in 0..n /\ j <= m - 1
        BY <3>2
      <4>2. f[j] <= f[m - 1] /\ g[j] = f[j] /\ f[j] \in Nat
        BY <1>2, <1>5, <3>2, <4>1
      <4>. QED  BY <1>3, <1>4, <3>1, <4>2
    <3>3. CASE ~(j < m)
      <4>1. j + 1 \in m..n /\ j + 1 \in 0..n /\ j + 1 <= k + 1
        BY <1>8, <2>2, <3>3
      <4>2. g[j] = f[j + 1] - d /\ f[j + 1] <= f[k + 1]
        BY <1>2, <1>5, <3>1, <3>3, <4>1
      <4>. QED  BY <1>3, <1>4, <3>1, <4>1, <4>2
    <3>. QED  BY <3>2, <3>3
  <2>. QED  BY <2>1, <2>2
<1>9. g[0] = 0 /\ g[n - 1] = t - d
  <2>1. 0 \in 0..(n - 1) /\ 0 < m /\ n - 1 \in 0..(n - 1)
    OBVIOUS
  <2>2. CASE n - 1 < m
    <3>1. n = m
      BY <2>2
    <3>. QED  BY <1>2, <1>3, <1>5, <2>1, <2>2, <3>1
  <2>3. CASE ~(n - 1 < m)
    <3>1. (n - 1) + 1 = n
      OBVIOUS
    <3>. QED  BY <1>2, <1>5, <2>1, <2>3, <3>1
  <2>. QED  BY <2>2, <2>3
<1>10. RunningSums(g, v, n - 1)
  BY <1>6, <1>7, <1>8, <1>9 DEF RunningSums
<1>. QED  BY <1>9, <1>10 DEF HasSum, d

LEMMA HasSumLess ==
    ASSUME NEW n \in Nat \ {0}, NEW w, NEW t, HasSum(w, n, t),
           w[1] \in Nat, NEW d \in 0..w[1],
           NEW v, v[1] = w[1] - d, \A k \in 2..n : v[k] = w[k]
    PROVE  HasSum(v, n, t - d)
<1>1. PICK f : RunningSums(f, w, n) /\ f[n] = t
  BY DEF HasSum
<1>. DEFINE g == [k \in 0..n |-> IF k = 0 THEN 0 ELSE f[k] - d]
<1>2. /\ f \in [0..n -> Nat] /\ f[0] = 0 /\ f[n] = t
      /\ \A k \in 1..n : w[k] \in Nat /\ f[k] = f[k - 1] + w[k]
      /\ \A j, k \in 0..n : j <= k => f[j] <= f[k]
  BY <1>1 DEF RunningSums
<1>3. d \in Nat /\ d <= w[1] /\ f[1] = w[1]
  BY <1>2
<1>4. ASSUME NEW k \in 1..n
      PROVE  f[k] - d \in Nat /\ f[k] \in Nat
  <2>1. f[1] <= f[k] /\ f[k] \in Nat
    BY <1>2
  <2>. QED  BY <1>3, <2>1
<1>5. g \in [0..n -> Nat] /\ g[0] = 0 /\ \A k \in 1..n : g[k] = f[k] - d
  BY <1>4
<1>. HIDE DEF g
<1>6. ASSUME NEW k \in 1..n
      PROVE  v[k] \in Nat /\ g[k] = g[k - 1] + v[k]
  <2>1. CASE k = 1
    BY <1>3, <1>5, <2>1
  <2>2. CASE k # 1
    <3>1. k \in 2..n /\ k - 1 \in 1..n
      BY <2>2
    <3>2. f[k] = f[k - 1] + w[k] /\ v[k] = w[k] /\ w[k] \in Nat
      BY <1>2, <3>1
    <3>3. g[k] = f[k] - d /\ g[k - 1] = f[k - 1] - d
      BY <1>5, <3>1
    <3>4. f[k] \in Nat /\ f[k - 1] \in Nat
      BY <1>4, <3>1
    <3>. QED  BY <1>3, <3>2, <3>3, <3>4
  <2>. QED  BY <2>1, <2>2
<1>7. ASSUME NEW j \in 0..n, NEW k \in 0..n, j <= k
      PROVE  g[j] <= g[k]
  <2>1. CASE j = 0
    BY <1>5, <2>1
  <2>2. CASE j # 0
    <3>1. j \in 1..n /\ k \in 1..n
      BY <1>7, <2>2
    <3>2. f[j] <= f[k] /\ g[j] = f[j] - d /\ g[k] = f[k] - d
      BY <1>2, <1>5, <1>7, <3>1
    <3>3. f[j] \in Nat /\ f[k] \in Nat
      BY <1>4, <3>1
    <3>. QED  BY <1>3, <3>2, <3>3
  <2>. QED  BY <2>1, <2>2
<1>8. RunningSums(g, v, n)
  BY <1>5, <1>6, <1>7 DEF RunningSums
<1>9. g[n] = t - d
  BY <1>2, <1>5
<1>. QED  BY <1>8, <1>9 DEF HasSum

\* What running sums reach is the sum.
LEMMA HasSumIsSum ==
    ASSUME NEW n \in Nat, NEW w, NEW t, HasSum(w, n, t)
    PROVE  t = SumOver(w, 1..n, n)
<1>1. PICK f : RunningSums(f, w, n) /\ f[n] = t
  BY DEF HasSum
<1>2. /\ f \in [0..n -> Nat] /\ f[0] = 0
      /\ \A k \in 1..n : w[k] \in Nat /\ f[k] = f[k - 1] + w[k]
  BY <1>1 DEF RunningSums
<1>. DEFINE F(k) == SumOver(w, 1..n, k)
            Bad == {k \in 0..n : F(k) # f[k]}
<1>3. \A k \in 1..n : w[k] \in Int
  BY <1>2
<1>4. /\ F(0) = Term(w, 1..n, 0)
      /\ \A k \in Nat \ {0} : F(k) = F(k - 1) + Term(w, 1..n, k)
  BY <1>3, SumOverDef
<1>5. F(0) = 0 /\ \A k \in 1..n : F(k) = F(k - 1) + w[k]
  BY <1>4 DEF Term
<1>. HIDE DEF F
<1>. SUFFICES ASSUME Bad # {}  PROVE FALSE
  <2>1. Bad = {} => F(n) = f[n]
    OBVIOUS
  <2>. QED  BY <1>1, <2>1 DEF F
<1>6. PICK k \in Bad : \A j \in Bad : k <= j
  <2>1. Bad \subseteq Nat
    OBVIOUS
  <2>. HIDE DEF Bad
  <2>. QED  BY <2>1, SmallestExists
<1>7. k # 0 /\ k \in 1..n /\ k - 1 \in 0..n
  BY <1>2, <1>5
<1>8. F(k - 1) = f[k - 1]
  BY <1>6, <1>7
<1>. QED  BY <1>2, <1>5, <1>7, <1>8

\* So many different numbers below n are no more than n.
LEMMA DistinctBound ==
    ASSUME NEW n \in Nat, NEW q \in Seq(0..(n - 1)), Distinct(q)
    PROVE  Len(q) <= n
<1>1. IsFiniteSet(0..(n - 1)) /\ Cardinality(0..(n - 1)) = n
  BY FS_Interval
<1>2. IsFiniteSet(1..Len(q)) /\ Cardinality(1..Len(q)) = Len(q)
  <2>1. \A l \in Nat : IsFiniteSet(1..l) /\ Cardinality(1..l) = l
    BY FS_Interval
  <2>. QED  BY <2>1
<1>3. q \in Injection(1..Len(q), 0..(n - 1))
  BY DEF Injection, IsInjective, Distinct
<1>. QED  BY <1>1, <1>2, <1>3, FS_Injection

-----------------------------------------------------------------------------
(***************************************************************************)
(* The state of the queues, as a formula of its values: pool P, levels Lv, *)
(* and the histories Q (queued), F (freed) and L (leaked)                  *)
(***************************************************************************)
Held == Value \cup {Garbage}

Level == [total_qty : Int, head : SlotIndex, tail : SlotIndex]

Qtys(P, q) == [k \in DOMAIN q |-> P.slots[q[k]].value.qty]

\* The queue q at price p, in pool P and level.
QueueAt(P, level, q, p) ==
    /\ level.head = At(q, 1) /\ level.tail = At(q, Len(q))
    /\ Chain(P.slots, q)
    /\ \A k \in DOMAIN q : /\ P.slots[q[k]].value \in Value
                           /\ P.slots[q[k]].value.price = p
    /\ HasSum(Qtys(P, q), Len(q), level.total_qty)

FreeList(P, F) ==
    /\ P.free_head = At(F, 1)
    /\ \A k \in DOMAIN F : P.slots[F[k]].next = At(F, k + 1)

Rests(Q, i) == \E p \in Prices : \E k \in DOMAIN Q[p] : Q[p][k] = i
Free(F, i) == \E k \in DOMAIN F : F[k] = i

\* No slot is in two places.
Apart(Q, F, L) ==
    /\ \A p, r \in Prices : \A j \in DOMAIN Q[p], k \in DOMAIN Q[r] :
           Q[p][j] = Q[r][k] => p = r /\ j = k
    /\ Distinct(F)
    /\ \A i : ~(Rests(Q, i) /\ Free(F, i)) /\ ~(Rests(Q, i) /\ i \in L)
              /\ ~(Free(F, i) /\ i \in L)

\* Every slot that was ever used is in one.
Covered(P, Q, F, L) ==
    \A i : i \in 0..(P.used - 1) <=> Rests(Q, i) \/ Free(F, i) \/ i \in L

Good(P, Lv, Q, F, L) ==
    /\ PoolOf(P, Held) /\ Lv \in [Prices -> Level]
    /\ Q \in [Prices -> Seq(0..(SlotLimit - 1))]
    /\ F \in Seq(0..(kNoSlot - 1)) /\ L \subseteq SlotLimit..(kNoSlot - 1)
    /\ \A p \in Prices : QueueAt(P, Lv[p], Q[p], p)
    /\ FreeList(P, F)
    /\ Apart(Q, F, L) /\ Covered(P, Q, F, L)
    /\ P.live + Len(F) = P.used

\* What every slot of a queue or of the free list is.
LEMMA UsedSlots ==
    ASSUME NEW P, NEW Lv, NEW Q, NEW F, NEW L, Good(P, Lv, Q, F, L), NEW i,
           Rests(Q, i) \/ Free(F, i) \/ i \in L
    PROVE  i \in 0..(P.used - 1) /\ i \in Range0(P) /\ i # kNoSlot /\ i \in Nat
<1>1. i \in 0..(P.used - 1)
  BY DEF Good, Covered
<1>2. P.size \in 1..kNoSlot /\ P.used \in 0..P.size
  BY DEF Good, PoolOf
<1>. QED  BY <1>1, <1>2, PoolAssumption DEF Range0

\* A queue whose slots are as they were is as it was.
LEMMA QueueFrame ==
    ASSUME NEW P, NEW R, NEW level, NEW q, NEW p, QueueAt(P, level, q, p),
           \A k \in DOMAIN q : /\ R.slots[q[k]].value = P.slots[q[k]].value
                               /\ R.slots[q[k]].prev = P.slots[q[k]].prev
                               /\ R.slots[q[k]].next = P.slots[q[k]].next
    PROVE  QueueAt(R, level, q, p)
<1>1. Chain(R.slots, q)
  BY DEF QueueAt, Chain
<1>2. Qtys(R, q) = Qtys(P, q)
  BY DEF Qtys
<1>. QED  BY <1>1, <1>2 DEF QueueAt

\* acquire(), for the free list and the account of the slots: the slot handed
\* out was in no queue, and leaves the free list.
LEMMA TakeSlot ==
    ASSUME NEW P, NEW Lv, NEW Q, NEW F, NEW L, Good(P, Lv, Q, F, L),
           ~Exhausted(P)
    PROVE  LET i == NextSlot(P)
               A == Acquire(P)
               G == IF P.free_head # kNoSlot THEN Tail(F) ELSE F
           IN
           /\ PoolOf(A, Held) /\ i \in Range0(A) /\ i \in 0..(A.used - 1)
           /\ i \in Nat /\ i < kNoSlot
           /\ P.size <= A.size /\ A.size <= 2 * P.size /\ P.used <= A.used
           /\ A.slots[i].prev = kNoSlot /\ A.slots[i].next = kNoSlot
           /\ \A j \in Range0(P) : j # i => A.slots[j] = P.slots[j]
           /\ ~Rests(Q, i) /\ ~Free(G, i) /\ i \notin L
           /\ G \in Seq(0..(kNoSlot - 1)) /\ Distinct(G)
           /\ \A j : Free(G, j) => Free(F, j)
           /\ FreeList(A, G)
           /\ \A j : j \in 0..(A.used - 1) <=>
                         j = i \/ Rests(Q, j) \/ Free(G, j) \/ j \in L
           /\ A.live + Len(G) = A.used
<1>. DEFINE i == NextSlot(P)
            A == Acquire(P)
            G == IF P.free_head # kNoSlot THEN Tail(F) ELSE F
<1>1. /\ PoolOf(P, Held) /\ FreeList(P, F) /\ Apart(Q, F, L)
      /\ Covered(P, Q, F, L) /\ P.live + Len(F) = P.used
      /\ F \in Seq(0..(kNoSlot - 1))
  BY DEF Good
<1>2. P.size \in 1..kNoSlot /\ P.used \in 0..P.size /\ P.live \in Int
  BY <1>1 DEF PoolOf
<1>3. P.free_head = kNoSlot \/ P.free_head \in Range0(P)
  <2>. SUFFICES ASSUME P.free_head # kNoSlot  PROVE P.free_head \in Range0(P)
    OBVIOUS
  <2>1. 1 \in DOMAIN F /\ P.free_head = F[1]
    BY <1>1 DEF FreeList, At
  <2>. QED  BY <2>1, UsedSlots DEF Free
<1>4. /\ PoolOf(A, Held) /\ i \in Range0(A)
      /\ P.size <= A.size /\ A.size <= 2 * P.size
      /\ A.used = IF P.free_head # kNoSlot THEN P.used ELSE P.used + 1
      /\ A.live = P.live + 1
      /\ A.free_head = IF P.free_head # kNoSlot THEN P.slots[i].next ELSE kNoSlot
      /\ A.slots[i].prev = kNoSlot /\ A.slots[i].next = kNoSlot
      /\ \A j \in Range0(P) : j # i => A.slots[j] = P.slots[j]
  <2>1. Garbage \in Held
    BY DEF Held
  <2>. QED  BY <1>1, <1>3, <2>1, AcquireFacts, Zenon
<1>5. A.size \in 1..kNoSlot /\ i \in Nat /\ i < kNoSlot
  <2>1. A.size \in 1..kNoSlot
    BY <1>4 DEF PoolOf
  <2>. HIDE DEF A, i
  <2>. QED  BY <1>4, <2>1, PoolAssumption DEF Range0
<1>6. CASE P.free_head # kNoSlot
  <2>1. 1 \in DOMAIN F /\ i = F[1] /\ G = Tail(F) /\ F # <<>>
    BY <1>1, <1>6 DEF FreeList, At, NextSlot
  <2>. HIDE DEF A, i
  <2>2. /\ G \in Seq(0..(kNoSlot - 1)) /\ Len(G) = Len(F) - 1 /\ Len(F) \in Nat
        /\ DOMAIN G = 1..(Len(F) - 1) /\ DOMAIN F = 1..Len(F)
        /\ \A k \in 1..(Len(F) - 1) : G[k] = F[k + 1]
    <3>1. PICK T : T = 0..(kNoSlot - 1)
      OBVIOUS
    <3>2. F \in Seq(T) /\ F # <<>>
      BY <1>1, <2>1, <3>1
    <3>3. /\ Tail(F) \in Seq(T) /\ Len(Tail(F)) = Len(F) - 1 /\ Len(F) \in Nat
          /\ DOMAIN Tail(F) = 1..(Len(F) - 1) /\ DOMAIN F = 1..Len(F)
          /\ \A k \in 1..(Len(F) - 1) : Tail(F)[k] = F[k + 1]
      BY <3>2
    <3>. QED  BY <2>1, <3>1, <3>3
  <2>. HIDE DEF G
  <2>3. Free(F, i) /\ ~Rests(Q, i) /\ i \notin L
    BY <1>1, <2>1 DEF Free, Apart
  <2>4. Distinct(G) /\ ~Free(G, i)
    <3>1. \A k \in 1..(Len(F) - 1) : k + 1 \in DOMAIN F /\ k + 1 # 1
      BY <2>2
    <3>2. Distinct(F)
      BY <1>1 DEF Apart
    <3>3. ~Free(G, i)
      BY <2>1, <2>2, <3>1, <3>2 DEF Free, Distinct
    <3>4. \A j, k \in 1..(Len(F) - 1) : j + 1 = k + 1 => j = k
      BY <2>2
    <3>. QED  BY <2>2, <3>1, <3>2, <3>3, <3>4 DEF Distinct
  <2>5. \A j : Free(F, j) <=> j = i \/ Free(G, j)
    <3>1. ASSUME NEW j, Free(F, j)  PROVE j = i \/ Free(G, j)
      <4>1. PICK k \in DOMAIN F : F[k] = j
        BY <3>1 DEF Free
      <4>2. CASE k = 1
        BY <2>1, <4>1, <4>2
      <4>3. CASE k # 1
        <5>1. k - 1 \in 1..(Len(F) - 1) /\ (k - 1) + 1 = k
          BY <2>2, <4>3
        <5>. QED  BY <2>2, <4>1, <5>1 DEF Free
      <4>. QED  BY <4>2, <4>3
    <3>2. ASSUME NEW j, Free(G, j)  PROVE Free(F, j)
      <4>1. PICK k \in 1..(Len(F) - 1) : G[k] = j
        BY <2>2, <3>2 DEF Free
      <4>2. k + 1 \in DOMAIN F /\ F[k + 1] = j
        BY <2>2, <4>1
      <4>. QED  BY <4>2 DEF Free
    <3>. QED  BY <2>3, <3>1, <3>2
  <2>6. FreeList(A, G)
    <3>1. A.free_head = At(G, 1)
      <4>1. P.slots[i].next = At(F, 2)
        BY <1>1, <2>1 DEF FreeList
      <4>2. At(F, 2) = At(G, 1)
        BY <2>1, <2>2 DEF At
      <4>. QED  BY <1>4, <1>6, <4>1, <4>2
    <3>2. ASSUME NEW k \in DOMAIN G
          PROVE  A.slots[G[k]].next = At(G, k + 1)
      <4>1. k + 1 \in DOMAIN F /\ G[k] = F[k + 1] /\ (k + 1) + 1 = k + 2
        BY <2>2
      <4>2. P.slots[G[k]].next = At(F, k + 2)
        BY <1>1, <4>1 DEF FreeList
      <4>3. At(F, k + 2) = At(G, k + 1)
        BY <2>2 DEF At
      <4>4. G[k] # i /\ G[k] \in Range0(P)
        <5>1. Free(G, G[k]) /\ Free(F, G[k])
          BY <2>5 DEF Free
        <5>. QED  BY <2>4, <5>1, UsedSlots
      <4>. QED  BY <1>4, <4>2, <4>3, <4>4
    <3>. QED  BY <3>1, <3>2 DEF FreeList
  <2>7. \A j : j \in 0..(A.used - 1) <=>
                   j = i \/ Rests(Q, j) \/ Free(G, j) \/ j \in L
    BY <1>1, <1>4, <1>6, <2>5 DEF Covered
  <2>8. A.live + Len(G) = A.used /\ P.used <= A.used
    BY <1>1, <1>2, <1>4, <1>6, <2>2
  <2>9. i \in 0..(A.used - 1)
    BY <2>7
  <2>. QED  BY <1>4, <1>5, <2>2, <2>3, <2>4, <2>5, <2>6, <2>7, <2>8, <2>9
            DEF A, i, G
<1>7. CASE P.free_head = kNoSlot
  <2>1. i = P.used /\ G = F
    BY <1>7 DEF NextSlot
  <2>. HIDE DEF A, i, G
  <2>2. i \notin 0..(P.used - 1) /\ A.used = P.used + 1
    BY <1>2, <1>4, <1>7, <2>1
  <2>3. ~Rests(Q, i) /\ ~Free(G, i) /\ i \notin L
    BY <1>1, <2>1, <2>2 DEF Covered
  <2>4. FreeList(A, G)
    <3>1. At(F, 1) = kNoSlot /\ A.free_head = kNoSlot
      BY <1>1, <1>4, <1>7 DEF FreeList
    <3>2. ASSUME NEW k \in DOMAIN F
          PROVE  A.slots[F[k]].next = At(F, k + 1)
      <4>1. F[k] # i /\ F[k] \in Range0(P)
        <5>1. Free(F, F[k])
          BY DEF Free
        <5>. QED  BY <2>1, <2>3, <5>1, UsedSlots
      <4>. QED  BY <1>1, <1>4, <4>1 DEF FreeList
    <3>. QED  BY <2>1, <3>1, <3>2 DEF FreeList
  <2>5. \A j : j \in 0..(A.used - 1) <=> j = i \/ j \in 0..(P.used - 1)
    BY <1>2, <2>1, <2>2
  <2>6. \A j : j \in 0..(A.used - 1) <=>
                   j = i \/ Rests(Q, j) \/ Free(G, j) \/ j \in L
    BY <1>1, <2>1, <2>5 DEF Covered
  <2>7. A.live + Len(G) = A.used /\ P.used <= A.used
    BY <1>1, <1>2, <1>4, <2>1, <2>2
  <2>8. i \in 0..(A.used - 1) /\ Distinct(G)
    BY <1>1, <2>1, <2>6 DEF Apart
  <2>. QED  BY <1>1, <1>4, <1>5, <2>1, <2>3, <2>4, <2>6, <2>7, <2>8 DEF A, i, G
<1>. QED  BY <1>6, <1>7

\* insert() that throws: the slot is lost, and nothing else changes.
LEMMA LoseSlot ==
    ASSUME NEW P, NEW Lv, NEW Q, NEW F, NEW L, Good(P, Lv, Q, F, L),
           ~Exhausted(P), NextSlot(P) >= SlotLimit
    PROVE  Good(Acquire(P), Lv, Q, IF P.free_head # kNoSlot THEN Tail(F) ELSE F,
                L \cup {NextSlot(P)})
<1>. DEFINE i == NextSlot(P)
            A == Acquire(P)
            G == IF P.free_head # kNoSlot THEN Tail(F) ELSE F
            M == L \cup {i}
<1>1. /\ PoolOf(A, Held) /\ i \in Nat /\ i < kNoSlot
      /\ \A j \in Range0(P) : j # i => A.slots[j] = P.slots[j]
      /\ ~Rests(Q, i) /\ ~Free(G, i) /\ i \notin L
      /\ G \in Seq(0..(kNoSlot - 1)) /\ Distinct(G)
      /\ \A j : Free(G, j) => Free(F, j)
      /\ FreeList(A, G)
      /\ \A j : j \in 0..(A.used - 1) <=>
                    j = i \/ Rests(Q, j) \/ Free(G, j) \/ j \in L
      /\ A.live + Len(G) = A.used
  BY TakeSlot, Zenon
<1>2. /\ Lv \in [Prices -> Level] /\ Q \in [Prices -> Seq(0..(SlotLimit - 1))]
      /\ L \subseteq SlotLimit..(kNoSlot - 1)
      /\ \A p \in Prices : QueueAt(P, Lv[p], Q[p], p)
      /\ Apart(Q, F, L)
  BY DEF Good
<1>3. i >= SlotLimit
  OBVIOUS
<1>. HIDE DEF i, A, G
<1>4. M \subseteq SlotLimit..(kNoSlot - 1)
  BY <1>1, <1>2, <1>3, PoolAssumption, QueuesAssumption
<1>5. ASSUME NEW p \in Prices
      PROVE  QueueAt(A, Lv[p], Q[p], p)
  <2>1. \A k \in DOMAIN Q[p] : Rests(Q, Q[p][k])
    BY DEF Rests
  <2>2. \A k \in DOMAIN Q[p] : A.slots[Q[p][k]] = P.slots[Q[p][k]]
    BY <1>1, <2>1, UsedSlots
  <2>. QED  BY <1>2, <2>2, QueueFrame
<1>6. Apart(Q, G, M)
  <2>1. /\ \A p, r \in Prices : \A j \in DOMAIN Q[p], k \in DOMAIN Q[r] :
               Q[p][j] = Q[r][k] => p = r /\ j = k
        /\ \A j : /\ ~(Rests(Q, j) /\ Free(F, j)) /\ ~(Rests(Q, j) /\ j \in L)
                  /\ ~(Free(F, j) /\ j \in L)
    BY <1>2 DEF Apart
  <2>2. \A j : /\ ~(Rests(Q, j) /\ Free(G, j)) /\ ~(Rests(Q, j) /\ j \in M)
               /\ ~(Free(G, j) /\ j \in M)
    BY <1>1, <2>1
  <2>. QED  BY <1>1, <2>1, <2>2 DEF Apart
<1>7. Covered(A, Q, G, M)
  BY <1>1 DEF Covered
<1>. QED  BY <1>1, <1>2, <1>4, <1>5, <1>6, <1>7 DEF Good, i, A, G

\* insert(): the order joins the end of its queue.
LEMMA JoinQueue ==
    ASSUME NEW P, NEW Lv, NEW Q, NEW F, NEW L, Good(P, Lv, Q, F, L),
           ~Exhausted(P), NextSlot(P) < SlotLimit,
           NEW p \in Prices, NEW qty \in 1..MaxQty
    PROVE  LET i == NextSlot(P)
               R == AppendLinks([Acquire(P) EXCEPT
                                    !.slots[i].value = [price |-> p, qty |-> qty]],
                                Lv[p], i)
           IN
           /\ R.size = Acquire(P).size
           /\ Good(R, [Lv EXCEPT ![p] = AppendLevel(@, i, qty)],
                   [Q EXCEPT ![p] = Append(@, i)],
                   IF P.free_head # kNoSlot THEN Tail(F) ELSE F, L)
<1>. DEFINE i == NextSlot(P)
            A == Acquire(P)
            G == IF P.free_head # kNoSlot THEN Tail(F) ELSE F
            v == [price |-> p, qty |-> qty]
            w == [A.slots[i] EXCEPT !.value = v]
            B == [A EXCEPT !.slots[i] = w]
            q == Q[p]
            a == Append(q, i)
            level == AppendLevel(Lv[p], i, qty)
            tail == Lv[p].tail
            R == AppendLinks(B, Lv[p], i)
            K == [Lv EXCEPT ![p] = AppendLevel(@, i, qty)]
            J == [Q EXCEPT ![p] = Append(@, i)]
<1>1. /\ PoolOf(A, Held) /\ i \in Range0(A) /\ i \in 0..(A.used - 1)
      /\ i \in Nat /\ i < kNoSlot /\ P.size <= A.size
      /\ \A j \in Range0(P) : j # i => A.slots[j] = P.slots[j]
      /\ ~Rests(Q, i) /\ ~Free(G, i) /\ i \notin L
      /\ G \in Seq(0..(kNoSlot - 1)) /\ Distinct(G)
      /\ \A j : Free(G, j) => Free(F, j)
      /\ FreeList(A, G)
      /\ \A j : j \in 0..(A.used - 1) <=>
                    j = i \/ Rests(Q, j) \/ Free(G, j) \/ j \in L
      /\ A.live + Len(G) = A.used
  BY TakeSlot, Zenon
<1>2. /\ Lv \in [Prices -> Level] /\ Q \in [Prices -> Seq(0..(SlotLimit - 1))]
      /\ L \subseteq SlotLimit..(kNoSlot - 1)
      /\ \A r \in Prices : QueueAt(P, Lv[r], Q[r], r)
      /\ Apart(Q, F, L) /\ PoolOf(P, Held)
  BY DEF Good
<1>3. i < SlotLimit /\ i \in 0..(SlotLimit - 1)
  <2>1. i < SlotLimit
    OBVIOUS
  <2>. HIDE DEF i
  <2>. QED  BY <1>1, <2>1, QueuesAssumption, PoolAssumption
<1>4. [A EXCEPT !.slots[i].value = v] = B
  OBVIOUS
<1>. HIDE DEF i, A, G
<1>5. v \in Value /\ v.price = p /\ v.qty = qty /\ v \in Held
  BY DEF Value, Held
<1>. HIDE DEF v
<1>6. A.slots[i] \in SlotOf(Held)
  BY <1>1 DEF PoolOf, Range0
<1>7. /\ w \in SlotOf(Held) /\ w.value = v
  BY <1>5, <1>6 DEF SlotOf
<1>. HIDE DEF w
<1>8. /\ PoolOf(B, Held) /\ B.size = A.size /\ B.used = A.used
      /\ B.live = A.live /\ B.free_head = A.free_head
      /\ B.slots[i] = w /\ \A j \in Range0(A) : j # i => B.slots[j] = A.slots[j]
  BY <1>1, <1>7, WriteSlot
<1>. HIDE DEF B
<1>9. /\ Range0(B) = Range0(A) /\ Range0(P) \subseteq Range0(A)
      /\ P.size \in 1..kNoSlot /\ A.size \in 1..kNoSlot
  <2>1. P.size \in 1..kNoSlot /\ A.size \in 1..kNoSlot
    BY <1>1, <1>2 DEF PoolOf
  <2>. QED  BY <1>1, <1>8, <2>1 DEF Range0
<1>10. \A r \in Prices : \A k \in DOMAIN Q[r] :
           /\ Rests(Q, Q[r][k]) /\ Q[r][k] # i /\ Q[r][k] # kNoSlot
           /\ Q[r][k] \in Range0(P) /\ Q[r][k] \in Nat
  <2>1. \A r \in Prices : \A k \in DOMAIN Q[r] : Rests(Q, Q[r][k])
    BY DEF Rests
  <2>. QED  BY <1>1, <2>1, UsedSlots
<1>11. /\ QueueAt(P, Lv[p], q, p) /\ tail = At(q, Len(q)) /\ Lv[p] \in Level
       /\ q \in Seq(0..(SlotLimit - 1)) /\ DOMAIN q = 1..Len(q) /\ Len(q) \in Nat
  BY <1>2 DEF QueueAt
<1>12. tail \in SlotIndex /\ Neighbour(B, i, tail)
  <2>1. tail \in SlotIndex
    BY <1>11 DEF Level
  <2>2. tail = kNoSlot \/ \E k \in DOMAIN q : tail = q[k]
    BY <1>11 DEF At
  <2>. QED  BY <1>9, <1>10, <2>1, <2>2 DEF Neighbour
<1>13. /\ PoolOf(R, Held) /\ R.size = A.size /\ R.used = A.used
       /\ R.live = A.live /\ R.free_head = A.free_head
       /\ \A j \in Range0(A) :
              /\ R.slots[j].value = B.slots[j].value
              /\ R.slots[j].prev = IF j = i THEN tail ELSE B.slots[j].prev
              /\ R.slots[j].next = IF j = i THEN kNoSlot
                                   ELSE IF j = tail THEN i ELSE B.slots[j].next
  <2>1. PoolOf(B, Held) /\ i \in Range0(B)
    BY <1>1, <1>8, <1>9
  <2>2. Lv[p].tail \in SlotIndex /\ Neighbour(B, i, Lv[p].tail)
    BY <1>12
  <2>3. LET E == AppendLinks(B, Lv[p], i) IN
        /\ PoolOf(E, Held)
        /\ E.size = B.size /\ E.used = B.used /\ E.live = B.live
        /\ E.free_head = B.free_head
        /\ \A j \in Range0(B) :
               /\ E.slots[j].value = B.slots[j].value
               /\ E.slots[j].prev = IF j = i THEN Lv[p].tail ELSE B.slots[j].prev
               /\ E.slots[j].next = IF j = i THEN kNoSlot
                                    ELSE IF j = Lv[p].tail THEN i
                                    ELSE B.slots[j].next
    BY ONLY <2>1, <2>2, AppendLinksFacts
  <2>. QED  BY <1>8, <1>9, <2>3
<1>. HIDE DEF R, tail
<1>14. ASSUME NEW j \in Range0(P), j # i
       PROVE  /\ R.slots[j].value = P.slots[j].value
              /\ R.slots[j].prev = P.slots[j].prev
              /\ R.slots[j].next = IF j = tail THEN i ELSE P.slots[j].next
  BY <1>1, <1>8, <1>9, <1>13, <1>14
<1>15. /\ R.slots[i].value = v /\ R.slots[i].prev = tail
       /\ R.slots[i].next = kNoSlot
  BY <1>1, <1>7, <1>8, <1>13
\* The queue that grows.
<1>16. /\ a \in Seq(0..(SlotLimit - 1))
       /\ Len(a) = Len(q) + 1 /\ DOMAIN a = 1..(Len(q) + 1)
       /\ a[Len(q) + 1] = i /\ \A k \in 1..Len(q) : a[k] = q[k]
  <2>1. PICK T : T = 0..(SlotLimit - 1)
    OBVIOUS
  <2>2. q \in Seq(T) /\ i \in T
    BY <1>3, <1>11, <2>1
  <2>. HIDE DEF q
  <2>. QED  BY <2>1, <2>2
<1>17. /\ level \in Level /\ level.total_qty = Lv[p].total_qty + qty
       /\ level.head = IF tail = kNoSlot THEN i ELSE Lv[p].head
       /\ level.tail = i
  BY <1>1, <1>11, PoolAssumption DEF AppendLevel, Level, SlotIndex, tail
<1>18. QueueAt(R, level, a, p)
  <2>1. /\ Chain(R.slots, a) /\ At(a, Len(a)) = i
        /\ At(a, 1) = IF At(q, Len(q)) = kNoSlot THEN i ELSE At(q, 1)
    <3>1. q \in Seq(Nat) /\ Distinct(q) /\ Chain(P.slots, q)
      <4>1. q \in Seq(Nat)
        BY <1>11, QueuesAssumption
      <4>2. Distinct(q)
        BY <1>2 DEF Apart, Distinct
      <4>. QED  BY <1>11, <4>1, <4>2 DEF QueueAt
    <3>2. R.slots[i].prev = At(q, Len(q)) /\ R.slots[i].next = kNoSlot
      BY <1>11, <1>15
    <3>3. \A k \in DOMAIN q : q[k] # i /\ q[k] # kNoSlot
      BY <1>10
    <3>4. \A k \in DOMAIN q :
              /\ R.slots[q[k]].prev = P.slots[q[k]].prev
              /\ R.slots[q[k]].next = IF q[k] = At(q, Len(q)) THEN i
                                      ELSE P.slots[q[k]].next
      BY <1>10, <1>11, <1>14
    <3>5. i \in Nat
      BY <1>1
    <3>. HIDE DEF q
    <3>6. ASSUME NEW S, NEW T, S = P.slots, T = R.slots
          PROVE  /\ Chain(T, a) /\ At(a, Len(a)) = i
                 /\ At(a, 1) = IF At(q, Len(q)) = kNoSlot THEN i ELSE At(q, 1)
      <4>1. Chain(S, q) /\ T[i].prev = At(q, Len(q)) /\ T[i].next = kNoSlot
        BY <3>1, <3>2, <3>6
      <4>2. \A k \in DOMAIN q :
                /\ T[q[k]].prev = S[q[k]].prev
                /\ T[q[k]].next = IF q[k] = At(q, Len(q)) THEN i
                                  ELSE S[q[k]].next
        BY <3>4, <3>6
      <4>. QED  BY ONLY <3>1, <3>3, <3>5, <4>1, <4>2, AppendChain
    <3>. QED  BY <3>6
  <2>. HIDE DEF a, level, q
  <2>2. level.head = At(a, 1) /\ level.tail = At(a, Len(a))
    BY <1>11, <1>17, <2>1 DEF QueueAt
  <2>3. \A k \in 1..Len(q) : R.slots[a[k]].value = P.slots[q[k]].value
    BY <1>10, <1>11, <1>14, <1>16 DEF q
  <2>4. \A k \in DOMAIN a : /\ R.slots[a[k]].value \in Value
                            /\ R.slots[a[k]].value.price = p
    <3>. SUFFICES ASSUME NEW k \in 1..(Len(q) + 1)
                  PROVE  /\ R.slots[a[k]].value \in Value
                         /\ R.slots[a[k]].value.price = p
      BY <1>16
    <3>1. CASE k = Len(q) + 1
      BY <1>5, <1>15, <1>16, <3>1
    <3>2. CASE k # Len(q) + 1
      <4>1. k \in 1..Len(q)
        BY <1>11, <3>2
      <4>. QED  BY <1>11, <2>3, <4>1 DEF QueueAt
    <3>. QED  BY <3>1, <3>2
  <2>5. HasSum(Qtys(R, a), Len(a), level.total_qty)
    <3>1. HasSum(Qtys(P, q), Len(q), Lv[p].total_qty)
      BY <1>11 DEF QueueAt
    <3>2. Qtys(R, a)[Len(q) + 1] = qty
      <4>1. Len(q) + 1 \in DOMAIN a
        BY <1>11, <1>16
      <4>. QED  BY <1>5, <1>15, <1>16, <4>1 DEF Qtys
    <3>3. \A k \in 1..Len(q) : Qtys(R, a)[k] = Qtys(P, q)[k]
      <4>1. \A k \in 1..Len(q) : k \in DOMAIN a /\ k \in DOMAIN q
        BY <1>11, <1>16
      <4>. QED  BY <2>3, <4>1 DEF Qtys
    <3>4. qty \in Nat
      OBVIOUS
    <3>5. HasSum(Qtys(R, a), Len(q) + 1, Lv[p].total_qty + qty)
      BY <1>11, <3>1, <3>2, <3>3, <3>4, HasSumAppend
    <3>. QED  BY <1>16, <1>17, <3>5
  <2>. QED  BY <2>1, <2>2, <2>4, <2>5 DEF QueueAt
\* The other queues.
<1>19. ASSUME NEW r \in Prices, r # p
       PROVE  QueueAt(R, Lv[r], Q[r], r)
  <2>1. \A k \in DOMAIN Q[r] : Q[r][k] # tail
    <3>1. tail = kNoSlot \/ \E k \in DOMAIN q : tail = q[k]
      BY <1>11 DEF At
    <3>2. \A k \in DOMAIN Q[r], j \in DOMAIN q : Q[r][k] # q[j]
      BY <1>2, <1>19 DEF Apart
    <3>. QED  BY <1>10, <3>1, <3>2
  <2>2. \A k \in DOMAIN Q[r] :
            /\ R.slots[Q[r][k]].value = P.slots[Q[r][k]].value
            /\ R.slots[Q[r][k]].prev = P.slots[Q[r][k]].prev
            /\ R.slots[Q[r][k]].next = P.slots[Q[r][k]].next
    BY <1>10, <1>14, <2>1
  <2>. QED  BY <1>2, <2>2, QueueFrame
<1>20. /\ K \in [Prices -> Level] /\ J \in [Prices -> Seq(0..(SlotLimit - 1))]
       /\ K[p] = level /\ J[p] = a
       /\ \A r \in Prices : r # p => K[r] = Lv[r] /\ J[r] = Q[r]
  BY <1>2, <1>16, <1>17
<1>. HIDE DEF K, J, a, level
<1>21. \A r \in Prices : QueueAt(R, K[r], J[r], r)
  BY <1>18, <1>19, <1>20
<1>22. \A j : Rests(J, j) <=> j = i \/ Rests(Q, j)
  <2>1. Rests(J, i)
    <3>1. Len(q) + 1 \in DOMAIN J[p] /\ J[p][Len(q) + 1] = i
      BY <1>11, <1>16, <1>20
    <3>. QED  BY <3>1 DEF Rests
  <2>2. ASSUME NEW j, Rests(Q, j)  PROVE Rests(J, j)
    <3>1. PICK r \in Prices : \E k \in DOMAIN Q[r] : Q[r][k] = j
      BY <2>2 DEF Rests
    <3>2. PICK k \in DOMAIN Q[r] : Q[r][k] = j
      BY <3>1
    <3>3. k \in DOMAIN J[r] /\ J[r][k] = j
      <4>1. CASE r # p
        BY <1>20, <3>2, <4>1
      <4>2. CASE r = p
        <5>1. k \in 1..Len(q) /\ k \in 1..(Len(q) + 1)
          BY <1>11, <3>2, <4>2
        <5>. QED  BY <1>16, <1>20, <3>2, <4>2, <5>1
      <4>. QED  BY <4>1, <4>2
    <3>. QED  BY <3>3 DEF Rests
  <2>3. ASSUME NEW j, Rests(J, j)  PROVE j = i \/ Rests(Q, j)
    <3>1. PICK r \in Prices : \E k \in DOMAIN J[r] : J[r][k] = j
      BY <2>3 DEF Rests
    <3>2. PICK k \in DOMAIN J[r] : J[r][k] = j
      BY <3>1
    <3>3. CASE r # p
      BY <1>20, <3>2, <3>3 DEF Rests
    <3>4. CASE r = p
      <4>1. k = Len(q) + 1 \/ k \in DOMAIN q
        BY <1>11, <1>16, <1>20, <3>2, <3>4
      <4>. QED  BY <1>11, <1>16, <1>20, <3>2, <3>4, <4>1 DEF Rests
    <3>. QED  BY <3>3, <3>4
  <2>. QED  BY <2>1, <2>2, <2>3
<1>23. Apart(J, G, L)
  <2>1. \A j : /\ ~(Rests(J, j) /\ Free(G, j)) /\ ~(Rests(J, j) /\ j \in L)
               /\ ~(Free(G, j) /\ j \in L)
    BY <1>1, <1>2, <1>22 DEF Apart
  <2>2. ASSUME NEW r \in Prices, NEW k \in DOMAIN J[r]
        PROVE  \/ k \in DOMAIN Q[r] /\ J[r][k] = Q[r][k] /\ J[r][k] # i
               \/ r = p /\ k = Len(q) + 1 /\ J[r][k] = i
    <3>1. CASE r # p
      BY <1>10, <1>20, <3>1
    <3>2. CASE r = p
      <4>1. k = Len(q) + 1 \/ k \in DOMAIN q
        BY <1>11, <1>16, <1>20, <3>2
      <4>. QED  BY <1>10, <1>11, <1>16, <1>20, <3>2, <4>1
    <3>. QED  BY <3>1, <3>2
  <2>3. \A r, t \in Prices : \A j \in DOMAIN J[r], k \in DOMAIN J[t] :
            J[r][j] = J[t][k] => r = t /\ j = k
    <3>1. \A r, t \in Prices : \A j \in DOMAIN Q[r], k \in DOMAIN Q[t] :
              Q[r][j] = Q[t][k] => r = t /\ j = k
      BY <1>2 DEF Apart
    <3>. HIDE DEF q
    <3>. QED  BY <2>2, <3>1
  <2>. QED  BY <1>1, <2>1, <2>3 DEF Apart
<1>24. Covered(R, J, G, L)
  BY <1>1, <1>13, <1>22 DEF Covered
<1>25. FreeList(R, G)
  <2>1. \A k \in DOMAIN G : R.slots[G[k]].next = A.slots[G[k]].next
    <3>. SUFFICES ASSUME NEW k \in DOMAIN G
                  PROVE  R.slots[G[k]].next = A.slots[G[k]].next
      OBVIOUS
    <3>1. Free(G, G[k])
      BY DEF Free
    <3>2. G[k] \in Range0(P) /\ G[k] # i /\ G[k] # kNoSlot /\ Free(F, G[k])
      BY <1>1, <3>1, UsedSlots
    <3>3. G[k] # tail
      <4>1. tail = kNoSlot \/ Rests(Q, tail)
        BY <1>10, <1>11 DEF At
      <4>. QED  BY <1>2, <3>2, <4>1 DEF Apart
    <3>. QED  BY <1>1, <1>14, <3>2, <3>3
  <2>. QED  BY <1>1, <1>13, <2>1 DEF FreeList
<1>. QED  BY <1>1, <1>2, <1>4, <1>13, <1>20, <1>21, <1>23, <1>24, <1>25
          DEF Good, R, K, J, i, A, G, v

\* A pool whose values are all in W is a pool of W.
LEMMA Retyped ==
    ASSUME NEW V, NEW W, NEW P, PoolOf(P, V),
           \A j \in Range0(P) : P.slots[j].value \in W
    PROVE  PoolOf(P, W)
<1>1. /\ P.size \in 1..kNoSlot
      /\ P \in PoolRecord([Range0(P) -> SlotOf(V)], 1..kNoSlot, 0..P.size)
  BY PoolIsRecord
<1>2. P.slots \in [Range0(P) -> SlotOf(V)]
  BY <1>1 DEF PoolRecord
<1>3. \A j \in Range0(P) : P.slots[j] \in SlotOf(W)
  <2>. SUFFICES ASSUME NEW j \in Range0(P)  PROVE P.slots[j] \in SlotOf(W)
    OBVIOUS
  <2>1. P.slots[j] \in SlotOf(V) /\ P.slots[j].value \in W
    BY <1>2
  <2>. QED  BY <2>1 DEF SlotOf
<1>4. P.slots \in [Range0(P) -> SlotOf(W)]
  BY <1>2, <1>3
<1>5. P \in PoolRecord([Range0(P) -> SlotOf(W)], 1..kNoSlot, 0..P.size)
  BY <1>1, <1>4 DEF PoolRecord
<1>. QED  BY <1>1, <1>5, PoolIsRecord

\* detach(): the order in position m of the queue at p leaves, and its slot is
\* free. The pool P1 and the level may already have been charged a last fill.
LEMMA LeaveQueue ==
    ASSUME NEW P, NEW Lv, NEW Q, NEW F, NEW L, Good(P, Lv, Q, F, L),
           NEW p \in Prices, NEW m \in DOMAIN Q[p],
           NEW i, i = Q[p][m],
           NEW V, Garbage \in V, NEW P1, PoolOf(P1, V),
           P1.size = P.size, P1.used = P.used, P1.live = P.live,
           P1.free_head = P.free_head,
           P1.slots[i].prev = P.slots[i].prev, P1.slots[i].next = P.slots[i].next,
           \A j \in Range0(P) : j # i => P1.slots[j] = P.slots[j],
           NEW before, before.head = Lv[p].head, before.tail = Lv[p].tail,
           before.total_qty - P1.slots[i].value.qty
               = Lv[p].total_qty - P.slots[i].value.qty
    PROVE  Good(Release(DetachLinks(P1, i), i),
                [Lv EXCEPT ![p] = DetachLevel(before, P1.slots[i])],
                [Q EXCEPT ![p] = Without(@, i)], <<i>> \o F, L)
<1>. DEFINE R == Release(DetachLinks(P1, i), i)
            q == Q[p]
            b == Without(q, i)
            level == DetachLevel(before, P1.slots[i])
            K == [Lv EXCEPT ![p] = level]
            J == [Q EXCEPT ![p] = b]
            G == <<i>> \o F
            x == P.slots[i].prev
            y == P.slots[i].next
<1>1. /\ Lv \in [Prices -> Level] /\ Q \in [Prices -> Seq(0..(SlotLimit - 1))]
      /\ L \subseteq SlotLimit..(kNoSlot - 1) /\ F \in Seq(0..(kNoSlot - 1))
      /\ \A r \in Prices : QueueAt(P, Lv[r], Q[r], r)
      /\ Apart(Q, F, L) /\ Covered(P, Q, F, L) /\ PoolOf(P, Held)
      /\ FreeList(P, F) /\ P.live + Len(F) = P.used
  BY DEF Good
<1>2. \A r \in Prices : \A k \in DOMAIN Q[r] :
           /\ Rests(Q, Q[r][k]) /\ Q[r][k] # kNoSlot
           /\ Q[r][k] \in Range0(P) /\ Q[r][k] \in Nat
  <2>1. \A r \in Prices : \A k \in DOMAIN Q[r] : Rests(Q, Q[r][k])
    BY DEF Rests
  <2>. QED  BY <2>1, UsedSlots
<1>3. /\ i \in Range0(P) /\ i # kNoSlot /\ i \in Nat /\ Rests(Q, i)
      /\ P.size \in 1..kNoSlot /\ i < kNoSlot /\ i \in 0..(kNoSlot - 1)
  <2>1. i \in Range0(P) /\ i # kNoSlot /\ i \in Nat /\ Rests(Q, i)
    BY <1>2
  <2>2. P.size \in 1..kNoSlot
    BY <1>1 DEF PoolOf
  <2>. QED  BY <2>1, <2>2, PoolAssumption DEF Range0
<1>4. /\ QueueAt(P, Lv[p], q, p) /\ Lv[p] \in Level
      /\ q \in Seq(0..(SlotLimit - 1)) /\ q \in Seq(Nat)
      /\ DOMAIN q = 1..Len(q) /\ Len(q) \in Nat /\ m \in 1..Len(q)
      /\ Distinct(q) /\ Chain(P.slots, q) /\ q[m] = i
  <2>1. q \in Seq(0..(SlotLimit - 1)) /\ QueueAt(P, Lv[p], q, p) /\ Lv[p] \in Level
    BY <1>1
  <2>2. q \in Seq(Nat)
    BY <2>1, QueuesAssumption
  <2>3. Distinct(q)
    BY <1>1 DEF Apart, Distinct
  <2>. QED  BY <2>1, <2>2, <2>3 DEF QueueAt
<1>5. \A k \in DOMAIN q : /\ Rests(Q, q[k]) /\ q[k] # kNoSlot
                          /\ q[k] \in Range0(P) /\ q[k] \in Nat
  BY <1>2
<1>6. /\ x = At(q, m - 1) /\ y = At(q, m + 1)
      /\ x = kNoSlot \/ \E k \in DOMAIN q : x = q[k] /\ k # m
      /\ y = kNoSlot \/ \E k \in DOMAIN q : y = q[k] /\ k # m
  <2>1. x = At(q, m - 1) /\ y = At(q, m + 1)
    BY <1>4 DEF Chain
  <2>2. m - 1 # m /\ m + 1 # m
    BY <1>4
  <2>. QED  BY <2>1, <2>2 DEF At
<1>7. /\ x = kNoSlot \/ (x # i /\ x \in Range0(P) /\ Rests(Q, x))
      /\ y = kNoSlot \/ (y # i /\ y \in Range0(P) /\ Rests(Q, y))
  BY <1>4, <1>5, <1>6 DEF Distinct
<1>. HIDE DEF q
<1>8. Range0(P1) = Range0(P)
  BY DEF Range0
<1>9. /\ PoolOf(R, V)
      /\ R.size = P.size /\ R.used = P.used /\ R.live = P.live - 1
      /\ R.free_head = i
      /\ R.slots[i].next = P.free_head /\ R.slots[i].value = Garbage
      /\ \A j \in Range0(P) : j # i =>
             /\ R.slots[j].value = P.slots[j].value
             /\ R.slots[j].prev = IF j = y THEN x ELSE P.slots[j].prev
             /\ R.slots[j].next = IF j = x THEN y ELSE P.slots[j].next
  <2>1. /\ i \in Range0(P1)
        /\ Neighbour(P1, i, P1.slots[i].prev) /\ Neighbour(P1, i, P1.slots[i].next)
    BY <1>3, <1>7, <1>8 DEF Neighbour
  <2>2. /\ PoolOf(R, V)
        /\ R.size = P1.size /\ R.used = P1.used /\ R.live = P1.live - 1
        /\ R.free_head = i
        /\ R.slots[i].next = P1.free_head /\ R.slots[i].value = Garbage
        /\ \A j \in Range0(P1) : j # i =>
               /\ R.slots[j].value = P1.slots[j].value
               /\ R.slots[j].prev = IF j = P1.slots[i].next THEN P1.slots[i].prev
                                    ELSE P1.slots[j].prev
               /\ R.slots[j].next = IF j = P1.slots[i].prev THEN P1.slots[i].next
                                    ELSE P1.slots[j].next
    <3>1. PoolOf(P1, V) /\ Garbage \in V
      OBVIOUS
    <3>. QED  BY ONLY <2>1, <3>1, DetachFacts
  <2>. HIDE DEF R
  <2>. QED  BY <1>8, <2>2
<1>. HIDE DEF R
<1>10. PoolOf(R, Held)
  <2>1. Range0(R) = Range0(P)
    BY <1>9 DEF Range0
  <2>2. \A j \in Range0(P) : P.slots[j].value \in Held
    BY <1>1 DEF PoolOf, Range0, SlotOf
  <2>3. \A j \in Range0(R) : R.slots[j].value \in Held
    BY <1>9, <2>1, <2>2 DEF Held
  <2>. QED  BY <1>9, <2>3, Retyped
\* The queue that shrinks.
<1>11. b = RemoveAt(q, m)
  <2>1. (CHOOSE k \in DOMAIN q : q[k] = i) = m
    BY <1>4 DEF Distinct
  <2>. QED  BY <2>1 DEF Without
<1>12. /\ b \in Seq(0..(SlotLimit - 1)) /\ Len(b) = Len(q) - 1
       /\ DOMAIN b = 1..(Len(q) - 1)
       /\ \A k \in 1..(Len(q) - 1) : b[k] = IF k < m THEN q[k] ELSE q[k + 1]
  <2>1. PICK T : T = 0..(SlotLimit - 1)
    OBVIOUS
  <2>2. q \in Seq(T) /\ m \in 1..Len(q)
    BY <1>4, <2>1
  <2>3. /\ RemoveAt(q, m) \in Seq(T) /\ Len(RemoveAt(q, m)) = Len(q) - 1
        /\ \A k \in 1..(Len(q) - 1) :
               RemoveAt(q, m)[k] = IF k < m THEN q[k] ELSE q[k + 1]
    BY <2>2, RemoveAtFacts, Zenon
  <2>. HIDE DEF b
  <2>4. /\ b \in Seq(T) /\ Len(b) = Len(q) - 1
        /\ \A k \in 1..(Len(q) - 1) : b[k] = IF k < m THEN q[k] ELSE q[k + 1]
    BY <1>11, <2>3
  <2>5. DOMAIN b = 1..(Len(q) - 1)
    BY <2>4
  <2>. QED  BY <2>1, <2>4, <2>5
<1>. HIDE DEF b
<1>13. \A k \in DOMAIN b : \E l \in DOMAIN q : l # m /\ b[k] = q[l]
                                               /\ l = IF k < m THEN k ELSE k + 1
  BY <1>4, <1>12
<1>14. P.slots[i].value \in Value /\ P.slots[i].value.qty \in Nat
  BY <1>4, QueuesAssumption DEF QueueAt, Value
<1>15. /\ level \in Level
       /\ level.total_qty = Lv[p].total_qty - P.slots[i].value.qty
       /\ level.head = IF x = kNoSlot THEN y ELSE Lv[p].head
       /\ level.tail = IF y = kNoSlot THEN x ELSE Lv[p].tail
  <2>1. /\ Lv[p].total_qty \in Int /\ Lv[p].head \in SlotIndex
        /\ Lv[p].tail \in SlotIndex
    BY <1>4 DEF Level
  <2>2. x \in SlotIndex /\ y \in SlotIndex
    <3>1. P.slots[i] \in SlotOf(Held)
      BY <1>1, <1>3 DEF PoolOf, Range0
    <3>. QED  BY <3>1 DEF SlotOf
  <2>3. /\ level.total_qty = before.total_qty - P1.slots[i].value.qty
        /\ level.head = IF x = kNoSlot THEN y ELSE Lv[p].head
        /\ level.tail = IF y = kNoSlot THEN x ELSE Lv[p].tail
    BY DEF DetachLevel
  <2>4. level = [total_qty |-> level.total_qty, head |-> level.head,
                 tail |-> level.tail]
    BY DEF DetachLevel
  <2>. HIDE DEF level, x, y
  <2>5. level.total_qty \in Int
    BY <1>14, <2>1, <2>3
  <2>. QED  BY <2>1, <2>2, <2>3, <2>4, <2>5 DEF Level
<1>. HIDE DEF level
<1>16. ASSUME NEW k \in DOMAIN q, k # m
       PROVE  /\ q[k] # i
              /\ R.slots[q[k]].value = P.slots[q[k]].value
              /\ R.slots[q[k]].prev = IF q[k] = y THEN x ELSE P.slots[q[k]].prev
              /\ R.slots[q[k]].next = IF q[k] = x THEN y ELSE P.slots[q[k]].next
  <2>1. q[k] # i
    BY <1>4, <1>16 DEF Distinct
  <2>. QED  BY <1>5, <1>9, <2>1
<1>17. QueueAt(R, level, b, p)
  <2>1. /\ Chain(R.slots, b)
        /\ At(b, 1) = IF x = kNoSlot THEN y ELSE At(q, 1)
        /\ At(b, Len(b)) = IF y = kNoSlot THEN x ELSE At(q, Len(q))
    <3>1. q \in Seq(Nat) /\ Distinct(q) /\ Chain(P.slots, q) /\ m \in DOMAIN q
      BY <1>4
    <3>2. \A k \in DOMAIN q : q[k] # kNoSlot
      BY <1>5
    <3>3. ASSUME NEW S, NEW T, S = P.slots, T = R.slots
          PROVE  LET r == RemoveAt(q, m) IN
                 /\ Chain(T, r)
                 /\ At(r, 1) = IF x = kNoSlot THEN y ELSE At(q, 1)
                 /\ At(r, Len(r)) = IF y = kNoSlot THEN x ELSE At(q, Len(q))
      <4>1. x = S[q[m]].prev /\ y = S[q[m]].next /\ Chain(S, q)
        BY <1>4, <3>1, <3>3
      <4>. HIDE DEF x, y
      <4>2. \A k \in DOMAIN q : k # m =>
                /\ T[q[k]].prev = IF q[k] = S[q[m]].next THEN S[q[m]].prev
                                  ELSE S[q[k]].prev
                /\ T[q[k]].next = IF q[k] = S[q[m]].prev THEN S[q[m]].next
                                  ELSE S[q[k]].next
        BY <1>16, <3>3, <4>1
      <4>3. LET r == RemoveAt(q, m) IN
            /\ Chain(T, r)
            /\ At(r, 1) = IF S[q[m]].prev = kNoSlot THEN S[q[m]].next
                          ELSE At(q, 1)
            /\ At(r, Len(r)) = IF S[q[m]].next = kNoSlot THEN S[q[m]].prev
                               ELSE At(q, Len(q))
        BY ONLY <3>1, <3>2, <4>1, <4>2, DetachChain, ZenonT(60)
      <4>. QED  BY <4>1, <4>3
    <3>. QED  BY <1>11, <3>3
  <2>2. level.head = At(b, 1) /\ level.tail = At(b, Len(b))
    <3>1. Lv[p].head = At(q, 1) /\ Lv[p].tail = At(q, Len(q))
      BY <1>4 DEF QueueAt
    <3>. QED  BY <1>15, <2>1, <3>1
  <2>3. \A k \in DOMAIN b : /\ R.slots[b[k]].value \in Value
                            /\ R.slots[b[k]].value.price = p
    <3>1. \A l \in DOMAIN q : /\ P.slots[q[l]].value \in Value
                              /\ P.slots[q[l]].value.price = p
      BY <1>4 DEF QueueAt
    <3>. QED  BY <1>13, <1>16, <3>1
  <2>4. HasSum(Qtys(R, b), Len(b), level.total_qty)
    <3>. DEFINE w == Qtys(P, q)
                v == Qtys(R, b)
    <3>1. HasSum(w, Len(q), Lv[p].total_qty)
      BY <1>4 DEF QueueAt
    <3>2. w[m] = P.slots[i].value.qty
      BY <1>4 DEF Qtys
    <3>3. \A k \in 1..(Len(q) - 1) : v[k] = IF k < m THEN w[k] ELSE w[k + 1]
      <4>. SUFFICES ASSUME NEW k \in 1..(Len(q) - 1)
                    PROVE  v[k] = IF k < m THEN w[k] ELSE w[k + 1]
        OBVIOUS
      <4>1. k \in DOMAIN b
        BY <1>12
      <4>2. PICK l \in DOMAIN q : l # m /\ b[k] = q[l]
                                  /\ l = IF k < m THEN k ELSE k + 1
        BY <1>13, <4>1
      <4>3. v[k] = R.slots[b[k]].value.qty /\ w[l] = P.slots[q[l]].value.qty
        BY <4>1 DEF Qtys
      <4>4. v[k] = w[l]
        BY <1>16, <4>2, <4>3
      <4>. QED  BY <4>2, <4>4
    <3>. HIDE DEF w, v
    <3>4. HasSum(v, Len(q) - 1, Lv[p].total_qty - w[m])
      BY <1>4, <1>14, <3>1, <3>2, <3>3, HasSumRemove
    <3>. QED  BY <1>12, <1>15, <3>2, <3>4 DEF v
  <2>. QED  BY <2>1, <2>2, <2>3, <2>4 DEF QueueAt
\* The other queues.
<1>18. ASSUME NEW r \in Prices, r # p
       PROVE  QueueAt(R, Lv[r], Q[r], r)
  <2>1. \A k \in DOMAIN Q[r], l \in DOMAIN q : Q[r][k] # q[l]
    BY <1>1, <1>18 DEF Apart, q
  <2>2. \A k \in DOMAIN Q[r] : Q[r][k] # x /\ Q[r][k] # y /\ Q[r][k] # i
    BY <1>2, <1>4, <1>6, <2>1
  <2>3. \A k \in DOMAIN Q[r] :
            /\ R.slots[Q[r][k]].value = P.slots[Q[r][k]].value
            /\ R.slots[Q[r][k]].prev = P.slots[Q[r][k]].prev
            /\ R.slots[Q[r][k]].next = P.slots[Q[r][k]].next
    BY <1>2, <1>9, <2>2
  <2>. QED  BY <1>1, <2>3, QueueFrame
<1>19. /\ K \in [Prices -> Level] /\ J \in [Prices -> Seq(0..(SlotLimit - 1))]
       /\ K[p] = level /\ J[p] = b
       /\ \A r \in Prices : r # p => K[r] = Lv[r] /\ J[r] = Q[r]
  BY <1>1, <1>12, <1>15
<1>20. K = [Lv EXCEPT ![p] = DetachLevel(before, P1.slots[i])]
       /\ J = [Q EXCEPT ![p] = Without(@, i)]
  BY DEF level, b, q
<1>. HIDE DEF K, J
<1>21. \A r \in Prices : QueueAt(R, K[r], J[r], r)
  BY <1>17, <1>18, <1>19
<1>22. \A r \in Prices : \A k \in DOMAIN J[r] :
           /\ J[r][k] # i
           /\ \E l \in DOMAIN Q[r] : /\ J[r][k] = Q[r][l]
                                     /\ l = IF r = p /\ ~(k < m) THEN k + 1 ELSE k
  <2>. SUFFICES ASSUME NEW r \in Prices, NEW k \in DOMAIN J[r]
                PROVE  /\ J[r][k] # i
                       /\ \E l \in DOMAIN Q[r] :
                              /\ J[r][k] = Q[r][l]
                              /\ l = IF r = p /\ ~(k < m) THEN k + 1 ELSE k
    OBVIOUS
  <2>1. CASE r # p
    <3>1. J[r] = Q[r]
      BY <1>19, <2>1
    <3>2. Q[r][k] # i
      BY <1>1, <2>1, <3>1 DEF Apart
    <3>. QED  BY <2>1, <3>1, <3>2
  <2>2. CASE r = p
    <3>1. J[r] = b /\ k \in DOMAIN b /\ Q[r] = q
      BY <1>19, <2>2 DEF q
    <3>2. PICK l \in DOMAIN q : /\ l # m /\ b[k] = q[l]
                                /\ l = IF k < m THEN k ELSE k + 1
      BY <1>13, <3>1
    <3>3. q[l] # i
      BY <1>16, <3>2
    <3>4. l = IF r = p /\ ~(k < m) THEN k + 1 ELSE k
      BY <2>2, <3>2
    <3>. QED  BY <3>1, <3>2, <3>3, <3>4
  <2>. QED  BY <2>1, <2>2
<1>23. \A j : Rests(Q, j) <=> j = i \/ Rests(J, j)
  <2>1. ASSUME NEW j, Rests(J, j)  PROVE Rests(Q, j)
    BY <1>22, <2>1 DEF Rests
  <2>2. ASSUME NEW j, Rests(Q, j), j # i  PROVE Rests(J, j)
    <3>1. PICK r \in Prices : \E k \in DOMAIN Q[r] : Q[r][k] = j
      BY <2>2 DEF Rests
    <3>2. PICK k \in DOMAIN Q[r] : Q[r][k] = j
      BY <3>1
    <3>3. CASE r # p
      BY <1>19, <3>2, <3>3 DEF Rests
    <3>4. CASE r = p
      <4>1. q[k] = j /\ k \in 1..Len(q) /\ k # m
        BY <1>4, <2>2, <3>2, <3>4 DEF q
      <4>2. CASE k < m
        <5>1. k \in 1..(Len(q) - 1) /\ b[k] = j
          BY <1>4, <1>12, <4>1, <4>2
        <5>. QED  BY <1>12, <1>19, <5>1 DEF Rests
      <4>3. CASE ~(k < m)
        <5>1. k - 1 \in 1..(Len(q) - 1) /\ ~(k - 1 < m) /\ (k - 1) + 1 = k
          BY <1>4, <4>1, <4>3
        <5>2. b[k - 1] = j
          BY <1>12, <4>1, <5>1
        <5>. QED  BY <1>12, <1>19, <5>1, <5>2 DEF Rests
      <4>. QED  BY <4>2, <4>3
    <3>. QED  BY <3>3, <3>4
  <2>. QED  BY <1>3, <2>1, <2>2
<1>24. ~Rests(J, i)
  BY <1>22 DEF Rests
\* The free list.
<1>25. /\ G \in Seq(0..(kNoSlot - 1)) /\ Len(G) = Len(F) + 1 /\ Len(F) \in Nat
       /\ DOMAIN G = 1..(Len(F) + 1) /\ G[1] = i /\ DOMAIN F = 1..Len(F)
       /\ \A k \in 2..(Len(F) + 1) : G[k] = F[k - 1]
  <2>1. PICK T : T = 0..(kNoSlot - 1)
    OBVIOUS
  <2>2. F \in Seq(T) /\ i \in T
    BY <1>1, <1>3, <2>1
  <2>3. /\ G \in Seq(T) /\ Len(G) = Len(F) + 1 /\ Len(F) \in Nat
        /\ G[1] = i /\ DOMAIN F = 1..Len(F)
        /\ \A k \in 2..(Len(F) + 1) : G[k] = F[k - 1]
    BY <2>2
  <2>. HIDE DEF G
  <2>4. DOMAIN G = 1..(Len(F) + 1)
    BY <2>3
  <2>. QED  BY <2>1, <2>3, <2>4
<1>. HIDE DEF G
<1>26. \A k \in DOMAIN G : k = 1 \/ (k - 1 \in DOMAIN F /\ G[k] = F[k - 1] /\ k # 1)
  BY <1>25
<1>27. \A j : Free(G, j) <=> j = i \/ Free(F, j)
  <2>1. ASSUME NEW j, Free(G, j)  PROVE j = i \/ Free(F, j)
    BY <1>25, <1>26, <2>1 DEF Free
  <2>2. ASSUME NEW j, Free(F, j)  PROVE Free(G, j)
    <3>1. PICK k \in DOMAIN F : F[k] = j
      BY <2>2 DEF Free
    <3>2. k + 1 \in 2..(Len(F) + 1) /\ (k + 1) - 1 = k /\ k + 1 \in DOMAIN G
      BY <1>25
    <3>. QED  BY <1>25, <3>1, <3>2 DEF Free
  <2>3. Free(G, i)
    <3>1. 1 \in DOMAIN G
      BY <1>25
    <3>. QED  BY <1>25, <3>1 DEF Free
  <2>. QED  BY <2>1, <2>2, <2>3
<1>28. ~Free(F, i) /\ i \notin L
  BY <1>1, <1>3 DEF Apart
<1>29. FreeList(R, G)
  <2>1. R.free_head = At(G, 1)
    BY <1>9, <1>25 DEF At
  <2>2. ASSUME NEW k \in DOMAIN G  PROVE R.slots[G[k]].next = At(G, k + 1)
    <3>1. CASE k = 1
      <4>1. At(G, 2) = At(F, 1)
        BY <1>25 DEF At
      <4>. QED  BY <1>1, <1>9, <1>25, <3>1, <4>1 DEF FreeList
    <3>2. CASE k # 1
      <4>1. k - 1 \in DOMAIN F /\ G[k] = F[k - 1]
        BY <1>26, <3>2
      <4>2. Free(F, F[k - 1])
        BY <4>1 DEF Free
      <4>3. F[k - 1] \in Range0(P) /\ F[k - 1] # i /\ F[k - 1] # kNoSlot
        BY <1>28, <4>2, UsedSlots
      <4>4. F[k - 1] # x
        BY <1>1, <1>7, <4>2, <4>3 DEF Apart
      <4>5. R.slots[F[k - 1]].next = P.slots[F[k - 1]].next
        BY <1>9, <4>3, <4>4
      <4>6. P.slots[F[k - 1]].next = At(F, k)
        <5>1. (k - 1) + 1 = k
          BY <1>25
        <5>. QED  BY <1>1, <4>1, <5>1 DEF FreeList
      <4>7. At(F, k) = At(G, k + 1)
        BY <1>25 DEF At
      <4>. QED  BY <4>1, <4>5, <4>6, <4>7
    <3>. QED  BY <3>1, <3>2
  <2>. QED  BY <2>1, <2>2 DEF FreeList
<1>30. Apart(J, G, L)
  <2>1. \A r, t \in Prices : \A j \in DOMAIN J[r], k \in DOMAIN J[t] :
            J[r][j] = J[t][k] => r = t /\ j = k
    <3>. SUFFICES ASSUME NEW r \in Prices, NEW t \in Prices,
                         NEW j \in DOMAIN J[r], NEW k \in DOMAIN J[t],
                         J[r][j] = J[t][k]
                  PROVE  r = t /\ j = k
      OBVIOUS
    <3>1. PICK l \in DOMAIN Q[r] : /\ J[r][j] = Q[r][l]
                                   /\ l = IF r = p /\ ~(j < m) THEN j + 1 ELSE j
      BY <1>22
    <3>2. PICK n \in DOMAIN Q[t] : /\ J[t][k] = Q[t][n]
                                   /\ n = IF t = p /\ ~(k < m) THEN k + 1 ELSE k
      BY <1>22
    <3>3. r = t /\ l = n
      <4>1. Q[r][l] = Q[t][n]
        BY <3>1, <3>2
      <4>2. \A c, d \in Prices : \A e \in DOMAIN Q[c], g \in DOMAIN Q[d] :
                Q[c][e] = Q[d][g] => c = d /\ e = g
        BY <1>1 DEF Apart
      <4>. QED  BY ONLY <4>1, <4>2, r \in Prices, t \in Prices,
                        l \in DOMAIN Q[r], n \in DOMAIN Q[t]
    <3>4. CASE r # p
      BY <3>1, <3>2, <3>3, <3>4
    <3>5. CASE r = p
      <4>1. j \in 1..(Len(q) - 1) /\ k \in 1..(Len(q) - 1)
        BY <1>12, <1>19, <3>3, <3>5
      <4>. QED  BY <1>4, <3>1, <3>2, <3>3, <3>5, <4>1
    <3>. QED  BY <3>4, <3>5
  <2>2. Distinct(G)
    <3>. SUFFICES ASSUME NEW j \in DOMAIN G, NEW k \in DOMAIN G, G[j] = G[k]
                  PROVE  j = k
      BY DEF Distinct
    <3>1. \A l \in DOMAIN F : F[l] # i
      BY <1>28 DEF Free
    <3>2. CASE j = 1 \/ k = 1
      BY <1>25, <1>26, <3>1, <3>2
    <3>3. CASE ~(j = 1 \/ k = 1)
      <4>1. /\ j - 1 \in DOMAIN F /\ G[j] = F[j - 1]
            /\ k - 1 \in DOMAIN F /\ G[k] = F[k - 1]
        BY <1>26, <3>3
      <4>2. Distinct(F) /\ F[j - 1] = F[k - 1]
        BY <1>1, <4>1 DEF Apart
      <4>3. j - 1 = k - 1
        BY <4>1, <4>2 DEF Distinct
      <4>. QED  BY <1>25, <4>3
    <3>. QED  BY <3>2, <3>3
  <2>3. \A j : /\ ~(Rests(J, j) /\ Free(G, j)) /\ ~(Rests(J, j) /\ j \in L)
               /\ ~(Free(G, j) /\ j \in L)
    BY <1>1, <1>23, <1>24, <1>27, <1>28 DEF Apart
  <2>. QED  BY <2>1, <2>2, <2>3 DEF Apart
<1>31. Covered(R, J, G, L)
  BY <1>1, <1>9, <1>23, <1>27 DEF Covered
<1>32. R.live + Len(G) = R.used
  <2>1. P.live \in Int /\ P.used \in Int
    BY <1>1 DEF PoolOf
  <2>. QED  BY <1>1, <1>9, <1>25, <2>1
<1>33. Good(R, K, J, G, L)
  BY <1>1, <1>10, <1>19, <1>21, <1>25, <1>29, <1>30, <1>31, <1>32 DEF Good
<1>. QED  BY <1>20, <1>33 DEF R, G

LEMMA DetachSize ==
    ASSUME NEW V, NEW P, PoolOf(P, V), NEW i
    PROVE  Release(DetachLinks(P, i), i).size = P.size
<1>1. DOMAIN P = {"slots", "size", "used", "live", "free_head", "grow_count"}
  BY DEF PoolOf
<1>2. ASSUME NEW B, DOMAIN B = DOMAIN P, NEW x, NEW y, NEW z
      PROVE  /\ [B EXCEPT !.slots[x].next = y].size = B.size
             /\ [B EXCEPT !.slots[x].prev = y].size = B.size
             /\ DOMAIN [B EXCEPT !.slots[x].next = y] = DOMAIN P
             /\ DOMAIN [B EXCEPT !.slots[x].prev = y] = DOMAIN P
             /\ [B EXCEPT !.slots[x] = y, !.free_head = x, !.live = z].size = B.size
  BY <1>1, <1>2
<1>. QED  BY <1>2 DEF Release, DetachLinks

Charge(P, i, n) == [P EXCEPT !.slots[i].value.qty = @ - n]
ChargeLevel(level, n) == [level EXCEPT !.total_qty = @ - n]
Rest == [price : Prices, qty : 0..MaxQty]
Charged == Held \cup Rest

\* The oldest order at p is charged n: what the pool then holds.
LEMMA ChargeFacts ==
    ASSUME NEW P, NEW Lv, NEW Q, NEW F, NEW L, Good(P, Lv, Q, F, L),
           NEW p \in Prices, Lv[p].head # kNoSlot,
           NEW n \in Nat, n <= P.slots[Lv[p].head].value.qty
    PROVE  LET i == Lv[p].head
               C == Charge(P, i, n)
               level == ChargeLevel(Lv[p], n)
           IN
           /\ 1 \in DOMAIN Q[p] /\ i = Q[p][1] /\ i \in Range0(P)
           /\ P.slots[i].value \in Value /\ P.slots[i].value.qty \in 1..MaxQty
           /\ PoolOf(C, Charged)
           /\ C.size = P.size /\ C.used = P.used /\ C.live = P.live
           /\ C.free_head = P.free_head
           /\ C.slots[i].prev = P.slots[i].prev /\ C.slots[i].next = P.slots[i].next
           /\ C.slots[i].value.qty = P.slots[i].value.qty - n
           /\ C.slots[i].value.price = P.slots[i].value.price
           /\ C.slots[i].value \in Rest
           /\ \A j \in Range0(P) : j # i => C.slots[j] = P.slots[j]
           /\ level \in Level /\ level.head = Lv[p].head
           /\ level.tail = Lv[p].tail
           /\ level.total_qty = Lv[p].total_qty - n /\ Lv[p].total_qty \in Int
<1>. DEFINE i == Lv[p].head
            C == Charge(P, i, n)
            level == ChargeLevel(Lv[p], n)
            s == P.slots[i]
            v == [s.value EXCEPT !.qty = @ - n]
            w == [s EXCEPT !.value = v]
            D == [P EXCEPT !.slots[i] = w]
<1>1. /\ Lv[p] \in Level /\ QueueAt(P, Lv[p], Q[p], p) /\ PoolOf(P, Held)
  BY DEF Good
<1>2. 1 \in DOMAIN Q[p] /\ i = Q[p][1]
  BY <1>1 DEF QueueAt, At
<1>3. s.value \in Value
  BY <1>1, <1>2 DEF QueueAt
<1>4. i \in Range0(P)
  BY <1>2, UsedSlots DEF Rests
<1>5. /\ level \in Level /\ level.head = Lv[p].head /\ level.tail = Lv[p].tail
      /\ level.total_qty = Lv[p].total_qty - n /\ Lv[p].total_qty \in Int
  BY <1>1 DEF Level, ChargeLevel
<1>6. C = D
  BY DEF Charge
<1>7. s \in SlotOf(Held) /\ n <= s.value.qty
  BY <1>1, <1>4 DEF PoolOf, Range0
<1>. HIDE DEF s, i, C, level
<1>8. s.value.qty \in 1..MaxQty
  BY <1>3 DEF Value
<1>9. /\ v \in Rest /\ v.qty = s.value.qty - n
      /\ v.price = s.value.price
  BY <1>3, <1>7, <1>8, QueuesAssumption DEF Value, Rest
<1>. HIDE DEF v
<1>10. /\ w \in SlotOf(Charged) /\ w.value = v /\ w.prev = s.prev /\ w.next = s.next
  BY <1>7, <1>9 DEF SlotOf, Charged
<1>. HIDE DEF w
<1>11. PoolOf(P, Charged)
  <2>1. \A j \in Range0(P) : P.slots[j].value \in Charged
    BY <1>1 DEF PoolOf, Range0, SlotOf, Charged
  <2>. QED  BY <1>1, <2>1, Retyped
<1>12. /\ PoolOf(D, Charged) /\ D.size = P.size /\ D.used = P.used /\ D.live = P.live
       /\ D.free_head = P.free_head /\ D.slots[i] = w
       /\ \A j \in Range0(P) : j # i => D.slots[j] = P.slots[j]
  BY <1>4, <1>10, <1>11, WriteSlot
<1>. HIDE DEF D
<1>13. /\ D.slots[i].prev = s.prev /\ D.slots[i].next = s.next
       /\ D.slots[i].value = v
  BY <1>10, <1>12
<1>. QED  BY <1>2, <1>3, <1>4, <1>5, <1>6, <1>8, <1>9, <1>12, <1>13
          DEF s, i, C, level

\* A fill that leaves some of the order.
LEMMA TradeSome ==
    ASSUME NEW P, NEW Lv, NEW Q, NEW F, NEW L, Good(P, Lv, Q, F, L),
           NEW p \in Prices, Lv[p].head # kNoSlot,
           NEW n \in Nat, n < P.slots[Lv[p].head].value.qty
    PROVE  Good(Charge(P, Lv[p].head, n),
                [Lv EXCEPT ![p] = ChargeLevel(Lv[p], n)], Q, F, L)
<1>. DEFINE i == Lv[p].head
            C == Charge(P, i, n)
            level == ChargeLevel(Lv[p], n)
            K == [Lv EXCEPT ![p] = level]
<1>1. /\ 1 \in DOMAIN Q[p] /\ i = Q[p][1] /\ i \in Range0(P)
      /\ P.slots[i].value \in Value /\ P.slots[i].value.qty \in 1..MaxQty
      /\ PoolOf(C, Charged)
      /\ C.size = P.size /\ C.used = P.used /\ C.live = P.live
      /\ C.free_head = P.free_head
      /\ C.slots[i].prev = P.slots[i].prev /\ C.slots[i].next = P.slots[i].next
      /\ C.slots[i].value.qty = P.slots[i].value.qty - n
      /\ C.slots[i].value.price = P.slots[i].value.price
      /\ C.slots[i].value \in Rest
      /\ \A j \in Range0(P) : j # i => C.slots[j] = P.slots[j]
      /\ level \in Level /\ level.head = Lv[p].head /\ level.tail = Lv[p].tail
      /\ level.total_qty = Lv[p].total_qty - n /\ Lv[p].total_qty \in Int
  <2>1. P.slots[i].value.qty \in Nat
    <3>1. QueueAt(P, Lv[p], Q[p], p)
      BY DEF Good
    <3>2. 1 \in DOMAIN Q[p] /\ i = Q[p][1]
      BY <3>1 DEF QueueAt, At
    <3>3. P.slots[i].value \in Value
      BY <3>1, <3>2 DEF QueueAt
    <3>. QED  BY <3>3, QueuesAssumption DEF Value
  <2>2. n <= P.slots[i].value.qty
    BY <2>1
  <2>3. Good(P, Lv, Q, F, L) /\ i # kNoSlot /\ n \in Nat /\ p \in Prices
    OBVIOUS
  <2>. QED  BY <2>2, <2>3, ChargeFacts
<1>2. /\ Lv \in [Prices -> Level] /\ Q \in [Prices -> Seq(0..(SlotLimit - 1))]
      /\ L \subseteq SlotLimit..(kNoSlot - 1) /\ F \in Seq(0..(kNoSlot - 1))
      /\ \A r \in Prices : QueueAt(P, Lv[r], Q[r], r)
      /\ Apart(Q, F, L) /\ Covered(P, Q, F, L) /\ PoolOf(P, Held)
      /\ FreeList(P, F) /\ P.live + Len(F) = P.used
  BY DEF Good
<1>3. n < P.slots[i].value.qty
  OBVIOUS
<1>. HIDE DEF i, level, C
<1>4. C.slots[i].value \in Value
  <2>1. C.slots[i].value.qty \in 1..MaxQty
    BY <1>1, <1>3, QueuesAssumption
  <2>. QED  BY <1>1, <2>1 DEF Value, Rest
<1>5. PoolOf(C, Held)
  <2>1. Range0(C) = Range0(P)
    BY <1>1 DEF Range0
  <2>2. \A j \in Range0(P) : P.slots[j].value \in Held
    BY <1>2 DEF PoolOf, Range0, SlotOf
  <2>3. \A j \in Range0(C) : C.slots[j].value \in Held
    BY <1>1, <1>4, <2>1, <2>2 DEF Held
  <2>. QED  BY <1>1, <2>3, Retyped
<1>6. \A r \in Prices : \A k \in DOMAIN Q[r] :
          /\ Q[r][k] \in Range0(P)
          /\ Q[r][k] = i <=> r = p /\ k = 1
  <2>1. \A r \in Prices : \A k \in DOMAIN Q[r] : Q[r][k] \in Range0(P)
    BY UsedSlots DEF Rests
  <2>2. \A r, t \in Prices : \A j \in DOMAIN Q[r], k \in DOMAIN Q[t] :
            Q[r][j] = Q[t][k] => r = t /\ j = k
    BY <1>2 DEF Apart
  <2>. QED  BY <1>1, <2>1, <2>2
<1>7. ASSUME NEW r \in Prices, r # p
      PROVE  QueueAt(C, Lv[r], Q[r], r)
  <2>1. \A k \in DOMAIN Q[r] : C.slots[Q[r][k]] = P.slots[Q[r][k]]
    BY <1>1, <1>6, <1>7
  <2>. QED  BY <1>2, <2>1, QueueFrame
<1>8. QueueAt(C, level, Q[p], p)
  <2>. DEFINE q == Q[p]
              w == Qtys(P, q)
              v == Qtys(C, q)
  <2>1. /\ QueueAt(P, Lv[p], q, p)
        /\ \A k \in DOMAIN q : q[k] \in Range0(P) /\ (q[k] = i <=> k = 1)
        /\ DOMAIN q = 1..Len(q) /\ Len(q) \in Nat \ {0} /\ q[1] = i
    <3>1. q \in Seq(0..(SlotLimit - 1))
      BY <1>2
    <3>2. 1 \in DOMAIN q /\ q[1] = i
      BY <1>1
    <3>3. /\ QueueAt(P, Lv[p], q, p)
          /\ \A k \in DOMAIN q : q[k] \in Range0(P) /\ (q[k] = i <=> k = 1)
      BY <1>2, <1>6
    <3>. HIDE DEF q
    <3>. QED  BY <3>1, <3>2, <3>3
  <2>. HIDE DEF q
  <2>2. \A k \in DOMAIN q : /\ C.slots[q[k]].prev = P.slots[q[k]].prev
                            /\ C.slots[q[k]].next = P.slots[q[k]].next
                            /\ k # 1 => C.slots[q[k]] = P.slots[q[k]]
    BY <1>1, <2>1
  <2>3. Chain(C.slots, q)
    BY <2>1, <2>2 DEF Chain, QueueAt
  <2>4. \A k \in DOMAIN q : /\ C.slots[q[k]].value \in Value
                            /\ C.slots[q[k]].value.price = p
    BY <1>1, <1>4, <2>1, <2>2 DEF QueueAt
  <2>5. HasSum(w, Len(q), Lv[p].total_qty)
    BY <2>1 DEF QueueAt
  <2>6. /\ 1 \in DOMAIN q /\ w[1] = P.slots[i].value.qty
        /\ v[1] = C.slots[i].value.qty
        /\ \A k \in 2..Len(q) : v[k] = w[k]
    <3>1. 1 \in DOMAIN q /\ \A k \in 2..Len(q) : k \in DOMAIN q /\ k # 1
      BY <2>1
    <3>. QED  BY <2>1, <2>2, <3>1 DEF Qtys
  <2>. HIDE DEF w, v
  <2>7. w[1] \in Nat /\ n \in 0..w[1] /\ v[1] = w[1] - n
    BY <1>1, <1>3, <2>6
  <2>8. HasSum(v, Len(q), Lv[p].total_qty - n)
    BY <2>1, <2>5, <2>6, <2>7, HasSumLess
  <2>. QED  BY <1>1, <2>1, <2>3, <2>4, <2>8 DEF QueueAt, v, q
<1>9. /\ K \in [Prices -> Level] /\ K[p] = level
      /\ \A r \in Prices : r # p => K[r] = Lv[r]
  BY <1>1, <1>2
<1>. HIDE DEF K
<1>10. FreeList(C, F)
  <2>1. \A k \in DOMAIN F : F[k] \in Range0(P) /\ F[k] # i
    <3>1. Rests(Q, i)
      BY <1>1 DEF Rests
    <3>2. \A k \in DOMAIN F : Free(F, F[k])
      BY DEF Free
    <3>. QED  BY <1>2, <3>1, <3>2, UsedSlots DEF Apart
  <2>. QED  BY <1>1, <1>2, <2>1 DEF FreeList
<1>11. Covered(C, Q, F, L)
  BY <1>1, <1>2 DEF Covered
<1>12. \A r \in Prices : QueueAt(C, K[r], Q[r], r)
  BY <1>7, <1>8, <1>9
<1>13. Good(C, K, Q, F, L)
  BY <1>1, <1>2, <1>5, <1>9, <1>10, <1>11, <1>12 DEF Good
<1>. QED  BY <1>13 DEF K, level, C, i

-----------------------------------------------------------------------------
(***************************************************************************)
(* The invariant, and the theorems                                         *)
(***************************************************************************)
Memory == /\ block.capacity \in Nat /\ pool.size \in Nat
          /\ pool.size <= block.capacity /\ block.capacity <= 2 * pool.size
          /\ MappedFor(block, mapped)

Inv == Good(pool, levels, queued, freed, leaked) /\ Memory

LEMMA InitInv ==
    ASSUME Init
    PROVE  Inv
<1>. DEFINE n == IF InitialSlots = 0 THEN 1 ELSE InitialSlots
            t == [j \in 0..(n - 1) |-> FreshSlot]
<1>1. n \in 1..kNoSlot
  BY PoolAssumption, QueuesAssumption
<1>2. pool = [slots |-> t, size |-> n, used |-> 0, live |-> 0,
              free_head |-> kNoSlot, grow_count |-> 0]
  BY DEF Init, NewPool
<1>. HIDE DEF n
<1>3. FreshSlot \in SlotOf(Held) /\ kNoSlot \in SlotIndex
  BY PoolAssumption DEF FreshSlot, SlotOf, SlotIndex, Held
<1>4. t \in [0..(n - 1) -> SlotOf(Held)]
  BY <1>3
<1>. HIDE DEF t
<1>5. /\ pool.slots = t /\ pool.size = n /\ pool.used = 0 /\ pool.live = 0
      /\ pool.free_head = kNoSlot /\ pool.grow_count = 0
  BY <1>2
<1>6. PoolOf(pool, Held)
  <2>1. pool \in PoolRecord([0..(n - 1) -> SlotOf(Held)], 1..kNoSlot, 0..n)
    BY <1>1, <1>2, <1>3, <1>4 DEF PoolRecord
  <2>. QED  BY <1>1, <1>5, <2>1, PoolIsRecord DEF Range0
<1>7. /\ levels = [p \in Prices |-> EmptyLevel] /\ queued = [p \in Prices |-> <<>>]
      /\ freed = <<>> /\ leaked = {}
  BY DEF Init
<1>8. EmptyLevel \in Level /\ EmptyLevel.head = kNoSlot
      /\ EmptyLevel.tail = kNoSlot /\ EmptyLevel.total_qty = 0
  BY <1>3 DEF EmptyLevel, Level
<1>9. ASSUME NEW p \in Prices
      PROVE  QueueAt(pool, levels[p], queued[p], p)
  <2>1. levels[p] = EmptyLevel /\ queued[p] = <<>> /\ DOMAIN queued[p] = {}
        /\ Len(queued[p]) = 0
    BY <1>7
  <2>2. HasSum(Qtys(pool, queued[p]), 0, 0)
    BY HasSumOfNone
  <2>3. At(queued[p], 1) = kNoSlot /\ At(queued[p], 0) = kNoSlot
    BY <2>1 DEF At
  <2>. QED  BY <1>8, <2>1, <2>2, <2>3 DEF QueueAt, Chain
<1>10. FreeList(pool, freed)
  BY <1>5, <1>7 DEF FreeList, At
<1>11. \A i : ~Rests(queued, i) /\ ~Free(freed, i)
  BY <1>7 DEF Rests, Free
<1>12. Apart(queued, freed, leaked)
  <2>1. \A p \in Prices : DOMAIN queued[p] = {}
    BY <1>7
  <2>2. Distinct(freed)
    BY <1>7 DEF Distinct
  <2>. QED  BY <1>7, <1>11, <2>1, <2>2 DEF Apart
<1>13. Covered(pool, queued, freed, leaked)
  BY <1>5, <1>7, <1>11 DEF Covered
<1>14. /\ levels \in [Prices -> Level] /\ freed \in Seq(0..(kNoSlot - 1))
       /\ queued \in [Prices -> Seq(0..(SlotLimit - 1))]
       /\ leaked \subseteq SlotLimit..(kNoSlot - 1)
       /\ pool.live + Len(freed) = pool.used
  BY <1>5, <1>7, <1>8
<1>15. Good(pool, levels, queued, freed, leaked)
  BY <1>6, <1>9, <1>10, <1>12, <1>13, <1>14 DEF Good
<1>16. Memory
  <2>1. PICK a \in Allocations({}, pool.size) :
            /\ block = [start |-> a.start, capacity |-> pool.size]
            /\ mapped = a.mapped
    BY DEF Init
  <2>2. /\ block.start = a.start /\ block.capacity = pool.size
        /\ pool.size \in Nat /\ pool.size <= 2 * pool.size
    BY <1>1, <1>5, <2>1
  <2>3. PICK M : M = {}
    OBVIOUS
  <2>4. IF pool.size < kHugePage THEN a.start = Heap /\ a.mapped = M
        ELSE /\ a.start \in Nat /\ a.start % kHugePage = 0
             /\ a.mapped = M \cup Pages(a.start, round_up(pool.size))
    <3>1. a \in Allocations(M, pool.size)
      BY <2>3
    <3>. QED  BY <2>2, <3>1, AllocationFacts
  <2>5. MappedFor(block, mapped)
    BY <2>1, <2>2, <2>3, <2>4 DEF MappedFor
  <2>. QED  BY <2>2, <2>5 DEF Memory
<1>. QED  BY <1>15, <1>16 DEF Inv

\* grow() moves the block, or nothing does.
LEMMA MovesKeep ==
    ASSUME Memory, Moves, pool.size \in Nat, pool'.size \in Nat,
           pool.size <= pool'.size, pool'.size <= 2 * pool.size
    PROVE  Memory'
<1>1. CASE pool'.size = pool.size
  BY <1>1 DEF Memory, Moves, memory
<1>2. CASE pool'.size # pool.size
  <2>1. PICK a \in Allocations(mapped, 2 * pool.size) :
            /\ block' = [start |-> a.start, capacity |-> 2 * pool.size]
            /\ mapped' = Deallocated(a.mapped, block.start, block.capacity)
    BY <1>2 DEF Moves
  <2>2. MappedFor(block', mapped')
    <3>1. /\ block.capacity \in Nat /\ MappedFor(block, mapped)
          /\ 2 * pool.size \in Nat /\ block.capacity <= 2 * pool.size
      BY DEF Memory
    <3>. QED  BY <2>1, <3>1, MoveFacts
  <2>3. block'.capacity = 2 * pool.size
    BY <2>1
  <2>4. /\ block'.capacity \in Nat /\ pool'.size <= block'.capacity
        /\ block'.capacity <= 2 * pool'.size
    BY <2>3
  <2>. QED  BY <2>2, <2>4 DEF Memory, MappedFor
<1>. QED  BY <1>1, <1>2

LEMMA GoodSize ==
    ASSUME NEW P, NEW Lv, NEW Q, NEW F, NEW L, Good(P, Lv, Q, F, L)
    PROVE  P.size \in Nat
  BY PoolAssumption DEF Good, PoolOf

LEMMA InsertInv ==
    ASSUME Inv, NEW p \in Prices, NEW qty \in 1..MaxQty, Insert(p, qty)
    PROVE  Inv'
<1>1. /\ Good(pool, levels, queued, freed, leaked) /\ Memory
      /\ ~Exhausted(pool) /\ NextSlot(pool) < SlotLimit
  BY DEF Inv, Insert
<1>2. /\ pool' = AppendLinks([Acquire(pool) EXCEPT !.slots[NextSlot(pool)].value
                                  = [price |-> p, qty |-> qty]],
                             levels[p], NextSlot(pool))
      /\ levels' = [levels EXCEPT ![p] = AppendLevel(@, NextSlot(pool), qty)]
      /\ queued' = [queued EXCEPT ![p] = Append(@, NextSlot(pool))]
      /\ freed' = IF pool.free_head # kNoSlot THEN Tail(freed) ELSE freed
      /\ leaked' = leaked /\ Moves
  BY DEF Insert, TakesFree
<1>3. /\ pool'.size = Acquire(pool).size
      /\ Good(pool', levels', queued', freed', leaked')
  BY <1>1, <1>2, JoinQueue
<1>4. pool.size <= Acquire(pool).size /\ Acquire(pool).size <= 2 * pool.size
  BY <1>1, TakeSlot
<1>5. pool.size \in Nat /\ pool'.size \in Nat
  BY <1>1, <1>3, GoodSize
<1>6. Memory'
  BY <1>1, <1>2, <1>3, <1>4, <1>5, MovesKeep
<1>. QED  BY <1>3, <1>6 DEF Inv

LEMMA InsertThrowsInv ==
    ASSUME Inv, InsertThrows
    PROVE  Inv'
<1>1. /\ Good(pool, levels, queued, freed, leaked) /\ Memory
      /\ ~Exhausted(pool) /\ NextSlot(pool) >= SlotLimit
  BY DEF Inv, InsertThrows
<1>2. /\ pool' = Acquire(pool) /\ levels' = levels /\ queued' = queued
      /\ freed' = IF pool.free_head # kNoSlot THEN Tail(freed) ELSE freed
      /\ leaked' = leaked \cup {NextSlot(pool)} /\ Moves
  BY DEF InsertThrows, TakesFree
<1>3. Good(pool', levels', queued', freed', leaked')
  BY <1>1, <1>2, LoseSlot
<1>4. pool.size <= pool'.size /\ pool'.size <= 2 * pool.size
  BY <1>1, <1>2, TakeSlot
<1>5. pool.size \in Nat /\ pool'.size \in Nat
  BY <1>1, <1>3, GoodSize
<1>6. Memory'
  BY <1>1, <1>2, <1>4, <1>5, MovesKeep
<1>. QED  BY <1>3, <1>6 DEF Inv

LEMMA RemoveInv ==
    ASSUME Inv, NEW p \in Prices, NEW k \in DOMAIN queued[p],
           RemoveOrder(queued[p][k])
    PROVE  Inv'
<1>. DEFINE i == queued[p][k]
<1>1. Good(pool, levels, queued, freed, leaked) /\ Memory
  BY DEF Inv
<1>2. QueueAt(pool, levels[p], queued[p], p) /\ PoolOf(pool, Held)
  BY <1>1 DEF Good
<1>3. pool.slots[i].value.price = p
  BY <1>2 DEF QueueAt
<1>4. /\ pool' = Release(DetachLinks(pool, i), i)
      /\ levels' = [levels EXCEPT ![p] = DetachLevel(levels[p], pool.slots[i])]
      /\ queued' = [queued EXCEPT ![p] = Without(@, i)]
      /\ freed' = <<i>> \o freed /\ leaked' = leaked
      /\ block' = block /\ mapped' = mapped
  BY <1>3 DEF RemoveOrder, Detach, memory
<1>5. Garbage \in Held
  BY DEF Held
<1>. HIDE DEF i
<1>6. Good(pool', levels', queued', freed', leaked')
  <2>1. i = queued[p][k]
    BY DEF i
  <2>. QED  BY <1>1, <1>2, <1>4, <1>5, <2>1, LeaveQueue
<1>7. pool'.size = pool.size
  BY <1>2, <1>4, DetachSize
<1>8. Memory'
  BY <1>1, <1>4, <1>7 DEF Memory, MappedFor
<1>. QED  BY <1>6, <1>8 DEF Inv

LEMMA FillInv ==
    ASSUME Inv, NEW p \in Prices, NEW n \in 1..MaxQty, Fill(p, n)
    PROVE  Inv'
<1>. DEFINE i == levels[p].head
            C == Charge(pool, i, n)
            level == ChargeLevel(levels[p], n)
<1>1. /\ Good(pool, levels, queued, freed, leaked) /\ Memory
      /\ i # kNoSlot /\ n \in Nat /\ n <= pool.slots[i].value.qty
  BY DEF Inv, Fill
<1>2. /\ leaked' = leaked /\ block' = block /\ mapped' = mapped
      /\ IF C.slots[i].value.qty = 0
         THEN /\ pool' = Release(DetachLinks(C, i), i)
              /\ levels' = [levels EXCEPT ![p] = DetachLevel(level, C.slots[i])]
              /\ queued' = [queued EXCEPT ![p] = Without(@, i)]
              /\ freed' = <<i>> \o freed
         ELSE /\ pool' = C /\ levels' = [levels EXCEPT ![p] = level]
              /\ queued' = queued /\ freed' = freed
  BY DEF Fill, Detach, memory, Charge, ChargeLevel
<1>3. /\ 1 \in DOMAIN queued[p] /\ i = queued[p][1]
      /\ pool.slots[i].value.qty \in 1..MaxQty
      /\ PoolOf(C, Charged)
      /\ C.size = pool.size /\ C.used = pool.used /\ C.live = pool.live
      /\ C.free_head = pool.free_head
      /\ C.slots[i].prev = pool.slots[i].prev
      /\ C.slots[i].next = pool.slots[i].next
      /\ C.slots[i].value.qty = pool.slots[i].value.qty - n
      /\ \A j \in Range0(pool) : j # i => C.slots[j] = pool.slots[j]
      /\ level.head = levels[p].head /\ level.tail = levels[p].tail
      /\ level.total_qty = levels[p].total_qty - n /\ levels[p].total_qty \in Int
  BY <1>1, ChargeFacts
<1>. HIDE DEF C, level
<1>4. pool'.size = pool.size /\ Good(pool', levels', queued', freed', leaked')
  <2>1. CASE C.slots[i].value.qty = 0
    <3>1. Garbage \in Charged
      BY DEF Charged, Held
    <3>2. level.total_qty - C.slots[i].value.qty
              = levels[p].total_qty - pool.slots[i].value.qty
      BY <1>1, <1>3
    <3>3. /\ pool' = Release(DetachLinks(C, i), i)
          /\ levels' = [levels EXCEPT ![p] = DetachLevel(level, C.slots[i])]
          /\ queued' = [queued EXCEPT ![p] = Without(@, i)]
          /\ freed' = <<i>> \o freed
      BY <1>2, <2>1
    <3>4. pool'.size = pool.size
      BY <1>3, <3>3, DetachSize
    <3>5. /\ Good(pool, levels, queued, freed, leaked) /\ p \in Prices
          /\ 1 \in DOMAIN queued[p] /\ i = queued[p][1]
          /\ PoolOf(C, Charged)
          /\ C.size = pool.size /\ C.used = pool.used /\ C.live = pool.live
          /\ C.free_head = pool.free_head
          /\ C.slots[i].prev = pool.slots[i].prev
          /\ C.slots[i].next = pool.slots[i].next
          /\ \A j \in Range0(pool) : j # i => C.slots[j] = pool.slots[j]
          /\ level.head = levels[p].head /\ level.tail = levels[p].tail
      BY <1>1, <1>3
    <3>. HIDE DEF i
    <3>6. Good(Release(DetachLinks(C, i), i),
               [levels EXCEPT ![p] = DetachLevel(level, C.slots[i])],
               [queued EXCEPT ![p] = Without(@, i)], <<i>> \o freed, leaked)
      BY ONLY <3>1, <3>2, <3>5, LeaveQueue
    <3>. QED  BY <1>2, <3>3, <3>4, <3>6
  <2>2. CASE C.slots[i].value.qty # 0
    <3>1. n < pool.slots[i].value.qty
      BY <1>1, <1>3, <2>2
    <3>2. /\ pool' = C /\ levels' = [levels EXCEPT ![p] = level]
          /\ queued' = queued /\ freed' = freed
      BY <1>2, <2>2
    <3>3. Good(Charge(pool, levels[p].head, n),
               [levels EXCEPT ![p] = ChargeLevel(levels[p], n)],
               queued, freed, leaked)
      BY <1>1, <3>1, TradeSome
    <3>. QED  BY <1>2, <1>3, <3>2, <3>3 DEF C, level
  <2>. QED  BY <2>1, <2>2
<1>5. Memory'
  BY <1>1, <1>2, <1>4 DEF Memory, MappedFor
<1>. QED  BY <1>4, <1>5 DEF Inv

LEMMA Invariance == Spec => []Inv
<1>1. Init => Inv
  BY InitInv
<1>2. Inv /\ [Next]_vars => Inv'
  <2>. SUFFICES ASSUME Inv, [Next]_vars  PROVE Inv'
    OBVIOUS
  <2>1. CASE \E p \in Prices, qty \in 1..MaxQty : Insert(p, qty) \/ Fill(p, qty)
    BY <2>1, InsertInv, FillInv
  <2>2. CASE InsertThrows
    BY <2>2, InsertThrowsInv
  <2>3. CASE \E p \in Prices : \E k \in DOMAIN queued[p] : RemoveOrder(queued[p][k])
    BY <2>3, RemoveInv
  <2>4. CASE UNCHANGED vars
    BY <2>4 DEF vars, memory, Inv, Memory, MappedFor
  <2>. QED  BY <2>1, <2>2, <2>3, <2>4 DEF Next
<1>. QED  BY <1>1, <1>2, PTL DEF Spec

LEMMA InvTypeOK ==
    ASSUME Inv
    PROVE  TypeOK
<1>1. Good(pool, levels, queued, freed, leaked)
  BY DEF Inv
<1>2. /\ PoolOf(pool, Held) /\ levels \in [Prices -> Level]
      /\ queued \in [Prices -> Seq(0..(SlotLimit - 1))]
      /\ freed \in Seq(0..(kNoSlot - 1)) /\ leaked \subseteq SlotLimit..(kNoSlot - 1)
      /\ \A p \in Prices : QueueAt(pool, levels[p], queued[p], p)
      /\ Distinct(freed) /\ pool.live + Len(freed) = pool.used
  BY <1>1 DEF Good, Apart
<1>3. pool.live \in Nat
  <2>1. pool.used \in Nat /\ pool.live \in Int
    BY <1>2, PoolAssumption DEF PoolOf
  <2>2. freed \in Seq(0..(pool.used - 1))
    <3>1. \A k \in DOMAIN freed : freed[k] \in 0..(pool.used - 1)
      BY <1>1 DEF Good, Covered, Free
    <3>2. DOMAIN freed = 1..Len(freed) /\ Len(freed) \in Nat
      BY <1>2
    <3>3. freed \in [1..Len(freed) -> 0..(pool.used - 1)]
      BY <1>2, <3>1, <3>2
    <3>. QED  BY <3>2, <3>3, SeqDef
  <2>3. Len(freed) <= pool.used /\ Len(freed) \in Nat
    BY <1>2, <2>1, <2>2, DistinctBound
  <2>. QED  BY <1>2, <2>1, <2>3
<1>4. /\ pool.size \in 1..kNoSlot
      /\ pool \in [slots : [0..(pool.size - 1) -> Slot], size : 1..kNoSlot,
                   used : 0..pool.size, live : Nat,
                   free_head : SlotIndex, grow_count : Nat]
  <2>1. SlotOf(Held) = Slot
    BY DEF SlotOf, Held, Slot
  <2>2. /\ pool.size \in 1..kNoSlot
        /\ pool \in [slots : [0..(pool.size - 1) -> Slot], size : 1..kNoSlot,
                     used : 0..pool.size, live : Int,
                     free_head : SlotIndex, grow_count : Nat]
    BY <1>2, <2>1 DEF PoolOf
  <2>. QED  BY <1>3, <2>2
<1>5. levels \in [Prices -> [total_qty : Nat, head : SlotIndex, tail : SlotIndex]]
  <2>1. \A p \in Prices : levels[p].total_qty \in Nat
    <3>. SUFFICES ASSUME NEW p \in Prices  PROVE levels[p].total_qty \in Nat
      OBVIOUS
    <3>1. HasSum(Qtys(pool, queued[p]), Len(queued[p]), levels[p].total_qty)
      BY <1>2 DEF QueueAt
    <3>2. Len(queued[p]) \in Nat
      BY <1>2
    <3>. QED  BY <3>1, <3>2, SumIsNatural
  <2>2. \A p \in Prices : levels[p] \in [total_qty : Nat, head : SlotIndex,
                                         tail : SlotIndex]
    BY <1>2, <2>1 DEF Level
  <2>. QED  BY <1>2, <2>2
<1>. QED  BY <1>2, <1>4, <1>5 DEF TypeOK

\* Types: the pool's indices stay within the block and below the reserved one, a
\* level's total and the count of live slots never go below zero, whatever is
\* inserted, filled, cancelled and lost, in whatever order.
THEOREM TypeCorrect == Spec => []TypeOK
<1>1. Inv => TypeOK
  BY InvTypeOK
<1>. QED  BY <1>1, Invariance, PTL

\* Time priority: however orders join, fill and leave, the links of every level
\* visit its orders in the order they joined, forwards and backwards.
THEOREM TimeOrderKept == Spec => []QueuesKeepTimeOrder
<1>1. Inv => QueuesKeepTimeOrder
  BY DEF Inv, Good, QueueAt, Chain, QueuesKeepTimeOrder
<1>. QED  BY <1>1, Invariance, PTL

\* No slot is handed out while an order rests in it, none is in two places, and
\* none is lost but to an insert that threw.
THEOREM EverySlotAccountedFor == Spec => []SlotsAccountedFor
<1>1. Inv => SlotsAccountedFor
  <2>. SUFFICES ASSUME Inv  PROVE SlotsAccountedFor
    OBVIOUS
  <2>1. /\ FreeList(pool, freed) /\ Apart(queued, freed, leaked)
        /\ Covered(pool, queued, freed, leaked)
        /\ pool.live + Len(freed) = pool.used
    BY DEF Inv, Good
  <2>2. /\ \A i : Free(freed, i) <=> i \in ToSet(freed)
        /\ \A i : Rests(queued, i) <=> \E p \in Prices : i \in ToSet(queued[p])
    BY DEF Free, Rests, ToSet
  <2>3. NoSlotTwice
    <3>1. \A p \in Prices : ToSet(queued[p]) \cap (ToSet(freed) \cup leaked) = {}
      BY <2>1, <2>2 DEF Apart
    <3>2. ToSet(freed) \cap leaked = {}
      BY <2>1, <2>2 DEF Apart
    <3>. QED  BY <2>1, <3>1, <3>2 DEF Apart, Distinct, NoSlotTwice
  <2>4. (UNION {ToSet(queued[p]) : p \in Prices}) \cup ToSet(freed) \cup leaked
            = 0..(pool.used - 1)
    BY <2>1, <2>2 DEF Covered
  <2>. QED  BY <2>1, <2>3, <2>4 DEF FreeList, SlotsAccountedFor
<1>. QED  BY <1>1, Invariance, PTL

\* The pages mapped are those of the pool's block, rounded up: growing across the
\* size of a huge page, moving and trimming leave none behind and lose none.
THEOREM BlockStaysMapped == Spec => []BlockIsMapped
<1>1. Inv => BlockIsMapped
  <2>. SUFFICES ASSUME Inv  PROVE BlockIsMapped
    OBVIOUS
  <2>1. Memory
    BY DEF Inv
  <2>2. CASE block.capacity < kHugePage
    BY <2>1, <2>2 DEF Memory, MappedFor, BlockIsMapped
  <2>3. CASE ~(block.capacity < kHugePage)
    <3>1. /\ block.start \in Nat /\ block.start % kHugePage = 0
          /\ mapped = Pages(block.start, round_up(block.capacity))
      BY <2>1, <2>3 DEF Memory, MappedFor
    <3>2. block.start # Heap
      BY <3>1, PagesAssumption
    <3>3. /\ block.capacity \in Nat /\ pool.size \in Nat
          /\ pool.size <= block.capacity
      BY <2>1 DEF Memory
    <3>4. round_up(block.capacity) \in Nat
          /\ block.capacity <= round_up(block.capacity)
      BY <3>3, RoundUpFacts
    <3>5. Pages(block.start, pool.size) \subseteq mapped
      BY <3>1, <3>3, <3>4 DEF Pages
    <3>. QED  BY <3>1, <3>2, <3>5 DEF BlockIsMapped
  <2>. QED  BY <2>2, <2>3
<1>. QED  BY <1>1, Invariance, PTL

TotalsRight == \A p \in Prices :
    levels[p].total_qty = SumOver(Qtys(pool, queued[p]), DOMAIN queued[p], Len(queued[p]))

\* The running total of a level is the sum of what rests in its queue: append,
\* a fill and detach together charge every quantity once.
THEOREM TotalsAreSums == Spec => []TotalsRight
<1>1. ASSUME Inv, NEW p \in Prices
      PROVE  levels[p].total_qty = SumOver(Qtys(pool, queued[p]), DOMAIN queued[p],
                                           Len(queued[p]))
  <2>1. /\ HasSum(Qtys(pool, queued[p]), Len(queued[p]), levels[p].total_qty)
        /\ DOMAIN queued[p] = 1..Len(queued[p]) /\ Len(queued[p]) \in Nat
    BY <1>1 DEF Inv, Good, QueueAt
  <2>. QED  BY <2>1, HasSumIsSum
<1>2. Inv => TotalsRight
  BY <1>1 DEF TotalsRight
<1>. QED  BY <1>2, Invariance, PTL
=============================================================================
