--------------------------- MODULE IdIndex_proofs ---------------------------
(***************************************************************************)
(* Proofs that the id index is a map whatever the hash: for every set of   *)
(* ids, every hash function and every initial capacity, an entry is where  *)
(* probing from its home finds it, however runs wrap, shift and grow.      *)
(***************************************************************************)
EXTENDS IdIndex, Foundations, TLAPS

-----------------------------------------------------------------------------
(***************************************************************************)
(* Slots in a circle                                                       *)
(***************************************************************************)

\* From slot h, d slots on, in a table of size cap; and how far i is from h.
On(h, d, cap) == IF h + d < cap THEN h + d ELSE h + d - cap
Dist(h, i, cap) == IF h <= i THEN i - h ELSE i - h + cap

\* A probe that starts at h passes p before it comes to i.
Passes(h, p, i) == IF h <= i THEN h <= p /\ p < i ELSE h <= p \/ p < i

LEMMA OnIsRemainder ==
    ASSUME NEW cap \in Nat \ {0}, NEW h \in 0..(cap - 1), NEW d \in 0..(cap - 1)
    PROVE  (h + d) % cap = On(h, d, cap)
<1>1. CASE h + d < cap
  <2>1. (0 * cap + (h + d)) % cap = h + d
    BY <1>1, RemainderOf
  <2>. QED  BY <1>1, <2>1 DEF On
<1>2. CASE ~(h + d < cap)
  <2>1. h + d - cap \in 0..(cap - 1)
    BY <1>2
  <2>2. (1 * cap + (h + d - cap)) % cap = h + d - cap
    BY <2>1, RemainderOf
  <2>3. 1 * cap + (h + d - cap) = h + d
    OBVIOUS
  <2>. QED  BY <1>2, <2>2, <2>3 DEF On
<1>. QED  BY <1>1, <1>2

LEMMA Circle ==
    ASSUME NEW cap \in Nat \ {0}, NEW h \in 0..(cap - 1)
    PROVE  /\ \A d \in 0..(cap - 1) : /\ On(h, d, cap) \in 0..(cap - 1)
                                      /\ Dist(h, On(h, d, cap), cap) = d
           /\ \A i \in 0..(cap - 1) : /\ Dist(h, i, cap) \in 0..(cap - 1)
                                      /\ On(h, Dist(h, i, cap), cap) = i
           /\ \A i, p \in 0..(cap - 1) :
                  Passes(h, p, i) <=> Dist(h, p, cap) < Dist(h, i, cap)
BY DEF On, Dist, Passes

\* What a probe passes does not depend on where the slots are counted from.
LEMMA Rotation ==
    ASSUME NEW cap \in Nat \ {0}, NEW z \in 0..(cap - 1), NEW h \in 0..(cap - 1),
           NEW p \in 0..(cap - 1), NEW i \in 0..(cap - 1)
    PROVE  Passes(h, p, i) <=> Passes(Dist(z, h, cap), Dist(z, p, cap), Dist(z, i, cap))
BY DEF Dist, Passes

-----------------------------------------------------------------------------
(***************************************************************************)
(* Tables                                                                  *)
(***************************************************************************)
Tables(cap) == [0..(cap - 1) -> Entry \cup {Absent}]
Used(t) == {i \in DOMAIN t : t[i] # Absent}

LEMMA CapacityOf ==
    ASSUME NEW cap \in Nat, NEW t \in Tables(cap)
    PROVE  Capacity(t) = cap /\ DOMAIN t = 0..(cap - 1)
<1>1. DOMAIN t = 0..(cap - 1)
  BY DEF Tables
<1>2. Cardinality(0..(cap - 1)) = cap
  <2>1. 0 \in Int /\ cap - 1 \in Int
    OBVIOUS
  <2>2. Cardinality(0..(cap - 1)) = IF 0 > cap - 1 THEN 0 ELSE (cap - 1) - 0 + 1
    BY <2>1, FS_Interval
  <2>. QED  BY <2>2
<1>. QED  BY <1>1, <1>2 DEF Capacity

LEMMA HomeFacts ==
    ASSUME NEW cap \in Capacities, NEW id \in Ids
    PROVE  Hash(id, cap) \in 0..(cap - 1) /\ cap \in Nat \ {0}
BY IndexAssumption DEF Capacities

\* Where a probing loop stops, if it has somewhere to stop: at a slot of
\* `slots`, having passed none.
LEMMA FirstFromFacts ==
    ASSUME NEW cap \in Capacities, NEW t \in Tables(cap), NEW id \in Ids,
           NEW slots \in SUBSET (0..(cap - 1)), slots # {}
    PROVE  /\ FirstFrom(t, id, slots) \in slots
           /\ \A p \in slots : ~Passes(Hash(id, cap), p, FirstFrom(t, id, slots))
<1>. DEFINE h == Hash(id, cap)
            stops == {d \in 0..(cap - 1) : (h + d) % cap \in slots}
            m == CHOOSE d \in stops : \A e \in stops : d <= e
<1>1. h \in 0..(cap - 1) /\ cap \in Nat \ {0}
  BY HomeFacts
<1>2. FirstFrom(t, id, slots) = (h + m) % cap
  <2>1. Capacity(t) = cap
    BY <1>1, CapacityOf
  <2>. QED  BY <2>1 DEF FirstFrom
<1>. HIDE DEF h
<1>3. \A d \in 0..(cap - 1) : (h + d) % cap = On(h, d, cap)
  BY <1>1, OnIsRemainder
<1>4. \A p \in slots : Dist(h, p, cap) \in stops
  BY <1>1, <1>3, Circle
<1>5. stops \subseteq Nat /\ \A d \in stops : d \in 0..(cap - 1) /\ (h + d) % cap \in slots
  BY <1>1
<1>. HIDE DEF stops
<1>6. m \in stops /\ \A e \in stops : m <= e
  <2>1. \E d \in stops : \A e \in stops : d <= e
    BY <1>4, <1>5, SmallestExists
  <2>. QED  BY <2>1
<1>. HIDE DEF m
<1>7. m \in 0..(cap - 1) /\ (h + m) % cap \in slots /\ (h + m) % cap = On(h, m, cap)
  BY <1>3, <1>5, <1>6
<1>8. Dist(h, On(h, m, cap), cap) = m /\ On(h, m, cap) \in 0..(cap - 1)
  BY <1>1, <1>7, Circle
<1>9. ASSUME NEW p \in slots  PROVE ~Passes(h, p, On(h, m, cap))
  <2>1. p \in 0..(cap - 1)
    OBVIOUS
  <2>2. m <= Dist(h, p, cap) /\ Dist(h, p, cap) \in Nat
    BY <1>4, <1>5, <1>6
  <2>3. Passes(h, p, On(h, m, cap))
            <=> Dist(h, p, cap) < Dist(h, On(h, m, cap), cap)
    BY <1>1, <1>8, <2>1, Circle
  <2>4. m \in Nat
    BY <1>5, <1>6
  <2>. QED  BY <1>8, <2>2, <2>3, <2>4
<1>. QED  BY <1>2, <1>7, <1>9 DEF h

\* Every entry of t is reached: a probe for it passes used slots only.
Reached(t, cap) == \A i \in Used(t), p \in 0..(cap - 1) :
                       Passes(Hash(t[i].id, cap), p, i) => p \in Used(t)
NoIdTwice(t) == \A i, j \in Used(t) : t[i].id = t[j].id => i = j
Sound(t, cap) == t \in Tables(cap) /\ Reached(t, cap) /\ NoIdTwice(t)

Lacks(t, id) == \A i \in Used(t) : t[i].id # id
Entries(t) == {t[i] : i \in Used(t)}
EntryOf(id, value) == [id |-> id, value |-> value]

LEMMA UsedFacts ==
    ASSUME NEW cap \in Capacities, NEW t \in Tables(cap)
    PROVE  /\ cap \in Nat \ {0}
           /\ DOMAIN t = 0..(cap - 1) /\ Used(t) \subseteq 0..(cap - 1)
           /\ \A i \in Used(t) : /\ t[i] \in Entry /\ t[i].id \in Ids
                                 /\ t[i].value \in Values /\ t[i] # Absent
                                 /\ Hash(t[i].id, cap) \in 0..(cap - 1)
           /\ \A i \in 0..(cap - 1) : i \in Free(t) <=> i \notin Used(t)
           /\ Free(t) \subseteq 0..(cap - 1)
<1>1. cap \in Nat \ {0}
  BY DEF Capacities
<1>2. DOMAIN t = 0..(cap - 1)
  BY DEF Tables
<1>3. \A i \in Used(t) : t[i] \in Entry /\ t[i] # Absent /\ i \in 0..(cap - 1)
  BY <1>2 DEF Used, Tables
<1>4. \A e \in Entry : e.id \in Ids /\ e.value \in Values
  BY DEF Entry
<1>. QED  BY <1>1, <1>2, <1>3, <1>4, HomeFacts DEF Used, Free

LEMMA OneOrOther ==
    ASSUME NEW cap \in Nat \ {0}, NEW h \in 0..(cap - 1),
           NEW p \in 0..(cap - 1), NEW i \in 0..(cap - 1), p # i, ~Passes(h, i, p)
    PROVE  Passes(h, p, i)
BY DEF Passes

\* find() and take() stop at an entry for the id, if there is one.
LEMMA SeekFinds ==
    ASSUME NEW cap \in Capacities, NEW t, Sound(t, cap), NEW i \in Used(t)
    PROVE  Seek(t, t[i].id) = i
<1>. DEFINE id == t[i].id
            h == Hash(id, cap)
            slots == Free(t) \cup {j \in DOMAIN t \ Free(t) : t[j].id = id}
            r == FirstFrom(t, id, slots)
<1>1. t \in Tables(cap) /\ Reached(t, cap) /\ NoIdTwice(t)
  BY DEF Sound
<1>2. /\ cap \in Nat \ {0} /\ DOMAIN t = 0..(cap - 1) /\ i \in 0..(cap - 1)
      /\ id \in Ids /\ h \in 0..(cap - 1) /\ Free(t) \subseteq 0..(cap - 1)
      /\ \A j \in 0..(cap - 1) : j \in Free(t) <=> j \notin Used(t)
  BY <1>1, UsedFacts
<1>3. i \in slots /\ slots \in SUBSET (0..(cap - 1))
  BY <1>2
<1>4. Seek(t, id) = r
  BY DEF Seek
<1>5. \A j \in slots : j \in Used(t) => t[j].id = id
  BY <1>2
<1>. HIDE DEF slots, id
<1>6. r \in slots /\ ~Passes(h, i, r)
  BY <1>1, <1>2, <1>3, FirstFromFacts
<1>. HIDE DEF r
<1>. SUFFICES ASSUME r # i  PROVE FALSE
  BY <1>4 DEF id
<1>7. r \in 0..(cap - 1)
  BY <1>3, <1>6
<1>8. Passes(h, r, i)
  BY <1>2, <1>6, <1>7, OneOrOther
<1>9. r \in Used(t)
  BY <1>1, <1>7, <1>8 DEF Reached, h, id
<1>. QED  BY <1>1, <1>5, <1>6, <1>9 DEF NoIdTwice, id

LEMMA SeekMisses ==
    ASSUME NEW cap \in Capacities, NEW t \in Tables(cap), Free(t) # {},
           NEW id \in Ids, Lacks(t, id)
    PROVE  Seek(t, id) \in Free(t)
<1>1. {j \in DOMAIN t \ Free(t) : t[j].id = id} = {}
  BY UsedFacts DEF Lacks
<1>2. Seek(t, id) = FirstFrom(t, id, Free(t))
  BY <1>1 DEF Seek
<1>3. Free(t) \in SUBSET (0..(cap - 1))
  BY UsedFacts
<1>. QED  BY <1>2, <1>3, FirstFromFacts

\* What find() answers.
LEMMA FindFacts ==
    ASSUME NEW cap \in Capacities, NEW t, Sound(t, cap), Free(t) # {}
    PROVE  /\ \A i \in Used(t) : Find(t, t[i].id) = t[i].value
           /\ \A id \in Ids : Lacks(t, id) => Find(t, id) = Absent
<1>1. t \in Tables(cap)
  BY DEF Sound
<1>2. ASSUME NEW i \in Used(t)  PROVE Find(t, t[i].id) = t[i].value
  <2>1. Seek(t, t[i].id) = i
    BY SeekFinds
  <2>2. t[i] # Absent
    BY DEF Used
  <2>. QED  BY <2>1, <2>2 DEF Find
<1>3. ASSUME NEW id \in Ids, Lacks(t, id)  PROVE Find(t, id) = Absent
  <2>1. Seek(t, id) \in Free(t)
    BY <1>1, <1>3, SeekMisses
  <2>. QED  BY <2>1 DEF Find, Free
<1>. QED  BY <1>2, <1>3

LEMMA FindAbsent ==
    ASSUME NEW cap \in Capacities, NEW t, Sound(t, cap), Free(t) # {}, NEW id \in Ids
    PROVE  Find(t, id) = Absent <=> Lacks(t, id)
<1>1. \A i \in Used(t) : t[i].value # Absent
  BY UsedFacts, IndexAssumption DEF Sound
<1>2. /\ \A i \in Used(t) : Find(t, t[i].id) = t[i].value
      /\ Lacks(t, id) => Find(t, id) = Absent
  BY FindFacts
<1>. QED  BY <1>1, <1>2 DEF Lacks

\* Tables with the same entries for an id answer alike.
LEMMA SameAnswer ==
    ASSUME NEW cap \in Capacities, NEW t, Sound(t, cap), Free(t) # {},
           NEW size \in Capacities, NEW u, Sound(u, size), Free(u) # {},
           NEW id \in Ids,
           \A e \in Entry : e.id = id => (e \in Entries(t) <=> e \in Entries(u))
    PROVE  Find(t, id) = Find(u, id)
<1>1. /\ \A i \in Used(t) : t[i] \in Entry /\ t[i] \in Entries(t)
      /\ \A i \in Used(u) : u[i] \in Entry /\ u[i] \in Entries(u)
  BY UsedFacts DEF Sound, Entries
<1>2. CASE Lacks(t, id)
  <2>1. Lacks(u, id)
    BY <1>1, <1>2 DEF Lacks, Entries
  <2>. QED  BY <1>2, <2>1, FindFacts
<1>3. CASE ~Lacks(t, id)
  <2>1. PICK i \in Used(t) : t[i].id = id
    BY <1>3 DEF Lacks
  <2>2. t[i] \in Entries(u)
    BY <1>1, <2>1
  <2>3. PICK j \in Used(u) : u[j] = t[i]
    BY <2>2 DEF Entries
  <2>4. Find(t, t[i].id) = t[i].value /\ Find(u, u[j].id) = u[j].value
    BY FindFacts
  <2>. QED  BY <2>1, <2>3, <2>4
<1>. QED  BY <1>2, <1>3

\* place() puts the entry where a probe for it will come.
LEMMA PlaceFacts ==
    ASSUME NEW cap \in Capacities, NEW t, Sound(t, cap), Free(t) # {},
           NEW id \in Ids, NEW value \in Values, Lacks(t, id),
           NEW u, u = Place(t, id, value)
    PROVE  /\ Sound(u, cap)
           /\ \E r \in Free(t) : Used(u) = Used(t) \cup {r}
           /\ Entries(u) = Entries(t) \cup {EntryOf(id, value)}
<1>. DEFINE e == EntryOf(id, value)
            h == Hash(id, cap)
            r == FirstFrom(t, id, Free(t))
<1>1. t \in Tables(cap) /\ Reached(t, cap) /\ NoIdTwice(t)
  BY DEF Sound
<1>2. /\ cap \in Nat \ {0} /\ DOMAIN t = 0..(cap - 1) /\ Used(t) \subseteq 0..(cap - 1)
      /\ \A j \in 0..(cap - 1) : j \in Free(t) <=> j \notin Used(t)
      /\ Free(t) \in SUBSET (0..(cap - 1))
  BY <1>1, UsedFacts
<1>3. r \in Free(t) /\ \A p \in Free(t) : ~Passes(h, p, r)
  BY <1>1, <1>2, FirstFromFacts
<1>4. u = [t EXCEPT ![r] = e]
  BY DEF Place, EntryOf
<1>5. e \in Entry /\ e # Absent /\ e.id = id
  BY IndexAssumption DEF Entry, EntryOf
<1>. HIDE DEF r, e
<1>6. r \in 0..(cap - 1) /\ r \notin Used(t)
  BY <1>2, <1>3
<1>7. /\ u \in Tables(cap) /\ u[r] = e /\ DOMAIN u = 0..(cap - 1)
      /\ \A i \in 0..(cap - 1) : i # r => u[i] = t[i]
  BY <1>1, <1>2, <1>4, <1>5, <1>6 DEF Tables
<1>8. Used(u) = Used(t) \cup {r} /\ \A i \in Used(t) : u[i] = t[i]
  BY <1>2, <1>5, <1>6, <1>7 DEF Used
<1>9. Reached(u, cap)
  <2>. SUFFICES ASSUME NEW i \in Used(u), NEW p \in 0..(cap - 1),
                       Passes(Hash(u[i].id, cap), p, i)
                PROVE  p \in Used(u)
    BY DEF Reached
  <2>1. CASE i = r
    BY <1>2, <1>3, <1>5, <1>7, <1>8, <2>1
  <2>2. CASE i # r
    <3>1. i \in Used(t) /\ u[i] = t[i]
      BY <1>8, <2>2
    <3>. QED  BY <1>1, <1>8, <3>1 DEF Reached
  <2>. QED  BY <2>1, <2>2
<1>10. NoIdTwice(u)
  BY <1>1, <1>5, <1>7, <1>8 DEF NoIdTwice, Lacks
<1>11. Entries(u) = Entries(t) \cup {e}
  BY <1>7, <1>8 DEF Entries
<1>. QED  BY <1>3, <1>7, <1>8, <1>9, <1>10, <1>11 DEF Sound, e

-----------------------------------------------------------------------------
(***************************************************************************)
(* Counting                                                                *)
(***************************************************************************)

LEMMA SlotsFinite ==
    ASSUME NEW cap \in Nat
    PROVE  IsFiniteSet(0..(cap - 1)) /\ Cardinality(0..(cap - 1)) = cap
<1>1. 0 \in Int /\ cap - 1 \in Int
  OBVIOUS
<1>2. /\ IsFiniteSet(0..(cap - 1))
      /\ Cardinality(0..(cap - 1)) = IF 0 > cap - 1 THEN 0 ELSE (cap - 1) - 0 + 1
  BY <1>1, FS_Interval
<1>. QED  BY <1>2

LEMMA UsedFinite ==
    ASSUME NEW cap \in Capacities, NEW t \in Tables(cap), NEW T \in SUBSET Used(t)
    PROVE  /\ IsFiniteSet(T) /\ Cardinality(T) \in Nat /\ Cardinality(T) <= cap
           /\ Cardinality(T) <= Cardinality(Used(t))
<1>1. cap \in Nat /\ Used(t) \in SUBSET (0..(cap - 1)) /\ T \in SUBSET (0..(cap - 1))
  BY UsedFacts
<1>2. IsFiniteSet(0..(cap - 1)) /\ Cardinality(0..(cap - 1)) = cap
  BY <1>1, SlotsFinite
<1>3. IsFiniteSet(Used(t)) /\ IsFiniteSet(T) /\ Cardinality(T) <= cap
  BY <1>1, <1>2, FS_Subset
<1>. QED  BY <1>3, FS_Subset, FS_CardinalityType

\* A table with fewer entries than slots has a free one: every probe ends.
LEMMA RoomLeft ==
    ASSUME NEW cap \in Capacities, NEW t \in Tables(cap), Cardinality(Used(t)) < cap
    PROVE  Free(t) # {}
<1>. SUFFICES ASSUME Free(t) = {}  PROVE FALSE
  OBVIOUS
<1>1. Used(t) = 0..(cap - 1) /\ cap \in Nat
  BY UsedFacts
<1>. QED  BY <1>1, SlotsFinite

-----------------------------------------------------------------------------
(***************************************************************************)
(* Growing                                                                 *)
(***************************************************************************)

LEMMA PlaceType ==
    ASSUME NEW cap \in Capacities, NEW u \in Tables(cap), NEW id \in Ids,
           NEW value \in Values
    PROVE  Place(u, id, value) \in Tables(cap)
<1>1. [id |-> id, value |-> value] \in Entry \cup {Absent}
  BY DEF Entry
<1>. QED  BY <1>1 DEF Place, Tables

LEMMA EmptyTableFacts ==
    ASSUME NEW cap \in Capacities
    PROVE  /\ EmptyTable(cap) \in Tables(cap) /\ Used(EmptyTable(cap)) = {}
           /\ Sound(EmptyTable(cap), cap) /\ Entries(EmptyTable(cap)) = {}
<1>1. EmptyTable(cap) \in Tables(cap) /\ Used(EmptyTable(cap)) = {}
  BY DEF EmptyTable, Tables, Used
<1>. QED  BY <1>1 DEF Sound, Reached, NoIdTwice, Entries

\* The entries of t in its first n slots.
UsedBelow(t, n) == {j \in Used(t) : j < n}

\* The states grow() goes through, one per slot of the old table.
LEMMA GrowLoop ==
    ASSUME NEW cap \in Capacities, 2 * cap \in Capacities, NEW t \in Tables(cap)
    PROVE  \E m \in [0..cap -> Tables(2 * cap)] :
               /\ m[0] = EmptyTable(2 * cap) /\ m[cap] = Grow(t)
               /\ \A n \in 1..cap :
                      m[n] = IF t[n - 1] = Absent THEN m[n - 1]
                             ELSE Place(m[n - 1], t[n - 1].id, t[n - 1].value)
<1>. DEFINE S == Tables(2 * cap)
            a == EmptyTable(2 * cap)
            Turn(u, n) == IF t[n - 1] = Absent THEN u
                          ELSE Place(u, t[n - 1].id, t[n - 1].value)
            step == [n \in 1..cap |-> [u \in S |-> Turn(u, n)]]
            IsLoop(f) == f = [n \in 0..cap |-> IF n = 0 THEN a ELSE Turn(f[n - 1], n)]
<1>1. cap \in Nat /\ Capacity(t) = cap /\ a \in S
  <2>1. cap \in Nat
    BY DEF Capacities
  <2>. QED  BY <2>1, CapacityOf, EmptyTableFacts
<1>2. ASSUME NEW n \in 1..cap, NEW u \in S  PROVE Turn(u, n) \in S
  <2>1. n - 1 \in 0..(cap - 1)
    BY <1>1
  <2>2. t[n - 1] # Absent => n - 1 \in Used(t)
    BY <1>1, <2>1, UsedFacts DEF Used
  <2>3. t[n - 1] # Absent => t[n - 1].id \in Ids /\ t[n - 1].value \in Values
    BY <2>2, UsedFacts
  <2>. QED  BY <2>3, PlaceType
<1>3. Grow(t) = (CHOOSE f : IsLoop(f))[cap]
  BY <1>1 DEF Grow
<1>. HIDE DEF Turn, S, a
<1>4. step \in Loops(S, cap)
  BY <1>2 DEF Loops
<1>5. \A n \in 1..cap, u \in S : step[n][u] = Turn(u, n)
  OBVIOUS
<1>. HIDE DEF step
<1>6. PICK g : IsRun(g, S, cap, a, step)
  BY <1>1, <1>4, LoopRuns
<1>. HIDE DEF IsLoop
<1>7. \A n \in 1..cap : g[n] = Turn(g[n - 1], n)
  <2>. TAKE n \in 1..cap
  <2>1. g[n - 1] \in S /\ g[n] = step[n][g[n - 1]]
    BY <1>1, <1>6 DEF IsRun
  <2>. QED  BY <1>5, <2>1
<1>8. g = [n \in 0..cap |-> IF n = 0 THEN a ELSE Turn(g[n - 1], n)]
  <2>1. \A n \in 0..cap : g[n] = IF n = 0 THEN a ELSE Turn(g[n - 1], n)
    BY <1>1, <1>6, <1>7 DEF IsRun
  <2>. QED  BY <1>6, <2>1 DEF IsRun
<1>. DEFINE m == CHOOSE f : IsLoop(f)
<1>9. IsLoop(m)
  BY <1>8 DEF IsLoop
<1>. HIDE DEF m
<1>10. /\ m[0] = a /\ \A n \in 1..cap : m[n] = Turn(m[n - 1], n)
       /\ m = [n \in 0..cap |-> m[n]]
  <2>1. \A n \in 0..cap : m[n] = IF n = 0 THEN a ELSE Turn(m[n - 1], n)
    BY <1>9 DEF IsLoop
  <2>2. DOMAIN m = 0..cap /\ m = [n \in 0..cap |-> m[n]]
    BY <1>9 DEF IsLoop
  <2>3. 0 \in 0..cap /\ \A n \in 1..cap : n \in 0..cap /\ n # 0
    BY <1>1
  <2>. QED  BY <2>1, <2>2, <2>3
<1>. DEFINE Bad == {n \in 0..cap : m[n] # g[n]}
<1>11. Bad = {}
  <2>. SUFFICES ASSUME Bad # {}  PROVE FALSE
    OBVIOUS
  <2>1. PICK n \in Bad : \A j \in Bad : n <= j
    <3>1. Bad \subseteq Nat
      OBVIOUS
    <3>. HIDE DEF Bad
    <3>. QED  BY <3>1, SmallestExists
  <2>2. n # 0
    BY <1>6, <1>10 DEF IsRun
  <2>3. n \in 1..cap /\ n - 1 \in 0..cap /\ n - 1 \notin Bad
    BY <1>1, <2>1, <2>2
  <2>4. m[n - 1] = g[n - 1]
    BY <2>3
  <2>. QED  BY <1>7, <1>10, <2>1, <2>3, <2>4
<1>12. m = g
  BY <1>6, <1>10, <1>11 DEF IsRun
<1>13. m \in [0..cap -> S] /\ m[cap] = Grow(t)
  BY <1>3, <1>6, <1>12 DEF m, IsRun
<1>. QED  BY <1>10, <1>13 DEF S, a, Turn

\* u holds the entries of the first n slots of t.
Regrown(u, t, n, size) == /\ Sound(u, size)
                          /\ Entries(u) = {t[j] : j \in UsedBelow(t, n)}
                          /\ Cardinality(Used(u)) = Cardinality(UsedBelow(t, n))

\* One turn of the loop of grow().
LEMMA GrowTurn ==
    ASSUME NEW cap \in Capacities, NEW size \in Capacities, cap < size,
           NEW t, Sound(t, cap), NEW n \in 0..(cap - 1),
           NEW u, Regrown(u, t, n, size), NEW v,
           v = IF t[n] = Absent THEN u ELSE Place(u, t[n].id, t[n].value)
    PROVE  Regrown(v, t, n + 1, size)
<1>1. /\ t \in Tables(cap) /\ NoIdTwice(t) /\ Sound(u, size) /\ u \in Tables(size)
      /\ Entries(u) = {t[j] : j \in UsedBelow(t, n)}
      /\ Cardinality(Used(u)) = Cardinality(UsedBelow(t, n))
  BY DEF Sound, Regrown
<1>2. /\ cap \in Nat /\ size \in Nat /\ Used(t) \subseteq 0..(cap - 1)
      /\ DOMAIN t = 0..(cap - 1)
      /\ \A i \in Used(t) : t[i].id \in Ids /\ t[i].value \in Values /\ t[i] \in Entry
  BY <1>1, UsedFacts
<1>3. CASE t[n] = Absent
  <2>1. UsedBelow(t, n + 1) = UsedBelow(t, n)
    BY <1>2, <1>3 DEF UsedBelow, Used
  <2>2. v = u
    BY <1>3
  <2>. QED  BY <2>1, <2>2 DEF Regrown
<1>4. CASE t[n] # Absent
  <2>1. n \in Used(t) /\ t[n].id \in Ids /\ t[n].value \in Values /\ t[n] \in Entry
    BY <1>2, <1>4 DEF Used
  <2>2. UsedBelow(t, n + 1) = UsedBelow(t, n) \cup {n} /\ n \notin UsedBelow(t, n)
    BY <1>2, <2>1 DEF UsedBelow
  <2>3. UsedBelow(t, n) \in SUBSET Used(t)
    BY DEF UsedBelow
  <2>4. /\ IsFiniteSet(UsedBelow(t, n)) /\ Cardinality(UsedBelow(t, n)) \in Nat
        /\ Cardinality(UsedBelow(t, n)) <= cap
    BY <1>1, <2>3, UsedFinite
  <2>5. Free(u) # {}
    BY <1>1, <1>2, <2>4, RoomLeft
  <2>6. Lacks(u, t[n].id)
    <3>. SUFFICES ASSUME NEW i \in Used(u), u[i].id = t[n].id  PROVE FALSE
      BY DEF Lacks
    <3>1. u[i] \in Entries(u)
      BY DEF Entries
    <3>2. PICK j \in UsedBelow(t, n) : u[i] = t[j]
      BY <1>1, <3>1
    <3>3. j \in Used(t) /\ j # n
      BY <2>2, <2>3, <3>2
    <3>. QED  BY <1>1, <2>1, <3>2, <3>3 DEF NoIdTwice
  <2>7. v = Place(u, t[n].id, t[n].value)
    BY <1>4
  <2>8. /\ Sound(v, size)
        /\ \E r \in Free(u) : Used(v) = Used(u) \cup {r}
        /\ Entries(v) = Entries(u) \cup {EntryOf(t[n].id, t[n].value)}
    BY <1>1, <2>1, <2>5, <2>6, <2>7, PlaceFacts
  <2>9. EntryOf(t[n].id, t[n].value) = t[n]
    BY <2>1 DEF EntryOf, Entry
  <2>10. Entries(v) = {t[j] : j \in UsedBelow(t, n + 1)}
    BY <1>1, <2>2, <2>8, <2>9
  <2>11. Cardinality(UsedBelow(t, n + 1)) = Cardinality(UsedBelow(t, n)) + 1
    BY <2>2, <2>4, FS_AddElement
  <2>12. Cardinality(Used(v)) = Cardinality(Used(u)) + 1
    <3>1. PICK r \in Free(u) : Used(v) = Used(u) \cup {r}
      BY <2>8
    <3>2. r \notin Used(u)
      BY DEF Free, Used
    <3>3. IsFiniteSet(Used(u))
      BY <1>1, UsedFinite
    <3>. QED  BY <3>1, <3>2, <3>3, FS_AddElement
  <2>. QED  BY <1>1, <2>8, <2>10, <2>11, <2>12 DEF Regrown
<1>. QED  BY <1>3, <1>4

\* grow() keeps the entries, and every one is reached again.
LEMMA GrowFacts ==
    ASSUME NEW cap \in Capacities, 2 * cap \in Capacities, NEW t, Sound(t, cap)
    PROVE  /\ Sound(Grow(t), 2 * cap) /\ Entries(Grow(t)) = Entries(t)
           /\ Cardinality(Used(Grow(t))) = Cardinality(Used(t))
<1>1. PICK size \in Capacities : size = 2 * cap
  OBVIOUS
<1>2. cap \in Nat \ {0} /\ size \in Nat /\ cap < size
  BY <1>1 DEF Capacities
<1>3. t \in Tables(cap)
  BY DEF Sound
<1>4. PICK m \in [0..cap -> Tables(size)] :
               /\ m[0] = EmptyTable(size) /\ m[cap] = Grow(t)
               /\ \A n \in 1..cap :
                      m[n] = IF t[n - 1] = Absent THEN m[n - 1]
                             ELSE Place(m[n - 1], t[n - 1].id, t[n - 1].value)
  BY <1>1, <1>3, GrowLoop
<1>. DEFINE Bad == {n \in 0..cap : ~Regrown(m[n], t, n, size)}
<1>5. 0 \notin Bad
  <2>1. UsedBelow(t, 0) = {}
    BY <1>2, <1>3, UsedFacts DEF UsedBelow
  <2>. QED  BY <1>4, <2>1, EmptyTableFacts DEF Regrown
<1>6. Bad = {}
  <2>. SUFFICES ASSUME Bad # {}  PROVE FALSE
    OBVIOUS
  <2>1. PICK n \in Bad : \A j \in Bad : n <= j
    <3>1. Bad \subseteq Nat
      OBVIOUS
    <3>. HIDE DEF Bad
    <3>. QED  BY <3>1, SmallestExists
  <2>2. n \in 0..cap /\ n # 0
    BY <1>5
  <2>3. PICK k \in 0..(cap - 1) : n = k + 1
    <3>1. n - 1 \in 0..(cap - 1) /\ n = (n - 1) + 1
      BY <1>2, <2>2
    <3>. QED  BY <3>1
  <2>4. k \in 0..cap /\ k \notin Bad
    BY <1>2, <2>1, <2>3
  <2>5. Regrown(m[k], t, k, size)
    BY <2>4
  <2>6. m[n] = IF t[k] = Absent THEN m[k] ELSE Place(m[k], t[k].id, t[k].value)
    <3>1. n \in 1..cap /\ n - 1 = k
      BY <1>2, <2>3
    <3>. QED  BY <1>4, <3>1
  <2>7. Regrown(m[n], t, k + 1, size)
    BY <1>2, <2>5, <2>6, GrowTurn
  <2>. QED  BY <2>1, <2>3, <2>7
<1>7. Regrown(Grow(t), t, cap, size)
  BY <1>2, <1>4, <1>6
<1>8. UsedBelow(t, cap) = Used(t)
  BY <1>2, <1>3, UsedFacts DEF UsedBelow
<1>. QED  BY <1>1, <1>7, <1>8 DEF Regrown, Entries

-----------------------------------------------------------------------------
(***************************************************************************)
(* Closing the gap                                                         *)
(***************************************************************************)

\* The code's cyclic comparison: an entry stays exactly when a probe for it
\* does not pass the hole.
LEMMA StaysFacts ==
    ASSUME NEW cap \in Nat \ {0}, NEW x \in 0..(cap - 1), NEW h \in 0..(cap - 1),
           NEW j \in 0..(cap - 1), x # j
    PROVE  Stays(x, h, j) <=> ~Passes(h, x, j)
BY DEF Stays, Passes

\* A probe that passes x and comes to i, i not between x and y counted from
\* z, passes y.
LEMMA PassesOn ==
    ASSUME NEW cap \in Nat \ {0}, NEW z \in 0..(cap - 1), NEW h \in 0..(cap - 1),
           NEW x \in 0..(cap - 1), NEW y \in 0..(cap - 1), NEW i \in 0..(cap - 1),
           Dist(z, x, cap) < Dist(z, y, cap), Passes(h, x, i),
           \/ Dist(z, i, cap) < Dist(z, x, cap)
           \/ Dist(z, y, cap) < Dist(z, i, cap)
    PROVE  Passes(h, y, i)
BY DEF Dist, Passes

LEMMA PassesFirst ==
    ASSUME NEW cap \in Nat \ {0}, NEW h \in 0..(cap - 1), NEW x \in 0..(cap - 1),
           NEW j \in 0..(cap - 1), Passes(h, x, j), NEW p \in 0..(cap - 1),
           Passes(h, p, x)
    PROVE  Passes(h, p, j) /\ p # j
BY DEF Passes

LEMMA DistDiffers ==
    ASSUME NEW cap \in Nat \ {0}, NEW z \in 0..(cap - 1), NEW i \in 0..(cap - 1),
           NEW j \in 0..(cap - 1)
    PROVE  /\ Dist(z, i, cap) \in Nat /\ (Dist(z, i, cap) = Dist(z, j, cap) => i = j)
           /\ Dist(z, z, cap) = 0
BY DEF Dist

\* close_gap() has looked at the d slots after z, the slot taken out of t,
\* and has come to the table u, in which x is the hole. Every probe passes
\* slots of t only, and only entries further on than d may pass the hole.
Gap(t, z, u, x, d, cap) ==
    /\ u \in Tables(cap) /\ x \in Used(t) /\ Dist(z, x, cap) <= d
    /\ \A i \in 0..(cap - 1) : Dist(z, i, cap) > d => u[i] = t[i]
    /\ Used(u) = Used(t) \ {x}
    /\ Entries(u) = Entries(t) \ {t[z]}
    /\ NoIdTwice(u)
    /\ \A i \in Used(u), p \in 0..(cap - 1) :
           Passes(Hash(u[i].id, cap), p, i)
               => p \in Used(t) /\ (p = x => Dist(z, i, cap) > d)

LEMMA GapOpens ==
    ASSUME NEW cap \in Capacities, NEW t, Sound(t, cap), NEW z \in Used(t),
           NEW u, u = [t EXCEPT ![z] = Absent]
    PROVE  Gap(t, z, u, z, 0, cap)
<1>1. t \in Tables(cap) /\ Reached(t, cap) /\ NoIdTwice(t)
  BY DEF Sound
<1>2. cap \in Nat \ {0} /\ DOMAIN t = 0..(cap - 1) /\ Used(t) \subseteq 0..(cap - 1)
  BY <1>1, UsedFacts
<1>3. /\ u \in Tables(cap) /\ DOMAIN u = 0..(cap - 1) /\ u[z] = Absent
      /\ \A i \in 0..(cap - 1) : i # z => u[i] = t[i]
  BY <1>1, <1>2 DEF Tables
<1>4. Used(u) = Used(t) \ {z} /\ \A i \in Used(u) : u[i] = t[i]
  BY <1>2, <1>3 DEF Used
<1>5. Entries(u) = Entries(t) \ {t[z]}
  <2>1. \A i \in Used(u) : t[i] # t[z]
    BY <1>1, <1>4 DEF NoIdTwice
  <2>. QED  BY <1>4, <2>1 DEF Entries
<1>6. NoIdTwice(u)
  BY <1>1, <1>4 DEF NoIdTwice
<1>7. \A i \in 0..(cap - 1) : i # z <=> Dist(z, i, cap) > 0
  BY <1>2 DEF Dist
<1>8. ASSUME NEW i \in Used(u), NEW p \in 0..(cap - 1),
             Passes(Hash(u[i].id, cap), p, i)
      PROVE  p \in Used(t) /\ Dist(z, i, cap) > 0
  <2>1. i \in 0..(cap - 1) /\ i # z /\ i \in Used(t) /\ u[i] = t[i]
    BY <1>2, <1>4
  <2>2. Dist(z, i, cap) > 0
    BY <1>7, <2>1
  <2>. QED  BY <1>1, <1>8, <2>1, <2>2 DEF Reached
<1>9. \A i \in 0..(cap - 1) : Dist(z, i, cap) > 0 => u[i] = t[i]
  BY <1>3, <1>7
<1>10. Dist(z, z, cap) <= 0
  BY <1>2 DEF Dist
<1>. QED  BY <1>3, <1>4, <1>5, <1>6, <1>10, <1>8, <1>9 DEF Gap

\* The next entry, at j, is left where it is.
LEMMA GapPassesOver ==
    ASSUME NEW cap \in Capacities, NEW t, Sound(t, cap), NEW z \in Used(t),
           NEW d \in 1..(cap - 1), NEW j \in Used(t), Dist(z, j, cap) = d,
           NEW u, NEW x, Gap(t, z, u, x, d - 1, cap),
           Stays(x, Hash(t[j].id, cap), j)
    PROVE  Gap(t, z, u, x, d, cap)
<1>1. t \in Tables(cap)
  BY DEF Sound
<1>2. /\ cap \in Nat \ {0} /\ Used(t) \subseteq 0..(cap - 1) /\ d \in Nat
      /\ \A i \in Used(t) : Hash(t[i].id, cap) \in 0..(cap - 1)
  BY <1>1, UsedFacts
<1>3. /\ u \in Tables(cap) /\ x \in Used(t) /\ Dist(z, x, cap) <= d - 1
      /\ \A i \in 0..(cap - 1) : Dist(z, i, cap) > d - 1 => u[i] = t[i]
      /\ Used(u) = Used(t) \ {x}
      /\ Entries(u) = Entries(t) \ {t[z]}
      /\ NoIdTwice(u)
      /\ \A i \in Used(u), p \in 0..(cap - 1) :
             Passes(Hash(u[i].id, cap), p, i)
                 => p \in Used(t) /\ (p = x => Dist(z, i, cap) > d - 1)
  BY DEF Gap
<1>4. /\ \A i \in 0..(cap - 1) : /\ Dist(z, i, cap) \in Nat
                                  /\ Dist(z, i, cap) = d => i = j
  BY <1>2, DistDiffers
<1>5. x # j /\ u[j] = t[j]
  BY <1>2, <1>3, <1>4
<1>6. ~Passes(Hash(u[j].id, cap), x, j)
  BY <1>2, <1>3, <1>5, StaysFacts
<1>7. ASSUME NEW i \in Used(u), NEW p \in 0..(cap - 1),
             Passes(Hash(u[i].id, cap), p, i), p = x
      PROVE  Dist(z, i, cap) > d
  <2>1. i # j /\ i \in 0..(cap - 1)
    BY <1>2, <1>3, <1>6, <1>7
  <2>2. Dist(z, i, cap) > d - 1
    BY <1>3, <1>7
  <2>3. Dist(z, i, cap) \in Nat /\ Dist(z, i, cap) # d
    BY <1>2, <2>1, DistDiffers
  <2>. QED  BY <1>2, <2>2, <2>3
<1>8. ASSUME NEW i \in 0..(cap - 1), Dist(z, i, cap) > d  PROVE u[i] = t[i]
  <2>1. Dist(z, i, cap) \in Nat
    BY <1>2, DistDiffers
  <2>2. Dist(z, i, cap) > d - 1
    BY <1>2, <1>8, <2>1
  <2>. QED  BY <1>3, <2>2
<1>9. Dist(z, x, cap) <= d
  <2>1. Dist(z, x, cap) \in Nat /\ Dist(z, x, cap) <= d - 1
    BY <1>2, <1>3, DistDiffers
  <2>. QED  BY <1>2, <2>1
<1>10. \A i \in Used(u), p \in 0..(cap - 1) :
           Passes(Hash(u[i].id, cap), p, i)
               => p \in Used(t) /\ (p = x => Dist(z, i, cap) > d)
  BY <1>3, <1>7
<1>. QED  BY <1>3, <1>8, <1>9, <1>10 DEF Gap

\* The next entry, at j, is pulled back into the hole; j is the hole now. No
\* entry before j is reached through it: its probe would have passed the free
\* slot at the end of the run.
LEMMA GapMoves ==
    ASSUME NEW cap \in Capacities, NEW t, Sound(t, cap), NEW z \in Used(t),
           NEW d \in 1..(cap - 1), NEW j \in Used(t), Dist(z, j, cap) = d,
           NEW end \in Free(t), d < Dist(z, end, cap),
           NEW u, NEW x, Gap(t, z, u, x, d - 1, cap),
           ~Stays(x, Hash(t[j].id, cap), j),
           NEW v, v \in Tables(cap), v[x] = t[j], v[j] = Absent,
           \A i \in 0..(cap - 1) : i # x /\ i # j => v[i] = u[i]
    PROVE  Gap(t, z, v, j, d, cap)
<1>1. t \in Tables(cap)
  BY DEF Sound
<1>2. /\ cap \in Nat \ {0} /\ Used(t) \subseteq 0..(cap - 1) /\ d \in Nat
      /\ \A i \in Used(t) : Hash(t[i].id, cap) \in 0..(cap - 1) /\ t[i] # Absent
      /\ Free(t) \subseteq 0..(cap - 1) /\ end \notin Used(t)
  BY <1>1, UsedFacts
<1>3. /\ u \in Tables(cap) /\ x \in Used(t) /\ Dist(z, x, cap) <= d - 1
      /\ \A i \in 0..(cap - 1) : Dist(z, i, cap) > d - 1 => u[i] = t[i]
      /\ Used(u) = Used(t) \ {x}
      /\ Entries(u) = Entries(t) \ {t[z]}
      /\ NoIdTwice(u)
      /\ \A i \in Used(u), p \in 0..(cap - 1) :
             Passes(Hash(u[i].id, cap), p, i)
                 => p \in Used(t) /\ (p = x => Dist(z, i, cap) > d - 1)
  BY DEF Gap
<1>4. \A i \in 0..(cap - 1) : /\ Dist(z, i, cap) \in Nat
                               /\ Dist(z, i, cap) = d => i = j
  BY <1>2, DistDiffers
<1>5. x # j /\ u[j] = t[j] /\ j \in Used(u)
  BY <1>2, <1>3, <1>4
<1>6. Passes(Hash(t[j].id, cap), x, j)
  BY <1>2, <1>3, <1>5, StaysFacts
<1>7. /\ DOMAIN v = 0..(cap - 1) /\ DOMAIN u = 0..(cap - 1)
  BY <1>1, <1>3, UsedFacts
<1>8. /\ Used(v) = Used(t) \ {j}
      /\ \A i \in Used(v) : i # x => i \in Used(u) /\ v[i] = u[i] /\ i # j
      /\ \A i \in Used(u) : i # j => i \in Used(v) /\ v[i] = u[i] /\ i # x
  <2>1. ASSUME NEW i \in 0..(cap - 1), i # x, i # j
        PROVE  (i \in Used(v) <=> i \in Used(u)) /\ v[i] = u[i]
    BY <1>7, <2>1 DEF Used
  <2>2. x \in Used(v) /\ j \notin Used(v)
    BY <1>2, <1>3, <1>7 DEF Used
  <2>3. Used(v) \subseteq 0..(cap - 1) /\ Used(u) \subseteq 0..(cap - 1)
    BY <1>7 DEF Used
  <2>. QED  BY <1>3, <1>5, <2>1, <2>2, <2>3
<1>9. Entries(v) = Entries(u)
  BY <1>3, <1>5, <1>8 DEF Entries
<1>10. NoIdTwice(v)
  BY <1>3, <1>5, <1>8 DEF NoIdTwice
<1>11. ASSUME NEW i \in Used(v), NEW p \in 0..(cap - 1),
              Passes(Hash(v[i].id, cap), p, i)
       PROVE  p \in Used(t) /\ (p = j => Dist(z, i, cap) > d)
  <2>1. CASE i = x
    <3>1. Passes(Hash(t[j].id, cap), p, x)
      BY <1>11, <2>1
    <3>2. Passes(Hash(t[j].id, cap), p, j) /\ p # j
      BY <1>2, <1>3, <1>6, <3>1, PassesFirst
    <3>. QED  BY <1>3, <1>5, <3>2
  <2>2. CASE i # x
    <3>1. i \in Used(u) /\ v[i] = u[i] /\ i # j /\ i \in Used(t) /\ i \in 0..(cap - 1)
      BY <1>2, <1>3, <1>8, <2>2
    <3>2. p \in Used(t)
      BY <1>3, <1>11, <3>1
    <3>3. ASSUME p = j, ~(Dist(z, i, cap) > d)  PROVE FALSE
      <4>1. Dist(z, i, cap) < Dist(z, j, cap)
        <5>1. Dist(z, i, cap) \in Nat /\ Dist(z, i, cap) # d
          BY <1>2, <3>1, DistDiffers
        <5>. QED  BY <1>2, <3>3, <5>1
      <4>2. Hash(u[i].id, cap) \in 0..(cap - 1)
        BY <1>3, <3>1, UsedFacts
      <4>3. Passes(Hash(u[i].id, cap), end, i)
        BY <1>2, <1>11, <3>1, <3>3, <4>1, <4>2, PassesOn
      <4>4. end \in 0..(cap - 1)
        BY <1>2
      <4>. QED  BY <1>2, <1>3, <3>1, <4>3, <4>4
    <3>. QED  BY <3>2, <3>3
  <2>. QED  BY <2>1, <2>2
<1>12. ASSUME NEW i \in 0..(cap - 1), Dist(z, i, cap) > d  PROVE v[i] = t[i]
  <2>1. Dist(z, i, cap) \in Nat
    BY <1>2, DistDiffers
  <2>2. Dist(z, i, cap) > d - 1 /\ i # j
    BY <1>2, <1>12, <2>1
  <2>3. i # x
    BY <1>2, <1>3, <2>1, <2>2
  <2>. QED  BY <1>3, <2>2, <2>3
<1>13. Dist(z, j, cap) <= d
  BY <1>2
<1>. QED  BY <1>3, <1>8, <1>9, <1>10, <1>11, <1>12, <1>13 DEF Gap

\* At the end of the run nothing is reached through the hole any more.
LEMMA GapCloses ==
    ASSUME NEW cap \in Capacities, NEW t, Sound(t, cap), NEW z \in Used(t),
           NEW end \in Free(t), NEW d \in 0..(cap - 1), Dist(z, end, cap) = d + 1,
           NEW u, NEW x, Gap(t, z, u, x, d, cap)
    PROVE  Sound(u, cap) /\ Entries(u) = Entries(t) \ {t[z]} /\ Used(u) = Used(t) \ {x}
<1>1. t \in Tables(cap)
  BY DEF Sound
<1>2. /\ cap \in Nat \ {0} /\ Used(t) \subseteq 0..(cap - 1) /\ d \in Nat
      /\ end \in 0..(cap - 1) /\ end \notin Used(t)
  BY <1>1, UsedFacts
<1>3. /\ u \in Tables(cap) /\ x \in Used(t) /\ Dist(z, x, cap) <= d
      /\ Used(u) = Used(t) \ {x}
      /\ Entries(u) = Entries(t) \ {t[z]}
      /\ NoIdTwice(u)
      /\ \A i \in Used(u), p \in 0..(cap - 1) :
             Passes(Hash(u[i].id, cap), p, i)
                 => p \in Used(t) /\ (p = x => Dist(z, i, cap) > d)
  BY DEF Gap
<1>4. \A i \in 0..(cap - 1) : /\ Dist(z, i, cap) \in Nat
                               /\ Dist(z, i, cap) = d + 1 => i = end
  BY <1>2, DistDiffers
<1>5. Reached(u, cap)
  <2>. SUFFICES ASSUME NEW i \in Used(u), NEW p \in 0..(cap - 1),
                       Passes(Hash(u[i].id, cap), p, i)
                PROVE  p \in Used(u)
    BY DEF Reached
  <2>1. i \in 0..(cap - 1) /\ i \in Used(t) /\ Hash(u[i].id, cap) \in 0..(cap - 1)
    BY <1>2, <1>3, UsedFacts
  <2>2. ASSUME p = x  PROVE FALSE
    <3>1. Dist(z, i, cap) > d /\ i # end
      BY <1>2, <1>3, <2>1, <2>2
    <3>2. Dist(z, end, cap) < Dist(z, i, cap) /\ Dist(z, x, cap) < Dist(z, end, cap)
      <4>1. Dist(z, i, cap) \in Nat /\ Dist(z, i, cap) # d + 1
        BY <1>2, <2>1, <3>1, DistDiffers
      <4>2. Dist(z, x, cap) \in Nat
        BY <1>2, <1>3, DistDiffers
      <4>. QED  BY <1>2, <1>3, <3>1, <4>1, <4>2
    <3>3. Passes(Hash(u[i].id, cap), end, i)
      BY <1>2, <1>3, <2>1, <2>2, <3>2, PassesOn
    <3>. QED  BY <1>2, <1>3, <3>3
  <2>. QED  BY <1>3, <2>2
<1>. QED  BY <1>3, <1>5 DEF Sound

Shifts(cap) == [table : Tables(cap), hole : 0..(cap - 1)]

\* What the loop of close_gap() does with the entry of t at j.
Shift(s, t, j, cap) ==
    IF Stays(s.hole, Hash(t[j].id, cap), j) THEN s
    ELSE [table |-> [s.table EXCEPT ![s.hole] = t[j]], hole |-> j]

LEMMA ShiftType ==
    ASSUME NEW cap \in Capacities, NEW t \in Tables(cap), NEW j \in 0..(cap - 1),
           NEW s \in Shifts(cap)
    PROVE  Shift(s, t, j, cap) \in Shifts(cap)
<1>1. s.table \in Tables(cap) /\ s.hole \in 0..(cap - 1)
  BY DEF Shifts
<1>2. t[j] \in Entry \cup {Absent}
  BY DEF Tables
<1>3. [s.table EXCEPT ![s.hole] = t[j]] \in Tables(cap)
  BY <1>1, <1>2 DEF Tables
<1>. QED  BY <1>3 DEF Shift, Shifts

\* The states close_gap() goes through, one per slot of the run after z, which
\* ends before a free slot.
IsClosing(m, run, t, z, cap) ==
    /\ m \in [0..run -> Shifts(cap)]
    /\ On(z, run + 1, cap) \in Free(t)
    /\ m[0] = [table |-> t, hole |-> z]
    /\ \A d \in 1..run : /\ On(z, d, cap) \in Used(t)
                          /\ m[d] = Shift(m[d - 1], t, On(z, d, cap), cap)
    /\ CloseGap(t, z) = [m[run].table EXCEPT ![m[run].hole] = Absent]

LEMMA CloseGapLoop ==
    ASSUME NEW cap \in Capacities, NEW t \in Tables(cap), NEW z \in Used(t),
           Free(t) # {}
    PROVE  \E run \in 0..(cap - 2) : \E m : IsClosing(m, run, t, z, cap)
<1>. DEFINE at(d) == (z + d) % cap
            ends == {d \in 1..(cap - 1) : t[at(d)] = Absent}
            run == IF ends = {} THEN cap - 1
                   ELSE (CHOOSE d \in ends : \A e \in ends : d <= e) - 1
            S == Shifts(cap)
            a == [table |-> t, hole |-> z]
            Turn(s, d) == IF Stays(s.hole, Hash(t[at(d)].id, cap), at(d)) THEN s
                          ELSE [table |-> [s.table EXCEPT ![s.hole] = t[at(d)]],
                                hole |-> at(d)]
            IsLoop(f) == f = [d \in 0..run |-> IF d = 0 THEN a ELSE Turn(f[d - 1], d)]
<1>1. /\ cap \in Nat \ {0} /\ z \in 0..(cap - 1) /\ Capacity(t) = cap
      /\ DOMAIN t = 0..(cap - 1) /\ Free(t) \subseteq 0..(cap - 1)
      /\ z \notin Free(t)
  BY UsedFacts, CapacityOf
<1>2. \A d \in 0..(cap - 1) : at(d) = On(z, d, cap) /\ On(z, d, cap) \in 0..(cap - 1)
  BY <1>1, OnIsRemainder, Circle
<1>3. CloseGap(t, z) = [(CHOOSE f : IsLoop(f))[run].table
                            EXCEPT ![(CHOOSE f : IsLoop(f))[run].hole] = Absent]
  BY <1>1 DEF CloseGap
<1>. HIDE DEF at
<1>4. PICK d \in ends : \A e \in ends : d <= e
  <2>1. PICK i \in Free(t) : TRUE
    OBVIOUS
  <2>2. i \in 0..(cap - 1) /\ i # z /\ t[i] = Absent
    BY <1>1, <2>1 DEF Free
  <2>3. /\ Dist(z, i, cap) \in 0..(cap - 1) /\ On(z, Dist(z, i, cap), cap) = i
    BY <1>1, <2>2, Circle
  <2>4. Dist(z, i, cap) # 0
    BY <1>1, <2>2 DEF Dist
  <2>5. PICK k : k = Dist(z, i, cap)
    OBVIOUS
  <2>6. k \in 1..(cap - 1) /\ at(k) = i
    BY <1>1, <1>2, <2>3, <2>4, <2>5
  <2>7. k \in ends
    BY <2>2, <2>6
  <2>8. ends \subseteq Nat
    BY <1>1
  <2>. HIDE DEF ends
  <2>. QED  BY <2>7, <2>8, SmallestExists
<1>5. /\ run \in 0..(cap - 2) /\ run + 1 \in ends /\ \A e \in ends : run + 1 <= e
  <2>1. d \in 1..(cap - 1) /\ \A e \in ends : e \in 1..(cap - 1)
    BY <1>4
  <2>. HIDE DEF ends
  <2>2. PICK c : c = CHOOSE f \in ends : \A e \in ends : f <= e
    OBVIOUS
  <2>3. c \in ends /\ \A e \in ends : c <= e
    BY <1>4, <2>2
  <2>4. run = c - 1 /\ c \in 1..(cap - 1)
    BY <1>4, <2>1, <2>2, <2>3
  <2>. HIDE DEF run
  <2>5. run + 1 = c /\ run \in 0..(cap - 2)
    BY <1>1, <2>4
  <2>. QED  BY <2>3, <2>5
<1>6. /\ On(z, run + 1, cap) \in Free(t)
      /\ \A e \in 1..run : On(z, e, cap) \in Used(t)
  <2>1. \A e \in ends : e \in 1..(cap - 1) /\ t[at(e)] = Absent
    OBVIOUS
  <2>2. \A e \in 1..(cap - 1) : t[at(e)] = Absent => e \in ends
    OBVIOUS
  <2>. HIDE DEF ends, run
  <2>3. On(z, run + 1, cap) \in Free(t)
    BY <1>1, <1>2, <1>5, <2>1 DEF Free
  <2>4. ASSUME NEW e \in 1..run  PROVE On(z, e, cap) \in Used(t)
    <3>1. e \in 1..(cap - 1) /\ e \in 0..(cap - 1) /\ ~(run + 1 <= e)
      BY <1>1, <1>5
    <3>2. t[at(e)] # Absent
      BY <1>5, <2>2, <3>1
    <3>. QED  BY <1>1, <1>2, <3>1, <3>2 DEF Used
  <2>. QED  BY <2>3, <2>4
<1>7. \A e \in 1..run, s \in S : Turn(s, e) = Shift(s, t, On(z, e, cap), cap)
  <2>. HIDE DEF run
  <2>. TAKE e \in 1..run, s \in S
  <2>1. at(e) = On(z, e, cap)
    BY <1>1, <1>2, <1>5
  <2>. QED  BY <2>1 DEF Shift
<1>. HIDE DEF Turn, run, ends
<1>8. \A e \in 1..run, s \in S : Turn(s, e) \in S
  <2>. TAKE e \in 1..run, s \in S
  <2>1. On(z, e, cap) \in 0..(cap - 1)
    BY <1>6, UsedFacts
  <2>2. Shift(s, t, On(z, e, cap), cap) \in S
    BY <2>1, ShiftType
  <2>. QED  BY <1>7, <2>2
<1>9. a \in S
  BY <1>1 DEF Shifts
<1>. DEFINE step == [e \in 1..run |-> [s \in S |-> Turn(s, e)]]
<1>. HIDE DEF S, a
<1>10. step \in Loops(S, run)
  BY <1>8 DEF Loops
<1>11. \A e \in 1..run, s \in S : step[e][s] = Turn(s, e)
  OBVIOUS
<1>. HIDE DEF step
<1>12. run \in Nat
  BY <1>1, <1>5
<1>13. PICK g : IsRun(g, S, run, a, step)
  BY <1>9, <1>10, <1>12, LoopRuns
<1>. HIDE DEF IsLoop
<1>14. \A e \in 1..run : g[e] = Turn(g[e - 1], e)
  <2>. TAKE e \in 1..run
  <2>1. g[e - 1] \in S /\ g[e] = step[e][g[e - 1]]
    BY <1>12, <1>13 DEF IsRun
  <2>. QED  BY <1>11, <2>1
<1>15. g = [e \in 0..run |-> IF e = 0 THEN a ELSE Turn(g[e - 1], e)]
  <2>1. \A e \in 0..run : g[e] = IF e = 0 THEN a ELSE Turn(g[e - 1], e)
    BY <1>12, <1>13, <1>14 DEF IsRun
  <2>. QED  BY <1>13, <2>1 DEF IsRun
<1>. DEFINE m == CHOOSE f : IsLoop(f)
<1>16. IsLoop(m)
  BY <1>15 DEF IsLoop
<1>. HIDE DEF m
<1>17. /\ m[0] = a /\ \A e \in 1..run : m[e] = Turn(m[e - 1], e)
       /\ m = [e \in 0..run |-> m[e]]
  <2>1. \A e \in 0..run : m[e] = IF e = 0 THEN a ELSE Turn(m[e - 1], e)
    BY <1>16 DEF IsLoop
  <2>2. DOMAIN m = 0..run /\ m = [e \in 0..run |-> m[e]]
    BY <1>16 DEF IsLoop
  <2>3. 0 \in 0..run /\ \A e \in 1..run : e \in 0..run /\ e # 0
    BY <1>12
  <2>. QED  BY <2>1, <2>2, <2>3
<1>. DEFINE Bad == {e \in 0..run : m[e] # g[e]}
<1>18. Bad = {}
  <2>. SUFFICES ASSUME Bad # {}  PROVE FALSE
    OBVIOUS
  <2>1. PICK e \in Bad : \A j \in Bad : e <= j
    <3>1. Bad \subseteq Nat
      OBVIOUS
    <3>. HIDE DEF Bad
    <3>. QED  BY <3>1, SmallestExists
  <2>2. e # 0
    BY <1>13, <1>17 DEF IsRun
  <2>3. e \in 1..run /\ e - 1 \in 0..run /\ e - 1 \notin Bad
    BY <1>12, <2>1, <2>2
  <2>4. m[e - 1] = g[e - 1]
    BY <2>3
  <2>. QED  BY <1>14, <1>17, <2>1, <2>3, <2>4
<1>19. m = g
  BY <1>13, <1>17, <1>18 DEF IsRun
<1>20. m \in [0..run -> S]
  BY <1>13, <1>19 DEF IsRun
<1>21. CloseGap(t, z) = [m[run].table EXCEPT ![m[run].hole] = Absent]
  BY <1>3 DEF m
<1>22. \A e \in 1..run : m[e] = Shift(m[e - 1], t, On(z, e, cap), cap)
  <2>. TAKE e \in 1..run
  <2>1. m[e - 1] \in S
    BY <1>12, <1>20
  <2>. QED  BY <1>7, <1>17, <2>1
<1>. QED  BY <1>5, <1>6, <1>17, <1>20, <1>21, <1>22 DEF S, a, IsClosing

\* One turn of the loop of close_gap().
LEMMA ShiftTurn ==
    ASSUME NEW cap \in Capacities, NEW t, Sound(t, cap), NEW z \in Used(t),
           NEW d \in 1..(cap - 1), NEW j \in Used(t), Dist(z, j, cap) = d,
           NEW end \in Free(t), d < Dist(z, end, cap),
           NEW s \in Shifts(cap),
           Gap(t, z, [s.table EXCEPT ![s.hole] = Absent], s.hole, d - 1, cap),
           NEW r, r = Shift(s, t, j, cap)
    PROVE  Gap(t, z, [r.table EXCEPT ![r.hole] = Absent], r.hole, d, cap)
<1>. DEFINE u == [s.table EXCEPT ![s.hole] = Absent]
            v == [r.table EXCEPT ![r.hole] = Absent]
<1>1. s.table \in Tables(cap) /\ s.hole \in 0..(cap - 1)
  BY DEF Shifts
<1>2. CASE Stays(s.hole, Hash(t[j].id, cap), j)
  <2>1. r = s
    BY <1>2 DEF Shift
  <2>2. Gap(t, z, u, s.hole, d, cap)
    BY <1>2, GapPassesOver
  <2>. QED  BY <2>1, <2>2
<1>3. CASE ~Stays(s.hole, Hash(t[j].id, cap), j)
  <2>1. r.table = [s.table EXCEPT ![s.hole] = t[j]] /\ r.hole = j
    BY <1>3 DEF Shift
  <2>2. t \in Tables(cap) /\ j \in 0..(cap - 1) /\ t[j] \in Entry
    BY UsedFacts DEF Sound
  <2>3. s.hole # j
    <3>1. Dist(z, s.hole, cap) <= d - 1
      BY DEF Gap
    <3>2. d \in Nat
      BY UsedFacts, <2>2
    <3>. QED  BY <3>1, <3>2
  <2>4. /\ v \in Tables(cap) /\ v[s.hole] = t[j] /\ v[j] = Absent
        /\ \A i \in 0..(cap - 1) : i # s.hole /\ i # j => v[i] = u[i]
    BY <1>1, <2>1, <2>2, <2>3 DEF Tables
  <2>. HIDE DEF u, v
  <2>5. Gap(t, z, u, s.hole, d - 1, cap)
    BY DEF u
  <2>6. Gap(t, z, v, j, d, cap)
    BY <1>3, <2>4, <2>5, GapMoves
  <2>. QED  BY <2>1, <2>6 DEF v
<1>. QED  BY <1>2, <1>3

\* close_gap() takes the entry at z out of the table and no other, and every
\* entry left is reached.
LEMMA CloseGapFacts ==
    ASSUME NEW cap \in Capacities, NEW t, Sound(t, cap), Free(t) # {}, NEW z \in Used(t)
    PROVE  /\ Sound(CloseGap(t, z), cap)
           /\ Entries(CloseGap(t, z)) = Entries(t) \ {t[z]}
           /\ \E x \in Used(t) : Used(CloseGap(t, z)) = Used(t) \ {x}
<1>1. t \in Tables(cap)
  BY DEF Sound
<1>2. /\ cap \in Nat \ {0} /\ z \in 0..(cap - 1) /\ Free(t) \subseteq 0..(cap - 1)
  BY <1>1, UsedFacts
<1>0. PICK run \in 0..(cap - 2) : \E m : IsClosing(m, run, t, z, cap)
  BY <1>1, CloseGapLoop
<1>3. PICK m : IsClosing(m, run, t, z, cap)
  BY <1>0
<1>4. PICK end \in Free(t) : end = On(z, run + 1, cap)
  BY <1>3 DEF IsClosing
<1>5. run \in Nat /\ Dist(z, end, cap) = run + 1
  <2>1. run \in Nat /\ run + 1 \in 0..(cap - 1)
    BY <1>2
  <2>. QED  BY <1>2, <1>4, <2>1, Circle
<1>. DEFINE Open(d) == Gap(t, z, [m[d].table EXCEPT ![m[d].hole] = Absent],
                           m[d].hole, d, cap)
            Bad == {d \in 0..run : ~Open(d)}
<1>6. Open(0)
  <2>1. m[0].table = t /\ m[0].hole = z
    BY <1>3 DEF IsClosing
  <2>. QED  BY <2>1, GapOpens
<1>7. ASSUME NEW d \in 1..run, Open(d - 1)  PROVE Open(d)
  <2>1. d \in 1..(cap - 1) /\ d \in 0..(cap - 1) /\ d < run + 1
    BY <1>2, <1>5
  <2>2. PICK j \in Used(t) : j = On(z, d, cap)
    BY <1>3 DEF IsClosing
  <2>3. Dist(z, j, cap) = d
    BY <1>2, <2>1, <2>2, Circle
  <2>4. m[d - 1] \in Shifts(cap) /\ m[d] = Shift(m[d - 1], t, j, cap)
    <3>1. d - 1 \in 0..run
      BY <1>5
    <3>. QED  BY <1>3, <2>2, <3>1 DEF IsClosing
  <2>5. d < Dist(z, end, cap)
    BY <1>5, <2>1
  <2>. QED  BY <1>7, <2>1, <2>3, <2>4, <2>5, ShiftTurn
<1>. HIDE DEF Open
<1>8. Bad = {}
  <2>. SUFFICES ASSUME Bad # {}  PROVE FALSE
    OBVIOUS
  <2>1. PICK d \in Bad : \A e \in Bad : d <= e
    <3>1. Bad \subseteq Nat
      OBVIOUS
    <3>. HIDE DEF Bad
    <3>. QED  BY <3>1, SmallestExists
  <2>2. d # 0
    BY <1>6, <2>1
  <2>3. d \in 1..run /\ d - 1 \in 0..run /\ d - 1 \notin Bad
    BY <1>5, <2>1, <2>2
  <2>. QED  BY <1>7, <2>1, <2>3
<1>9. Open(run)
  BY <1>5, <1>8
<1>10. PICK x : x = m[run].hole
  OBVIOUS
<1>11. Gap(t, z, CloseGap(t, z), x, run, cap)
  BY <1>3, <1>9, <1>10 DEF Open, IsClosing
<1>12. run \in 0..(cap - 1)
  BY <1>2, <1>5
<1>13. x \in Used(t)
  BY <1>11 DEF Gap
<1>. QED  BY <1>5, <1>11, <1>12, <1>13, GapCloses

-----------------------------------------------------------------------------
(***************************************************************************)
(* What find() answers after a step                                        *)
(***************************************************************************)
Answers(t) == [id \in Ids |-> Find(t, id)]

LEMMA AnswersAfterEnter ==
    ASSUME NEW cap \in Capacities, NEW t, Sound(t, cap), Free(t) # {},
           NEW size \in Capacities, NEW u, Sound(u, size), Free(u) # {},
           NEW id \in Ids, NEW value \in Values,
           Entries(u) = Entries(t) \cup {EntryOf(id, value)}
    PROVE  Answers(u) = [Answers(t) EXCEPT ![id] = value]
<1>1. EntryOf(id, value).id = id /\ EntryOf(id, value).value = value
  BY DEF EntryOf
<1>2. ASSUME NEW k \in Ids, k # id  PROVE Find(u, k) = Find(t, k)
  <2>1. \A e \in Entry : e.id = k => (e \in Entries(t) <=> e \in Entries(u))
    BY <1>1, <1>2
  <2>. QED  BY <2>1, SameAnswer
<1>3. Find(u, id) = value
  <2>1. PICK i \in Used(u) : u[i] = EntryOf(id, value)
    BY DEF Entries
  <2>2. Find(u, u[i].id) = u[i].value
    BY FindFacts
  <2>. QED  BY <1>1, <2>1, <2>2
<1>. QED  BY <1>2, <1>3 DEF Answers

LEMMA AnswersAfterTake ==
    ASSUME NEW cap \in Capacities, NEW t, Sound(t, cap), Free(t) # {}, NEW z \in Used(t),
           NEW u, Sound(u, cap), Free(u) # {}, Entries(u) = Entries(t) \ {t[z]}
    PROVE  Answers(u) = [Answers(t) EXCEPT ![t[z].id] = Absent]
<1>1. t[z].id \in Ids
  BY UsedFacts DEF Sound
<1>2. ASSUME NEW k \in Ids, k # t[z].id  PROVE Find(u, k) = Find(t, k)
  <2>1. \A e \in Entry : e.id = k => (e \in Entries(t) <=> e \in Entries(u))
    BY <1>2
  <2>. QED  BY <2>1, SameAnswer
<1>3. Find(u, t[z].id) = Absent
  <2>1. Lacks(u, t[z].id)
    <3>. SUFFICES ASSUME NEW i \in Used(u), u[i].id = t[z].id  PROVE FALSE
      BY DEF Lacks
    <3>1. u[i] \in Entries(t) /\ u[i] # t[z]
      BY DEF Entries
    <3>2. PICK j \in Used(t) : t[j] = u[i]
      BY <3>1 DEF Entries
    <3>. QED  BY <3>1, <3>2 DEF Sound, NoIdTwice
  <2>. QED  BY <1>1, <2>1, FindFacts
<1>. QED  BY <1>2, <1>3 DEF Answers

\* Where take() finds nothing there is nothing; what it finds is the entry.
LEMMA SeekFacts ==
    ASSUME NEW cap \in Capacities, NEW t, Sound(t, cap), Free(t) # {}, NEW id \in Ids
    PROVE  /\ t[Seek(t, id)] = Absent => Lacks(t, id)
           /\ t[Seek(t, id)] # Absent => Seek(t, id) \in Used(t) /\ t[Seek(t, id)].id = id
           /\ Find(t, id) \in Values \cup {Absent}
<1>1. t \in Tables(cap)
  BY DEF Sound
<1>2. CASE Lacks(t, id)
  <2>1. Seek(t, id) \in Free(t) /\ Find(t, id) = Absent
    BY <1>1, <1>2, SeekMisses, FindFacts
  <2>. QED  BY <1>2, <2>1 DEF Free
<1>3. CASE ~Lacks(t, id)
  <2>1. PICK i \in Used(t) : t[i].id = id
    BY <1>3 DEF Lacks
  <2>2. Seek(t, t[i].id) = i /\ Find(t, t[i].id) = t[i].value
    BY SeekFinds, FindFacts
  <2>3. t[i] # Absent /\ t[i].value \in Values
    BY <1>1, UsedFacts
  <2>. QED  BY <2>1, <2>2, <2>3
<1>. QED  BY <1>2, <1>3

-----------------------------------------------------------------------------
(***************************************************************************)
(* The invariant                                                           *)
(***************************************************************************)
\* t is a sound table of n entries, at most half full.
HalfFull(t, cap, n) == /\ cap \in Capacities /\ Sound(t, cap)
                       /\ n = Cardinality(Used(t)) /\ 2 * n <= cap

LEMMA HalfFullFacts ==
    ASSUME NEW t, NEW cap, NEW n, HalfFull(t, cap, n)
    PROVE  /\ t \in Tables(cap) /\ cap \in Capacities /\ Sound(t, cap)
           /\ Capacity(t) = cap /\ n \in Nat /\ Free(t) # {} /\ IsFiniteSet(Used(t))
<1>1. cap \in Capacities /\ t \in Tables(cap) /\ cap \in Nat \ {0} /\ Sound(t, cap)
  BY DEF HalfFull, Sound, Capacities
<1>2. Capacity(t) = cap
  BY <1>1, CapacityOf
<1>3. IsFiniteSet(Used(t)) /\ Cardinality(Used(t)) \in Nat
  BY <1>1, UsedFinite
<1>4. n \in Nat /\ n < cap /\ n = Cardinality(Used(t))
  BY <1>1, <1>3 DEF HalfFull
<1>5. Free(t) # {}
  BY <1>1, <1>4, RoomLeft
<1>. QED  BY <1>1, <1>2, <1>3, <1>4, <1>5

LEMMA Doubled ==
    ASSUME NEW cap \in Capacities, 2 * cap <= MaxCapacity
    PROVE  2 * cap \in Capacities
<1>1. /\ cap \in Nat \ {0} /\ MaxCapacity \in Nat /\ InitialCapacity \in Nat \ {0}
      /\ cap % InitialCapacity = 0
  BY IndexAssumption DEF Capacities
<1>. DEFINE q == cap \div InitialCapacity
<1>2. q \in Nat /\ cap = q * InitialCapacity + (cap % InitialCapacity)
  BY <1>1, Division
<1>. HIDE DEF q
<1>3. 2 * cap = (2 * q) * InitialCapacity /\ 2 * q \in Nat
  BY <1>1, <1>2
<1>4. (2 * cap) % InitialCapacity = 0
  BY <1>1, <1>3, MultipleOf
<1>. QED  BY <1>1, <1>4 DEF Capacities

\* What insert() does to the table.
LEMMA EnterFacts ==
    ASSUME NEW cap, NEW n, NEW t, HalfFull(t, cap, n), NEW id \in Ids,
           NEW value \in Values, Find(t, id) = Absent,
           MustGrow(t, n) => 2 * Capacity(t) <= MaxCapacity,
           NEW u, u = Place(IF MustGrow(t, n) THEN Grow(t) ELSE t, id, value)
    PROVE  \E size \in Capacities :
               /\ HalfFull(u, size, n + 1)
               /\ Entries(u) = Entries(t) \cup {EntryOf(id, value)}
<1>1. /\ t \in Tables(cap) /\ cap \in Capacities /\ Sound(t, cap)
      /\ Capacity(t) = cap /\ n \in Nat /\ Free(t) # {} /\ cap \in Nat \ {0}
      /\ n = Cardinality(Used(t)) /\ 2 * n <= cap
  BY HalfFullFacts DEF HalfFull, Capacities
<1>2. Lacks(t, id)
  BY <1>1, FindAbsent
<1>3. PICK size, g : /\ size \in Capacities /\ Sound(g, size) /\ Entries(g) = Entries(t)
                     /\ Cardinality(Used(g)) = n /\ 2 * (n + 1) <= size
                     /\ u = Place(g, id, value)
  <2>1. CASE MustGrow(t, n)
    <3>1. 2 * cap \in Capacities
      BY <1>1, <2>1, Doubled
    <3>2. /\ Sound(Grow(t), 2 * cap) /\ Entries(Grow(t)) = Entries(t)
          /\ Cardinality(Used(Grow(t))) = n
      BY <1>1, <3>1, GrowFacts
    <3>3. 2 * (n + 1) <= 2 * cap
      BY <1>1
    <3>. QED  BY <2>1, <3>1, <3>2, <3>3
  <2>2. CASE ~MustGrow(t, n)
    <3>1. 2 * (n + 1) <= cap
      BY <1>1, <2>2 DEF MustGrow
    <3>. QED  BY <1>1, <2>2, <3>1
  <2>. QED  BY <2>1, <2>2
<1>4. g \in Tables(size) /\ size \in Nat /\ n < size
  BY <1>1, <1>3 DEF Sound, Capacities
<1>5. Free(g) # {} /\ IsFiniteSet(Used(g))
  BY <1>3, <1>4, RoomLeft, UsedFinite
<1>6. Lacks(g, id)
  <2>. SUFFICES ASSUME NEW i \in Used(g)  PROVE g[i].id # id
    BY DEF Lacks
  <2>1. g[i] \in Entries(t)
    BY <1>3 DEF Entries
  <2>. QED  BY <1>2, <2>1 DEF Entries, Lacks
<1>7. /\ Sound(u, size)
      /\ \E r \in Free(g) : Used(u) = Used(g) \cup {r}
      /\ Entries(u) = Entries(g) \cup {EntryOf(id, value)}
  BY <1>3, <1>5, <1>6, PlaceFacts
<1>8. Cardinality(Used(u)) = n + 1
  <2>1. PICK r \in Free(g) : Used(u) = Used(g) \cup {r}
    BY <1>7
  <2>2. r \notin Used(g)
    BY DEF Free, Used
  <2>. QED  BY <1>3, <1>5, <2>1, <2>2, FS_AddElement
<1>. QED  BY <1>3, <1>7, <1>8 DEF HalfFull

\* What take() does to a table that has the id.
LEMMA TakeFacts ==
    ASSUME NEW cap, NEW n, NEW t, HalfFull(t, cap, n), NEW z \in Used(t),
           NEW u, u = CloseGap(t, z)
    PROVE  HalfFull(u, cap, n - 1) /\ Entries(u) = Entries(t) \ {t[z]}
<1>1. /\ cap \in Capacities /\ Sound(t, cap) /\ n \in Nat /\ Free(t) # {}
      /\ cap \in Nat /\ IsFiniteSet(Used(t))
      /\ n = Cardinality(Used(t)) /\ 2 * n <= cap
  BY HalfFullFacts DEF HalfFull, Capacities
<1>2. /\ Sound(u, cap) /\ Entries(u) = Entries(t) \ {t[z]}
      /\ \E x \in Used(t) : Used(u) = Used(t) \ {x}
  BY <1>1, CloseGapFacts
<1>3. Cardinality(Used(u)) = n - 1
  BY <1>1, <1>2, FS_RemoveElement
<1>4. 2 * (n - 1) <= cap
  BY <1>1
<1>. QED  BY <1>1, <1>2, <1>3, <1>4 DEF HalfFull

\* The table is sound and at most half full: the strengthening of TypeOK that
\* is inductive. EveryEntryReachable follows from it but is not: what a probe
\* passes has to be known, not only where it ends.
IInv == /\ HalfFull(table, Capacity(table), count)
        /\ grow_count \in Nat
        /\ taken \in Values \cup {Absent}

LEMMA InitInv == Init => IInv
<1>. SUFFICES ASSUME Init  PROVE IInv
  OBVIOUS
<1>1. /\ InitialCapacity \in Nat \ {0} /\ InitialCapacity <= MaxCapacity /\ MaxCapacity \in Nat
      /\ table = EmptyTable(InitialCapacity) /\ count = 0
      /\ grow_count = 0 /\ taken = Absent
  BY IndexAssumption DEF Init
<1>2. InitialCapacity \in Capacities
  <2>1. (1 * InitialCapacity) % InitialCapacity = 0
    BY <1>1, MultipleOf
  <2>. QED  BY <1>1, <2>1 DEF Capacities
<1>3. /\ table \in Tables(InitialCapacity) /\ Used(table) = {}
      /\ Sound(table, InitialCapacity)
  BY <1>1, <1>2, EmptyTableFacts
<1>4. Capacity(table) = InitialCapacity
  BY <1>1, <1>3, CapacityOf
<1>5. Cardinality(Used(table)) = 0
  BY <1>3, FS_EmptySet
<1>6. HalfFull(table, InitialCapacity, 0)
  BY <1>1, <1>2, <1>3, <1>5 DEF HalfFull
<1>. QED  BY <1>1, <1>4, <1>6 DEF IInv

\* insert() keeps the invariant and gives one id its answer.
LEMMA InsertStep ==
    ASSUME IInv, NEW id \in Ids, NEW value \in Values, Insert(id, value)
    PROVE  /\ IInv'
           /\ Answers(table') = [Answers(table) EXCEPT ![id] = value]
<1>. DEFINE cap == Capacity(table)
<1>1. /\ HalfFull(table, cap, count) /\ grow_count \in Nat
      /\ taken \in Values \cup {Absent}
  BY DEF IInv
<1>. DEFINE grows == MustGrow(table, count)
<1>2. /\ Find(table, id) = Absent
      /\ grows => 2 * Capacity(table) <= MaxCapacity
      /\ table' = Place(IF grows THEN Grow(table) ELSE table, id, value)
      /\ grow_count' \in Nat /\ count' = count + 1 /\ taken' = taken
  BY <1>1 DEF Insert, Enter
<1>. HIDE DEF cap
<1>3. PICK size \in Capacities :
               /\ HalfFull(table', size, count + 1)
               /\ Entries(table') = Entries(table) \cup {EntryOf(id, value)}
  BY <1>1, <1>2, EnterFacts
<1>4. /\ cap \in Capacities /\ Sound(table, cap) /\ Free(table) # {}
      /\ Sound(table', size) /\ Free(table') # {} /\ Capacity(table') = size
  BY <1>1, <1>3, HalfFullFacts
<1>5. Answers(table') = [Answers(table) EXCEPT ![id] = value]
  BY <1>3, <1>4, AnswersAfterEnter
<1>6. IInv'
  BY <1>1, <1>2, <1>3, <1>4 DEF IInv
<1>. QED  BY <1>5, <1>6

\* take() keeps the invariant, answers what find() would have, and leaves the
\* answers for all other ids alone.
LEMMA TakeStep ==
    ASSUME IInv, NEW id \in Ids, Take(id)
    PROVE  /\ IInv'
           /\ taken' = Answers(table)[id]
           /\ Answers(table') = [Answers(table) EXCEPT ![id] = Absent]
<1>. DEFINE cap == Capacity(table)
            i == Seek(table, id)
<1>1. /\ HalfFull(table, cap, count) /\ grow_count \in Nat
  BY DEF IInv
<1>2. /\ taken' = Find(table, id) /\ grow_count' = grow_count
      /\ table[i] = Absent => table' = table /\ count' = count
      /\ table[i] # Absent => table' = CloseGap(table, i) /\ count' = count - 1
  BY DEF Take, Erase
<1>. HIDE DEF cap
<1>3. /\ cap \in Capacities /\ Sound(table, cap) /\ Free(table) # {}
      /\ Capacity(table) = cap
  BY <1>1, HalfFullFacts
<1>4. /\ table[i] = Absent => Lacks(table, id)
      /\ table[i] # Absent => i \in Used(table) /\ table[i].id = id
      /\ Find(table, id) \in Values \cup {Absent}
  BY <1>3, SeekFacts
<1>. HIDE DEF i
<1>5. taken' = Answers(table)[id]
  BY <1>2 DEF Answers
<1>6. CASE table[i] = Absent
  <2>1. Find(table, id) = Absent
    BY <1>3, <1>4, <1>6, FindFacts
  <2>2. Answers(table') = [Answers(table) EXCEPT ![id] = Absent]
    BY <1>2, <1>6, <2>1 DEF Answers
  <2>3. IInv'
    BY <1>1, <1>2, <1>3, <1>4, <1>6 DEF IInv
  <2>. QED  BY <1>5, <2>2, <2>3
<1>7. CASE table[i] # Absent
  <2>1. HalfFull(table', cap, count - 1) /\ Entries(table') = Entries(table) \ {table[i]}
    BY <1>1, <1>2, <1>4, <1>7, TakeFacts
  <2>2. Sound(table', cap) /\ Free(table') # {} /\ Capacity(table') = cap
    BY <2>1, HalfFullFacts
  <2>3. Answers(table') = [Answers(table) EXCEPT ![table[i].id] = Absent]
    BY <1>3, <1>4, <1>7, <2>1, <2>2, AnswersAfterTake
  <2>4. IInv'
    BY <1>1, <1>2, <1>4, <1>7, <2>1, <2>2 DEF IInv
  <2>. QED  BY <1>4, <1>5, <1>7, <2>3, <2>4
<1>. QED  BY <1>6, <1>7

LEMMA Invariance == Spec => []IInv
<1>1. IInv /\ [Next]_vars => IInv'
  <2>. SUFFICES ASSUME IInv, [Next]_vars  PROVE IInv'
    OBVIOUS
  <2>1. CASE UNCHANGED vars
    BY <2>1 DEF vars, IInv
  <2>2. CASE Next
    BY <2>2, InsertStep, TakeStep DEF Next
  <2>. QED  BY <2>1, <2>2
<1>. QED  BY <1>1, InitInv, PTL DEF Spec

-----------------------------------------------------------------------------
(***************************************************************************)
(* The theorems                                                            *)
(***************************************************************************)

\* The table is at most half full, whatever is inserted and removed: every
\* probing loop of id_index.hpp comes to a free slot.
THEOREM TypeCorrect == Spec => []TypeOK
<1>1. IInv => TypeOK
  <2>. SUFFICES ASSUME IInv  PROVE TypeOK
    OBVIOUS
  <2>1. HalfFull(table, Capacity(table), count)
    BY DEF IInv
  <2>2. /\ table \in Tables(Capacity(table)) /\ Capacity(table) \in Capacities
        /\ count \in Nat /\ 2 * count <= Capacity(table)
    BY <2>1, HalfFullFacts DEF HalfFull
  <2>. QED  BY <2>2 DEF IInv, TypeOK, Tables
<1>. QED  BY <1>1, Invariance, PTL

\* consistent() always answers true: a probe for an entry ends at it, through
\* every wrapped run, backward shift and growth, and count_ is the number of
\* entries.
THEOREM EntriesStayReachable == Spec => []EveryEntryReachable
<1>1. IInv => EveryEntryReachable
  <2>. SUFFICES ASSUME IInv  PROVE EveryEntryReachable
    OBVIOUS
  <2>1. HalfFull(table, Capacity(table), count)
    BY DEF IInv
  <2>2. Capacity(table) \in Capacities /\ Sound(table, Capacity(table))
    BY <2>1, HalfFullFacts
  <2>3. \A i \in Used(table) : Seek(table, table[i].id) = i
    BY <2>2, SeekFinds
  <2>4. count = Cardinality(Used(table))
    BY <2>1 DEF HalfFull
  <2>. QED  BY <2>3, <2>4 DEF EveryEntryReachable, Used
<1>. QED  BY <1>1, Invariance, PTL

\* The index implements the map: an insertion or a removal changes what find()
\* answers for its own id and for no other.
THEOREM IndexImplementsMap == Spec => ImplementsMap
<1>1. Init => Map!Init
  <2>. SUFFICES ASSUME Init  PROVE Map!Init
    OBVIOUS
  <2>1. IInv
    BY InitInv
  <2>2. HalfFull(table, Capacity(table), count) /\ table = EmptyTable(InitialCapacity)
    BY <2>1 DEF IInv, Init
  <2>3. Capacity(table) \in Capacities /\ Sound(table, Capacity(table)) /\ Free(table) # {}
    BY <2>2, HalfFullFacts
  <2>4. \A id \in Ids : Lacks(table, id)
    BY <2>2 DEF EmptyTable, Lacks, Used
  <2>5. \A id \in Ids : Find(table, id) = Absent
    BY <2>3, <2>4, FindFacts
  <2>. QED  BY <2>5 DEF Map!Init, Init
<1>2. IInv /\ [Next]_vars => [Map!Next]_<<[id \in Ids |-> Find(table, id)], taken>>
  <2>. SUFFICES ASSUME IInv, [Next]_vars
                PROVE  [Map!Next]_<<Answers(table), taken>>
    BY DEF Answers
  <2>1. CASE UNCHANGED vars
    BY <2>1 DEF vars, Answers
  <2>2. ASSUME NEW id \in Ids, Take(id)  PROVE Map!Take(id)
    BY <2>2, TakeStep DEF Map!Take, Answers
  <2>3. ASSUME NEW id \in Ids, NEW value \in Values, Insert(id, value)
        PROVE  Map!Insert(id, value)
    <3>1. Find(table, id) = Absent /\ taken' = taken
      BY <2>3 DEF Insert, Enter
    <3>. QED  BY <2>3, <3>1, InsertStep DEF Map!Insert, Answers
  <2>. QED  BY <2>1, <2>2, <2>3 DEF Next, Map!Next
<1>. QED  BY <1>1, <1>2, Invariance, PTL DEF Spec, ImplementsMap, Map!Spec
=============================================================================
