-------------------------- MODULE NodeArena_proofs --------------------------
(***************************************************************************)
(* Proofs that the arena hands out memory nobody else has, abandons little *)
(* and loses nothing, for every granule, block size, slab size and reserve.*)
(***************************************************************************)
EXTENDS NodeArena, Foundations, TLAPS

-----------------------------------------------------------------------------
(***************************************************************************)
(* Size classes                                                            *)
(***************************************************************************)

\* The bytes of a block of class c.
Size(c) == c * kGranule

LEMMA Scaled ==
    ASSUME NEW a \in Nat, NEW b \in Nat, NEW g \in Nat \ {0}
    PROVE  /\ a * g \in Nat
           /\ a <= b => a * g <= b * g
           /\ a * g < (b + 1) * g => a <= b
           /\ (b + 1) * g = b * g + g
           /\ a > 0 => a * g >= g
OBVIOUS

LEMMA SizeFacts ==
    ASSUME NEW c \in Classes
    PROVE  /\ c \in Nat /\ Size(c) \in Nat /\ Size(c) >= kGranule /\ Size(c) > 0
           /\ Size(c) <= kMaxBlock /\ Size(c) % kGranule = 0
<1>1. /\ kGranule \in Nat \ {0} /\ kMaxBlock \in Nat \ {0}
      /\ kMaxBlock % kGranule = 0
  BY ArenaAssumption
<1>2. MaxClass \in Nat /\ kMaxBlock = MaxClass * kGranule
  <2>1. kMaxBlock = (kMaxBlock \div kGranule) * kGranule + (kMaxBlock % kGranule)
        /\ kMaxBlock \div kGranule \in Nat
    BY <1>1, Division
  <2>. DEFINE d == kMaxBlock \div kGranule
  <2>2. d \in Nat /\ kMaxBlock = d * kGranule + 0
    BY <1>1, <2>1
  <2>. HIDE DEF d
  <2>3. d * kGranule \in Nat
    BY <1>1, <2>2
  <2>4. kMaxBlock = d * kGranule
    BY <2>2, <2>3
  <2>. QED  BY <2>2, <2>4 DEF MaxClass, d
<1>3. c \in Nat /\ c > 0 /\ c <= MaxClass
  BY <1>2 DEF Classes
<1>. HIDE DEF MaxClass
<1>4. /\ c * kGranule \in Nat /\ c * kGranule >= kGranule
      /\ c * kGranule <= MaxClass * kGranule
  BY <1>1, <1>2, <1>3, Scaled
<1>5. (c * kGranule) % kGranule = 0
  BY <1>1, <1>3, MultipleOf
<1>. QED  BY <1>1, <1>2, <1>3, <1>4, <1>5 DEF Size

\* size_class finds a class whose blocks are large enough.
LEMMA ClassFacts ==
    ASSUME NEW bytes \in Requests
    PROVE  SizeClass(bytes) \in Classes /\ bytes \in Nat
           /\ bytes <= Size(SizeClass(bytes))
<1>1. /\ kGranule \in Nat \ {0} /\ kMaxBlock \in Nat \ {0}
      /\ kMaxBlock % kGranule = 0 /\ bytes \in Nat /\ bytes <= kMaxBlock
  BY ArenaAssumption
<1>. DEFINE d == kMaxBlock \div kGranule
            c == (bytes + kGranule - 1) \div kGranule
            r == (bytes + kGranule - 1) % kGranule
<1>2. d \in Nat /\ kMaxBlock = d * kGranule + 0
  BY <1>1, Division
<1>3. bytes + kGranule - 1 \in Nat
  BY <1>1
<1>4. c \in Nat /\ r \in 0..(kGranule - 1) /\ bytes + kGranule - 1 = c * kGranule + r
  BY <1>1, <1>3, Division
<1>5. MaxClass = d
  BY DEF MaxClass
<1>6. SizeClass(bytes) = IF bytes = 0 THEN 1 ELSE c
  BY DEF SizeClass
<1>. HIDE DEF d, c, r
<1>7. d * kGranule \in Nat /\ c * kGranule \in Nat
  BY <1>1, <1>2, <1>4
<1>8. kMaxBlock = d * kGranule
  BY <1>2, <1>7
<1>9. d > 0
  BY <1>1, <1>2, <1>8
<1>10. CASE bytes = 0
  <2>1. 1 \in Classes
    BY <1>2, <1>5, <1>9 DEF Classes
  <2>2. Size(1) \in Nat
    BY <2>1, SizeFacts
  <2>. QED  BY <1>1, <1>6, <1>10, <2>1, <2>2
<1>11. CASE bytes # 0
  <2>1. bytes <= c * kGranule /\ c * kGranule <= bytes + kGranule - 1
    BY <1>1, <1>4, <1>7
  <2>2. c # 0
    <3>1. c = 0 => c * kGranule = 0
      BY <1>1
    <3>. QED  BY <1>1, <1>11, <2>1, <3>1
  <2>3. c * kGranule < d * kGranule + kGranule
    BY <1>1, <1>7, <1>8, <2>1
  <2>4. c <= d
    <3>1. (d + 1) * kGranule = d * kGranule + kGranule
      BY <1>1, <1>2, Scaled
    <3>2. c * kGranule < (d + 1) * kGranule => c <= d
      BY <1>1, <1>2, <1>4, Scaled
    <3>. QED  BY <2>3, <3>1, <3>2
  <2>. QED  BY <1>1, <1>2, <1>4, <1>5, <1>6, <1>11, <2>1, <2>2, <2>4 DEF Classes, Size
<1>. QED  BY <1>10, <1>11
-----------------------------------------------------------------------------
(***************************************************************************)
(* Layouts: where the blocks are                                           *)
(***************************************************************************)

\* A block of class c at b, with slabs S and the cursor at `cur`: inside its
\* slab, off the header, and below the cursor if it is in the newest slab.
Placed(S, cur, b, c) ==
    /\ b.slab \in DOMAIN S /\ b.off \in Nat
    /\ b.off % kGranule = 0 /\ kGranule <= b.off
    /\ b.off + Size(c) <= S[b.slab]
    /\ b.slab = Len(S) => b.off + Size(c) <= cur

\* A block of class x at a and one of class y at b share no byte.
Apart(a, x, b, y) ==
    a.slab # b.slab \/ a.off + Size(x) <= b.off \/ b.off + Size(y) <= a.off

ClassOf(b) == SizeClass(b.bytes)

\* The blocks in use and the blocks on the free lists are well placed, and no
\* two of them overlap.
Layout(S, cur, F, L) ==
    /\ \A b \in L : Placed(S, cur, b, ClassOf(b))
    /\ \A c \in Classes : \A k \in DOMAIN F[c] : Placed(S, cur, F[c][k], c)
    /\ \A a, b \in L : a # b => Apart(a, ClassOf(a), b, ClassOf(b))
    /\ \A b \in L, c \in Classes : \A k \in DOMAIN F[c] :
           Apart(b, ClassOf(b), F[c][k], c)
    /\ \A c, d \in Classes : \A k \in DOMAIN F[c], l \in DOMAIN F[d] :
           c # d \/ k # l => Apart(F[c][k], c, F[d][l], d)

\* The place b, of class c, is nobody's.
Free(F, L, b, c) ==
    /\ \A a \in L : Apart(b, c, a, ClassOf(a)) /\ Apart(a, ClassOf(a), b, c)
    /\ \A d \in Classes : \A k \in DOMAIN F[d] :
           Apart(b, c, F[d][k], d) /\ Apart(F[d][k], d, b, c)

LEMMA ApartSymmetric == \A a, x, b, y : Apart(a, x, b, y) <=> Apart(b, y, a, x)
BY DEF Apart

\* A block of the arena overlaps itself, so a free place is not in use.
LEMMA FreeIsNotUsed ==
    ASSUME NEW F, NEW L, NEW b, b.off \in Nat, ClassOf(b) \in Classes,
           Free(F, L, b, ClassOf(b))
    PROVE  b \notin L
<1>. SUFFICES ASSUME b \in L  PROVE FALSE
  OBVIOUS
<1>1. Apart(b, ClassOf(b), b, ClassOf(b))
  BY DEF Free
<1>2. Size(ClassOf(b)) \in Nat /\ Size(ClassOf(b)) > 0
  BY SizeFacts
<1>. HIDE DEF ClassOf, Size
<1>. QED  BY <1>1, <1>2 DEF Apart

\* Moving to more slabs, or moving the cursor up, misplaces no block.
Grows(S, cur, T, next) == \A b, c : c \in Classes /\ Placed(S, cur, b, c)
                                        => Placed(T, next, b, c)

\* A free place is taken into use.
LEMMA UsePlace ==
    ASSUME NEW S, NEW cur, NEW T, NEW next, NEW F, NEW L, NEW b,
           Layout(S, cur, F, L), Grows(S, cur, T, next),
           \A a \in L : ClassOf(a) \in Classes,
           Placed(T, next, b, ClassOf(b)), Free(F, L, b, ClassOf(b))
    PROVE  Layout(T, next, F, L \cup {b})
<1>1. \A a \in L \cup {b} : Placed(T, next, a, ClassOf(a))
  BY DEF Layout, Grows
<1>2. \A c \in Classes : \A k \in DOMAIN F[c] : Placed(T, next, F[c][k], c)
  BY DEF Layout, Grows
<1>3. \A x, y \in L \cup {b} : x # y => Apart(x, ClassOf(x), y, ClassOf(y))
  BY DEF Layout, Free
<1>4. \A x \in L \cup {b}, c \in Classes : \A k \in DOMAIN F[c] :
          Apart(x, ClassOf(x), F[c][k], c)
  BY DEF Layout, Free
<1>5. \A c, d \in Classes : \A k \in DOMAIN F[c], l \in DOMAIN F[d] :
          c # d \/ k # l => Apart(F[c][k], c, F[d][l], d)
  BY DEF Layout
<1>. QED  BY <1>1, <1>2, <1>3, <1>4, <1>5 DEF Layout

\* The head of a free list is a free place once it is off the list.
LEMMA PopFree ==
    ASSUME NEW S, NEW cur, NEW B, NEW F \in [Classes -> Seq(B)], NEW L,
           Layout(S, cur, F, L), NEW c \in Classes, F[c] # <<>>,
           NEW G, G = [F EXCEPT ![c] = Tail(@)]
    PROVE  /\ Layout(S, cur, G, L) /\ Free(G, L, F[c][1], c)
           /\ Placed(S, cur, F[c][1], c)
<1>1. /\ DOMAIN F[c] = 1..Len(F[c]) /\ Len(F[c]) \in Nat /\ 1 \in DOMAIN F[c]
      /\ DOMAIN Tail(F[c]) = 1..(Len(F[c]) - 1)
      /\ \A k \in 1..(Len(F[c]) - 1) : Tail(F[c])[k] = F[c][k + 1]
  OBVIOUS
<1>2. G[c] = Tail(F[c]) /\ \A d \in Classes : d # c => G[d] = F[d]
  OBVIOUS
\* Where a block of the new lists was in the old ones.
<1>. DEFINE Was(d, k) == IF d = c THEN k + 1 ELSE k
<1>3. \A d \in Classes : \A k \in DOMAIN G[d] :
          /\ Was(d, k) \in DOMAIN F[d] /\ G[d][k] = F[d][Was(d, k)]
          /\ d = c => Was(d, k) # 1 /\ k \in Nat
  <2>. SUFFICES ASSUME NEW d \in Classes, NEW k \in DOMAIN G[d]
                PROVE  /\ Was(d, k) \in DOMAIN F[d] /\ G[d][k] = F[d][Was(d, k)]
                       /\ d = c => Was(d, k) # 1 /\ k \in Nat
    OBVIOUS
  <2>1. CASE d = c
    <3>1. k \in 1..(Len(F[c]) - 1)
      BY <1>1, <1>2, <2>1
    <3>2. k + 1 \in 1..Len(F[c]) /\ k + 1 # 1 /\ k \in Nat
      BY <1>1, <3>1
    <3>. QED  BY <1>1, <1>2, <2>1, <3>1, <3>2
  <2>2. CASE d # c
    BY <1>2, <2>2
  <2>. QED  BY <2>1, <2>2
<1>4. \A d, e \in Classes : \A k \in DOMAIN G[d], l \in DOMAIN G[e] :
          d # e \/ k # l => d # e \/ Was(d, k) # Was(e, l)
  <2>. SUFFICES ASSUME NEW d \in Classes, NEW k \in DOMAIN G[d], NEW l \in DOMAIN G[d],
                       k # l
                PROVE  Was(d, k) # Was(d, l)
    OBVIOUS
  <2>. QED  BY <1>3
<1>. HIDE DEF Was
<1>5. Layout(S, cur, G, L)
  <2>1. \A d \in Classes : \A k \in DOMAIN G[d] : Placed(S, cur, G[d][k], d)
    BY <1>3 DEF Layout
  <2>2. \A b \in L, d \in Classes : \A k \in DOMAIN G[d] :
            Apart(b, ClassOf(b), G[d][k], d)
    BY <1>3 DEF Layout
  <2>3. \A d, e \in Classes : \A k \in DOMAIN G[d], l \in DOMAIN G[e] :
            d # e \/ k # l => Apart(G[d][k], d, G[e][l], e)
    <3>. SUFFICES ASSUME NEW d \in Classes, NEW e \in Classes,
                         NEW k \in DOMAIN G[d], NEW l \in DOMAIN G[e],
                         d # e \/ k # l
                  PROVE  Apart(G[d][k], d, G[e][l], e)
      OBVIOUS
    <3>1. /\ Was(d, k) \in DOMAIN F[d] /\ G[d][k] = F[d][Was(d, k)]
          /\ Was(e, l) \in DOMAIN F[e] /\ G[e][l] = F[e][Was(e, l)]
          /\ d # e \/ Was(d, k) # Was(e, l)
      BY <1>3, <1>4
    <3>2. Apart(F[d][Was(d, k)], d, F[e][Was(e, l)], e)
      BY <3>1 DEF Layout
    <3>. QED  BY <3>1, <3>2
  <2>. QED  BY <2>1, <2>2, <2>3 DEF Layout
<1>6. Free(G, L, F[c][1], c)
  <2>1. \A a \in L : Apart(a, ClassOf(a), F[c][1], c)
    BY <1>1 DEF Layout
  <2>2. \A d \in Classes : \A k \in DOMAIN G[d] : Apart(F[c][1], c, G[d][k], d)
    <3>. SUFFICES ASSUME NEW d \in Classes, NEW k \in DOMAIN G[d]
                  PROVE  Apart(F[c][1], c, G[d][k], d)
      OBVIOUS
    <3>1. /\ Was(d, k) \in DOMAIN F[d] /\ G[d][k] = F[d][Was(d, k)]
          /\ d = c => Was(d, k) # 1
      BY <1>3
    <3>2. Apart(F[c][1], c, F[d][Was(d, k)], d)
      BY <1>1, <3>1 DEF Layout
    <3>. QED  BY <3>1, <3>2
  <2>. QED  BY <2>1, <2>2, ApartSymmetric DEF Free
<1>7. Placed(S, cur, F[c][1], c)
  BY <1>1 DEF Layout
<1>. QED  BY <1>5, <1>6, <1>7
LEMMA SamePlace ==
    ASSUME NEW a, NEW b, a.slab = b.slab, a.off = b.off, NEW S, NEW cur,
           NEW F, NEW L, NEW c
    PROVE  /\ Placed(S, cur, a, c) <=> Placed(S, cur, b, c)
           /\ Free(F, L, a, c) <=> Free(F, L, b, c)
BY DEF Placed, Free, Apart

\* A block that is handed back goes from the blocks in use to the head of its
\* class's list.
LEMMA GiveBack ==
    ASSUME NEW S, NEW cur, NEW B, NEW F \in [Classes -> Seq(B)], NEW L,
           Layout(S, cur, F, L), NEW b \in L, ClassOf(b) \in Classes,
           NEW e \in B, e.slab = b.slab, e.off = b.off,
           NEW G, G = [F EXCEPT ![ClassOf(b)] = <<e>> \o @]
    PROVE  Layout(S, cur, G, L \ {b})
<1>. DEFINE c == ClassOf(b)
            q == F[c]
<1>1. q \in Seq(B) /\ DOMAIN q = 1..Len(q) /\ Len(q) \in Nat
  OBVIOUS
<1>2. /\ <<e>> \o q \in Seq(B) /\ Len(<<e>> \o q) = Len(q) + 1
      /\ DOMAIN (<<e>> \o q) = 1..(Len(q) + 1)
      /\ (<<e>> \o q)[1] = e
      /\ \A k \in 2..(Len(q) + 1) : (<<e>> \o q)[k] = q[k - 1]
  <2>1. <<e>> \in Seq(B) /\ Len(<<e>>) = 1 /\ <<e>>[1] = e
    OBVIOUS
  <2>2. /\ <<e>> \o q \in Seq(B) /\ Len(<<e>> \o q) = Len(<<e>>) + Len(q)
        /\ \A k \in 1..(Len(<<e>>) + Len(q)) :
               (<<e>> \o q)[k] = IF k <= Len(<<e>>) THEN <<e>>[k]
                                 ELSE q[k - Len(<<e>>)]
    BY <1>1, <2>1, ConcatProperties, Zenon
  <2>3. DOMAIN (<<e>> \o q) = 1..Len(<<e>> \o q)
    BY <2>2
  <2>. QED  BY <1>1, <2>1, <2>2, <2>3
<1>. HIDE DEF q
<1>3. G[c] = <<e>> \o q /\ \A d \in Classes : d # c => G[d] = F[d]
  BY DEF q
<1>. HIDE DEF c
\* A block of the new lists is the one handed back, or it was on a list.
<1>. DEFINE Was(d, k) == IF d = c THEN k - 1 ELSE k
<1>4. \A d \in Classes : \A k \in DOMAIN G[d] :
          \/ d = c /\ k = 1 /\ G[d][k] = e
          \/ /\ Was(d, k) \in DOMAIN F[d] /\ G[d][k] = F[d][Was(d, k)]
             /\ d = c => k \in Nat
  <2>. SUFFICES ASSUME NEW d \in Classes, NEW k \in DOMAIN G[d]
                PROVE  \/ d = c /\ k = 1 /\ G[d][k] = e
                       \/ /\ Was(d, k) \in DOMAIN F[d]
                          /\ G[d][k] = F[d][Was(d, k)]
                          /\ d = c => k \in Nat
    OBVIOUS
  <2>1. CASE d = c
    <3>1. k \in 1..(Len(q) + 1)
      BY <1>2, <1>3, <2>1
    <3>2. CASE k = 1
      BY <1>2, <1>3, <2>1, <3>2
    <3>3. CASE k # 1
      <4>1. k \in 2..(Len(q) + 1) /\ k - 1 \in 1..Len(q) /\ k \in Nat
        BY <1>1, <3>1, <3>3
      <4>2. F[d] = q
        BY <2>1 DEF q
      <4>. QED  BY <1>1, <1>2, <1>3, <2>1, <4>1, <4>2
    <3>. QED  BY <3>2, <3>3
  <2>2. CASE d # c
    BY <1>3, <2>2
  <2>. QED  BY <2>1, <2>2
<1>5. \A d \in Classes : \A k, l \in DOMAIN G[d] :
          /\ k # l
          /\ Was(d, k) \in DOMAIN F[d] /\ (d = c => k \in Nat)
          /\ Was(d, l) \in DOMAIN F[d] /\ (d = c => l \in Nat)
          => Was(d, k) # Was(d, l)
  OBVIOUS
<1>. HIDE DEF Was
\* The place handed back is apart from every other.
<1>6. Free(F, L \ {b}, e, c)
  <2>1. Free(F, L \ {b}, b, c)
    BY ApartSymmetric DEF Layout, Free, c
  <2>. QED  BY <2>1, SamePlace
<1>7. Placed(S, cur, e, c)
  <2>1. Placed(S, cur, b, c)
    BY DEF Layout, c
  <2>. QED  BY <2>1, SamePlace
<1>8. \A d \in Classes : \A k \in DOMAIN G[d] : Placed(S, cur, G[d][k], d)
  BY <1>4, <1>7 DEF Layout
<1>9. \A a \in L \ {b}, d \in Classes : \A k \in DOMAIN G[d] :
          Apart(a, ClassOf(a), G[d][k], d)
  BY <1>4, <1>6 DEF Layout, Free
<1>10. \A d, f \in Classes : \A k \in DOMAIN G[d], l \in DOMAIN G[f] :
           d # f \/ k # l => Apart(G[d][k], d, G[f][l], f)
  <2>. SUFFICES ASSUME NEW d \in Classes, NEW f \in Classes,
                       NEW k \in DOMAIN G[d], NEW l \in DOMAIN G[f],
                       d # f \/ k # l
                PROVE  Apart(G[d][k], d, G[f][l], f)
    OBVIOUS
  <2>1. CASE d = c /\ k = 1 /\ G[d][k] = e
    <3>1. ~(f = c /\ l = 1)
      BY <2>1
    <3>2. Was(f, l) \in DOMAIN F[f] /\ G[f][l] = F[f][Was(f, l)]
      BY <1>4, <3>1
    <3>. QED  BY <1>6, <2>1, <3>2 DEF Free
  <2>2. CASE f = c /\ l = 1 /\ G[f][l] = e
    <3>1. ~(d = c /\ k = 1)
      BY <2>2
    <3>2. Was(d, k) \in DOMAIN F[d] /\ G[d][k] = F[d][Was(d, k)]
      BY <1>4, <3>1
    <3>. QED  BY <1>6, <2>2, <3>2 DEF Free
  <2>3. CASE /\ Was(d, k) \in DOMAIN F[d] /\ G[d][k] = F[d][Was(d, k)]
             /\ (d = c => k \in Nat)
             /\ Was(f, l) \in DOMAIN F[f] /\ G[f][l] = F[f][Was(f, l)]
             /\ (f = c => l \in Nat)
    <3>1. d # f \/ Was(d, k) # Was(f, l)
      BY <1>5, <2>3
    <3>2. Apart(F[d][Was(d, k)], d, F[f][Was(f, l)], f)
      BY <2>3, <3>1 DEF Layout
    <3>. QED  BY <2>3, <3>2
  <2>. QED  BY <1>4, <2>1, <2>2, <2>3
<1>11. /\ \A a \in L \ {b} : Placed(S, cur, a, ClassOf(a))
       /\ \A x, y \in L \ {b} : x # y => Apart(x, ClassOf(x), y, ClassOf(y))
  BY DEF Layout
<1>. QED  BY <1>8, <1>9, <1>10, <1>11 DEF Layout

\* The unused tail of the newest slab is nobody's.
LEMMA TailIsFree ==
    ASSUME NEW S, NEW cur, NEW F, NEW L, Layout(S, cur, F, L), cur \in Nat,
           \A a \in L : ClassOf(a) \in Classes,
           NEW b, NEW c \in Classes, b.off \in Nat,
           \/ b.slab = Len(S) /\ b.off = cur
           \/ b.slab \notin DOMAIN S
    PROVE  Free(F, L, b, c)
<1>1. ASSUME NEW a, NEW d \in Classes, Placed(S, cur, a, d)
      PROVE  Apart(a, d, b, c)
  BY <1>1 DEF Placed, Apart
<1>. QED  BY <1>1, ApartSymmetric DEF Layout, Free
-----------------------------------------------------------------------------
(***************************************************************************)
(* The inductive invariant                                                 *)
(***************************************************************************)

\* The cursor works on the newest slab, if there is one.
Tip == /\ cursor % kGranule = 0
       /\ \/ slabs = <<>> /\ cursor = 0 /\ limit = 0
          \/ slabs # <<>> /\ limit = slabs[Len(slabs)] /\ kGranule <= cursor

IInv == /\ TypeOK
        /\ Tip
        /\ Layout(slabs, cursor, free_list, live)
        /\ IsFiniteSet(live)
        /\ LittleIsAbandoned

Blocks(S) == [slab : DOMAIN S, off : Nat]
Held(S) == [slab : DOMAIN S, off : Nat, bytes : Requests]

LEMMA Types ==
    TypeOK <=>
        /\ slabs \in Seq(Nat) /\ \A s \in DOMAIN slabs : slabs[s] >= kSlabBytes
        /\ cursor \in Nat /\ limit \in Nat /\ cursor <= limit
        /\ free_list \in [Classes -> Seq(Blocks(slabs))]
        /\ slab_total = SumOver(slabs, DOMAIN slabs, Len(slabs))
        /\ live \subseteq Held(slabs)
        /\ tails \in Seq(Nat)
BY DEF TypeOK, Blocks, Held

LEMMA HeldFacts ==
    ASSUME IInv, NEW b \in live
    PROVE  /\ b.slab \in DOMAIN slabs /\ b.off \in Nat /\ b.bytes \in Requests
           /\ ClassOf(b) \in Classes
           /\ b.bytes \in Nat /\ b.bytes <= Size(ClassOf(b))
<1>1. b \in Held(slabs)
  BY Types DEF IInv
<1>2. b.slab \in DOMAIN slabs /\ b.off \in Nat /\ b.bytes \in Requests
  BY <1>1 DEF Held
<1>. QED  BY <1>2, ClassFacts DEF ClassOf

\* The block a call gets, at a place of the arena.
BlockAt(slab, off, bytes) == [slab |-> slab, off |-> off, bytes |-> bytes]

\* The blocks in use after a call that takes a free place.
LEMMA TakenInUse ==
    ASSUME IInv, NEW S, NEW next, NEW F, NEW b, b \in Held(S), S \in Seq(Nat),
           DOMAIN slabs \subseteq DOMAIN S,
           Layout(slabs, cursor, F, live), Grows(slabs, cursor, S, next),
           Placed(S, next, b, ClassOf(b)), Free(F, live, b, ClassOf(b))
    PROVE  /\ Layout(S, next, F, live \cup {b})
           /\ live \cup {b} \subseteq Held(S) /\ IsFiniteSet(live \cup {b})
           /\ b \notin live
<1>1. \A a \in live : ClassOf(a) \in Classes
  BY HeldFacts
<1>2. Layout(S, next, F, live \cup {b})
  BY <1>1, UsePlace
<1>3. live \cup {b} \subseteq Held(S)
  <2>1. live \subseteq Held(slabs)
    BY Types DEF IInv
  <2>. QED  BY <2>1 DEF Held
<1>4. IsFiniteSet(live \cup {b})
  BY FS_AddElement DEF IInv
<1>5. b \notin live
  <2>1. b.off \in Nat /\ ClassOf(b) \in Classes
    BY ClassFacts DEF Held, ClassOf
  <2>. QED  BY <2>1, FreeIsNotUsed
<1>. QED  BY <1>2, <1>3, <1>4, <1>5

LEMMA GrowsNot == Grows(slabs, cursor, slabs, cursor)
BY DEF Grows

LEMMA ReuseKeeps ==
    ASSUME IInv, NEW bytes \in Requests, Reuse(bytes)
    PROVE  IInv' /\ \E b : /\ b \notin live /\ live' = live \cup {b}
                           /\ ClassOf(b) = SizeClass(bytes)
<1>. DEFINE c == SizeClass(bytes)
            q == free_list[c]
            n == BlockAt(q[1].slab, q[1].off, bytes)
<1>1. /\ q # <<>> /\ free_list' = [free_list EXCEPT ![c] = Tail(@)]
      /\ live' = live \cup {BlockAt(Head(q).slab, Head(q).off, bytes)}
      /\ UNCHANGED <<slabs, cursor, limit, slab_total, tails>>
  BY DEF Reuse, BlockAt
<1>2. c \in Classes
  BY ClassFacts
<1>. HIDE DEF c
<1>3. /\ free_list \in [Classes -> Seq(Blocks(slabs))] /\ slabs \in Seq(Nat)
      /\ Layout(slabs, cursor, free_list, live)
  BY Types DEF IInv
<1>4. q \in Seq(Blocks(slabs)) /\ Head(q) = q[1] /\ q[1] \in Blocks(slabs)
      /\ Tail(q) \in Seq(Blocks(slabs))
  BY <1>1, <1>2, <1>3
<1>5. live' = live \cup {n}
  BY <1>1, <1>4
<1>6. /\ n \in Held(slabs) /\ n.slab = q[1].slab /\ n.off = q[1].off /\ n.bytes = bytes
  BY <1>4 DEF Blocks, Held, BlockAt
<1>7. ClassOf(n) = c
  BY <1>6 DEF ClassOf, c
<1>. HIDE DEF n
<1>8. PICK G : G = free_list'
  OBVIOUS
<1>9. /\ Layout(slabs, cursor, G, live) /\ Free(G, live, q[1], c)
      /\ Placed(slabs, cursor, q[1], c)
  <2>1. G = [free_list EXCEPT ![c] = Tail(@)]
    BY <1>1, <1>8
  <2>. QED  BY <1>1, <1>2, <1>3, <2>1, PopFree
<1>10. Free(G, live, n, ClassOf(n)) /\ Placed(slabs, cursor, n, ClassOf(n))
  BY <1>6, <1>7, <1>9, SamePlace
<1>11. /\ Layout(slabs, cursor, G, live \cup {n})
       /\ live \cup {n} \subseteq Held(slabs) /\ IsFiniteSet(live \cup {n})
       /\ n \notin live
  BY <1>3, <1>6, <1>9, <1>10, GrowsNot, TakenInUse
<1>12. free_list' \in [Classes -> Seq(Blocks(slabs))]
  BY <1>1, <1>2, <1>3, <1>4
<1>13. TypeOK'
  <2>1. /\ slabs \in Seq(Nat) /\ \A s \in DOMAIN slabs : slabs[s] >= kSlabBytes
        /\ cursor \in Nat /\ limit \in Nat /\ cursor <= limit
        /\ slab_total = SumOver(slabs, DOMAIN slabs, Len(slabs))
        /\ tails \in Seq(Nat)
    BY Types DEF IInv
  <2>. QED  BY <1>1, <1>5, <1>11, <1>12, <2>1 DEF TypeOK, Blocks, Held
<1>14. Tip' /\ LittleIsAbandoned'
  BY <1>1 DEF IInv, Tip, LittleIsAbandoned
<1>15. IInv'
  BY <1>1, <1>5, <1>8, <1>11, <1>13, <1>14 DEF IInv
<1>. QED  BY <1>5, <1>7, <1>11, <1>15 DEF c
LEMMA SumOfMultiples ==
    ASSUME NEW g \in Nat \ {0}, NEW a \in Nat, NEW b \in Nat, a % g = 0, b % g = 0
    PROVE  (a + b) % g = 0
<1>. DEFINE k == a \div g
            l == b \div g
<1>1. k \in Nat /\ l \in Nat /\ a = k * g + 0 /\ b = l * g + 0
  BY Division
<1>. HIDE DEF k, l
<1>2. a + b = (k + l) * g
  BY <1>1
<1>3. k + l \in Nat
  BY <1>1
<1>. QED  BY <1>2, <1>3, MultipleOf

LEMMA CarveHereKeeps ==
    ASSUME IInv, NEW bytes \in Requests, CarveHere(bytes)
    PROVE  /\ IInv' /\ slabs # <<>>
           /\ \E b : /\ b \notin live /\ live' = live \cup {b}
                     /\ ClassOf(b) = SizeClass(bytes)
<1>. DEFINE c == SizeClass(bytes)
            n == BlockAt(Len(slabs), cursor, bytes)
            next == cursor + Size(c)
<1>1. /\ limit - cursor >= Size(c) /\ cursor' = next /\ live' = live \cup {n}
      /\ UNCHANGED <<slabs, limit, free_list, slab_total, tails>>
  BY DEF CarveHere, Fits, BlockAt, Size
<1>2. c \in Classes /\ bytes \in Requests
  BY ClassFacts
<1>. HIDE DEF c
<1>3. /\ Size(c) \in Nat /\ Size(c) > 0 /\ Size(c) % kGranule = 0
      /\ kGranule \in Nat \ {0}
  BY <1>2, SizeFacts, ArenaAssumption
<1>4. /\ slabs \in Seq(Nat) /\ \A s \in DOMAIN slabs : slabs[s] >= kSlabBytes
      /\ cursor \in Nat /\ limit \in Nat /\ cursor <= limit
      /\ free_list \in [Classes -> Seq(Blocks(slabs))]
      /\ slab_total = SumOver(slabs, DOMAIN slabs, Len(slabs))
      /\ tails \in Seq(Nat)
  BY Types DEF IInv
<1>5. /\ slabs # <<>> /\ limit = slabs[Len(slabs)] /\ kGranule <= cursor
      /\ cursor % kGranule = 0
  BY <1>1, <1>3, <1>4 DEF IInv, Tip
<1>6. Len(slabs) \in DOMAIN slabs
  BY <1>4, <1>5
<1>7. n \in Held(slabs) /\ n.slab = Len(slabs) /\ n.off = cursor /\ n.bytes = bytes
  BY <1>4, <1>6 DEF Held, BlockAt
<1>8. ClassOf(n) = c
  BY <1>7 DEF ClassOf, c
<1>. HIDE DEF n
<1>9. /\ next \in Nat /\ next <= limit /\ cursor <= next /\ kGranule <= next
      /\ next % kGranule = 0
  <2>1. /\ next \in Nat /\ next <= limit /\ cursor <= next /\ kGranule <= next
    <3>1. PICK z \in Nat : z = Size(c)
      BY <1>3
    <3>2. limit - cursor >= z /\ limit \in Nat /\ cursor \in Nat
          /\ kGranule <= cursor /\ kGranule \in Nat
      BY <1>1, <1>3, <1>4, <1>5, <3>1
    <3>. QED  BY <3>1, <3>2
  <2>2. (cursor + Size(c)) % kGranule = 0
    <3>. HIDE DEF Size
    <3>. QED  BY <1>3, <1>4, <1>5, SumOfMultiples
  <2>. QED  BY <2>1, <2>2
<1>10. Placed(slabs, next, n, c)
  BY <1>1, <1>3, <1>4, <1>5, <1>6, <1>7 DEF Placed
<1>11. Grows(slabs, cursor, slabs, next)
  <2>. SUFFICES ASSUME NEW b, NEW d \in Classes, Placed(slabs, cursor, b, d)
                PROVE  Placed(slabs, next, b, d)
    BY DEF Grows
  <2>1. Size(d) \in Nat
    BY SizeFacts
  <2>. HIDE DEF next
  <2>. QED  BY <1>4, <1>9, <2>1 DEF Placed
<1>. HIDE DEF next
<1>12. Layout(slabs, cursor, free_list, live) /\ \A a \in live : ClassOf(a) \in Classes
  BY HeldFacts DEF IInv
<1>13. Free(free_list, live, n, c)
  BY <1>2, <1>4, <1>7, <1>12, TailIsFree
<1>14. /\ Layout(slabs, next, free_list, live \cup {n})
       /\ live \cup {n} \subseteq Held(slabs) /\ IsFiniteSet(live \cup {n})
       /\ n \notin live
  BY <1>4, <1>7, <1>8, <1>10, <1>11, <1>12, <1>13, TakenInUse
<1>15. TypeOK'
  BY <1>1, <1>4, <1>9, <1>14 DEF TypeOK, Blocks, Held
<1>16. Tip' /\ LittleIsAbandoned'
  BY <1>1, <1>5, <1>9 DEF IInv, Tip, LittleIsAbandoned
<1>17. IInv'
  BY <1>1, <1>14, <1>15, <1>16 DEF IInv
<1>. QED  BY <1>1, <1>5, <1>8, <1>14, <1>17 DEF c

LEMMA CarveNewSlabKeeps ==
    ASSUME IInv, NEW bytes \in Requests, CarveNewSlab(bytes)
    PROVE  IInv' /\ \E b : /\ b \notin live /\ live' = live \cup {b}
                           /\ ClassOf(b) = SizeClass(bytes)
<1>. DEFINE c == SizeClass(bytes)
            S == Append(slabs, kSlabBytes)
            n == BlockAt(Len(slabs) + 1, kGranule, bytes)
            next == kGranule + Size(c)
<1>1. /\ ~(limit - cursor >= Size(c)) /\ cursor' = next /\ live' = live \cup {n}
      /\ slabs' = S /\ slab_total' = slab_total + kSlabBytes
      /\ limit' = kSlabBytes /\ tails' = Append(tails, limit - cursor)
      /\ free_list' = free_list
  BY DEF CarveNewSlab, Fits, BlockAt, Size
<1>2. c \in Classes /\ bytes \in Requests
  BY ClassFacts
<1>. HIDE DEF c
<1>3. /\ Size(c) \in Nat /\ Size(c) > 0 /\ Size(c) % kGranule = 0
      /\ Size(c) <= kMaxBlock
      /\ kGranule \in Nat \ {0} /\ kMaxBlock \in Nat /\ kSlabBytes \in Nat
      /\ kGranule + kMaxBlock <= kSlabBytes
  BY <1>2, SizeFacts, ArenaAssumption
<1>4. /\ slabs \in Seq(Nat) /\ \A s \in DOMAIN slabs : slabs[s] >= kSlabBytes
      /\ cursor \in Nat /\ limit \in Nat /\ cursor <= limit
      /\ free_list \in [Classes -> Seq(Blocks(slabs))]
      /\ slab_total = SumOver(slabs, DOMAIN slabs, Len(slabs))
      /\ tails \in Seq(Nat)
  BY Types DEF IInv
<1>5. /\ S \in Seq(Nat) /\ Len(S) = Len(slabs) + 1 /\ Len(slabs) \in Nat
      /\ DOMAIN S = 1..(Len(slabs) + 1) /\ DOMAIN slabs = 1..Len(slabs)
      /\ S[Len(slabs) + 1] = kSlabBytes
      /\ \A i \in 1..Len(slabs) : S[i] = slabs[i]
  BY <1>3, <1>4
<1>6. SumOver(S, DOMAIN S, Len(S)) = SumOver(slabs, DOMAIN slabs, Len(slabs)) + kSlabBytes
  BY <1>3, <1>4, SumAppend
<1>. HIDE DEF S
<1>7. DOMAIN slabs \subseteq DOMAIN S /\ S # <<>> /\ Len(slabs) + 1 \in DOMAIN S
  BY <1>5
<1>8. \A s \in DOMAIN S : S[s] >= kSlabBytes
  <2>. TAKE s \in DOMAIN S
  <2>1. s \in 1..Len(slabs) \/ s = Len(slabs) + 1
    BY <1>5
  <2>. QED  BY <1>3, <1>4, <1>5, <2>1
<1>9. n \in Held(S) /\ n.slab = Len(slabs) + 1 /\ n.off = kGranule /\ n.bytes = bytes
  BY <1>3, <1>7 DEF Held, BlockAt
<1>10. ClassOf(n) = c
  BY <1>9 DEF ClassOf, c
<1>. HIDE DEF n
<1>11. kGranule % kGranule = 0
  <2>1. (1 * kGranule) % kGranule = 0
    BY <1>3, MultipleOf
  <2>. QED  BY <1>3, <2>1
<1>12. next \in Nat /\ next <= kSlabBytes /\ kGranule <= next /\ next % kGranule = 0
  BY <1>3, <1>11, SumOfMultiples
<1>13. Placed(S, next, n, c)
  BY <1>3, <1>5, <1>7, <1>9, <1>11, <1>12 DEF Placed
<1>14. Grows(slabs, cursor, S, next)
  BY <1>5, <1>7 DEF Grows, Placed
<1>. HIDE DEF next
<1>15. Layout(slabs, cursor, free_list, live) /\ \A a \in live : ClassOf(a) \in Classes
  BY HeldFacts DEF IInv
<1>16. Free(free_list, live, n, c)
  <2>1. n.slab \notin DOMAIN slabs /\ n.off \in Nat
    BY <1>3, <1>5, <1>9
  <2>. QED  BY <1>2, <1>4, <1>15, <2>1, TailIsFree
<1>17. /\ Layout(S, next, free_list, live \cup {n})
       /\ live \cup {n} \subseteq Held(S) /\ IsFiniteSet(live \cup {n})
       /\ n \notin live
  BY <1>5, <1>7, <1>9, <1>10, <1>13, <1>14, <1>15, <1>16, TakenInUse
<1>18. free_list \in [Classes -> Seq(Blocks(S))]
  <2>1. Blocks(slabs) \subseteq Blocks(S)
    BY <1>7 DEF Blocks
  <2>2. \A q \in Seq(Blocks(slabs)) : q \in Seq(Blocks(S))
    <3>. DEFINE A == Blocks(slabs)
                B == Blocks(S)
    <3>. HIDE DEF A, B
    <3>1. A \subseteq B
      BY <2>1 DEF A, B
    <3>2. \A q \in Seq(A) : q \in Seq(B)
      BY <3>1
    <3>. QED  BY <3>2 DEF A, B
  <2>. QED  BY <1>4, <2>2
<1>19. /\ limit - cursor \in Nat /\ limit - cursor <= kMaxBlock
       /\ tails' \in Seq(Nat) /\ DOMAIN tails' = 1..(Len(tails) + 1)
       /\ DOMAIN tails = 1..Len(tails) /\ Len(tails) \in Nat
       /\ tails'[Len(tails) + 1] = limit - cursor
       /\ \A i \in 1..Len(tails) : tails'[i] = tails[i]
  BY <1>1, <1>3, <1>4
<1>20. LittleIsAbandoned'
  <2>. SUFFICES ASSUME NEW s \in DOMAIN tails'  PROVE tails'[s] <= kMaxBlock
    BY DEF LittleIsAbandoned
  <2>1. s \in 1..Len(tails) \/ s = Len(tails) + 1
    BY <1>19
  <2>. QED  BY <1>19, <2>1 DEF IInv, LittleIsAbandoned
<1>21. TypeOK'
  BY <1>1, <1>3, <1>4, <1>5, <1>6, <1>8, <1>12, <1>17, <1>18, <1>19
     DEF TypeOK, Blocks, Held
<1>22. Tip'
  BY <1>1, <1>5, <1>7, <1>12 DEF Tip
<1>23. IInv'
  BY <1>1, <1>17, <1>20, <1>21, <1>22 DEF IInv
<1>. QED  BY <1>1, <1>10, <1>17, <1>23 DEF c

LEMMA DeallocateKeeps ==
    ASSUME IInv, NEW b \in live, Deallocate(b)
    PROVE  IInv'
<1>. DEFINE c == ClassOf(b)
            e == [slab |-> b.slab, off |-> b.off]
<1>1. /\ free_list' = [free_list EXCEPT ![c] = <<e>> \o @]
      /\ live' = live \ {b}
      /\ UNCHANGED <<slabs, cursor, limit, slab_total, tails>>
  BY DEF Deallocate, ClassOf
<1>2. c \in Classes /\ b.slab \in DOMAIN slabs /\ b.off \in Nat
  BY HeldFacts
<1>3. /\ slabs \in Seq(Nat) /\ \A s \in DOMAIN slabs : slabs[s] >= kSlabBytes
      /\ cursor \in Nat /\ limit \in Nat /\ cursor <= limit
      /\ free_list \in [Classes -> Seq(Blocks(slabs))]
      /\ slab_total = SumOver(slabs, DOMAIN slabs, Len(slabs))
      /\ live \subseteq Held(slabs)
      /\ tails \in Seq(Nat)
  BY Types DEF IInv
<1>4. e \in Blocks(slabs) /\ e.slab = b.slab /\ e.off = b.off
  BY <1>2 DEF Blocks
<1>. HIDE DEF e, c
<1>5. PICK G : G = free_list'
  OBVIOUS
<1>6. Layout(slabs, cursor, G, live \ {b})
  <2>1. G = [free_list EXCEPT ![ClassOf(b)] = <<e>> \o @]
    BY <1>1, <1>5 DEF c
  <2>2. Layout(slabs, cursor, free_list, live) /\ ClassOf(b) \in Classes
    BY <1>2 DEF IInv, c
  <2>. QED  BY <1>3, <1>4, <2>1, <2>2, GiveBack
<1>7. free_list' \in [Classes -> Seq(Blocks(slabs))]
  <2>1. <<e>> \o free_list[c] \in Seq(Blocks(slabs))
    BY <1>2, <1>3, <1>4
  <2>. QED  BY <1>1, <1>2, <1>3, <2>1
<1>8. TypeOK'
  BY <1>1, <1>3, <1>7 DEF TypeOK, Blocks, Held
<1>9. IsFiniteSet(live \ {b})
  BY FS_RemoveElement DEF IInv
<1>10. Tip' /\ LittleIsAbandoned'
  BY <1>1 DEF IInv, Tip, LittleIsAbandoned
<1>. QED  BY <1>1, <1>5, <1>6, <1>8, <1>9, <1>10 DEF IInv

LEMMA InitInv == Init => IInv
<1>. SUFFICES ASSUME NEW reserve \in Reserves,
                     LET bytes == IF reserve + kGranule > kSlabBytes
                                  THEN reserve + kGranule ELSE kSlabBytes
                     IN  /\ IF reserve > 0
                            THEN /\ slabs = <<bytes>> /\ slab_total = bytes
                                 /\ cursor = kGranule /\ limit = bytes
                            ELSE /\ slabs = <<>> /\ slab_total = 0
                                 /\ cursor = 0 /\ limit = 0
                         /\ free_list = [c \in Classes |-> <<>>]
                         /\ live = {} /\ tails = <<>>
              PROVE  IInv
  BY DEF Init
<1>. DEFINE bytes == IF reserve + kGranule > kSlabBytes
                     THEN reserve + kGranule ELSE kSlabBytes
<1>1. /\ kGranule \in Nat \ {0} /\ kSlabBytes \in Nat /\ reserve \in Nat
      /\ kGranule <= kSlabBytes
  BY ArenaAssumption
<1>2. bytes \in Nat /\ kSlabBytes <= bytes /\ kGranule <= bytes
  BY <1>1
<1>3. /\ free_list = [c \in Classes |-> <<>>] /\ live = {} /\ tails = <<>>
      /\ \/ slabs = <<bytes>> /\ slab_total = bytes /\ cursor = kGranule /\ limit = bytes
         \/ slabs = <<>> /\ slab_total = 0 /\ cursor = 0 /\ limit = 0
  OBVIOUS
<1>. HIDE DEF bytes
<1>4. 0 % kGranule = 0 /\ kGranule % kGranule = 0
  <2>1. (1 * kGranule) % kGranule = 0 /\ (0 * kGranule) % kGranule = 0
    BY <1>1, MultipleOf
  <2>. QED  BY <1>1, <2>1
<1>5. \A c \in Classes : free_list[c] = <<>> /\ DOMAIN free_list[c] = {}
  BY <1>3
<1>6. Layout(slabs, cursor, free_list, live)
  BY <1>3, <1>5 DEF Layout
<1>7. SumOver(<<>>, DOMAIN <<>>, Len(<<>>)) = 0
  <2>. DEFINE q == <<>>
  <2>1. Len(<<>>) = 0 /\ DOMAIN <<>> = {}
    OBVIOUS
  <2>2. \A k \in 0..0 : Term(<<>>, {}, k) = 0
    BY DEF Term
  <2>3. SumOver(<<>>, {}, 0) = 0
    BY <2>2, SumOfZeros
  <2>. QED  BY <2>1, <2>3
<1>8. slab_total = SumOver(slabs, DOMAIN slabs, Len(slabs))
  <2>1. CASE slabs = <<>> /\ slab_total = 0
    BY <1>7, <2>1
  <2>2. CASE slabs = <<bytes>> /\ slab_total = bytes
    <3>1. <<bytes>> = Append(<<>>, bytes)
      OBVIOUS
    <3>2. <<>> \in Seq(Nat)
      OBVIOUS
    <3>3. SumOver(Append(<<>>, bytes), DOMAIN Append(<<>>, bytes), Len(Append(<<>>, bytes)))
              = SumOver(<<>>, DOMAIN <<>>, Len(<<>>)) + bytes
      BY <1>2, <3>2, SumAppend
    <3>. QED  BY <1>2, <1>7, <2>2, <3>1, <3>3
  <2>. QED  BY <1>3, <2>1, <2>2
<1>9. TypeOK
  <2>1. slabs \in Seq(Nat) /\ \A s \in DOMAIN slabs : slabs[s] >= kSlabBytes
    <3>1. /\ <<bytes>> \in Seq(Nat) /\ DOMAIN <<bytes>> = {1} /\ <<bytes>>[1] = bytes
      BY <1>2
    <3>2. <<>> \in Seq(Nat) /\ DOMAIN <<>> = {}
      OBVIOUS
    <3>3. CASE slabs = <<bytes>>
      BY <1>1, <1>2, <3>1, <3>3
    <3>4. CASE slabs = <<>>
      BY <3>2, <3>4
    <3>. QED  BY <1>3, <3>3, <3>4
  <2>. QED  BY <1>1, <1>2, <1>3, <1>8, <2>1 DEF TypeOK
<1>10. Tip
  <2>1. slabs = <<bytes>> => slabs # <<>> /\ slabs[Len(slabs)] = bytes
    OBVIOUS
  <2>. QED  BY <1>1, <1>3, <1>4, <2>1 DEF Tip
<1>11. LittleIsAbandoned /\ IsFiniteSet(live)
  BY <1>3, FS_EmptySet DEF LittleIsAbandoned
<1>. QED  BY <1>6, <1>9, <1>10, <1>11 DEF IInv

LEMMA NextInv == IInv /\ [Next]_vars => IInv'
<1>. SUFFICES ASSUME IInv, [Next]_vars  PROVE IInv'
  OBVIOUS
<1>1. ASSUME NEW bytes \in Requests, Allocate(bytes)  PROVE IInv'
  BY <1>1, ReuseKeeps, CarveHereKeeps, CarveNewSlabKeeps DEF Allocate
<1>2. ASSUME NEW b \in live, Deallocate(b)  PROVE IInv'
  BY <1>2, DeallocateKeeps
<1>3. CASE UNCHANGED vars
  BY <1>3 DEF vars, IInv, TypeOK, Tip, LittleIsAbandoned
<1>. QED  BY <1>1, <1>2, <1>3 DEF Next

LEMMA Invariance == Spec => []IInv
BY InitInv, NextInv, PTL DEF Spec

\* The arena's state has its types in every reachable state, slab_total being
\* the sum of what the slabs take (add_slab's bookkeeping).
THEOREM TypeCorrect == Spec => []TypeOK
<1>1. IInv => TypeOK
  BY DEF IInv
<1>. QED  BY <1>1, Invariance, PTL

\* add_slab leaves at most kMaxBlock bytes of the slab before it unused.
THEOREM LittleAbandoned == Spec => []LittleIsAbandoned
<1>1. IInv => LittleIsAbandoned
  BY DEF IInv
<1>. QED  BY <1>1, Invariance, PTL

\* Blocks of two classes that are apart share no byte, as far as the callers
\* that asked for x and y bytes of them may write.
LEMMA ApartShareNothing ==
    ASSUME NEW a, NEW c \in Classes, NEW x \in Nat, a.off \in Nat, x <= Size(c),
           NEW b, NEW d \in Classes, NEW y \in Nat, b.off \in Nat, y <= Size(d),
           Apart(a, c, b, d)
    PROVE  Bytes(a, x) \cap Bytes(b, y) = {}
<1>. SUFFICES ASSUME NEW i \in a.off..(a.off + x - 1), NEW j \in b.off..(b.off + y - 1),
                     a.slab = b.slab, i = j
              PROVE  FALSE
  BY DEF Bytes
<1>1. Size(c) \in Nat /\ Size(d) \in Nat
  BY SizeFacts
<1>2. a.off + Size(c) <= b.off \/ b.off + Size(d) <= a.off
  BY DEF Apart
<1>. HIDE DEF Size
<1>. QED  BY <1>1, <1>2

\* allocate() hands out aligned blocks inside one slab that share no byte with
\* any other block in use or on a free list.
THEOREM BlocksStayDisjoint == Spec => []BlocksDisjoint
<1>1. ASSUME IInv  PROVE BlocksDisjoint
  <2>1. Layout(slabs, cursor, free_list, live)
    BY <1>1 DEF IInv
  <2>2. /\ slabs \in Seq(Nat) /\ free_list \in [Classes -> Seq(Blocks(slabs))]
        /\ kGranule \in Nat
    BY <1>1, Types, ArenaAssumption DEF IInv
  <2>3. \A b \in live : /\ b.off % kGranule = 0 /\ kGranule <= b.off
                        /\ b.off + b.bytes <= slabs[b.slab]
    <3>. TAKE b \in live
    <3>1. /\ b.slab \in DOMAIN slabs /\ b.off \in Nat /\ ClassOf(b) \in Classes
          /\ b.bytes \in Nat /\ b.bytes <= Size(ClassOf(b))
      BY <1>1, HeldFacts
    <3>2. /\ b.off % kGranule = 0 /\ kGranule <= b.off
          /\ b.off + Size(ClassOf(b)) <= slabs[b.slab]
      BY <2>1 DEF Layout, Placed
    <3>3. slabs[b.slab] \in Nat /\ Size(ClassOf(b)) \in Nat
      BY <2>2, <3>1, SizeFacts
    <3>. HIDE DEF Size
    <3>. QED  BY <3>1, <3>2, <3>3
  <2>4. \A a, b \in live : a # b => Bytes(a, a.bytes) \cap Bytes(b, b.bytes) = {}
    <3>. SUFFICES ASSUME NEW a \in live, NEW b \in live, a # b
                  PROVE  Bytes(a, a.bytes) \cap Bytes(b, b.bytes) = {}
      OBVIOUS
    <3>1. Apart(a, ClassOf(a), b, ClassOf(b))
      BY <2>1 DEF Layout
    <3>. QED  BY <1>1, <3>1, HeldFacts, ApartShareNothing
  <2>5. \A b \in live, c \in Classes : \A k \in DOMAIN free_list[c] :
            Bytes(b, b.bytes) \cap Bytes(free_list[c][k], c * kGranule) = {}
    <3>. SUFFICES ASSUME NEW b \in live, NEW c \in Classes,
                         NEW k \in DOMAIN free_list[c]
                  PROVE  Bytes(b, b.bytes) \cap Bytes(free_list[c][k], Size(c)) = {}
      BY DEF Size
    <3>1. Apart(b, ClassOf(b), free_list[c][k], c)
      BY <2>1 DEF Layout
    <3>2. free_list[c][k].off \in Nat
      BY <2>1 DEF Layout, Placed
    <3>3. Size(c) \in Nat /\ Size(c) <= Size(c)
      BY SizeFacts
    <3>. QED  BY <1>1, <3>1, <3>2, <3>3, HeldFacts, ApartShareNothing
  <2>. QED  BY <2>3, <2>4, <2>5 DEF BlocksDisjoint
<1>. QED  BY <1>1, Invariance, PTL
-----------------------------------------------------------------------------
(***************************************************************************)
(* No byte is lost                                                         *)
(***************************************************************************)

\* The blocks of class c among those in use, and among all that were carved.
InUse(L, c) == {b \in L : ClassOf(b) = c}
Count(L, F, c) == Cardinality(InUse(L, c)) + Len(F[c])

\* What all the blocks take, in granules.
Granules(L, F) ==
    SumOver([c \in Classes |-> c * Count(L, F, c)], Classes, MaxClass)

LEMMA CountAdd ==
    ASSUME NEW L, IsFiniteSet(L), NEW b, b \notin L, NEW c
    PROVE  /\ Cardinality(InUse(L, c)) \in Nat
           /\ Cardinality(InUse(L \cup {b}, c))
                  = Cardinality(InUse(L, c)) + (IF ClassOf(b) = c THEN 1 ELSE 0)
<1>1. InUse(L, c) \subseteq L /\ b \notin InUse(L, c)
  BY DEF InUse
<1>2. IsFiniteSet(InUse(L, c)) /\ Cardinality(InUse(L, c)) \in Nat
  BY <1>1, FS_Subset, FS_CardinalityType
<1>3. CASE ClassOf(b) = c
  <2>1. InUse(L \cup {b}, c) = InUse(L, c) \cup {b}
    BY <1>3 DEF InUse
  <2>. QED  BY <1>1, <1>2, <1>3, <2>1, FS_AddElement
<1>4. CASE ClassOf(b) # c
  <2>1. InUse(L \cup {b}, c) = InUse(L, c)
    BY <1>4 DEF InUse
  <2>. QED  BY <1>2, <1>4, <2>1
<1>. QED  BY <1>3, <1>4

LEMMA CountType ==
    ASSUME NEW L, IsFiniteSet(L), NEW B, NEW F \in [Classes -> Seq(B)],
           NEW c \in Classes
    PROVE  Count(L, F, c) \in Nat
<1>1. InUse(L, c) \subseteq L
  BY DEF InUse
<1>2. Cardinality(InUse(L, c)) \in Nat
  BY <1>1, FS_Subset, FS_CardinalityType
<1>3. F[c] \in Seq(B) /\ Len(F[c]) \in Nat
  OBVIOUS
<1>. QED  BY <1>2, <1>3 DEF Count

LEMMA ClassRange == MaxClass \in Nat /\ Classes = 1..MaxClass
<1>1. kGranule \in Nat \ {0} /\ kMaxBlock \in Nat
  BY ArenaAssumption
<1>2. kMaxBlock \div kGranule \in Nat
  BY <1>1, Division
<1>. QED  BY <1>2 DEF MaxClass, Classes

\* One more block of class c takes c granules more.
LEMMA GranulesGrow ==
    ASSUME NEW L, NEW F, NEW M, NEW G, NEW c \in Classes,
           \A d \in Classes : Count(L, F, d) \in Nat,
           Count(M, G, c) = Count(L, F, c) + 1,
           \A d \in Classes : d # c => Count(M, G, d) = Count(L, F, d)
    PROVE  Granules(L, F) \in Int /\ Granules(M, G) = Granules(L, F) + c
<1>. DEFINE f == [d \in Classes |-> d * Count(L, F, d)]
            g == [d \in Classes |-> d * Count(M, G, d)]
<1>1. MaxClass \in Nat /\ Classes = 1..MaxClass /\ c \in Nat
  BY ClassRange
<1>2. \A d \in Classes : f[d] \in Int /\ g[d] \in Int /\ d \in Nat
  <2>. TAKE d \in Classes
  <2>1. d \in Nat /\ Count(L, F, d) \in Nat /\ Count(M, G, d) \in Nat
    BY <1>1
  <2>. QED  BY <2>1
<1>3. \A d \in Classes : d # c => g[d] = f[d]
  <2>. SUFFICES ASSUME NEW d \in Classes, d # c  PROVE g[d] = f[d]
    OBVIOUS
  <2>1. Count(M, G, d) = Count(L, F, d)
    OBVIOUS
  <2>. QED  BY <2>1
<1>4. g[c] = f[c] + c
  <2>1. PICK k \in Nat : k = Count(L, F, c)
    OBVIOUS
  <2>2. Count(M, G, c) = k + 1
    BY <2>1
  <2>3. c * (k + 1) = c * k + c
    BY <1>1, <2>1
  <2>. QED  BY <2>1, <2>2, <2>3
<1>5. Granules(L, F) = SumOver(f, Classes, MaxClass)
      /\ Granules(M, G) = SumOver(g, Classes, MaxClass)
  BY DEF Granules
<1>. HIDE DEF f, g
<1>6. \A d \in 0..MaxClass : d # c => Term(g, Classes, d) = Term(f, Classes, d)
  BY <1>3 DEF Term
<1>7. Term(g, Classes, c) = g[c] /\ Term(f, Classes, c) = f[c] /\ c \in 0..MaxClass
  BY <1>1 DEF Term
<1>8. SumOver(g, Classes, MaxClass)
          = SumOver(f, Classes, MaxClass) + Term(g, Classes, c) - Term(f, Classes, c)
  BY <1>1, <1>2, <1>6, <1>7, SumChangesAt
<1>9. SumOver(f, Classes, MaxClass) \in Int /\ f[c] \in Int
  BY <1>1, <1>2, SumOverDef
<1>. QED  BY <1>1, <1>4, <1>5, <1>7, <1>8, <1>9

LEMMA LeakForm ==
    NothingLeaks <=> slab_total = Len(slabs) * kGranule
                         + Granules(live, free_list) * kGranule
                         + (limit - cursor)
                         + SumOver(tails, DOMAIN tails, Len(tails))
BY DEF NothingLeaks, Granules, Count, Carved, InUse, ClassOf

\* A call that takes a place that was on no list has carved one more block.
LEMMA CarvedOneMore ==
    ASSUME IInv, NEW c \in Classes, NEW b, b \notin live, ClassOf(b) = c
    PROVE  /\ Granules(live, free_list) \in Int
           /\ Granules(live \cup {b}, free_list) = Granules(live, free_list) + c
<1>1. IsFiniteSet(live) /\ free_list \in [Classes -> Seq(Blocks(slabs))]
  BY Types DEF IInv
<1>2. \A d \in Classes : Count(live, free_list, d) \in Nat
  BY <1>1, CountType
<1>3. PICK M : M = live \cup {b}
  OBVIOUS
<1>4. \A d \in Classes :
          /\ Cardinality(InUse(live, d)) \in Nat /\ Len(free_list[d]) \in Nat
          /\ Cardinality(InUse(M, d))
                 = Cardinality(InUse(live, d)) + (IF ClassOf(b) = d THEN 1 ELSE 0)
  BY <1>1, <1>3, CountAdd
<1>5. Count(M, free_list, c) = Count(live, free_list, c) + 1
  BY <1>4 DEF Count
<1>6. \A d \in Classes : d # c => Count(M, free_list, d) = Count(live, free_list, d)
  BY <1>4 DEF Count
<1>7. /\ Granules(live, free_list) \in Int
      /\ Granules(M, free_list) = Granules(live, free_list) + c
  BY <1>2, <1>5, <1>6, GranulesGrow
<1>. QED  BY <1>3, <1>7

\* A block that goes from a free list into use, or back, was carved before.
LEMMA CarvedBefore ==
    ASSUME NEW L, IsFiniteSet(L), NEW b, b \notin L, NEW c \in Classes,
           ClassOf(b) = c, NEW F, NEW G, Len(F[c]) = Len(G[c]) + 1,
           \A d \in Classes : Len(G[d]) \in Nat,
           \A d \in Classes : d # c => G[d] = F[d],
           NEW M, M = L \cup {b}
    PROVE  Granules(M, G) = Granules(L, F)
<1>1. \A d \in Classes : Count(M, G, d) = Count(L, F, d)
  <2>. TAKE d \in Classes
  <2>1. /\ Cardinality(InUse(L, d)) \in Nat
        /\ Cardinality(InUse(M, d))
               = Cardinality(InUse(L, d)) + (IF ClassOf(b) = d THEN 1 ELSE 0)
    BY CountAdd
  <2>2. Len(G[d]) \in Nat
    OBVIOUS
  <2>3. CASE d = c
    <3>1. /\ Cardinality(InUse(M, d)) = Cardinality(InUse(L, d)) + 1
          /\ Len(F[d]) = Len(G[d]) + 1
      BY <2>1, <2>3
    <3>. QED  BY <2>1, <2>2, <3>1 DEF Count
  <2>4. CASE d # c
    <3>1. Cardinality(InUse(M, d)) = Cardinality(InUse(L, d)) /\ F[d] = G[d]
      BY <2>1, <2>4
    <3>. QED  BY <3>1 DEF Count
  <2>. QED  BY <2>3, <2>4
<1>2. [d \in Classes |-> d * Count(M, G, d)] = [d \in Classes |-> d * Count(L, F, d)]
  BY <1>1
<1>. QED  BY <1>2 DEF Granules

LEMMA InitLeaksNothing == Init => NothingLeaks
<1>. SUFFICES ASSUME Init  PROVE NothingLeaks
  OBVIOUS
<1>1. PICK reserve \in Reserves :
          LET bytes == IF reserve + kGranule > kSlabBytes
                       THEN reserve + kGranule ELSE kSlabBytes
          IN  /\ IF reserve > 0
                 THEN /\ slabs = <<bytes>> /\ slab_total = bytes
                      /\ cursor = kGranule /\ limit = bytes
                 ELSE /\ slabs = <<>> /\ slab_total = 0
                      /\ cursor = 0 /\ limit = 0
              /\ free_list = [c \in Classes |-> <<>>]
              /\ live = {} /\ tails = <<>>
  BY DEF Init
<1>2. /\ kGranule \in Nat /\ kSlabBytes \in Nat /\ reserve \in Nat
  BY ArenaAssumption
<1>3. \/ Len(slabs) = 1 /\ slab_total \in Nat /\ cursor = kGranule /\ limit = slab_total
      \/ Len(slabs) = 0 /\ slab_total = 0 /\ cursor = 0 /\ limit = 0
  BY <1>1, <1>2
<1>4. SumOver(tails, DOMAIN tails, Len(tails)) = 0
  <2>1. tails = <<>> /\ Len(<<>>) = 0 /\ DOMAIN <<>> = {}
    BY <1>1
  <2>2. \A k \in 0..0 : Term(<<>>, {}, k) = 0
    BY DEF Term
  <2>3. SumOver(<<>>, {}, 0) = 0
    BY <2>2, SumOfZeros
  <2>. QED  BY <2>1, <2>3
<1>5. Granules(live, free_list) = 0
  <2>. DEFINE f == [c \in Classes |-> c * Count(live, free_list, c)]
  <2>1. \A c \in Classes : Count(live, free_list, c) = 0 /\ c \in Nat
    <3>. TAKE c \in Classes
    <3>1. InUse(live, c) = {} /\ Len(free_list[c]) = 0
      BY <1>1 DEF InUse
    <3>. QED  BY <3>1, FS_EmptySet, ClassRange DEF Count
  <2>2. \A c \in Classes : f[c] = 0
    BY <2>1
  <2>. HIDE DEF f
  <2>3. \A k \in 0..MaxClass : Term(f, Classes, k) = 0
    BY <2>2 DEF Term
  <2>4. SumOver(f, Classes, MaxClass) = 0
    BY <2>2, <2>3, ClassRange, SumOfZeros
  <2>. QED  BY <2>4 DEF Granules, f
<1>6. slab_total = Len(slabs) * kGranule + 0 * kGranule + (limit - cursor) + 0
  <2>1. CASE Len(slabs) = 1 /\ slab_total \in Nat /\ cursor = kGranule /\ limit = slab_total
    BY <1>2, <2>1
  <2>2. CASE Len(slabs) = 0 /\ slab_total = 0 /\ cursor = 0 /\ limit = 0
    BY <1>2, <2>2
  <2>. QED  BY <1>3, <2>1, <2>2
<1>. QED  BY <1>4, <1>5, <1>6, LeakForm

\* The sums of the two halves of a state, as numbers.
LEMMA LeakTypes ==
    ASSUME IInv
    PROVE  /\ Len(slabs) \in Nat /\ limit \in Nat /\ cursor \in Nat
           /\ SumOver(tails, DOMAIN tails, Len(tails)) \in Int
           /\ Granules(live, free_list) \in Int
           /\ kGranule \in Nat /\ kSlabBytes \in Nat
<1>1. /\ slabs \in Seq(Nat) /\ limit \in Nat /\ cursor \in Nat /\ tails \in Seq(Nat)
      /\ free_list \in [Classes -> Seq(Blocks(slabs))] /\ IsFiniteSet(live)
  BY Types DEF IInv
<1>2. SumOver(tails, DOMAIN tails, Len(tails)) \in Int
  <2>1. 0 \in Nat
    OBVIOUS
  <2>. QED  BY <1>1, <2>1, SumAppend
<1>3. Granules(live, free_list) \in Int
  <2>. DEFINE f == [c \in Classes |-> c * Count(live, free_list, c)]
  <2>1. \A c \in Classes : Count(live, free_list, c) \in Nat
    BY <1>1, CountType
  <2>2. \A c \in Classes : f[c] \in Int
    BY <2>1, ClassRange
  <2>. HIDE DEF f
  <2>3. SumOver(f, Classes, MaxClass) \in Int
    BY <2>2, ClassRange, SumOverDef
  <2>. QED  BY <2>3 DEF Granules, f
<1>. QED  BY <1>1, <1>2, <1>3, ArenaAssumption

LEMMA Distribute ==
    ASSUME NEW w \in Int, NEW c \in Nat, NEW n \in Nat, NEW g \in Nat
    PROVE  /\ (w + c) * g = w * g + c * g /\ w * g \in Int /\ c * g \in Nat
           /\ (n + 1) * g = n * g + g /\ n * g \in Nat
OBVIOUS

LEMMA NextLeaksNothing == IInv /\ NothingLeaks /\ [Next]_vars => NothingLeaks'
<1>. SUFFICES ASSUME IInv, NothingLeaks, [Next]_vars  PROVE NothingLeaks'
  OBVIOUS
<1>. DEFINE w == Granules(live, free_list)
            t == SumOver(tails, DOMAIN tails, Len(tails))
<1>1. /\ Len(slabs) \in Nat /\ limit \in Nat /\ cursor \in Nat /\ t \in Int
      /\ w \in Int /\ kGranule \in Nat /\ kSlabBytes \in Nat
  BY LeakTypes
<1>2. slab_total = Len(slabs) * kGranule + w * kGranule + (limit - cursor) + t
  BY LeakForm
<1>3. slabs \in Seq(Nat) /\ tails \in Seq(Nat) /\ cursor <= limit
      /\ free_list \in [Classes -> Seq(Blocks(slabs))] /\ IsFiniteSet(live)
  BY Types DEF IInv
<1>4. \A c \in Classes : c \in Nat
  BY ClassRange
<1>5. ASSUME NEW bytes \in Requests, Reuse(bytes)  PROVE NothingLeaks'
  <2>. DEFINE c == SizeClass(bytes)
  <2>1. PICK b : b \notin live /\ live' = live \cup {b} /\ ClassOf(b) = c
    BY <1>5, ReuseKeeps
  <2>2. /\ free_list[c] # <<>> /\ free_list' = [free_list EXCEPT ![c] = Tail(@)]
        /\ UNCHANGED <<slabs, cursor, limit, slab_total, tails>>
    BY <1>5 DEF Reuse
  <2>3. c \in Classes
    BY ClassFacts
  <2>. HIDE DEF c
  <2>4. PICK G : G = free_list'
    OBVIOUS
  <2>5. /\ \A d \in Classes : Len(G[d]) \in Nat
        /\ \A d \in Classes : d # c => G[d] = free_list[d]
        /\ Len(free_list[c]) = Len(G[c]) + 1
    BY <1>3, <2>2, <2>3, <2>4
  <2>6. Granules(live \cup {b}, G) = Granules(live, free_list)
    <3>1. IsFiniteSet(live) /\ b \notin live /\ c \in Classes /\ ClassOf(b) = c
      BY <1>3, <2>1, <2>3
    <3>2. PICK M : M = live \cup {b}
      OBVIOUS
    <3>. HIDE DEF w
    <3>3. Granules(M, G) = Granules(live, free_list)
      BY <2>5, <3>1, <3>2, CarvedBefore
    <3>. QED  BY <3>2, <3>3
  <2>7. Granules(live, free_list)' = w
    BY <2>1, <2>4, <2>6 DEF Granules, Count, InUse
  <2>8. (slab_total = Len(slabs) * kGranule + Granules(live, free_list) * kGranule
             + (limit - cursor) + SumOver(tails, DOMAIN tails, Len(tails)))'
    BY <1>2, <2>2, <2>7
  <2>. QED  BY <2>8, LeakForm, PTL
<1>6. ASSUME NEW bytes \in Requests, CarveHere(bytes)  PROVE NothingLeaks'
  <2>. DEFINE c == SizeClass(bytes)
  <2>1. PICK b : b \notin live /\ live' = live \cup {b} /\ ClassOf(b) = c
    BY <1>6, CarveHereKeeps
  <2>2. /\ cursor' = cursor + c * kGranule
        /\ UNCHANGED <<slabs, limit, free_list, slab_total, tails>>
    BY <1>6 DEF CarveHere
  <2>3. c \in Classes
    BY ClassFacts
  <2>. HIDE DEF c
  <2>4. Granules(live \cup {b}, free_list) = w + c
    BY <2>1, <2>3, CarvedOneMore
  <2>5. Granules(live, free_list)' = w + c
    BY <2>1, <2>2, <2>4 DEF Granules, Count, InUse
  <2>6. /\ (w + c) * kGranule = w * kGranule + c * kGranule /\ w * kGranule \in Int
        /\ c * kGranule \in Nat /\ Len(slabs) * kGranule \in Nat
    BY <1>1, <1>4, <2>3, Distribute
  <2>. HIDE DEF w, t
  <2>7. slab_total = Len(slabs) * kGranule + (w + c) * kGranule
                         + (limit - (cursor + c * kGranule)) + t
    BY <1>1, <1>2, <2>6
  <2>8. (slab_total = Len(slabs) * kGranule + Granules(live, free_list) * kGranule
             + (limit - cursor) + SumOver(tails, DOMAIN tails, Len(tails)))'
    BY <2>2, <2>5, <2>7 DEF t
  <2>. QED  BY <2>8, LeakForm, PTL
<1>7. ASSUME NEW bytes \in Requests, CarveNewSlab(bytes)  PROVE NothingLeaks'
  <2>. DEFINE c == SizeClass(bytes)
              x == limit - cursor
  <2>1. PICK b : b \notin live /\ live' = live \cup {b} /\ ClassOf(b) = c
    BY <1>7, CarveNewSlabKeeps
  <2>2. /\ slabs' = Append(slabs, kSlabBytes) /\ slab_total' = slab_total + kSlabBytes
        /\ cursor' = kGranule + c * kGranule /\ limit' = kSlabBytes
        /\ tails' = Append(tails, x) /\ free_list' = free_list
    BY <1>7 DEF CarveNewSlab
  <2>3. c \in Classes
    BY ClassFacts
  <2>. HIDE DEF c
  <2>4. Granules(live \cup {b}, free_list) = w + c
    BY <2>1, <2>3, CarvedOneMore
  <2>5. Granules(live, free_list)' = w + c
    BY <2>1, <2>2, <2>4 DEF Granules, Count, InUse
  <2>6. /\ (w + c) * kGranule = w * kGranule + c * kGranule /\ w * kGranule \in Int
        /\ c * kGranule \in Nat /\ Len(slabs) * kGranule \in Nat
        /\ (Len(slabs) + 1) * kGranule = Len(slabs) * kGranule + kGranule
    BY <1>1, <1>4, <2>3, Distribute
  <2>7. x \in Nat
    BY <1>1, <1>3
  <2>8. Len(slabs') = Len(slabs) + 1
    BY <1>1, <1>3, <2>2
  <2>. HIDE DEF x
  <2>9. SumOver(tails', DOMAIN tails', Len(tails')) = t + x
    BY <1>3, <2>2, <2>7, SumAppend
  <2>. HIDE DEF w, t
  <2>10. slab_total + kSlabBytes = (Len(slabs) + 1) * kGranule + (w + c) * kGranule
             + (kSlabBytes - (kGranule + c * kGranule)) + (t + x)
    BY <1>1, <1>2, <2>6 DEF x
  <2>11. (slab_total = Len(slabs) * kGranule + Granules(live, free_list) * kGranule
             + (limit - cursor) + SumOver(tails, DOMAIN tails, Len(tails)))'
    BY <2>2, <2>5, <2>8, <2>9, <2>10
  <2>. QED  BY <2>11, LeakForm, PTL
<1>8. ASSUME NEW b \in live, Deallocate(b)  PROVE NothingLeaks'
  <2>. DEFINE c == ClassOf(b)
              e == [slab |-> b.slab, off |-> b.off]
  <2>1. /\ free_list' = [free_list EXCEPT ![c] = <<e>> \o @] /\ live' = live \ {b}
        /\ UNCHANGED <<slabs, cursor, limit, slab_total, tails>>
    BY <1>8 DEF Deallocate, ClassOf
  <2>2. c \in Classes /\ e \in Blocks(slabs)
    BY HeldFacts DEF Blocks
  <2>. HIDE DEF c, e
  <2>3. IsFiniteSet(live \ {b}) /\ b \notin live \ {b} /\ (live \ {b}) \cup {b} = live
    BY <1>3, FS_RemoveElement
  <2>4. /\ <<e>> \o free_list[c] \in Seq(Blocks(slabs))
        /\ Len(<<e>> \o free_list[c]) = 1 + Len(free_list[c])
    BY <1>3, <2>2
  <2>5. PICK G : G = free_list'
    OBVIOUS
  <2>6. /\ \A d \in Classes : Len(free_list[d]) \in Nat
        /\ \A d \in Classes : d # c => free_list[d] = G[d]
        /\ Len(G[c]) = Len(free_list[c]) + 1
    BY <1>3, <2>1, <2>2, <2>4, <2>5
  <2>7. Granules(live, free_list)' = w
    <3>1. PICK L : L = live \ {b}
      OBVIOUS
    <3>2. /\ IsFiniteSet(L) /\ b \notin L /\ ClassOf(b) = c /\ c \in Classes
      BY <2>2, <2>3, <3>1 DEF c
    <3>3. live = L \cup {b}
      BY <2>3, <3>1
    <3>4. Granules(live, free_list) = Granules(L, G)
      <4>. HIDE DEF w
      <4>. QED  BY <2>6, <3>2, <3>3, CarvedBefore
    <3>5. live' = L /\ free_list' = G
      BY <2>1, <2>5, <3>1
    <3>6. Granules(live', free_list') = Granules(live, free_list)
      BY <3>3, <3>4, <3>5
    <3>. QED  BY <3>6 DEF Granules, Count, InUse
  <2>8. (slab_total = Len(slabs) * kGranule + Granules(live, free_list) * kGranule
             + (limit - cursor) + SumOver(tails, DOMAIN tails, Len(tails)))'
    BY <1>2, <2>1, <2>7
  <2>. QED  BY <2>8, LeakForm, PTL
<1>9. CASE UNCHANGED vars
  BY <1>9 DEF vars, NothingLeaks, Carved
<1>. QED  BY <1>5, <1>6, <1>7, <1>8, <1>9 DEF Next, Allocate

\* Every byte of the slabs is in a header, in use, on a free list, in the
\* unused tail or abandoned with one: deallocate() and the free lists lose none.
THEOREM NoLeak == Spec => []NothingLeaks
BY Invariance, InitLeaksNothing, NextLeaksNothing, PTL DEF Spec
=============================================================================
