---------------------------- MODULE Foundations -----------------------------
(***************************************************************************)
(* Facts about naturals and sequences that the proofs of several modules   *)
(* rest on: smallest and largest elements (what "the best occupied price"  *)
(* rests on, and the substitute for induction in proofs that argue from a  *)
(* smallest counterexample), remainders, positions of sequences, and sums. *)
(***************************************************************************)
EXTENDS Integers, SequencesExt, Sums, SequenceTheorems, FiniteSetTheorems,
        WellFoundedInduction, TLAPS

-----------------------------------------------------------------------------
\* A set of naturals that is not empty has a smallest element.
LEMMA SmallestExists ==
    ASSUME NEW T, T \subseteq Nat, T # {}
    PROVE  \E x \in T : \A y \in T : x <= y
<1>1. \E x \in T : \A y \in T : ~(<<y, x>> \in OpToRel(<, Nat))
  BY NatLessThanWellFounded, WFMin
<1>2. \A x, y \in Nat : <<y, x>> \in OpToRel(<, Nat) <=> y < x
  BY DEF OpToRel
<1>3. PICK x \in T : \A y \in T : ~(<<y, x>> \in OpToRel(<, Nat))
  BY <1>1
<1>4. \A y \in T : ~(y < x)
  BY <1>2, <1>3
<1>5. x \in Nat /\ \A y \in T : y \in Nat
  OBVIOUS
<1>. QED  BY <1>4, <1>5

\* So has one that is bounded from above a largest element.
LEMMA LargestExists ==
    ASSUME NEW m \in Nat, NEW T, T \subseteq 0..m, T # {}
    PROVE  \E x \in T : \A y \in T : y <= x
<1>. DEFINE D == {m - x : x \in T}
<1>1. D \subseteq Nat /\ D # {}
  <2>1. \A x \in T : x \in Nat /\ x <= m
    OBVIOUS
  <2>2. \A x \in T : m - x \in Nat
    BY <2>1
  <2>3. PICK x \in T : TRUE
    OBVIOUS
  <2>4. m - x \in D
    OBVIOUS
  <2>. QED  BY <2>2, <2>4
<1>2. PICK d \in D : \A e \in D : d <= e
  <2>. HIDE DEF D
  <2>. QED  BY <1>1, SmallestExists
<1>3. PICK x \in T : d = m - x
  OBVIOUS
<1>4. \A y \in T : m - x <= m - y
  BY <1>2, <1>3
<1>. QED  BY <1>4

-----------------------------------------------------------------------------
(***************************************************************************)
(* Remainders                                                              *)
(***************************************************************************)

LEMMA Division ==
    ASSUME NEW a \in Nat, NEW s \in Nat \ {0}
    PROVE  /\ a \div s \in Nat
           /\ a % s \in 0..(s - 1)
           /\ a = (a \div s) * s + (a % s)
OBVIOUS

LEMMA RemainderOf ==
    ASSUME NEW s \in Nat \ {0}, NEW k \in Nat, NEW r \in 0..(s - 1)
    PROVE  (k * s + r) % s = r
OBVIOUS

LEMMA MultipleOf ==
    ASSUME NEW s \in Nat \ {0}, NEW k \in Nat
    PROVE  k * s \in Nat /\ (k * s) % s = 0
OBVIOUS

\* Numbers closer to each other than s have different remainders.
LEMMA NearbyDiffer ==
    ASSUME NEW s \in Nat \ {0}, NEW a \in Nat, NEW b \in Nat,
           a < b, b < a + s
    PROVE  a % s # b % s
<1>. SUFFICES ASSUME a % s = b % s  PROVE FALSE
  OBVIOUS
<1>. DEFINE k == a \div s
            l == b \div s
<1>1. k \in Nat /\ l \in Nat /\ a % s \in 0..(s - 1)
  BY Division
<1>2. a = k * s + (a % s) /\ b = l * s + (a % s)
  BY Division
<1>. HIDE DEF k, l
<1>3. k * s < l * s /\ l * s < k * s + s
  BY <1>1, <1>2
<1>4. k < l
  BY <1>1, <1>3
<1>5. (k + 1) * s <= l * s
  BY <1>1, <1>4
<1>. QED  BY <1>1, <1>3, <1>5

-----------------------------------------------------------------------------
(***************************************************************************)
(* Sequences                                                               *)
(***************************************************************************)

\* Removing a position of a sequence shifts the later elements down by one.
LEMMA RemoveAtFacts ==
    ASSUME NEW S, NEW q \in Seq(S), NEW i \in 1..Len(q)
    PROVE  /\ RemoveAt(q, i) \in Seq(S)
           /\ Len(RemoveAt(q, i)) = Len(q) - 1
           /\ \A j \in 1..(Len(q) - 1) :
                  RemoveAt(q, i)[j] = IF j < i THEN q[j] ELSE q[j + 1]
<1>. DEFINE front == SubSeq(q, 1, i - 1)
            back == SubSeq(q, i + 1, Len(q))
<1>1. /\ front \in Seq(S) /\ Len(front) = i - 1
      /\ \A j \in 1..(i - 1) : front[j] = q[j]
  OBVIOUS
<1>2. /\ back \in Seq(S) /\ Len(back) = Len(q) - i
      /\ \A j \in 1..(Len(q) - i) : back[j] = q[j + i]
  OBVIOUS
<1>3. RemoveAt(q, i) = front \o back
  BY DEF RemoveAt
<1>. HIDE DEF front, back
<1>4. /\ front \o back \in Seq(S)
      /\ Len(front \o back) = Len(front) + Len(back)
      /\ \A j \in 1..(Len(front) + Len(back)) :
             (front \o back)[j] =
                 IF j <= Len(front) THEN front[j] ELSE back[j - Len(front)]
  BY <1>1, <1>2, ConcatProperties, Zenon
<1>. QED  BY <1>1, <1>2, <1>3, <1>4
-----------------------------------------------------------------------------
(***************************************************************************)
(* Sums                                                                    *)
(***************************************************************************)

\* s holds the partial sums of v, up to n.
PartialSums(s, v, n) ==
    /\ s[0] = v[0]
    /\ \A k \in 1..n : s[k] = s[k - 1] + v[k]

\* Partial sums are determined by the terms.
LEMMA PartialSumsUnique ==
    ASSUME NEW n \in Nat, NEW v, NEW w, NEW s, NEW t,
           \A k \in 0..n : v[k] = w[k],
           PartialSums(s, v, n), PartialSums(t, w, n)
    PROVE  \A k \in 0..n : s[k] = t[k]
<1>. DEFINE Bad == {k \in 0..n : s[k] # t[k]}
<1>. SUFFICES ASSUME Bad # {}  PROVE FALSE
  OBVIOUS
<1>1. PICK k \in Bad : \A j \in Bad : k <= j
  <2>1. Bad \subseteq Nat
    OBVIOUS
  <2>. HIDE DEF Bad
  <2>. QED  BY <2>1, SmallestExists
<1>2. CASE k = 0
  BY <1>2 DEF PartialSums
<1>3. CASE k # 0
  <2>1. k \in 1..n /\ k - 1 \in 0..n /\ ~(k <= k - 1)
    BY <1>3
  <2>2. s[k - 1] = t[k - 1]
    BY <1>1, <2>1
  <2>. QED  BY <2>1, <2>2 DEF PartialSums
<1>. QED  BY <1>2, <1>3

LEMMA PartialSumsExist ==
    ASSUME NEW v \in [Nat -> Int]
    PROVE  \A n \in Nat : \E s \in [Nat -> Int] : PartialSums(s, v, n)
<1>. DEFINE Bad == {n \in Nat : ~\E s \in [Nat -> Int] : PartialSums(s, v, n)}
<1>. SUFFICES ASSUME Bad # {}  PROVE FALSE
  OBVIOUS
<1>1. PICK n \in Bad : \A j \in Bad : n <= j
  <2>1. Bad \subseteq Nat
    OBVIOUS
  <2>. HIDE DEF Bad
  <2>. QED  BY <2>1, SmallestExists
<1>2. CASE n = 0
  <2>1. PartialSums([k \in Nat |-> v[0]], v, n)
    BY <1>2 DEF PartialSums
  <2>. QED  BY <2>1
<1>3. CASE n # 0
  <2>1. n - 1 \in Nat /\ ~(n <= n - 1)
    BY <1>3
  <2>2. PICK s \in [Nat -> Int] : PartialSums(s, v, n - 1)
    BY <1>1, <2>1
  <2>. DEFINE t == [s EXCEPT ![n] = s[n - 1] + v[n]]
  <2>3. t \in [Nat -> Int]
    BY <2>1
  <2>4. /\ t[n] = s[n - 1] + v[n] /\ t[n - 1] = s[n - 1]
        /\ \A k \in Nat : k < n => t[k] = s[k]
    BY <2>1
  <2>. HIDE DEF t
  <2>5. t[0] = v[0]
    BY <1>3, <2>4, <2>2 DEF PartialSums
  <2>6. \A k \in 1..n : t[k] = t[k - 1] + v[k]
    <3>. TAKE k \in 1..n
    <3>1. CASE k = n
      BY <2>4, <3>1
    <3>2. CASE k # n
      <4>1. k \in 1..(n - 1) /\ k \in Nat /\ k - 1 \in Nat /\ k < n /\ k - 1 < n
        BY <3>2
      <4>. QED  BY <2>2, <2>4, <4>1 DEF PartialSums
    <3>. QED  BY <3>1, <3>2
  <2>. QED  BY <2>3, <2>5, <2>6 DEF PartialSums
<1>. QED  BY <1>2, <1>3

\* The terms of SumOver.
Term(f, T, k) == IF k \in T THEN f[k] ELSE 0

\* SumOver is what its recursion says it is.
LEMMA SumOverDef ==
    ASSUME NEW f, NEW T, \A k \in T : f[k] \in Int
    PROVE  /\ SumOver(f, T, 0) = Term(f, T, 0)
           /\ \A n \in Nat : SumOver(f, T, n) \in Int
           /\ \A n \in Nat \ {0} : SumOver(f, T, n) = SumOver(f, T, n - 1) + Term(f, T, n)
<1>. DEFINE v == [k \in Nat |-> Term(f, T, k)]
            upTo == CHOOSE u : u = [k \in Nat |-> (IF k = 0 THEN 0 ELSE u[k - 1])
                                          + (IF k \in T THEN f[k] ELSE 0)]
            g == [n \in Nat |-> CHOOSE s \in [Nat -> Int] : PartialSums(s, v, n)]
            u == [n \in Nat |-> g[n][n]]
<1>1. v \in [Nat -> Int]
  BY DEF Term
<1>2. \A n \in Nat : g[n] \in [Nat -> Int] /\ PartialSums(g[n], v, n)
  <2>. HIDE DEF v
  <2>. QED  BY <1>1, PartialSumsExist
<1>3. \A n \in Nat \ {0} : g[n][n - 1] = g[n - 1][n - 1]
  <2>. HIDE DEF v, g
  <2>. TAKE n \in Nat \ {0}
  <2>1. n - 1 \in Nat /\ n - 1 \in 0..(n - 1) /\ n \in Nat
    OBVIOUS
  <2>2. PartialSums(g[n], v, n - 1)
    BY <1>2, <2>1 DEF PartialSums
  <2>3. \A k \in 0..(n - 1) : g[n][k] = g[n - 1][k]
    BY <1>2, <2>1, <2>2, PartialSumsUnique
  <2>. QED  BY <2>1, <2>3
<1>4. \A n \in Nat : u[n] \in Int
  BY <1>2
<1>5. \A n \in Nat : u[n] = (IF n = 0 THEN 0 ELSE u[n - 1]) + v[n]
  <2>. HIDE DEF v
  <2>. TAKE n \in Nat
  <2>1. CASE n = 0
    BY <1>1, <1>2, <2>1 DEF PartialSums
  <2>2. CASE n # 0
    <3>1. n - 1 \in Nat /\ n \in 1..n /\ n \in Nat \ {0}
      BY <2>2
    <3>2. g[n][n] = g[n][n - 1] + v[n]
      BY <1>2, <3>1 DEF PartialSums
    <3>3. u[n] = g[n][n] /\ u[n - 1] = g[n - 1][n - 1]
      BY <3>1
    <3>4. g[n][n - 1] = g[n - 1][n - 1]
      BY <1>3, <3>1
    <3>. HIDE DEF u, g
    <3>. QED  BY <2>2, <3>2, <3>3, <3>4
  <2>. QED  BY <2>1, <2>2
<1>6. u = [k \in Nat |-> (IF k = 0 THEN 0 ELSE u[k - 1])
                             + (IF k \in T THEN f[k] ELSE 0)]
  <2>1. \A n \in Nat : u[n] = (IF n = 0 THEN 0 ELSE u[n - 1])
                                  + (IF n \in T THEN f[n] ELSE 0)
    <3>1. \A n \in Nat : v[n] = IF n \in T THEN f[n] ELSE 0
      BY DEF Term
    <3>. HIDE DEF u, v
    <3>. QED  BY <1>5, <3>1
  <2>. HIDE DEF g
  <2>. QED  BY <2>1
<1>7. upTo = [k \in Nat |-> (IF k = 0 THEN 0 ELSE upTo[k - 1])
                                + (IF k \in T THEN f[k] ELSE 0)]
  <2>. HIDE DEF u
  <2>. QED  BY <1>6
<1>8. \A n \in Nat : SumOver(f, T, n) = upTo[n]
  BY DEF SumOver
<1>. HIDE DEF upTo, u, g, v
<1>9. /\ \A n \in Nat : upTo[n] = (IF n = 0 THEN 0 ELSE upTo[n - 1]) + Term(f, T, n)
      /\ \A n \in Nat : Term(f, T, n) \in Int
  BY <1>7 DEF Term
<1>10. upTo[0] = Term(f, T, 0)
  BY <1>9
<1>11. \A n \in Nat \ {0} : upTo[n] = upTo[n - 1] + Term(f, T, n)
  BY <1>9
<1>12. \A n \in Nat : upTo[n] \in Int
  <2>. DEFINE Bad == {n \in Nat : upTo[n] \notin Int}
  <2>. SUFFICES ASSUME Bad # {}  PROVE FALSE
    OBVIOUS
  <2>1. PICK n \in Bad : \A j \in Bad : n <= j
    <3>1. Bad \subseteq Nat
      OBVIOUS
    <3>. HIDE DEF Bad
    <3>. QED  BY <3>1, SmallestExists
  <2>2. n # 0
    BY <1>9, <1>10
  <2>3. n - 1 \in Nat /\ ~(n <= n - 1)
    BY <2>2
  <2>4. upTo[n - 1] \in Int
    BY <2>1, <2>3
  <2>. QED  BY <1>9, <1>11, <2>2, <2>4
<1>13. \A n \in Nat \ {0} : n - 1 \in Nat
  OBVIOUS
<1>. QED  BY <1>8, <1>10, <1>11, <1>12, <1>13
\* When one term changes, the sum changes by as much.
LEMMA SumChangesAt ==
    ASSUME NEW f, NEW T, \A k \in T : f[k] \in Int,
           NEW g, NEW U, \A k \in U : g[k] \in Int,
           NEW n \in Nat, NEW p \in 0..n,
           \A k \in 0..n : k # p => Term(g, U, k) = Term(f, T, k)
    PROVE  SumOver(g, U, n) = SumOver(f, T, n) + Term(g, U, p) - Term(f, T, p)
<1>. DEFINE F(m) == SumOver(f, T, m)
            G(m) == SumOver(g, U, m)
            a(k) == Term(f, T, k)
            b(k) == Term(g, U, k)
            Bad == {m \in 0..n : G(m) - F(m) # IF m < p THEN 0 ELSE b(p) - a(p)}
<1>1. /\ F(0) = a(0) /\ G(0) = b(0)
      /\ \A m \in Nat : F(m) \in Int /\ G(m) \in Int
      /\ \A m \in Nat \ {0} : F(m) = F(m - 1) + a(m) /\ G(m) = G(m - 1) + b(m)
  BY SumOverDef
<1>2. \A k \in 0..n : a(k) \in Int /\ b(k) \in Int
  BY DEF Term
<1>3. \A k \in 0..n : k # p => b(k) = a(k)
  OBVIOUS
<1>. HIDE DEF F, G, a, b
<1>. SUFFICES ASSUME Bad # {}  PROVE FALSE
  <2>1. Bad = {} => G(n) = F(n) + b(p) - a(p)
    BY <1>1, <1>2
  <2>. QED  BY <2>1 DEF F, G, a, b
<1>4. PICK m \in Bad : \A j \in Bad : m <= j
  <2>1. Bad \subseteq Nat
    OBVIOUS
  <2>. HIDE DEF Bad
  <2>. QED  BY <2>1, SmallestExists
<1>5. CASE m = 0
  BY <1>1, <1>2, <1>3, <1>5
<1>6. CASE m # 0
  <2>1. m \in Nat \ {0} /\ m \in 0..n /\ m - 1 \in 0..n /\ m - 1 \in Nat /\ ~(m <= m - 1)
    BY <1>6
  <2>2. G(m - 1) - F(m - 1) = IF m - 1 < p THEN 0 ELSE b(p) - a(p)
    BY <1>4, <2>1
  <2>3. F(m) = F(m - 1) + a(m) /\ G(m) = G(m - 1) + b(m)
    BY <1>1, <2>1
  <2>4. /\ F(m - 1) \in Int /\ G(m - 1) \in Int /\ a(m) \in Int /\ b(m) \in Int
        /\ a(p) \in Int /\ b(p) \in Int
    BY <1>1, <1>2, <2>1
  <2>5. CASE m = p
    BY <2>1, <2>2, <2>3, <2>4, <2>5
  <2>6. CASE m # p
    <3>1. b(m) = a(m)
      BY <1>3, <2>1, <2>6
    <3>. QED  BY <2>1, <2>2, <2>3, <2>4, <2>6, <3>1
  <2>. QED  BY <2>5, <2>6
<1>. QED  BY <1>5, <1>6

\* When no term changes, neither does the sum.
LEMMA SumUnchanged ==
    ASSUME NEW f, NEW T, \A k \in T : f[k] \in Int,
           NEW g, NEW U, \A k \in U : g[k] \in Int,
           NEW n \in Nat, \A k \in 0..n : Term(g, U, k) = Term(f, T, k)
    PROVE  SumOver(g, U, n) = SumOver(f, T, n)
<1>1. 0 \in 0..n /\ Term(g, U, 0) = Term(f, T, 0) /\ Term(f, T, 0) \in Int
  BY DEF Term
<1>2. SumOver(g, U, n) = SumOver(f, T, n) + Term(g, U, 0) - Term(f, T, 0)
  BY <1>1, SumChangesAt
<1>3. SumOver(f, T, n) \in Int
  BY SumOverDef
<1>. QED  BY <1>1, <1>2, <1>3

\* When the terms move down by one place, the sum loses the first.
LEMMA SumShifts ==
    ASSUME NEW f, NEW T, \A k \in T : f[k] \in Int, 0 \notin T,
           NEW g, NEW U, \A k \in U : g[k] \in Int, 0 \notin U,
           NEW n \in Nat, \A k \in 1..n : Term(g, U, k) = Term(f, T, k + 1)
    PROVE  SumOver(g, U, n) = SumOver(f, T, n + 1) - Term(f, T, 1)
<1>. DEFINE F(m) == SumOver(f, T, m)
            G(m) == SumOver(g, U, m)
            a(k) == Term(f, T, k)
            b(k) == Term(g, U, k)
            Bad == {m \in 0..n : G(m) # F(m + 1) - a(1)}
<1>1. /\ F(0) = a(0) /\ G(0) = b(0)
      /\ \A m \in Nat : F(m) \in Int /\ G(m) \in Int
      /\ \A m \in Nat \ {0} : F(m) = F(m - 1) + a(m) /\ G(m) = G(m - 1) + b(m)
  BY SumOverDef
<1>2. /\ \A k \in Nat : a(k) \in Int /\ b(k) \in Int
      /\ a(0) = 0 /\ b(0) = 0
  BY DEF Term
<1>3. \A k \in 1..n : b(k) = a(k + 1)
  OBVIOUS
<1>. HIDE DEF F, G, a, b
<1>. SUFFICES ASSUME Bad # {}  PROVE FALSE
  <2>1. Bad = {} => G(n) = F(n + 1) - a(1)
    OBVIOUS
  <2>. QED  BY <2>1 DEF F, G, a, b
<1>4. PICK m \in Bad : \A j \in Bad : m <= j
  <2>1. Bad \subseteq Nat
    OBVIOUS
  <2>. HIDE DEF Bad
  <2>. QED  BY <2>1, SmallestExists
<1>5. CASE m = 0
  <2>1. F(1) = F(0) + a(1)
    BY <1>1
  <2>. QED  BY <1>1, <1>2, <1>5, <2>1
<1>6. CASE m # 0
  <2>1. m \in Nat \ {0} /\ m \in 1..n /\ m - 1 \in 0..n /\ m - 1 \in Nat /\ ~(m <= m - 1)
    BY <1>6
  <2>2. G(m - 1) = F(m) - a(1)
    <3>1. G(m - 1) = F((m - 1) + 1) - a(1)
      BY <1>4, <2>1
    <3>2. (m - 1) + 1 = m
      BY <2>1
    <3>. QED  BY <3>1, <3>2
  <2>3. F(m + 1) = F(m) + a(m + 1) /\ G(m) = G(m - 1) + b(m)
    <3>1. m + 1 \in Nat \ {0} /\ (m + 1) - 1 = m
      BY <2>1
    <3>2. F(m + 1) = F((m + 1) - 1) + a(m + 1)
      BY <1>1, <3>1
    <3>. QED  BY <1>1, <2>1, <3>1, <3>2
  <2>4. /\ F(m) \in Int /\ F(m + 1) \in Int /\ G(m - 1) \in Int /\ a(m + 1) \in Int
        /\ a(1) \in Int /\ b(m) = a(m + 1)
    BY <1>1, <1>2, <1>3, <2>1
  <2>. QED  BY <2>2, <2>3, <2>4
<1>. QED  BY <1>5, <1>6
\* A sum of zeros, or of nothing at all.
LEMMA SumOfZeros ==
    ASSUME NEW f, NEW T, \A k \in T : f[k] \in Int,
           NEW n \in Nat, \A k \in 0..n : Term(f, T, k) = 0
    PROVE  SumOver(f, T, n) = 0
<1>. DEFINE F(m) == SumOver(f, T, m)
            Bad == {m \in 0..n : F(m) # 0}
<1>1. /\ F(0) = Term(f, T, 0)
      /\ \A m \in Nat \ {0} : F(m) = F(m - 1) + Term(f, T, m)
  BY SumOverDef
<1>2. \A k \in 0..n : Term(f, T, k) = 0
  OBVIOUS
<1>. HIDE DEF F
<1>. SUFFICES ASSUME Bad # {}  PROVE FALSE
  <2>1. Bad = {} => F(n) = 0
    OBVIOUS
  <2>. QED  BY <2>1 DEF F
<1>3. PICK m \in Bad : \A j \in Bad : m <= j
  <2>1. Bad \subseteq Nat
    OBVIOUS
  <2>. HIDE DEF Bad
  <2>. QED  BY <2>1, SmallestExists
<1>4. m # 0
  BY <1>1, <1>2
<1>5. m \in Nat \ {0} /\ m - 1 \in 0..n /\ ~(m <= m - 1)
  BY <1>4
<1>6. F(m - 1) = 0
  BY <1>3, <1>5
<1>. QED  BY <1>1, <1>2, <1>5, <1>6
\* One more term.
LEMMA SumStep ==
    ASSUME NEW f, NEW T, \A k \in T : f[k] \in Int, NEW n \in Nat
    PROVE  SumOver(f, T, n + 1) = SumOver(f, T, n) + Term(f, T, n + 1)
<1>1. n + 1 \in Nat \ {0} /\ (n + 1) - 1 = n
  OBVIOUS
<1>2. SumOver(f, T, n + 1) = SumOver(f, T, (n + 1) - 1) + Term(f, T, n + 1)
  BY <1>1, SumOverDef
<1>. QED  BY <1>1, <1>2

\* The sum of a sequence that grows by one number.
LEMMA SumAppend ==
    ASSUME NEW q \in Seq(Nat), NEW x \in Nat
    PROVE  /\ SumOver(q, DOMAIN q, Len(q)) \in Int
           /\ SumOver(Append(q, x), DOMAIN Append(q, x), Len(Append(q, x)))
                  = SumOver(q, DOMAIN q, Len(q)) + x
<1>1. PICK r \in Seq(Nat) : r = Append(q, x)
  <2>1. Append(q, x) \in Seq(Nat)
    OBVIOUS
  <2>. QED  BY <2>1
<1>2. /\ DOMAIN q = 1..Len(q) /\ Len(q) \in Nat /\ Len(r) = Len(q) + 1
      /\ DOMAIN r = 1..(Len(q) + 1) /\ r[Len(q) + 1] = x
      /\ \A i \in 1..Len(q) : r[i] = q[i]
  BY <1>1
<1>3. /\ \A i \in DOMAIN q : q[i] \in Int
      /\ \A i \in DOMAIN r : r[i] \in Int
  OBVIOUS
<1>4. \A k \in 0..Len(q) : Term(r, DOMAIN r, k) = Term(q, DOMAIN q, k)
  <2>. TAKE k \in 0..Len(q)
  <2>1. k \in DOMAIN q <=> k \in DOMAIN r
    BY <1>2
  <2>. QED  BY <1>2, <2>1 DEF Term
<1>5. SumOver(r, DOMAIN r, Len(q)) = SumOver(q, DOMAIN q, Len(q))
  BY <1>2, <1>3, <1>4, SumUnchanged
<1>6. SumOver(r, DOMAIN r, Len(q) + 1)
          = SumOver(r, DOMAIN r, Len(q)) + Term(r, DOMAIN r, Len(q) + 1)
  BY <1>2, <1>3, SumStep
<1>7. Term(r, DOMAIN r, Len(q) + 1) = x
  <2>1. Len(q) + 1 \in DOMAIN r
    BY <1>2
  <2>. QED  BY <1>2, <2>1 DEF Term
<1>8. SumOver(q, DOMAIN q, Len(q)) \in Int
  BY <1>2, <1>3, SumOverDef
<1>. QED  BY <1>1, <1>2, <1>5, <1>6, <1>7, <1>8

-----------------------------------------------------------------------------
(***************************************************************************)
(* Loops                                                                   *)
(***************************************************************************)

\* A loop of n turns on states S, and the n + 1 states it goes through from a.
Loops(S, n) == [1..n -> [S -> S]]
IsRun(g, S, n, a, step) ==
    /\ g \in [0..n -> S] /\ g[0] = a
    /\ \A i \in 1..n : g[i] = step[i][g[i - 1]]

LEMMA LoopRuns ==
    ASSUME NEW S, NEW n \in Nat, NEW a \in S, NEW step \in Loops(S, n)
    PROVE  \E g : IsRun(g, S, n, a, step)
<1>. USE DEF Loops
<1>. DEFINE Runs(g, m) == g[0] = a /\ \A i \in 1..m : g[i] = step[i][g[i - 1]]
            Bad == {m \in 0..n : ~\E g \in [0..n -> S] : Runs(g, m)}
<1>. SUFFICES ASSUME Bad # {}  PROVE FALSE
  <2>1. n \in 0..n
    OBVIOUS
  <2>. HIDE DEF Runs
  <2>2. Bad = {} => \E g \in [0..n -> S] : Runs(g, n)
    BY <2>1
  <2>. QED  BY <2>2 DEF Runs, IsRun
<1>1. PICK m \in Bad : \A j \in Bad : m <= j
  <2>1. Bad \subseteq Nat
    OBVIOUS
  <2>. HIDE DEF Bad
  <2>. QED  BY <2>1, SmallestExists
<1>2. CASE m = 0
  <2>1. [i \in 0..n |-> a] \in [0..n -> S] /\ Runs([i \in 0..n |-> a], 0)
    OBVIOUS
  <2>. QED  BY <1>1, <1>2, <2>1
<1>3. CASE m # 0
  <2>1. m \in 1..n /\ m - 1 \in 0..n /\ m - 1 \notin Bad
    <3>1. m \in 0..n /\ m \in Nat
      OBVIOUS
    <3>2. m \in 1..n /\ m - 1 \in 0..n /\ ~(m <= m - 1)
      BY <1>3, <3>1
    <3>. HIDE DEF Bad
    <3>. QED  BY <1>1, <3>2
  <2>2. PICK g \in [0..n -> S] : Runs(g, m - 1)
    BY <2>1
  <2>. DEFINE h == [g EXCEPT ![m] = step[m][g[m - 1]]]
  <2>3. step[m][g[m - 1]] \in S
    BY <2>1
  <2>4. h \in [0..n -> S]
    BY <2>3
  <2>5. Runs(h, m)
    <3>1. h[0] = a
      BY <2>1, <2>2
    <3>2. ASSUME NEW i \in 1..m  PROVE h[i] = step[i][h[i - 1]]
      <4>1. h[i - 1] = g[i - 1]
        BY <2>1
      <4>2. CASE i = m
        BY <2>1, <4>1, <4>2
      <4>3. CASE i # m
        <5>1. i \in 1..(m - 1) /\ h[i] = g[i]
          BY <2>1, <4>3
        <5>. QED  BY <2>2, <4>1, <5>1
      <4>. QED  BY <4>2, <4>3
    <3>. QED  BY <3>1, <3>2
  <2>. HIDE DEF h, Runs
  <2>6. m \notin Bad
    BY <2>4, <2>5
  <2>. QED  BY <1>1, <2>6
<1>. QED  BY <1>2, <1>3
=============================================================================
