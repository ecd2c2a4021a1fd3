------------------------- MODULE PriceLadder_proofs --------------------------
(***************************************************************************)
(* Proofs that a ladder keeps what PriceLadder::check asserts, and that it *)
(* implements BookSide: for every window, base, price range and level.     *)
(***************************************************************************)
EXTENDS PriceLadder, FiniteSetTheorems, Foundations, TLAPS

\* The invariant, on any ladder.
Good(L) == /\ L \in Ladders
           /\ WindowConsistent(L)
           /\ MapConsistent(L)
           /\ ~L.is_placed => Filled(L) = {} /\ Outside(L) = {}

-----------------------------------------------------------------------------
(***************************************************************************)
(* Places and bases                                                        *)
(***************************************************************************)
LEMMA IndexFacts ==
    /\ WindowLevels \in Nat /\ MaxPrice \in Nat
    /\ IsFiniteSet(Indices) /\ \A i \in Indices : i \in Nat /\ i < WindowLevels
    /\ \A L : IsFiniteSet(Filled(L)) /\ Filled(L) \subseteq Indices
    /\ \A L : Cardinality(Filled(L)) \in Nat
    /\ \A L : Cardinality(Filled(L)) = 0 <=> Filled(L) = {}
<1>1. WindowLevels \in Nat /\ MaxPrice \in Nat
  BY LadderAssumption
<1>2. IsFiniteSet(Indices)
  BY <1>1, FS_Interval DEF Indices
<1>3. \A i \in Indices : i \in Nat /\ i < WindowLevels
  BY <1>1 DEF Indices
<1>4. \A L : IsFiniteSet(Filled(L)) /\ Filled(L) \subseteq Indices
  BY <1>2, FS_Subset DEF Filled
<1>. QED  BY <1>1, <1>2, <1>3, <1>4, FS_CardinalityType, FS_EmptySet

\* The window is shifted to stay inside the price range at either end.
LEMMA CentredBaseType == \A p \in Prices : CentredBase(p) \in Prices
<1>. SUFFICES ASSUME NEW p \in Prices  PROVE CentredBase(p) \in Prices
  OBVIOUS
<1>1. p \in Nat /\ p <= MaxPrice /\ WindowLevels \in Nat
      /\ WindowLevels <= MaxPrice + 1 /\ MaxPrice \in Nat
      /\ WindowLevels \div 2 \in Nat
  BY LadderAssumption DEF Prices
<1>. QED  BY <1>1 DEF CentredBase, Prices

\* Placing an empty ladder, wherever, leaves it good: the clip keeps the last
\* price of the window representable.
LEMMA PlaceIsGood ==
    ASSUME NEW L, Good(L), ~L.is_placed, NEW base \in Prices
    PROVE  /\ Good(Place(L, base)) /\ Place(L, base).is_placed
           /\ Place(L, base).outside_opens = L.outside_opens
           /\ \A p \in Prices : LevelAt(Place(L, base), p) = EmptyLevel
           /\ Filled(Place(L, base)) = {} /\ Outside(Place(L, base)) = {}
<1>. DEFINE R == Place(L, base)
<1>1. L \in Ladders /\ base \in Nat /\ base <= MaxPrice /\ MaxPrice \in Nat
      /\ WindowLevels \in Nat
  BY LadderAssumption DEF Good, Prices
<1>2. /\ R.window = L.window /\ R.overflow = L.overflow /\ R.occupied = L.occupied
      /\ R.best_idx = L.best_idx /\ R.outside_opens = L.outside_opens
      /\ R.lo = base /\ R.is_placed
      /\ R.limit = IF WindowLevels = 0 \/ WindowLevels - 1 <= MaxPrice - base
                   THEN WindowLevels ELSE MaxPrice - base + 1
  BY <1>1 DEF Place, Ladders
<1>3. R \in Ladders
  <2>. DEFINE m == IF WindowLevels = 0 \/ WindowLevels - 1 <= MaxPrice - base
                   THEN WindowLevels ELSE MaxPrice - base + 1
  <2>1. m \in 0..WindowLevels
    <3>1. CASE WindowLevels = 0 \/ WindowLevels - 1 <= MaxPrice - base
      BY <1>1, <3>1
    <3>2. CASE ~(WindowLevels = 0 \/ WindowLevels - 1 <= MaxPrice - base)
      BY <1>1, <3>2
    <3>. QED  BY <3>1, <3>2
  <2>2. R = [L EXCEPT !.lo = base, !.limit = m, !.is_placed = TRUE]
    BY DEF Place
  <2>3. base \in 0..MaxPrice
    BY DEF Prices
  <2>. HIDE DEF m, R
  <2>. QED  BY <1>1, <2>1, <2>2, <2>3 DEF Ladders
<1>4. Filled(R) = {} /\ Outside(R) = {}
  BY <1>2 DEF Good, Filled, Outside
<1>5. \A p \in Prices : LevelAt(R, p) = EmptyLevel
  <2>. SUFFICES ASSUME NEW p \in Prices  PROVE LevelAt(R, p) = EmptyLevel
    OBVIOUS
  <2>1. R.overflow[p] = Absent
    BY <1>4 DEF Outside
  <2>2. CASE InWindow(R, p)
    <3>1. p - R.lo \in Indices
      BY <1>1, <1>2, <2>2 DEF InWindow, Indices, Prices
    <3>. QED  BY <1>4, <2>2, <3>1 DEF Filled, LevelAt
  <2>3. CASE ~InWindow(R, p)
    BY <2>1, <2>3 DEF LevelAt
  <2>. QED  BY <2>2, <2>3
<1>6. WindowConsistent(R)
  <2>1. R.limit > 0 => R.lo + R.limit - 1 <= MaxPrice
    BY <1>1, <1>2
  <2>2. R.occupied = Cardinality(Filled(R)) /\ R.occupied = 0
    BY <1>2, <1>4, FS_EmptySet DEF Good, WindowConsistent
  <2>. QED  BY <1>4, <2>1, <2>2 DEF WindowConsistent
<1>7. MapConsistent(R)
  BY <1>4 DEF MapConsistent
<1>. QED  BY <1>2, <1>3, <1>4, <1>5, <1>6, <1>7 DEF Good

-----------------------------------------------------------------------------
(***************************************************************************)
(* What an insertion and a removal do to the fields                        *)
(***************************************************************************)

\* R is L with another level at price p, outside the window.
OutsideWrite(L, R, p, entry) ==
    /\ R.overflow = [L.overflow EXCEPT ![p] = entry]
    /\ R.window = L.window /\ R.lo = L.lo /\ R.limit = L.limit
    /\ R.occupied = L.occupied /\ R.best_idx = L.best_idx
    /\ R.is_placed = L.is_placed

\* R is L with another level in slot i of the window.
InsideWrite(L, R, i, level) ==
    /\ R.window = [L.window EXCEPT ![i] = level]
    /\ R.overflow = L.overflow /\ R.lo = L.lo /\ R.limit = L.limit
    /\ R.is_placed = L.is_placed

LEMMA InsertOutside ==
    ASSUME NEW L \in Ladders, NEW p \in Prices, NEW level \in Levels,
           ~InWindow(L, p)
    PROVE  LET R == SetLevel(Open(L, p), p, level) IN
           R \in Ladders /\ OutsideWrite(L, R, p, level)
<1>. DEFINE entry == IF L.overflow[p] = Absent THEN EmptyLevel ELSE L.overflow[p]
            M == Open(L, p)
            R == SetLevel(M, p, level)
<1>1. entry \in Levels \cup {Absent}
  BY LadderAssumption DEF Ladders
<1>2. M = [L EXCEPT !.outside_opens = @ + 1, !.overflow[p] = entry]
  BY DEF Open
<1>. HIDE DEF entry
<1>3. /\ M \in Ladders /\ OutsideWrite(L, M, p, entry)
  <2>1. PICK n \in Nat : n = L.outside_opens + 1
    BY DEF Ladders
  <2>2. M = [L EXCEPT !.outside_opens = n,
                      !.overflow = [L.overflow EXCEPT ![p] = entry]]
    BY <1>2, <2>1 DEF Ladders
  <2>. HIDE DEF M
  <2>. QED  BY <1>1, <2>2 DEF Ladders, OutsideWrite
<1>4. ~InWindow(M, p)
  BY <1>3 DEF InWindow, OutsideWrite
<1>. HIDE DEF M
<1>5. R = [M EXCEPT !.overflow = [M.overflow EXCEPT ![p] = level]]
  BY <1>3, <1>4 DEF SetLevel, Ladders
<1>6. R \in Ladders /\ OutsideWrite(M, R, p, level)
  BY <1>3, <1>5 DEF Ladders, OutsideWrite
<1>. QED  BY <1>3, <1>6 DEF OutsideWrite, Ladders, M

LEMMA InsertInside ==
    ASSUME NEW L \in Ladders, NEW p \in Prices, NEW level \in Levels,
           InWindow(L, p), NEW i \in Indices, i = p - L.lo,
           NEW R, R = SetLevel(Open(L, p), p, level)
    PROVE  /\ R \in Ladders /\ InsideWrite(L, R, i, level)
           /\ L.window[i] # EmptyLevel =>
                  R.occupied = L.occupied /\ R.best_idx = L.best_idx
           /\ L.window[i] = EmptyLevel =>
                  /\ R.occupied = L.occupied + 1
                  /\ R.best_idx = IF L.occupied = 0 \/ Better(i, L.best_idx)
                                  THEN i ELSE L.best_idx
<1>. DEFINE M == Open(L, p)
            best == IF L.occupied = 0 \/ Better(i, L.best_idx)
                    THEN i ELSE L.best_idx
<1>1. /\ M \in Ladders
      /\ M.window = L.window /\ M.overflow = L.overflow /\ M.lo = L.lo
      /\ M.limit = L.limit /\ M.is_placed = L.is_placed
      /\ L.window[i] # EmptyLevel =>
             M.occupied = L.occupied /\ M.best_idx = L.best_idx
      /\ L.window[i] = EmptyLevel =>
             M.occupied = L.occupied + 1 /\ M.best_idx = best
  <2>1. CASE L.window[i] # EmptyLevel
    BY <2>1 DEF Open, Ladders
  <2>2. CASE L.window[i] = EmptyLevel
    <3>1. PICK n \in Nat, b \in Nat : n = L.occupied + 1 /\ b = best
      BY IndexFacts DEF Ladders
    <3>2. M = [L EXCEPT !.occupied = n, !.best_idx = b]
      BY <2>2, <3>1 DEF Open, NoteOpened
    <3>. HIDE DEF M, best
    <3>. QED  BY <2>2, <3>1, <3>2 DEF Ladders
  <2>. QED  BY <2>1, <2>2
<1>2. InWindow(M, p)
  BY <1>1 DEF InWindow
<1>. HIDE DEF M
<1>3. R = [M EXCEPT !.window = [M.window EXCEPT ![i] = level]]
  BY <1>1, <1>2 DEF SetLevel, Ladders, M
<1>4. /\ R \in Ladders /\ InsideWrite(M, R, i, level)
      /\ R.occupied = M.occupied /\ R.best_idx = M.best_idx
  BY <1>1, <1>3 DEF Ladders, InsideWrite
<1>. QED  BY <1>1, <1>4 DEF InsideWrite

LEMMA ShrinkOutside ==
    ASSUME NEW L \in Ladders, NEW p \in Prices, NEW level \in Levels,
           ~InWindow(L, p),
           NEW R, R = (IF level = EmptyLevel THEN Closed(SetLevel(L, p, level), p)
                       ELSE SetLevel(L, p, level))
    PROVE  /\ R \in Ladders
           /\ OutsideWrite(L, R, p, IF level = EmptyLevel THEN Absent ELSE level)
<1>. DEFINE M == SetLevel(L, p, level)
<1>1. M = [L EXCEPT !.overflow = [L.overflow EXCEPT ![p] = level]]
  BY DEF SetLevel, Ladders
<1>2. M \in Ladders /\ OutsideWrite(L, M, p, level)
  BY <1>1 DEF Ladders, OutsideWrite
<1>3. ~InWindow(M, p)
  BY <1>2 DEF InWindow, OutsideWrite
<1>. HIDE DEF M
<1>4. CASE level = EmptyLevel
  <2>1. R = [M EXCEPT !.overflow = [M.overflow EXCEPT ![p] = Absent]]
    BY <1>2, <1>3, <1>4 DEF Closed, Ladders, M
  <2>2. R \in Ladders /\ OutsideWrite(M, R, p, Absent)
    BY <1>2, <2>1 DEF Ladders, OutsideWrite
  <2>. QED  BY <1>2, <1>4, <2>2 DEF OutsideWrite, Ladders
<1>5. CASE level # EmptyLevel
  BY <1>2, <1>5 DEF M
<1>. QED  BY <1>4, <1>5

LEMMA ShrinkInside ==
    ASSUME NEW L \in Ladders, NEW p \in Prices, NEW level \in Levels,
           InWindow(L, p), NEW i \in Indices, i = p - L.lo,
           L.occupied > 0,
           NEW R, R = (IF level = EmptyLevel THEN Closed(SetLevel(L, p, level), p)
                       ELSE SetLevel(L, p, level)),
           NEW w, w = [L.window EXCEPT ![i] = level],
           L.occupied - 1 > 0 /\ i = L.best_idx /\ level = EmptyLevel =>
               NextOccupied(w, i) \in Nat
    PROVE  /\ R \in Ladders /\ InsideWrite(L, R, i, level)
           /\ level # EmptyLevel =>
                  R.occupied = L.occupied /\ R.best_idx = L.best_idx
           /\ level = EmptyLevel =>
                  /\ R.occupied = L.occupied - 1
                  /\ R.best_idx = IF L.occupied - 1 > 0 /\ i = L.best_idx
                                  THEN NextOccupied(R.window, i) ELSE L.best_idx
<1>. DEFINE M == SetLevel(L, p, level)
            best == IF L.occupied - 1 > 0 /\ i = L.best_idx
                    THEN NextOccupied(w, i) ELSE L.best_idx
<1>1. M = [L EXCEPT !.window = w]
  BY DEF SetLevel, Ladders
<1>2. /\ M \in Ladders /\ M.window = w /\ InsideWrite(L, M, i, level)
      /\ M.occupied = L.occupied /\ M.best_idx = L.best_idx
  BY <1>1 DEF Ladders, InsideWrite
<1>3. InWindow(M, p) /\ p - M.lo = i
  BY <1>2 DEF InWindow, InsideWrite
<1>4. CASE level = EmptyLevel
  <2>1. PICK n \in Nat, b \in Nat : n = L.occupied - 1 /\ b = best
    BY <1>4 DEF Ladders
  <2>2. R = [M EXCEPT !.occupied = n, !.best_idx = b]
    <3>. HIDE DEF M
    <3>. QED  BY <1>2, <1>3, <1>4, <2>1 DEF Closed, M
  <2>. HIDE DEF M, best
  <2>3. /\ R \in Ladders /\ R.window = w /\ InsideWrite(L, R, i, level)
        /\ R.occupied = n /\ R.best_idx = b
    BY <1>2, <2>1, <2>2 DEF Ladders, InsideWrite
  <2>. QED  BY <1>4, <2>1, <2>3 DEF best
<1>5. CASE level # EmptyLevel
  BY <1>2, <1>5
<1>. QED  BY <1>4, <1>5

-----------------------------------------------------------------------------
(***************************************************************************)
(* Both writes keep the ladder good, and change what rests at one price    *)
(***************************************************************************)

\* A set of prices, or of indices, that is not empty has a best element.
LEMMA BestExists ==
    ASSUME NEW m \in Nat, NEW T, T \subseteq 0..m, T # {}
    PROVE  \E x \in T : \A y \in T : ~Better(y, x)
<1>1. T \subseteq Nat
  OBVIOUS
<1>2. PICK a \in T : \A y \in T : a <= y
  BY <1>1, SmallestExists
<1>3. PICK b \in T : \A y \in T : y <= b
  BY LargestExists
<1>. QED  BY <1>1, <1>2, <1>3 DEF Better

LEMMA InWindowIndex ==
    ASSUME NEW L \in Ladders, NEW p \in Prices, InWindow(L, p)
    PROVE  p - L.lo \in Indices /\ p - L.lo < L.limit
BY IndexFacts DEF InWindow, Ladders, Indices, Prices

\* A write to the fallback map.
LEMMA OutsideGood ==
    ASSUME NEW L, Good(L), L.is_placed, NEW p \in Prices, ~InWindow(L, p),
           NEW entry \in Levels \cup {Absent}, entry # EmptyLevel,
           NEW R \in Ladders, OutsideWrite(L, R, p, entry)
    PROVE  /\ Good(R) /\ R.is_placed
           /\ \A q \in Prices : LevelAt(R, q) =
                  IF q # p THEN LevelAt(L, q)
                  ELSE IF entry = Absent THEN EmptyLevel ELSE entry
<1>1. L \in Ladders /\ R.is_placed
  BY DEF Good, OutsideWrite
<1>2. \A q \in Prices : R.overflow[q] = IF q = p THEN entry ELSE L.overflow[q]
  BY <1>1 DEF OutsideWrite, Ladders
<1>3. \A q : InWindow(R, q) <=> InWindow(L, q)
  BY DEF OutsideWrite, InWindow
<1>4. WindowConsistent(R)
  <2>1. Filled(R) = Filled(L)
    BY DEF OutsideWrite, Filled
  <2>. QED  BY <2>1 DEF Good, OutsideWrite, WindowConsistent
<1>5. MapConsistent(R)
  BY <1>2, <1>3 DEF Good, MapConsistent, Outside
<1>6. \A q \in Prices : LevelAt(R, q) =
          IF q # p THEN LevelAt(L, q)
          ELSE IF entry = Absent THEN EmptyLevel ELSE entry
  BY <1>2, <1>3 DEF LevelAt, OutsideWrite
<1>. QED  BY <1>1, <1>4, <1>5, <1>6 DEF Good

\* What a write to the array does, whatever happens to the counters.
LEMMA InsideLevels ==
    ASSUME NEW L, Good(L), L.is_placed, NEW p \in Prices, InWindow(L, p),
           NEW i \in Indices, i = p - L.lo, NEW level \in Levels,
           NEW R \in Ladders, InsideWrite(L, R, i, level)
    PROVE  /\ R.is_placed /\ MapConsistent(R)
           /\ level = EmptyLevel => Filled(R) = Filled(L) \ {i}
           /\ level # EmptyLevel => Filled(R) = Filled(L) \cup {i}
           /\ \A q \in Prices : LevelAt(R, q) =
                  IF q = p THEN level ELSE LevelAt(L, q)
<1>1. L \in Ladders /\ R.is_placed
  BY DEF Good, InsideWrite
<1>2. \A j \in Indices : R.window[j] = IF j = i THEN level ELSE L.window[j]
  BY <1>1 DEF InsideWrite, Ladders
<1>3. \A q : InWindow(R, q) <=> InWindow(L, q)
  BY DEF InsideWrite, InWindow
<1>4. MapConsistent(R)
  BY <1>3 DEF Good, MapConsistent, Outside, InsideWrite
<1>5. /\ level = EmptyLevel => Filled(R) = Filled(L) \ {i}
      /\ level # EmptyLevel => Filled(R) = Filled(L) \cup {i}
  BY <1>2 DEF Filled
<1>6. ASSUME NEW q \in Prices
      PROVE  LevelAt(R, q) = IF q = p THEN level ELSE LevelAt(L, q)
  <2>1. CASE InWindow(L, q)
    <3>1. q - L.lo \in Indices
      BY <1>1, <2>1, InWindowIndex
    <3>2. q - L.lo = i <=> q = p
      BY <1>1, LadderAssumption DEF Ladders, Prices
    <3>. QED  BY <1>2, <1>3, <2>1, <3>1, <3>2 DEF LevelAt, InsideWrite
  <2>2. CASE ~InWindow(L, q)
    BY <1>3, <2>2 DEF LevelAt, InsideWrite
  <2>. QED  BY <2>1, <2>2
<1>. QED  BY <1>1, <1>4, <1>5, <1>6

\* An order joins a level of the window.
LEMMA InsertInsideGood ==
    ASSUME NEW L, Good(L), L.is_placed, NEW p \in Prices, InWindow(L, p),
           NEW level \in Levels, level # EmptyLevel,
           NEW R, R = SetLevel(Open(L, p), p, level)
    PROVE  /\ Good(R) /\ R.is_placed
           /\ \A q \in Prices : LevelAt(R, q) =
                  IF q = p THEN level ELSE LevelAt(L, q)
<1>1. L \in Ladders /\ WindowConsistent(L)
  BY DEF Good
<1>2. PICK i \in Indices : i = p - L.lo /\ i < L.limit
  BY <1>1, InWindowIndex
<1>3. /\ R \in Ladders /\ InsideWrite(L, R, i, level)
      /\ L.window[i] # EmptyLevel =>
             R.occupied = L.occupied /\ R.best_idx = L.best_idx
      /\ L.window[i] = EmptyLevel =>
             /\ R.occupied = L.occupied + 1
             /\ R.best_idx = IF L.occupied = 0 \/ Better(i, L.best_idx)
                             THEN i ELSE L.best_idx
  BY <1>1, <1>2, InsertInside
<1>4. /\ R.is_placed /\ MapConsistent(R)
      /\ Filled(R) = Filled(L) \cup {i}
      /\ \A q \in Prices : LevelAt(R, q) =
             IF q = p THEN level ELSE LevelAt(L, q)
  BY <1>2, <1>3, InsideLevels
<1>5. WindowConsistent(R)
  <2>1. R.limit > 0 => R.lo + R.limit - 1 <= MaxPrice
    BY <1>1, <1>3 DEF WindowConsistent, InsideWrite
  <2>2. CASE L.window[i] # EmptyLevel
    <3>1. Filled(R) = Filled(L)
      BY <1>4, <2>2 DEF Filled
    <3>. QED  BY <1>1, <1>3, <2>1, <2>2, <3>1 DEF WindowConsistent, InsideWrite
  <2>3. CASE L.window[i] = EmptyLevel
    <3>1. i \notin Filled(L) /\ IsFiniteSet(Filled(L))
      BY <2>3, IndexFacts DEF Filled
    <3>2. Cardinality(Filled(R)) = Cardinality(Filled(L)) + 1
      BY <1>4, <3>1, FS_AddElement
    <3>3. R.occupied = Cardinality(Filled(R))
      BY <1>1, <1>3, <2>3, <3>2 DEF WindowConsistent
    <3>4. \A j \in Filled(R) : j < R.limit
      BY <1>1, <1>2, <1>3, <1>4 DEF WindowConsistent, InsideWrite
    <3>5. \A j \in Filled(L) : j \in Nat /\ ~Better(j, L.best_idx)
      BY <1>1, IndexFacts DEF WindowConsistent
    <3>6. i \in Nat /\ L.best_idx \in Nat
      BY <1>1, IndexFacts DEF Ladders
    <3>7. L.occupied = 0 => Filled(L) = {}
      BY <1>1, IndexFacts DEF WindowConsistent
    <3>8. L.occupied > 0 => L.best_idx \in Filled(L)
      BY <1>1 DEF WindowConsistent
    <3>9. L.occupied \in Nat
      BY <1>1 DEF Ladders
    <3>10. /\ \A j \in Filled(R) : ~Better(j, R.best_idx)
           /\ R.best_idx \in Filled(R)
      <4>1. CASE L.occupied = 0
        BY <1>3, <1>4, <2>3, <3>6, <3>7, <4>1 DEF Better
      <4>2. CASE L.occupied > 0 /\ Better(i, L.best_idx)
        BY <1>3, <1>4, <2>3, <3>5, <3>6, <4>2 DEF Better
      <4>3. CASE L.occupied > 0 /\ ~Better(i, L.best_idx)
        BY <1>3, <1>4, <2>3, <3>5, <3>6, <3>8, <3>9, <4>3
      <4>. QED  BY <3>9, <4>1, <4>2, <4>3
    <3>. QED  BY <2>1, <3>3, <3>4, <3>10 DEF WindowConsistent
  <2>. QED  BY <2>2, <2>3
<1>. QED  BY <1>3, <1>4, <1>5 DEF Good

\* An order leaves a level of the window, or is partly filled. When the best
\* level empties and others are left, next_occupied() finds one: this is why
\* its scan needs no bound.
LEMMA ShrinkInsideGood ==
    ASSUME NEW L, Good(L), L.is_placed, NEW p \in Prices, InWindow(L, p),
           NEW level \in Levels, LevelAt(L, p) # EmptyLevel,
           NEW R, R = (IF level = EmptyLevel THEN Closed(SetLevel(L, p, level), p)
                       ELSE SetLevel(L, p, level))
    PROVE  /\ Good(R) /\ R.is_placed
           /\ \A q \in Prices : LevelAt(R, q) =
                  IF q = p THEN level ELSE LevelAt(L, q)
<1>1. L \in Ladders /\ WindowConsistent(L)
  BY DEF Good
<1>2. PICK i \in Indices : i = p - L.lo /\ i < L.limit
  BY <1>1, InWindowIndex
<1>3. i \in Filled(L) /\ IsFiniteSet(Filled(L))
  BY <1>2, IndexFacts DEF LevelAt, Filled
<1>4. /\ L.occupied = Cardinality(Filled(L)) /\ L.occupied \in Nat
      /\ L.occupied > 0 /\ L.best_idx \in Filled(L)
  BY <1>1, <1>3, IndexFacts DEF WindowConsistent
<1>5. Cardinality(Filled(L) \ {i}) = Cardinality(Filled(L)) - 1
  BY <1>3, FS_RemoveElement
<1>. DEFINE w == [L.window EXCEPT ![i] = level]
            worse == {j \in Indices : Better(i, j) /\ w[j] # EmptyLevel}
<1>6. ASSUME L.occupied - 1 > 0, i = L.best_idx, level = EmptyLevel
      PROVE  /\ NextOccupied(w, i) \in Filled(L) \ {i}
             /\ \A j \in Filled(L) \ {i} : ~Better(j, NextOccupied(w, i))
  <2>1. Filled(L) \ {i} # {}
    BY <1>4, <1>5, <1>6, FS_EmptySet
  <2>2. \A j \in Indices : j \in Nat
    BY IndexFacts
  <2>3. \A j \in Filled(L) \ {i} : Better(i, j)
    BY <1>1, <1>6, <2>2 DEF WindowConsistent, Better, Filled
  <2>4. worse = Filled(L) \ {i}
    <3>1. \A j \in Indices : w[j] = IF j = i THEN level ELSE L.window[j]
      BY <1>1 DEF Ladders
    <3>2. ~Better(i, i)
      BY <2>2 DEF Better
    <3>. QED  BY <1>6, <2>3, <3>1, <3>2 DEF Filled
  <2>. HIDE DEF worse, w
  <2>5. \E j \in worse : \A k \in worse : ~Better(k, j)
    <3>1. worse \subseteq 0..WindowLevels
      BY <2>4, IndexFacts
    <3>. QED  BY <2>1, <2>4, <3>1, IndexFacts, BestExists
  <2>6. NextOccupied(w, i) \in worse
        /\ \A k \in worse : ~Better(k, NextOccupied(w, i))
    BY <2>5 DEF NextOccupied, worse
  <2>. QED  BY <2>4, <2>6
<1>. HIDE DEF worse, w
<1>7. L.occupied - 1 > 0 /\ i = L.best_idx /\ level = EmptyLevel =>
          NextOccupied(w, i) \in Nat
  BY <1>3, <1>6, IndexFacts
<1>8. /\ R \in Ladders /\ InsideWrite(L, R, i, level)
      /\ level # EmptyLevel =>
             R.occupied = L.occupied /\ R.best_idx = L.best_idx
      /\ level = EmptyLevel =>
             /\ R.occupied = L.occupied - 1
             /\ R.best_idx = IF L.occupied - 1 > 0 /\ i = L.best_idx
                             THEN NextOccupied(R.window, i) ELSE L.best_idx
  <2>1. w = [L.window EXCEPT ![i] = level]
    BY DEF w
  <2>. QED  BY <1>1, <1>2, <1>4, <1>7, <2>1, ShrinkInside
<1>9. /\ R.is_placed /\ MapConsistent(R)
      /\ level = EmptyLevel => Filled(R) = Filled(L) \ {i}
      /\ level # EmptyLevel => Filled(R) = Filled(L) \cup {i}
      /\ \A q \in Prices : LevelAt(R, q) =
             IF q = p THEN level ELSE LevelAt(L, q)
  BY <1>2, <1>8, InsideLevels
<1>10. WindowConsistent(R)
  <2>1. R.limit > 0 => R.lo + R.limit - 1 <= MaxPrice
    BY <1>1, <1>8 DEF WindowConsistent, InsideWrite
  <2>2. CASE level # EmptyLevel
    <3>1. Filled(R) = Filled(L)
      BY <1>3, <1>9, <2>2
    <3>. QED  BY <1>1, <1>8, <2>1, <2>2, <3>1 DEF WindowConsistent, InsideWrite
  <2>3. CASE level = EmptyLevel
    <3>1. Filled(R) = Filled(L) \ {i} /\ R.window = w
      BY <1>8, <1>9, <2>3 DEF InsideWrite, w
    <3>2. R.occupied = Cardinality(Filled(R))
      BY <1>4, <1>5, <1>8, <2>3, <3>1
    <3>3. \A j \in Filled(R) : j < R.limit
      BY <1>1, <1>8, <3>1 DEF WindowConsistent, InsideWrite
    <3>4. /\ \A j \in Filled(R) : ~Better(j, R.best_idx)
          /\ R.occupied > 0 => R.best_idx \in Filled(R)
      <4>1. CASE L.occupied - 1 > 0 /\ i = L.best_idx
        BY <1>6, <1>8, <2>3, <3>1, <4>1
      <4>2. CASE i # L.best_idx
        BY <1>1, <1>4, <1>8, <2>3, <3>1, <4>2 DEF WindowConsistent
      <4>3. CASE L.occupied - 1 = 0
        <5>1. R.occupied = 0 /\ Filled(R) = {}
          BY <1>8, <2>3, <3>2, <4>3, IndexFacts
        <5>. QED  BY <5>1
      <4>. QED  BY <1>4, <4>1, <4>2, <4>3
    <3>. QED  BY <2>1, <3>2, <3>3, <3>4 DEF WindowConsistent
  <2>. QED  BY <2>2, <2>3
<1>. QED  BY <1>8, <1>9, <1>10 DEF Good

-----------------------------------------------------------------------------
(***************************************************************************)
(* The best price                                                          *)
(***************************************************************************)

\* best_price() is right: a level is occupied there, and none that beats it.
LEMMA BestPriceIsTop ==
    ASSUME NEW L, Good(L)
    PROVE  \/ /\ BestPrice(L) = NoPrice
              /\ \A q \in Prices : LevelAt(L, q) = EmptyLevel
           \/ /\ BestPrice(L) \in Prices /\ LevelAt(L, BestPrice(L)) # EmptyLevel
              /\ \A q \in Prices :
                     LevelAt(L, q) # EmptyLevel => ~Better(q, BestPrice(L))
<1>1. /\ L \in Ladders /\ WindowConsistent(L) /\ MapConsistent(L)
      /\ MaxPrice \in Nat /\ L.lo \in Nat /\ L.limit \in Nat
      /\ L.occupied \in Nat
  BY IndexFacts DEF Good, Ladders
<1>2. ASSUME NEW q \in Prices, LevelAt(L, q) # EmptyLevel
      PROVE  \/ q \in Outside(L)
             \/ InWindow(L, q) /\ q - L.lo \in Filled(L)
  <2>1. CASE InWindow(L, q)
    BY <1>1, <1>2, <2>1, InWindowIndex DEF LevelAt, Filled
  <2>2. CASE ~InWindow(L, q)
    BY <1>2, <2>2 DEF LevelAt, Outside
  <2>. QED  BY <2>1, <2>2
<1>3. \A q \in Outside(L) : q \in Prices /\ LevelAt(L, q) # EmptyLevel
  BY <1>1 DEF Outside, MapConsistent, LevelAt
<1>4. /\ Outside(L) = {} => OverflowBegin(L) = NoPrice
      /\ Outside(L) # {} => /\ OverflowBegin(L) \in Outside(L)
                            /\ \A q \in Outside(L) : ~Better(q, OverflowBegin(L))
  <2>1. Outside(L) # {} =>
            \E p \in Outside(L) : \A q \in Outside(L) : ~Better(q, p)
    <3>1. Outside(L) \subseteq 0..MaxPrice
      BY DEF Outside, Prices
    <3>. QED  BY <1>1, <3>1, BestExists
  <2>. QED  BY <2>1 DEF OverflowBegin
<1>5. \A p \in Prices : p # NoPrice /\ p \in Nat
  BY LadderAssumption DEF Prices
<1>. DEFINE inside == L.lo + L.best_idx
<1>6. ASSUME L.occupied > 0
      PROVE  /\ inside \in Prices /\ InWindow(L, inside)
             /\ LevelAt(L, inside) # EmptyLevel
             /\ \A q \in Prices : InWindow(L, q) /\ q - L.lo \in Filled(L) =>
                                      ~Better(q, inside)
  <2>1. /\ L.best_idx \in Filled(L) /\ L.best_idx < L.limit
        /\ L.best_idx \in Nat
    BY <1>1, <1>6, IndexFacts DEF WindowConsistent
  <2>2. inside \in Prices /\ InWindow(L, inside) /\ inside - L.lo = L.best_idx
    BY <1>1, <2>1 DEF WindowConsistent, InWindow, Prices
  <2>3. LevelAt(L, inside) # EmptyLevel
    BY <2>1, <2>2 DEF LevelAt, Filled
  <2>4. ASSUME NEW q \in Prices, q - L.lo \in Filled(L)
        PROVE  ~Better(q, inside)
    <3>1. ~Better(q - L.lo, L.best_idx)
      BY <1>1, <2>4 DEF WindowConsistent
    <3>2. q - L.lo \in Nat /\ q \in Nat
      BY <1>5, <2>4, IndexFacts
    <3>. QED  BY <1>1, <2>1, <3>1, <3>2 DEF Better
  <2>. QED  BY <2>2, <2>3, <2>4
<1>7. L.occupied = 0 => Filled(L) = {}
  BY <1>1, IndexFacts DEF WindowConsistent
<1>. HIDE DEF inside
<1>8. BestPrice(L) = IF L.occupied = 0 THEN OverflowBegin(L)
                     ELSE IF /\ OverflowBegin(L) # NoPrice
                             /\ Better(OverflowBegin(L), inside)
                     THEN OverflowBegin(L) ELSE inside
  BY DEF BestPrice, inside
<1>9. CASE L.occupied = 0
  BY <1>2, <1>3, <1>4, <1>7, <1>8, <1>9
<1>10. CASE L.occupied > 0 /\ Outside(L) = {}
  BY <1>1, <1>2, <1>4, <1>6, <1>8, <1>10
<1>11. CASE L.occupied > 0 /\ Outside(L) # {}
  <2>1. /\ OverflowBegin(L) \in Prices /\ OverflowBegin(L) # NoPrice
        /\ OverflowBegin(L) \in Nat /\ LevelAt(L, OverflowBegin(L)) # EmptyLevel
    BY <1>3, <1>4, <1>5, <1>11
  <2>2. inside \in Nat /\ inside \in Prices
    BY <1>5, <1>6, <1>11
  <2>3. CASE Better(OverflowBegin(L), inside)
    <3>1. BestPrice(L) = OverflowBegin(L)
      BY <1>1, <1>8, <1>11, <2>1, <2>3
    <3>2. ASSUME NEW q \in Prices, ~Better(q, inside)
          PROVE  ~Better(q, OverflowBegin(L))
      BY <1>5, <2>1, <2>2, <2>3, <3>2 DEF Better
    <3>. QED  BY <1>2, <1>4, <1>6, <1>11, <2>1, <3>1, <3>2
  <2>4. CASE ~Better(OverflowBegin(L), inside)
    <3>1. BestPrice(L) = inside
      BY <1>1, <1>8, <1>11, <2>4
    <3>2. ASSUME NEW q \in Prices, ~Better(q, OverflowBegin(L))
          PROVE  ~Better(q, inside)
      BY <1>5, <2>1, <2>2, <2>4, <3>2 DEF Better
    <3>. QED  BY <1>2, <1>4, <1>6, <1>11, <3>1, <3>2
  <2>. QED  BY <2>3, <2>4
<1>. QED  BY <1>1, <1>9, <1>10, <1>11

-----------------------------------------------------------------------------
(***************************************************************************)
(* The order of a visit                                                    *)
(***************************************************************************)

LEMMA BetterIsAnOrder ==
    /\ \A p \in Nat : ~Better(p, p)
    /\ \A p, q \in Nat : p = q \/ Better(p, q) \/ Better(q, p)
    /\ \A p, q, r \in Nat : Better(p, q) /\ Better(q, r) => Better(p, r)
    /\ \A p, q \in Nat : Better(p, q) => ~Better(q, p)
BY LadderAssumption DEF Better

\* Every price beats the ones after it.
Ordered(s) == \A i, j \in DOMAIN s : i < j => Better(s[i], s[j])

\* Prices have different ranks, so every rank is some price's: BestFirst(S) is
\* S in order.
LEMMA BestFirstOrders ==
    ASSUME NEW S, S \subseteq Prices
    PROVE  /\ BestFirst(S) \in Seq(S)
           /\ ToSet(BestFirst(S)) = S
           /\ Ordered(BestFirst(S))
<1>. DEFINE n == Cardinality(S)
            Ahead(p) == {q \in S : Better(q, p)}
            rank == [p \in S |-> Cardinality(Ahead(p))]
            s == BestFirst(S)
<1>1. IsFiniteSet(S) /\ n \in Nat /\ \A p \in S : p \in Nat
  <2>1. IsFiniteSet(Prices)
    BY IndexFacts, FS_Interval DEF Prices
  <2>2. \A p \in S : p \in Nat
    BY IndexFacts DEF Prices
  <2>. QED  BY <2>1, <2>2, FS_Subset, FS_CardinalityType
<1>. HIDE DEF n
<1>2. \A p \in S : IsFiniteSet(Ahead(p)) /\ Cardinality(Ahead(p)) \in Nat
  <2>. SUFFICES ASSUME NEW p \in S
                PROVE  IsFiniteSet(Ahead(p)) /\ Cardinality(Ahead(p)) \in Nat
    OBVIOUS
  <2>1. Ahead(p) \in SUBSET S
    OBVIOUS
  <2>. QED  BY <1>1, <2>1, FS_Subset, FS_CardinalityType
<1>3. ASSUME NEW p \in S  PROVE rank[p] \in 0..(n - 1)
  <2>1. p \notin Ahead(p)
    BY <1>1, BetterIsAnOrder
  <2>2. Ahead(p) \in SUBSET (S \ {p})
    BY <2>1
  <2>3. IsFiniteSet(S \ {p}) /\ Cardinality(S \ {p}) = n - 1
    BY <1>1, FS_RemoveElement DEF n
  <2>4. Cardinality(Ahead(p)) <= n - 1
    BY <2>2, <2>3, FS_Subset
  <2>. QED  BY <1>1, <1>2, <2>4
<1>4. ASSUME NEW p \in S, NEW q \in S, Better(p, q)  PROVE rank[p] < rank[q]
  <2>1. Ahead(p) \cup {p} \in SUBSET Ahead(q)
    BY <1>1, <1>4, BetterIsAnOrder
  <2>2. p \notin Ahead(p)
    BY <1>1, BetterIsAnOrder
  <2>3. Cardinality(Ahead(p) \cup {p}) = Cardinality(Ahead(p)) + 1
    BY <1>2, <2>2, FS_AddElement
  <2>4. Cardinality(Ahead(p) \cup {p}) <= Cardinality(Ahead(q))
    BY <1>2, <2>1, FS_Subset
  <2>. QED  BY <1>2, <2>3, <2>4
<1>. HIDE DEF rank
<1>5. ASSUME NEW p \in S, NEW q \in S
      PROVE  /\ rank[p] = rank[q] => p = q
             /\ rank[p] < rank[q] => Better(p, q)
  <2>1. p = q \/ Better(p, q) \/ Better(q, p)
    BY <1>1, BetterIsAnOrder
  <2>2. rank[p] \in Nat /\ rank[q] \in Nat
    BY <1>1, <1>3
  <2>. QED  BY <1>4, <2>1, <2>2
<1>6. \A k \in 0..(n - 1) : \E p \in S : rank[p] = k
  <2>1. rank \in [S -> 0..(n - 1)]
    BY <1>3 DEF rank
  <2>2. rank \in Injection(S, 0..(n - 1))
    BY <1>5, <2>1 DEF Injection, IsInjective
  <2>3. IsFiniteSet(0..(n - 1)) /\ Cardinality(0..(n - 1)) = n
    <3>1. 0 \in Int /\ n - 1 \in Int
      BY <1>1
    <3>2. /\ IsFiniteSet(0..(n - 1))
          /\ Cardinality(0..(n - 1)) = IF 0 > n - 1 THEN 0 ELSE (n - 1) - 0 + 1
      BY <3>1, FS_Interval
    <3>. QED  BY <1>1, <3>2
  <2>4. rank \in Surjection(S, 0..(n - 1))
    BY <2>2, <2>3, FS_Injection DEF n
  <2>. QED  BY <2>4 DEF Surjection
<1>7. /\ DOMAIN s = 1..n
      /\ \A k \in 1..n : s[k] = CHOOSE p \in S : rank[p] = k - 1
  BY DEF BestFirst, rank, n
<1>8. \A k \in 1..n : s[k] \in S /\ rank[s[k]] = k - 1
  <2>. SUFFICES ASSUME NEW k \in 1..n  PROVE s[k] \in S /\ rank[s[k]] = k - 1
    OBVIOUS
  <2>1. k - 1 \in 0..(n - 1)
    BY <1>1
  <2>2. \E p \in S : rank[p] = k - 1
    BY <1>6, <2>1
  <2>. QED  BY <1>7, <2>2
<1>9. s \in Seq(S)
  <2>1. s = [k \in 1..n |-> s[k]]
    BY DEF BestFirst, n
  <2>. HIDE DEF s
  <2>2. s \in [1..n -> S]
    BY <1>8, <2>1
  <2>. QED  BY <1>1, <2>2
<1>. HIDE DEF s
<1>10. ToSet(s) = S
  <2>1. \A p \in S : \E k \in 1..n : s[k] = p
    <3>. SUFFICES ASSUME NEW p \in S  PROVE \E k \in 1..n : s[k] = p
      OBVIOUS
    <3>1. rank[p] + 1 \in 1..n /\ (rank[p] + 1) - 1 = rank[p]
      BY <1>1, <1>3
    <3>2. s[rank[p] + 1] \in S /\ rank[s[rank[p] + 1]] = rank[p]
      BY <1>8, <3>1
    <3>3. s[rank[p] + 1] = p
      BY <1>5, <3>2
    <3>. QED  BY <3>1, <3>3
  <2>. QED  BY <1>7, <1>8, <2>1 DEF ToSet
<1>11. Ordered(s)
  <2>. SUFFICES ASSUME NEW i \in 1..n, NEW j \in 1..n, i < j
                PROVE  Better(s[i], s[j])
    BY <1>7 DEF Ordered
  <2>1. rank[s[i]] < rank[s[j]]
    BY <1>1, <1>8
  <2>. QED  BY <1>5, <1>8, <2>1
<1>. QED  BY <1>9, <1>10, <1>11 DEF s

\* Two ordered sequences, everything in the first better than everything in the
\* second.
LEMMA ConcatOrdered ==
    ASSUME NEW s \in Seq(Prices), NEW t \in Seq(Prices), Ordered(s), Ordered(t),
           \A x \in ToSet(s), y \in ToSet(t) : Better(x, y)
    PROVE  /\ s \o t \in Seq(Prices) /\ Ordered(s \o t)
           /\ ToSet(s \o t) = ToSet(s) \cup ToSet(t)
<1>. DEFINE u == s \o t
<1>1. /\ Len(s) \in Nat /\ Len(t) \in Nat
      /\ DOMAIN s = 1..Len(s) /\ DOMAIN t = 1..Len(t)
      /\ u \in Seq(Prices) /\ DOMAIN u = 1..(Len(s) + Len(t))
      /\ \A i \in 1..Len(s) : u[i] = s[i]
      /\ \A i \in 1..Len(t) : u[Len(s) + i] = t[i]
  OBVIOUS
<1>. HIDE DEF u
<1>2. \A i \in DOMAIN u : \/ i \in 1..Len(s) /\ u[i] = s[i]
                          \/ /\ i > Len(s) /\ i - Len(s) \in 1..Len(t)
                             /\ u[i] = t[i - Len(s)]
  <2>. SUFFICES ASSUME NEW i \in 1..(Len(s) + Len(t)), i > Len(s)
                PROVE  i - Len(s) \in 1..Len(t) /\ u[i] = t[i - Len(s)]
    BY <1>1
  <2>1. i - Len(s) \in 1..Len(t) /\ Len(s) + (i - Len(s)) = i
    BY <1>1
  <2>2. PICK k \in 1..Len(t) : k = i - Len(s)
    BY <2>1
  <2>. QED  BY <1>1, <2>1, <2>2
<1>3. Ordered(u)
  <2>. SUFFICES ASSUME NEW i \in DOMAIN u, NEW j \in DOMAIN u, i < j
                PROVE  Better(u[i], u[j])
    BY DEF Ordered
  <2>1. CASE i \in 1..Len(s) /\ j \in 1..Len(s)
    BY <1>1, <2>1 DEF Ordered
  <2>2. CASE i \in 1..Len(s) /\ j > Len(s)
    <3>1. u[i] \in ToSet(s) /\ u[j] \in ToSet(t)
      BY <1>1, <1>2, <2>2 DEF ToSet
    <3>. QED  BY <3>1
  <2>3. CASE i > Len(s) /\ j > Len(s)
    <3>1. /\ i - Len(s) \in DOMAIN t /\ j - Len(s) \in DOMAIN t
          /\ u[i] = t[i - Len(s)] /\ u[j] = t[j - Len(s)]
      BY <1>1, <1>2, <2>3
    <3>2. i - Len(s) < j - Len(s)
      BY <1>1
    <3>. QED  BY <3>1, <3>2 DEF Ordered
  <2>. QED  BY <1>1, <1>2, <2>1, <2>2, <2>3
<1>4. ToSet(u) = ToSet(s) \cup ToSet(t)
  <2>1. ToSet(u) \subseteq ToSet(s) \cup ToSet(t)
    BY <1>1, <1>2 DEF ToSet
  <2>2. ToSet(s) \subseteq ToSet(u)
    BY <1>1 DEF ToSet
  <2>3. \A i \in 1..Len(t) : Len(s) + i \in DOMAIN u
    BY <1>1
  <2>4. ToSet(t) \subseteq ToSet(u)
    BY <1>1, <2>3 DEF ToSet
  <2>. QED  BY <2>1, <2>2, <2>4
<1>. QED  BY <1>1, <1>3, <1>4 DEF u

\* An ordered sequence cut in two.
LEMMA CutOrdered ==
    ASSUME NEW s \in Seq(Prices), Ordered(s), NEW k \in 0..Len(s),
           NEW front, front = SubSeq(s, 1, k),
           NEW back, back = SubSeq(s, k + 1, Len(s))
    PROVE  /\ front \in Seq(Prices) /\ Ordered(front)
           /\ back \in Seq(Prices) /\ Ordered(back)
           /\ ToSet(front) = {s[i] : i \in 1..k}
           /\ ToSet(back) = {s[i] : i \in (k + 1)..Len(s)}
<1>1. Len(s) \in Nat /\ k \in Nat /\ k <= Len(s) /\ DOMAIN s = 1..Len(s)
  OBVIOUS
<1>2. /\ front \in Seq(Prices) /\ DOMAIN front = 1..k
      /\ \A i \in 1..k : front[i] = s[i]
  OBVIOUS
<1>3. /\ back \in Seq(Prices) /\ DOMAIN back = 1..(Len(s) - k)
      /\ \A i \in 1..(Len(s) - k) : back[i] = s[k + i]
  OBVIOUS
<1>4. Ordered(front) /\ ToSet(front) = {s[i] : i \in 1..k}
  <2>1. \A i \in 1..k : i \in DOMAIN s
    BY <1>1
  <2>2. Ordered(front)
    BY <1>2, <2>1 DEF Ordered
  <2>3. ToSet(front) = {front[i] : i \in 1..k}
    BY <1>2 DEF ToSet
  <2>. QED  BY <1>2, <2>2, <2>3
<1>5. Ordered(back)
  <2>. SUFFICES ASSUME NEW i \in 1..(Len(s) - k), NEW j \in 1..(Len(s) - k), i < j
                PROVE  Better(back[i], back[j])
    BY <1>3 DEF Ordered
  <2>1. k + i \in DOMAIN s /\ k + j \in DOMAIN s /\ k + i < k + j
    BY <1>1
  <2>. QED  BY <1>3, <2>1 DEF Ordered
<1>6. ToSet(back) = {s[i] : i \in (k + 1)..Len(s)}
  <2>1. \A i \in 1..(Len(s) - k) : k + i \in (k + 1)..Len(s)
    BY <1>1
  <2>2. \A i \in (k + 1)..Len(s) : i - k \in 1..(Len(s) - k) /\ back[i - k] = s[i]
    <3>. SUFFICES ASSUME NEW i \in (k + 1)..Len(s)
                  PROVE  i - k \in 1..(Len(s) - k) /\ back[i - k] = s[i]
      OBVIOUS
    <3>1. PICK j \in 1..(Len(s) - k) : j = i - k /\ i = k + j
      BY <1>1
    <3>. QED  BY <1>3, <3>1
  <2>3. ASSUME NEW x \in ToSet(back)
        PROVE  x \in {s[i] : i \in (k + 1)..Len(s)}
    <3>1. PICK i \in 1..(Len(s) - k) : x = back[i]
      BY <1>3, <2>3 DEF ToSet
    <3>. QED  BY <1>3, <2>1, <3>1
  <2>4. ASSUME NEW i \in (k + 1)..Len(s)
        PROVE  s[i] \in ToSet(back)
    <3>1. i - k \in DOMAIN back /\ back[i - k] = s[i]
      BY <1>3, <2>2, <2>4
    <3>. QED  BY <3>1 DEF ToSet
  <2>. QED  BY <2>3, <2>4
<1>. QED  BY <1>2, <1>3, <1>4, <1>5, <1>6

\* The map's keys are walked up to the first that does not beat the window. It
\* is outside the window and not beyond its best edge, so it is worse than every
\* price in it, and so are the keys after it.
LEMMA VisitIsOrdered ==
    ASSUME NEW L, Good(L)
    PROVE  /\ Ordered(VisitOrder(L))
           /\ ToSet(VisitOrder(L)) = {p \in Prices : LevelAt(L, p) # EmptyLevel}
<1>. DEFINE map == BestFirst(Outside(L))
            stops == {k \in DOMAIN map : ~BeyondBestEdge(L, map[k])}
            split == IF stops = {} THEN Len(map)
                     ELSE (CHOOSE k \in stops : \A j \in stops : k <= j) - 1
            walked == {i \in Indices : /\ IsBid \/ i < L.limit
                                       /\ ~Better(i, L.best_idx)
                                       /\ L.window[i] # EmptyLevel}
            inside == IF L.occupied = 0 THEN {} ELSE {L.lo + i : i \in walked}
            front == SubSeq(map, 1, split)
            back == SubSeq(map, split + 1, Len(map))
            middle == BestFirst(inside)
<1>1. /\ L \in Ladders /\ WindowConsistent(L) /\ MapConsistent(L)
      /\ MaxPrice \in Nat /\ L.lo \in Nat /\ L.limit \in Nat
      /\ L.occupied \in Nat
  BY IndexFacts DEF Good, Ladders
<1>2. inside = {L.lo + i : i \in Filled(L)}
  <2>1. walked = Filled(L)
    BY <1>1 DEF Filled, WindowConsistent
  <2>2. L.occupied = 0 => Filled(L) = {}
    BY <1>1, IndexFacts DEF WindowConsistent
  <2>. QED  BY <2>1, <2>2
<1>3. \A x \in inside : /\ x \in Prices /\ x \in Nat
                        /\ L.lo <= x /\ x - L.lo < L.limit /\ InWindow(L, x)
                        /\ x - L.lo \in Filled(L)
  <2>. SUFFICES ASSUME NEW i \in Filled(L)
                PROVE  /\ L.lo + i \in Prices /\ L.lo + i \in Nat
                       /\ L.lo <= L.lo + i /\ (L.lo + i) - L.lo < L.limit
                       /\ InWindow(L, L.lo + i) /\ (L.lo + i) - L.lo \in Filled(L)
    BY <1>2
  <2>1. i \in Nat /\ i < L.limit
    BY <1>1, IndexFacts DEF WindowConsistent
  <2>2. (L.lo + i) - L.lo = i
    BY <1>1, <2>1
  <2>. QED  BY <1>1, <2>1, <2>2 DEF WindowConsistent, InWindow, Prices
<1>4. \A p \in Outside(L) : p \in Prices /\ p \in Nat /\ ~InWindow(L, p)
  BY <1>1, IndexFacts DEF Outside, MapConsistent, Prices
<1>5. /\ map \in Seq(Outside(L)) /\ ToSet(map) = Outside(L) /\ Ordered(map)
      /\ map \in Seq(Prices) /\ Len(map) \in Nat /\ DOMAIN map = 1..Len(map)
  <2>1. Outside(L) \subseteq Prices
    BY <1>4
  <2>2. map \in Seq(Outside(L)) /\ ToSet(map) = Outside(L) /\ Ordered(map)
    BY <2>1, BestFirstOrders
  <2>. HIDE DEF map
  <2>. QED  BY <2>1, <2>2
<1>. HIDE DEF map
<1>6. \A k \in 1..Len(map) : map[k] \in Outside(L)
  BY <1>5
<1>7. /\ split \in 0..Len(map)
      /\ \A k \in 1..split : BeyondBestEdge(L, map[k])
      /\ split < Len(map) =>
             split + 1 \in DOMAIN map /\ ~BeyondBestEdge(L, map[split + 1])
  <2>1. CASE stops = {}
    BY <1>5, <2>1
  <2>2. CASE stops # {}
    <3>1. stops \subseteq Nat /\ \A k \in stops : k \in 1..Len(map)
      BY <1>5
    <3>2. \E k \in stops : \A j \in stops : k <= j
      <4>. HIDE DEF stops
      <4>. QED  BY <2>2, <3>1, SmallestExists
    <3>3. PICK first \in stops : /\ \A j \in stops : first <= j
                                 /\ split = first - 1
      BY <2>2, <3>2
    <3>4. first \in 1..Len(map) /\ split + 1 = first /\ split \in 0..Len(map)
      BY <1>5, <3>1, <3>3
    <3>5. ASSUME NEW k \in 1..split  PROVE BeyondBestEdge(L, map[k])
      <4>. HIDE DEF split
      <4>1. k \in DOMAIN map /\ ~(first <= k)
        BY <1>5, <3>3, <3>4, <3>5
      <4>2. k \notin stops
        BY <3>3, <4>1
      <4>. QED  BY <4>1, <4>2
    <3>. QED  BY <1>5, <3>3, <3>4, <3>5
  <2>. QED  BY <2>1, <2>2
<1>. HIDE DEF split
<1>8. /\ front \in Seq(Prices) /\ Ordered(front)
      /\ back \in Seq(Prices) /\ Ordered(back)
      /\ ToSet(front) = {map[i] : i \in 1..split}
      /\ ToSet(back) = {map[i] : i \in (split + 1)..Len(map)}
  BY <1>5, <1>7, CutOrdered
<1>9. middle \in Seq(Prices) /\ Ordered(middle) /\ ToSet(middle) = inside
  <2>1. inside \subseteq Prices
    BY <1>3
  <2>. HIDE DEF inside
  <2>2. middle \in Seq(inside) /\ Ordered(middle) /\ ToSet(middle) = inside
    BY <2>1, BestFirstOrders
  <2>. HIDE DEF middle
  <2>. QED  BY <2>1, <2>2
<1>. HIDE DEF inside, middle, front, back
\* Before the window, and after it.
<1>10. ASSUME NEW k \in 1..split, NEW x \in inside  PROVE Better(map[k], x)
  <2>1. k \in 1..Len(map) /\ BeyondBestEdge(L, map[k])
    BY <1>5, <1>7
  <2>2. map[k] \in Nat /\ x \in Nat /\ L.lo <= x /\ x - L.lo < L.limit
    BY <1>3, <1>4, <1>6, <2>1
  <2>. QED  BY <1>1, <2>1, <2>2 DEF BeyondBestEdge, Better
<1>11. ASSUME NEW k \in (split + 1)..Len(map), NEW x \in inside
       PROVE  Better(x, map[k])
  <2>1. /\ split + 1 \in 1..Len(map) /\ ~BeyondBestEdge(L, map[split + 1])
        /\ k \in 1..Len(map) /\ split + 1 <= k
    BY <1>5, <1>7
  <2>2. /\ map[split + 1] \in Nat /\ ~InWindow(L, map[split + 1])
        /\ map[k] \in Nat /\ x \in Nat /\ L.lo <= x /\ x - L.lo < L.limit
    BY <1>3, <1>4, <1>6, <2>1
  <2>3. Better(x, map[split + 1])
    BY <1>1, <2>1, <2>2 DEF BeyondBestEdge, InWindow, Better
  <2>4. k = split + 1 \/ Better(map[split + 1], map[k])
    BY <1>5, <2>1 DEF Ordered
  <2>. QED  BY <2>2, <2>3, <2>4, BetterIsAnOrder
<1>12. ASSUME NEW k \in 1..split, NEW j \in (split + 1)..Len(map)
       PROVE  Better(map[k], map[j])
  <2>1. k \in DOMAIN map /\ j \in DOMAIN map /\ k < j
    BY <1>5, <1>7
  <2>. QED  BY <1>5, <2>1 DEF Ordered
<1>13. /\ front \o middle \in Seq(Prices) /\ Ordered(front \o middle)
       /\ ToSet(front \o middle) = ToSet(front) \cup inside
  <2>1. \A x \in ToSet(front), y \in ToSet(middle) : Better(x, y)
    BY <1>8, <1>9, <1>10
  <2>. QED  BY <1>8, <1>9, <2>1, ConcatOrdered
<1>14. PICK both : both = front \o middle
  OBVIOUS
<1>15. /\ Ordered(both \o back)
       /\ ToSet(both \o back) = ToSet(front) \cup inside \cup ToSet(back)
  <2>1. \A x \in ToSet(both), y \in ToSet(back) : Better(x, y)
    BY <1>8, <1>11, <1>12, <1>13, <1>14
  <2>. QED  BY <1>8, <1>13, <1>14, <2>1, ConcatOrdered
<1>16. VisitOrder(L) = both \o back
  BY <1>14 DEF VisitOrder, map, split, inside, middle, front, back
<1>17. ToSet(front) \cup ToSet(back) = Outside(L)
  <2>1. 1..Len(map) = (1..split) \cup ((split + 1)..Len(map))
    BY <1>5, <1>7
  <2>2. ToSet(map) = {map[i] : i \in 1..Len(map)}
    BY <1>5 DEF ToSet
  <2>. QED  BY <1>5, <1>8, <2>1, <2>2
<1>18. Outside(L) \cup inside = {p \in Prices : LevelAt(L, p) # EmptyLevel}
  <2>1. ASSUME NEW p \in Outside(L)  PROVE p \in Prices /\ LevelAt(L, p) # EmptyLevel
    BY <1>1, <1>4, <2>1 DEF Outside, MapConsistent, LevelAt
  <2>2. ASSUME NEW p \in inside  PROVE p \in Prices /\ LevelAt(L, p) # EmptyLevel
    BY <1>3, <2>2 DEF LevelAt, Filled
  <2>3. ASSUME NEW p \in Prices, LevelAt(L, p) # EmptyLevel
        PROVE  p \in Outside(L) \cup inside
    <3>1. CASE InWindow(L, p)
      <4>1. p - L.lo \in Filled(L)
        BY <1>1, <2>3, <3>1, InWindowIndex DEF LevelAt, Filled
      <4>2. L.lo + (p - L.lo) = p
        BY <1>1 DEF Prices
      <4>. QED  BY <1>2, <4>1, <4>2
    <3>2. CASE ~InWindow(L, p)
      BY <2>3, <3>2 DEF LevelAt, Outside
    <3>. QED  BY <3>1, <3>2
  <2>. QED  BY <2>1, <2>2, <2>3
<1>. QED  BY <1>15, <1>16, <1>17, <1>18

-----------------------------------------------------------------------------
(***************************************************************************)
(* The state machine                                                       *)
(***************************************************************************)
IInv == Good(ladder)

\* R holds level at price p, and what L holds everywhere else.
Writes(L, R, p, level) ==
    \A q \in Prices : LevelAt(R, q) = IF q = p THEN level ELSE LevelAt(L, q)

LEMMA NewLadderGood ==
    /\ Good(NewLadder) /\ ~NewLadder.is_placed
    /\ \A p \in Prices : LevelAt(NewLadder, p) = EmptyLevel
<1>1. NewLadder \in Ladders /\ ~NewLadder.is_placed
  BY LadderAssumption DEF NewLadder, Ladders
<1>2. Filled(NewLadder) = {} /\ Outside(NewLadder) = {}
  BY DEF NewLadder, Filled, Outside
<1>3. WindowConsistent(NewLadder)
  <2>1. Cardinality(Filled(NewLadder)) = 0
    BY <1>2, FS_EmptySet
  <2>2. NewLadder.occupied = 0 /\ NewLadder.limit = 0
    BY DEF NewLadder
  <2>. QED  BY <1>2, <2>1, <2>2 DEF WindowConsistent
<1>4. MapConsistent(NewLadder)
  BY <1>2 DEF MapConsistent
<1>5. \A p \in Prices : ~InWindow(NewLadder, p)
  BY DEF NewLadder, InWindow, Prices
<1>. QED  BY <1>1, <1>2, <1>3, <1>4, <1>5 DEF Good, LevelAt, NewLadder

LEMMA InitGood == Init => IInv /\ \A p \in Prices : LevelAt(ladder, p) = EmptyLevel
BY NewLadderGood, PlaceIsGood DEF Init, IInv

LEMMA PlaceWindowGood ==
    ASSUME IInv, NEW p \in Prices, PlaceWindow(p)
    PROVE  IInv' /\ \A q \in Prices : LevelAt(ladder', q) = LevelAt(ladder, q)
<1>1. Good(ladder) /\ ~ladder.is_placed /\ CentredBase(p) \in Prices
  BY CentredBaseType DEF IInv, PlaceWindow
<1>2. /\ Good(ladder')
      /\ \A q \in Prices : LevelAt(ladder', q) = EmptyLevel
  BY <1>1, PlaceIsGood DEF PlaceWindow
<1>3. ASSUME NEW q \in Prices  PROVE LevelAt(ladder, q) = EmptyLevel
  <2>1. Filled(ladder) = {} /\ Outside(ladder) = {} /\ ladder \in Ladders
    BY <1>1 DEF Good
  <2>2. InWindow(ladder, q) => q - ladder.lo \in Indices
    BY <2>1, InWindowIndex
  <2>. QED  BY <2>1, <2>2 DEF LevelAt, Filled, Outside
<1>. QED  BY <1>2, <1>3 DEF IInv

LEMMA InsertOrderGood ==
    ASSUME IInv, NEW p \in Prices, NEW level \in Levels, InsertOrder(p, level)
    PROVE  IInv' /\ Writes(ladder, ladder', p, level)
<1>. DEFINE L == IF ladder.is_placed THEN ladder
                 ELSE Place(ladder, CentredBase(p))
<1>1. /\ Good(L) /\ L.is_placed
      /\ \A q \in Prices : LevelAt(L, q) = LevelAt(ladder, q)
  <2>1. CASE ladder.is_placed
    BY <2>1 DEF IInv
  <2>2. CASE ~ladder.is_placed
    <3>1. CentredBase(p) \in Prices /\ Good(ladder)
      BY CentredBaseType DEF IInv
    <3>2. /\ Good(L) /\ L.is_placed
          /\ \A q \in Prices : LevelAt(L, q) = EmptyLevel
      BY <2>2, <3>1, PlaceIsGood
    <3>3. ASSUME NEW q \in Prices  PROVE LevelAt(ladder, q) = EmptyLevel
      <4>1. Filled(ladder) = {} /\ Outside(ladder) = {} /\ ladder \in Ladders
        BY <2>2, <3>1 DEF Good
      <4>2. InWindow(ladder, q) => q - ladder.lo \in Indices
        BY <4>1, InWindowIndex
      <4>. QED  BY <4>1, <4>2 DEF LevelAt, Filled, Outside
    <3>. QED  BY <3>2, <3>3
  <2>. QED  BY <2>1, <2>2
<1>2. /\ level # EmptyLevel /\ ladder' = SetLevel(Open(L, p), p, level)
  BY DEF InsertOrder, IInv
<1>. HIDE DEF L
<1>3. Good(ladder') /\ Writes(L, ladder', p, level)
  <2>1. CASE InWindow(L, p)
    BY <1>1, <1>2, <2>1, InsertInsideGood DEF Writes
  <2>2. CASE ~InWindow(L, p)
    <3>1. ladder' \in Ladders /\ OutsideWrite(L, ladder', p, level)
      BY <1>1, <1>2, <2>2, InsertOutside DEF Good
    <3>2. level \in Levels \cup {Absent} /\ level # Absent
      BY LadderAssumption
    <3>. QED  BY <1>1, <1>2, <2>2, <3>1, <3>2, OutsideGood DEF Writes
  <2>. QED  BY <2>1, <2>2
<1>. QED  BY <1>1, <1>2, <1>3 DEF IInv, Writes

LEMMA ShrinkGood ==
    ASSUME IInv, NEW p \in Prices, NEW level \in Levels,
           LevelAt(ladder, p) # EmptyLevel, Shrink(p, level)
    PROVE  IInv' /\ Writes(ladder, ladder', p, level)
<1>1. Good(ladder) /\ ladder \in Ladders
  BY DEF IInv, Good
<1>2. /\ ladder' = (IF level = EmptyLevel THEN Closed(SetLevel(ladder, p, level), p)
                    ELSE SetLevel(ladder, p, level))
  BY DEF Shrink, IInv
<1>3. ladder.is_placed
  <2>1. InWindow(ladder, p) => p - ladder.lo \in Indices
    BY <1>1, InWindowIndex
  <2>. QED  BY <1>1, <2>1 DEF Good, LevelAt, Filled, Outside
<1>4. Good(ladder') /\ Writes(ladder, ladder', p, level)
  <2>1. CASE InWindow(ladder, p)
    BY <1>1, <1>2, <1>3, <2>1, ShrinkInsideGood DEF Writes
  <2>2. CASE ~InWindow(ladder, p)
    <3>. DEFINE entry == IF level = EmptyLevel THEN Absent ELSE level
    <3>1. ladder' \in Ladders /\ OutsideWrite(ladder, ladder', p, entry)
      BY <1>1, <1>2, <2>2, ShrinkOutside
    <3>2. /\ entry \in Levels \cup {Absent} /\ entry # EmptyLevel
          /\ level = IF entry = Absent THEN EmptyLevel ELSE entry
      BY LadderAssumption
    <3>. HIDE DEF entry
    <3>3. /\ Good(ladder')
          /\ \A q \in Prices : LevelAt(ladder', q) =
                 IF q # p THEN LevelAt(ladder, q)
                 ELSE IF entry = Absent THEN EmptyLevel ELSE entry
      BY <1>1, <1>3, <2>2, <3>1, <3>2, OutsideGood
    <3>. QED  BY <3>2, <3>3 DEF Writes
  <2>. QED  BY <2>1, <2>2
<1>. QED  BY <1>2, <1>4 DEF IInv

\* Every step keeps the invariant, and either leaves every level alone or
\* writes one: a new level that holds something, or one that held something.
LEMMA StepGood ==
    ASSUME IInv, [Next]_vars
    PROVE  /\ IInv'
           /\ \/ \A q \in Prices : LevelAt(ladder', q) = LevelAt(ladder, q)
              \/ \E p \in Prices, level \in Levels :
                     /\ Writes(ladder, ladder', p, level)
                     /\ level # EmptyLevel \/ LevelAt(ladder, p) # EmptyLevel
<1>1. ASSUME NEW p \in Prices, PlaceWindow(p)
      PROVE  IInv' /\ \A q \in Prices : LevelAt(ladder', q) = LevelAt(ladder, q)
  BY <1>1, PlaceWindowGood
<1>2. ASSUME NEW p \in Prices, NEW level \in Levels, InsertOrder(p, level)
      PROVE  IInv' /\ Writes(ladder, ladder', p, level) /\ level # EmptyLevel
  BY <1>2, InsertOrderGood DEF InsertOrder
<1>3. ASSUME NEW p \in Prices, NEW level \in Levels, RemoveOrder(p, level)
      PROVE  /\ IInv' /\ Writes(ladder, ladder', p, level)
             /\ LevelAt(ladder, p) # EmptyLevel
  BY <1>3, ShrinkGood DEF RemoveOrder
<1>4. ASSUME NEW level \in Levels, TakeBest(level)
      PROVE  /\ IInv' /\ BestPrice(ladder) \in Prices
             /\ Writes(ladder, ladder', BestPrice(ladder), level)
             /\ LevelAt(ladder, BestPrice(ladder)) # EmptyLevel
  <2>1. /\ BestPrice(ladder) \in Prices
        /\ LevelAt(ladder, BestPrice(ladder)) # EmptyLevel
    BY <1>4, BestPriceIsTop DEF IInv, TakeBest
  <2>. QED  BY <1>4, <2>1, ShrinkGood DEF TakeBest
<1>5. CASE UNCHANGED vars
  BY <1>5 DEF IInv, vars
<1>. QED  BY <1>1, <1>2, <1>3, <1>4, <1>5 DEF Next

\* The ladder keeps its types, for every window, base and price range: no
\* index, counter or window limit leaves its range.
THEOREM TypeCorrect == Spec => []TypeOK
<1>1. Init => IInv
  BY InitGood
<1>2. IInv /\ [Next]_vars => IInv'
  BY StepGood
<1>3. IInv => TypeOK
  BY DEF IInv, Good, TypeOK
<1>. QED  BY <1>1, <1>2, <1>3, PTL DEF Spec

\* Every call leaves a ladder that PriceLadder::check accepts: best_idx is the
\* best occupied slot, occupied counts them, the map holds no empty level and
\* no price of the window.
THEOREM StaysConsistent == Spec => []LadderConsistent
<1>1. Init => IInv
  BY InitGood
<1>2. IInv /\ [Next]_vars => IInv'
  BY StepGood
<1>3. IInv => LadderConsistent
  BY DEF IInv, Good, LadderConsistent
<1>. QED  BY <1>1, <1>2, <1>3, PTL DEF Spec

\* for_each_level() visits the occupied prices, each once and best first,
\* wherever the window lies and however the levels are spread over it and the
\* fallback map.
THEOREM VisitsInOrder == Spec => []VisitsBestFirst
<1>1. Init => IInv
  BY InitGood
<1>2. IInv /\ [Next]_vars => IInv'
  BY StepGood
<1>3. IInv => VisitsBestFirst
  BY VisitIsOrdered DEF IInv, VisitsBestFirst, Ordered
<1>. QED  BY <1>1, <1>2, <1>3, PTL DEF Spec

\* The array with its fallback map implements a plain map of levels whose best
\* price is always right.
THEOREM LadderImplementsSide == Spec => ImplementsSide
<1>. DEFINE abs == [p \in Prices |-> LevelAt(ladder, p)]
            top == BestPrice(ladder)
<1>1. Init => IInv /\ Side!Init
  <2>. SUFFICES ASSUME Init  PROVE IInv /\ Side!Init
    OBVIOUS
  <2>1. IInv /\ \A p \in Prices : LevelAt(ladder, p) = EmptyLevel
    BY InitGood
  <2>2. BestPrice(ladder) = NoPrice
    BY <2>1, BestPriceIsTop DEF IInv
  <2>. QED  BY <2>1, <2>2 DEF Side!Init
<1>2. IInv /\ [Next]_vars => IInv' /\ [Side!Next]_<<abs, top>>
  <2>. SUFFICES ASSUME IInv, [Next]_vars
                PROVE  IInv' /\ [Side!Next]_<<abs, top>>
    OBVIOUS
  <2>1. IInv'
    BY StepGood
  <2>2. /\ top' \in Prices \cup {NoPrice}
        /\ Side!IsTop(abs', top')
    <3>1. Good(ladder')
      BY <2>1 DEF IInv
    <3>2. \/ /\ top' = NoPrice
             /\ \A q \in Prices : LevelAt(ladder', q) = EmptyLevel
          \/ /\ top' \in Prices /\ LevelAt(ladder', top') # EmptyLevel
             /\ \A q \in Prices : LevelAt(ladder', q) # EmptyLevel => ~Better(q, top')
      BY <3>1, BestPriceIsTop
    <3>. QED  BY <3>2 DEF Side!IsTop, Side!Better, Better
  <2>3. CASE \A q \in Prices : LevelAt(ladder', q) = LevelAt(ladder, q)
    <3>1. abs' = abs
      BY <2>3
    <3>2. top' = top
      <4>1. \/ /\ top' = NoPrice
               /\ \A q \in Prices : LevelAt(ladder, q) = EmptyLevel
            \/ /\ top' \in Prices /\ LevelAt(ladder, top') # EmptyLevel
               /\ \A q \in Prices : LevelAt(ladder, q) # EmptyLevel => ~Better(q, top')
        BY <2>1, <2>3, BestPriceIsTop DEF IInv
      <4>2. \/ /\ top = NoPrice
               /\ \A q \in Prices : LevelAt(ladder, q) = EmptyLevel
            \/ /\ top \in Prices /\ LevelAt(ladder, top) # EmptyLevel
               /\ \A q \in Prices : LevelAt(ladder, q) # EmptyLevel => ~Better(q, top)
        BY BestPriceIsTop DEF IInv
      <4>3. \A p, q \in Prices : ~Better(p, q) /\ ~Better(q, p) => p = q
        BY IndexFacts DEF Better, Prices
      <4>. HIDE DEF top
      <4>. QED  BY <4>1, <4>2, <4>3
    <3>. QED  BY <2>1, <3>1, <3>2
  <2>4. CASE \E p \in Prices, level \in Levels :
                 /\ Writes(ladder, ladder', p, level)
                 /\ level # EmptyLevel \/ LevelAt(ladder, p) # EmptyLevel
    <3>1. PICK p \in Prices, level \in Levels :
                 /\ Writes(ladder, ladder', p, level)
                 /\ level # EmptyLevel \/ LevelAt(ladder, p) # EmptyLevel
      BY <2>4
    <3>2. abs' = [abs EXCEPT ![p] = level]
      BY <3>1 DEF Writes
    <3>3. abs[p] = LevelAt(ladder, p)
      OBVIOUS
    <3>. HIDE DEF abs, top
    <3>4. Side!Write(p, level)
      BY <2>2, <3>2 DEF Side!Write, abs, top
    <3>5. Side!Insert(p, level) \/ Side!Remove(p, level)
      BY <3>1, <3>3, <3>4 DEF Side!Insert, Side!Remove, abs
    <3>. QED  BY <2>1, <3>5 DEF Side!Next
  <2>. QED  BY <2>3, <2>4, StepGood
<1>. QED  BY <1>1, <1>2, PTL DEF Spec, ImplementsSide, Side!Spec
=============================================================================
