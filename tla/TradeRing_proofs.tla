-------------------------- MODULE TradeRing_proofs ---------------------------
(***************************************************************************)
(* Proofs that the trade ring is a bounded queue for every word size, every*)
(* capacity that is asked for and every set of trades.                     *)
(***************************************************************************)
EXTENDS TradeRing, Foundations, TLAPS

-----------------------------------------------------------------------------
(***************************************************************************)
(* The size of the buffer                                                  *)
(***************************************************************************)

\* The buffer has a slot and fewer than there are words, and the words are a
\* multiple of its size: masking a cursor survives the wrap around.
LEMMA SizeFacts == /\ Size \in Nat \ {0} /\ Word \in Nat \ {0}
                   /\ Size < Word
                   /\ Word % Size = 0
<1>. DEFINE n == IF Requested = 0 THEN 1 ELSE Requested
            T == {d \in Powers : d >= n}
            h == Word \div 2
<1>1. n \in Nat \ {0} /\ 2 * n <= Word /\ Word \in Nat \ {0, 1}
  BY RingAssumption
<1>2. Word % 2 = 0
  <2>1. Word = 1 * Word + 0
    BY <1>1
  <2>2. Word % Word = 0
    BY <1>1, <2>1, RemainderOf
  <2>. QED  BY <1>1, <2>2, RingAssumption
<1>. HIDE DEF n
<1>3. h \in Nat \ {0} /\ Word = 2 * h /\ n <= h
  <2>1. h \in Nat /\ Word = h * 2 + 0
    BY <1>1, <1>2, Division
  <2>. HIDE DEF h
  <2>. QED  BY <1>1, <2>1
<1>. HIDE DEF h
<1>4. Word % h = 0
  <2>1. Word = 2 * h + 0
    BY <1>3
  <2>. QED  BY <1>3, <2>1, RemainderOf
<1>5. h \in T /\ T \subseteq Nat
  BY <1>1, <1>3, <1>4 DEF Powers
<1>6. PICK d \in T : \A e \in T : d <= e
  <2>. HIDE DEF T
  <2>. QED  BY <1>5, SmallestExists
<1>7. /\ Size \in Powers /\ Size >= n
      /\ \A e \in Powers : e >= n => Size <= e
  <2>1. d \in Powers /\ d >= n /\ \A e \in Powers : e >= n => d <= e
    BY <1>6
  <2>2. Size = CHOOSE x \in Powers : x >= n /\ \A e \in Powers : e >= n => x <= e
    BY DEF Size, RoundUpPow2, n
  <2>. QED  BY <2>1, <2>2
<1>8. Size <= h
  BY <1>5, <1>7
<1>. QED  BY <1>1, <1>3, <1>7, <1>8 DEF Powers

Words == 0..(Word - 1)

\* A whole word further on is the same slot.
LEMMA WordsAway == ASSUME NEW k \in Nat  PROVE Slot(Word + k) = Slot(k)
<1>. DEFINE m == Word \div Size
            l == k \div Size
            r == k % Size
<1>1. /\ m \in Nat /\ l \in Nat /\ r \in 0..(Size - 1)
      /\ Word = m * Size + 0 /\ k = l * Size + r
  BY SizeFacts, Division
<1>. HIDE DEF m, l, r
<1>2. Word + k = (m + l) * Size + r
  BY <1>1, SizeFacts
<1>3. (Word + k) % Size = r
  BY <1>1, <1>2, SizeFacts, RemainderOf
<1>. QED  BY <1>3 DEF r, Slot

\* ++cursor, spelled out.
LEMMA BumpFacts ==
    ASSUME NEW c \in Words
    PROVE  /\ Bump(c) = IF c + 1 = Word THEN 0 ELSE c + 1
           /\ Bump(c) \in Words
           /\ \A k \in Nat : Slot(Bump(c) + k) = Slot(c + 1 + k)
<1>1. Word \in Nat \ {0} /\ c \in Nat /\ c < Word
  BY SizeFacts DEF Words
<1>2. CASE c + 1 = Word
  <2>1. Word = 1 * Word + 0
    BY <1>1
  <2>2. Bump(c) = 0
    BY <1>1, <1>2, <2>1, RemainderOf DEF Bump
  <2>. QED  BY <1>1, <1>2, <2>2, WordsAway DEF Words
<1>3. CASE c + 1 # Word
  <2>1. c + 1 \in 0..(Word - 1) /\ c + 1 = 0 * Word + (c + 1)
    BY <1>1, <1>3
  <2>2. Bump(c) = c + 1
    BY <1>1, <2>1, RemainderOf DEF Bump
  <2>. QED  BY <1>1, <1>3, <2>1, <2>2 DEF Words
<1>. QED  BY <1>2, <1>3

\* The difference of two cursors, for all that it is taken in words.
Distance(h, t) == (h + Word - t) % Word

LEMMA DistanceFacts ==
    ASSUME NEW h \in Words, NEW t \in Words
    PROVE  /\ Distance(h, t) = IF h >= t THEN h - t ELSE h + Word - t
           /\ Distance(h, t) \in Words
           /\ Distance(h, t) = 0 <=> h = t
<1>1. Word \in Nat \ {0} /\ h \in Nat /\ t \in Nat /\ h < Word /\ t < Word
  BY SizeFacts DEF Words
<1>2. CASE h >= t
  <2>1. h - t \in 0..(Word - 1) /\ h + Word - t = 1 * Word + (h - t)
    BY <1>1, <1>2
  <2>2. Distance(h, t) = h - t
    BY <1>1, <2>1, RemainderOf DEF Distance
  <2>. QED  BY <1>1, <1>2, <2>1, <2>2 DEF Words
<1>3. CASE ~(h >= t)
  <2>1. h + Word - t \in 0..(Word - 1) /\ h + Word - t = 0 * Word + (h + Word - t)
    BY <1>1, <1>3
  <2>2. Distance(h, t) = h + Word - t
    BY <1>1, <2>1, RemainderOf DEF Distance
  <2>. QED  BY <1>1, <1>3, <2>1, <2>2 DEF Words
<1>. QED  BY <1>2, <1>3

-----------------------------------------------------------------------------
(***************************************************************************)
(* Types, and how each step moves the unread trades                        *)
(***************************************************************************)
Kept == Trades \cup {NoTrade}

LEMMA StoreFacts ==
    ASSUME TypeOK, NEW t \in Trades, Store(t)
    PROVE  /\ Unread \in Nat /\ Unread < Size /\ Unread' = Unread + 1
           /\ head' \in Words
           /\ Slot(head) = Slot(tail + Unread)
<1>1. /\ head \in Words /\ tail \in Words /\ Unread = Distance(head, tail)
      /\ head' = Bump(head) /\ tail' = tail /\ Unread # Size /\ Unread <= Size
  BY DEF TypeOK, Store, Full, Unread, Distance, Words
<1>2. head' \in Words /\ head' = IF head + 1 = Word THEN 0 ELSE head + 1
  BY <1>1, BumpFacts
<1>3. /\ Unread = IF head >= tail THEN head - tail ELSE head + Word - tail
      /\ Unread \in Words
  BY <1>1, DistanceFacts
<1>4. Unread' = IF head' >= tail THEN head' - tail ELSE head' + Word - tail
  BY <1>1, <1>2, DistanceFacts DEF Unread, Distance
<1>5. Size \in Nat /\ Word \in Nat /\ Size < Word
  BY SizeFacts
<1>6. Unread' = Unread + 1
  BY <1>1, <1>2, <1>3, <1>4, <1>5 DEF Words
<1>7. Slot(head) = Slot(tail + Unread)
  <2>1. CASE tail + Unread = head
    BY <2>1
  <2>2. CASE tail + Unread = Word + head
    BY <1>1, <2>2, WordsAway DEF Words
  <2>. QED  BY <1>1, <1>3, <1>5, <2>1, <2>2 DEF Words
<1>. QED  BY <1>1, <1>2, <1>3, <1>5, <1>6, <1>7 DEF Words

LEMMA ConsumeFacts ==
    ASSUME TypeOK, Consume
    PROVE  /\ Unread \in Nat \ {0} /\ Unread' = Unread - 1
           /\ tail' \in Words
           /\ \A k \in Nat : Slot(tail' + k) = Slot(tail + 1 + k)
<1>1. /\ head \in Words /\ tail \in Words /\ Unread = Distance(head, tail)
      /\ tail' = Bump(tail) /\ head' = head /\ head # tail
  BY DEF TypeOK, Consume, Unread, Distance, Words
<1>2. /\ tail' \in Words /\ tail' = IF tail + 1 = Word THEN 0 ELSE tail + 1
      /\ \A k \in Nat : Slot(tail' + k) = Slot(tail + 1 + k)
  BY <1>1, BumpFacts
<1>3. /\ Unread = IF head >= tail THEN head - tail ELSE head + Word - tail
      /\ Unread \in Words
  BY <1>1, DistanceFacts
<1>4. Unread' = IF head >= tail' THEN head - tail' ELSE head + Word - tail'
  BY <1>1, <1>2, DistanceFacts DEF Unread, Distance
<1>5. Word \in Nat
  BY SizeFacts
<1>6. Unread' = Unread - 1 /\ Unread \in Nat \ {0}
  BY <1>1, <1>2, <1>3, <1>4, <1>5 DEF Words
<1>. QED  BY <1>2, <1>6

LEMMA InitType == Init => TypeOK
<1>. SUFFICES ASSUME Init  PROVE TypeOK
  OBVIOUS
<1>1. 0 \in Words /\ Size \in Nat
  BY SizeFacts DEF Words
<1>2. Unread = 0
  BY <1>1, DistanceFacts DEF Init, Unread, Distance
<1>. QED  BY <1>1, <1>2, RingAssumption DEF Init, TypeOK, Words

LEMMA SlotType == ASSUME NEW k \in Nat  PROVE Slot(k) \in 0..(Size - 1)
BY SizeFacts, Division DEF Slot

LEMMA NextType == TypeOK /\ [Next]_vars => TypeOK'
<1>. SUFFICES ASSUME TypeOK, [Next]_vars  PROVE TypeOK'
  OBVIOUS
<1>0. Size \in Nat /\ head \in Nat /\ tail \in Nat
  BY SizeFacts DEF TypeOK, Words
<1>1. ASSUME NEW t \in Trades, Store(t), UNCHANGED out  PROVE TypeOK'
  <2>1. Unread' <= Size /\ head' \in Words
    BY <1>0, <1>1, StoreFacts
  <2>2. buffer' \in [0..(Size - 1) -> Trades \cup {NoTrade}]
    BY <1>1 DEF TypeOK, Store
  <2>. QED  BY <1>1, <2>1, <2>2 DEF TypeOK, Store, Words
<1>2. ASSUME Drop, UNCHANGED out  PROVE TypeOK'
  BY <1>2, RingAssumption DEF TypeOK, Drop, Unread
<1>3. ASSUME Consume, out' = buffer[Slot(tail)]  PROVE TypeOK'
  <2>1. Unread' <= Size /\ tail' \in Words
    <3>1. Unread \in Nat /\ Unread' = Unread - 1 /\ tail' \in Words
      BY <1>3, ConsumeFacts
    <3>2. Unread <= Size
      BY DEF TypeOK
    <3>. QED  BY <1>0, <3>1, <3>2
  <2>2. out' \in Trades \cup {NoTrade}
    BY <1>0, <1>3, SlotType DEF TypeOK
  <2>. QED  BY <1>3, <2>1, <2>2 DEF TypeOK, Consume, Words
<1>4. CASE out' = NoTrade /\ UNCHANGED <<buffer, head, tail, drop_count>>
  BY <1>4 DEF TypeOK, Unread
<1>5. CASE UNCHANGED vars
  BY <1>5 DEF TypeOK, Unread, vars
<1>. QED  BY <1>1, <1>2, <1>3, <1>4, <1>5 DEF Next, Push, Record, Pop

\* Cursors stay words and never lap each other, for every word size and every
\* capacity (TradeRing::push and pop).
THEOREM TypeCorrect == Spec => []TypeOK
BY InitType, NextType, PTL DEF Spec

-----------------------------------------------------------------------------
(***************************************************************************)
(* The ring implements the tape                                            *)
(***************************************************************************)
UnreadTape == [k \in 1..Unread |-> buffer[Slot(tail + k - 1)]]

LEMMA TapeType ==
    ASSUME TypeOK
    PROVE  /\ Unread \in Nat /\ Size \in Nat \ {0} /\ tail \in Nat
           /\ UnreadTape \in Seq(Kept) /\ Len(UnreadTape) = Unread
           /\ \A k \in 1..Unread : UnreadTape[k] = buffer[Slot(tail + k - 1)]
<1>1. Unread \in Nat /\ Size \in Nat \ {0} /\ tail \in Nat
  <2>1. head \in Words /\ tail \in Words
    BY DEF TypeOK, Words
  <2>2. Distance(head, tail) \in Words
    BY <2>1, DistanceFacts
  <2>. QED  BY <2>1, <2>2, SizeFacts DEF Words, Distance, Unread
<1>2. \A k \in 1..Unread : buffer[Slot(tail + k - 1)] \in Kept
  <2>. SUFFICES ASSUME NEW k \in 1..Unread
                PROVE  buffer[Slot(tail + k - 1)] \in Kept
    OBVIOUS
  <2>1. tail + k - 1 \in Nat
    BY <1>1
  <2>. QED  BY <2>1, SlotType DEF TypeOK, Kept
<1>. QED  BY <1>1, <1>2 DEF UnreadTape

\* push() into a ring that is not full appends to the tape: the slot it writes
\* is none of the unread ones.
LEMMA StoreAppends ==
    ASSUME TypeOK, TypeOK', NEW t \in Trades, Store(t)
    PROVE  UnreadTape' = Append(UnreadTape, t)
<1>1. /\ Unread \in Nat /\ Unread < Size /\ Unread' = Unread + 1
      /\ Slot(head) = Slot(tail + Unread)
  BY StoreFacts
<1>2. /\ Size \in Nat \ {0} /\ tail \in Nat
      /\ UnreadTape \in Seq(Kept) /\ Len(UnreadTape) = Unread
      /\ \A k \in 1..Unread : UnreadTape[k] = buffer[Slot(tail + k - 1)]
  BY TapeType
<1>3. tail' = tail /\ buffer' = [buffer EXCEPT ![Slot(head)] = t]
      /\ DOMAIN buffer = 0..(Size - 1)
  BY DEF Store, TypeOK
<1>4. /\ UnreadTape' \in Seq(Kept) /\ Len(UnreadTape') = Unread + 1
      /\ \A k \in 1..(Unread + 1) : UnreadTape'[k] = buffer'[Slot(tail + k - 1)]
  <2>1. \A k \in 1..(Unread + 1) : buffer'[Slot(tail + k - 1)] \in Kept
    <3>. SUFFICES ASSUME NEW k \in 1..(Unread + 1)
                  PROVE  buffer'[Slot(tail + k - 1)] \in Kept
      OBVIOUS
    <3>1. tail + k - 1 \in Nat
      BY <1>1, <1>2
    <3>2. buffer' \in [0..(Size - 1) -> Kept]
      BY DEF TypeOK, Kept
    <3>. QED  BY <3>1, <3>2, SlotType
  <2>2. UnreadTape' = [k \in 1..(Unread + 1) |-> buffer'[Slot(tail + k - 1)]]
    BY <1>1, <1>3 DEF UnreadTape, Slot
  <2>. QED  BY <1>1, <2>1, <2>2
<1>5. \A k \in 1..Unread : buffer'[Slot(tail + k - 1)] = buffer[Slot(tail + k - 1)]
  <2>. SUFFICES ASSUME NEW k \in 1..Unread
                PROVE  buffer'[Slot(tail + k - 1)] = buffer[Slot(tail + k - 1)]
    OBVIOUS
  <2>1. /\ tail + k - 1 \in Nat /\ tail + Unread \in Nat
        /\ tail + k - 1 < tail + Unread /\ tail + Unread < tail + k - 1 + Size
    BY <1>1, <1>2
  <2>2. Slot(tail + k - 1) # Slot(head)
    BY <1>1, <1>2, <2>1, NearbyDiffer DEF Slot
  <2>3. Slot(tail + k - 1) \in DOMAIN buffer
    BY <1>3, <2>1, SlotType
  <2>. QED  BY <1>3, <2>2, <2>3
<1>6. buffer'[Slot(tail + (Unread + 1) - 1)] = t
  <2>1. tail + (Unread + 1) - 1 = tail + Unread /\ tail + Unread \in Nat
    BY <1>1, <1>2
  <2>2. Slot(tail + Unread) \in 0..(Size - 1)
    BY <2>1, SlotType
  <2>. QED  BY <1>1, <1>3, <2>1, <2>2
<1>7. /\ Append(UnreadTape, t) \in Seq(Kept)
      /\ Len(Append(UnreadTape, t)) = Unread + 1
      /\ \A k \in 1..Unread : Append(UnreadTape, t)[k] = UnreadTape[k]
      /\ Append(UnreadTape, t)[Unread + 1] = t
  <2>1. PICK q \in Seq(Kept) : q = UnreadTape
    BY <1>2
  <2>2. Len(q) = Unread /\ Len(q) \in Nat /\ t \in Kept
    BY <1>1, <1>2, <2>1 DEF Kept
  <2>3. /\ Append(q, t) \in Seq(Kept) /\ Len(Append(q, t)) = Len(q) + 1
        /\ \A k \in 1..Len(q) : Append(q, t)[k] = q[k]
        /\ Append(q, t)[Len(q) + 1] = t
    BY <2>2
  <2>. QED  BY <2>1, <2>2, <2>3
<1>8. \A k \in 1..(Unread + 1) : UnreadTape'[k] = Append(UnreadTape, t)[k]
  <2>. SUFFICES ASSUME NEW k \in 1..(Unread + 1)
                PROVE  UnreadTape'[k] = Append(UnreadTape, t)[k]
    OBVIOUS
  <2>1. CASE k = Unread + 1
    BY <1>1, <1>4, <1>6, <1>7, <2>1
  <2>2. CASE k # Unread + 1
    <3>1. k \in 1..Unread
      BY <1>1, <2>2
    <3>. QED  BY <1>2, <1>4, <1>5, <1>7, <3>1
  <2>. QED  BY <2>1, <2>2
<1>. QED  BY <1>4, <1>7, <1>8, SeqEqual

\* pop() from a ring that is not empty answers the head of the tape, and leaves
\* its tail.
LEMMA ConsumeTakesHead ==
    ASSUME TypeOK, TypeOK', Consume
    PROVE  /\ UnreadTape # <<>> /\ Head(UnreadTape) = buffer[Slot(tail)]
           /\ UnreadTape' = Tail(UnreadTape)
<1>1. /\ Unread \in Nat \ {0} /\ Unread' = Unread - 1
      /\ \A k \in Nat : Slot(tail' + k) = Slot(tail + 1 + k)
  BY ConsumeFacts
<1>2. /\ tail \in Nat
      /\ UnreadTape \in Seq(Kept) /\ Len(UnreadTape) = Unread
      /\ \A k \in 1..Unread : UnreadTape[k] = buffer[Slot(tail + k - 1)]
  BY TapeType
<1>3. /\ tail' \in Nat
      /\ UnreadTape' \in Seq(Kept) /\ Len(UnreadTape') = Unread - 1
      /\ \A k \in 1..(Unread - 1) : UnreadTape'[k] = buffer'[Slot(tail' + k - 1)]
  <2>1. UnreadTape' = [k \in 1..(Unread - 1) |-> buffer'[Slot(tail' + k - 1)]]
    BY <1>1 DEF UnreadTape, Slot
  <2>2. Unread \in Nat /\ Unread - 1 \in Nat /\ tail' \in Nat
    BY <1>1, ConsumeFacts, SizeFacts DEF Words
  <2>3. \A k \in 1..(Unread - 1) : buffer'[Slot(tail' + k - 1)] \in Kept
    <3>. SUFFICES ASSUME NEW k \in 1..(Unread - 1)
                  PROVE  buffer'[Slot(tail' + k - 1)] \in Kept
      OBVIOUS
    <3>1. tail' + k - 1 \in Nat
      <4>1. k - 1 \in Nat
        BY <2>2
      <4>2. \A u \in Nat : u + k - 1 \in Nat
        BY <4>1
      <4>. QED  BY <2>2, <4>2
    <3>2. buffer' \in [0..(Size - 1) -> Kept]
      BY DEF TypeOK, Kept
    <3>. QED  BY <3>1, <3>2, SlotType
  <2>. QED  BY <2>1, <2>2, <2>3
<1>4. UnreadTape # <<>> /\ Head(UnreadTape) = UnreadTape[1]
  BY <1>1, <1>2
<1>5. UnreadTape[1] = buffer[Slot(tail)]
  <2>1. tail + 1 - 1 = tail /\ 1 \in 1..Unread
    BY <1>1, <1>2
  <2>2. UnreadTape[1] = buffer[Slot(tail + 1 - 1)]
    BY <1>2, <2>1
  <2>. QED  BY <2>1, <2>2
<1>6. /\ Tail(UnreadTape) \in Seq(Kept) /\ Len(Tail(UnreadTape)) = Unread - 1
      /\ \A k \in 1..(Unread - 1) : Tail(UnreadTape)[k] = UnreadTape[k + 1]
  BY <1>1, <1>2, <1>4
<1>7. \A k \in 1..(Unread - 1) : UnreadTape'[k] = Tail(UnreadTape)[k]
  <2>. SUFFICES ASSUME NEW k \in 1..(Unread - 1)
                PROVE  UnreadTape'[k] = Tail(UnreadTape)[k]
    OBVIOUS
  <2>1. k - 1 \in Nat /\ k + 1 \in 1..Unread
    BY <1>1
  <2>2. /\ tail' + (k - 1) = tail' + k - 1
        /\ tail + 1 + (k - 1) = tail + (k + 1) - 1
    BY <1>2, <1>3, <2>1
  <2>3. Slot(tail' + k - 1) = Slot(tail + (k + 1) - 1)
    BY <1>1, <2>1, <2>2
  <2>4. UnreadTape'[k] = buffer[Slot(tail + (k + 1) - 1)]
    BY <1>3, <2>1, <2>3 DEF Consume
  <2>. QED  BY <1>2, <1>6, <2>1, <2>4
<1>. QED  BY <1>1, <1>3, <1>4, <1>5, <1>6, <1>7, SeqEqual

\* For every word size, capacity and set of trades, the buffer with its two
\* wrapping cursors is a bounded queue that counts what it refuses.
THEOREM RingImplementsTape == Spec => ImplementsTape
<1>1. Init => TypeOK /\ Tape!Init
  <2>. SUFFICES ASSUME Init  PROVE TypeOK /\ Tape!Init
    OBVIOUS
  <2>1. TypeOK
    BY InitType
  <2>2. Unread = 0
    <3>1. 0 \in Words
      BY SizeFacts DEF Words
    <3>. QED  BY <3>1, DistanceFacts DEF Init, Unread, Distance
  <2>3. UnreadTape = <<>>
    BY <2>1, <2>2, TapeType
  <2>. QED  BY <2>1, <2>3 DEF Init, Tape!Init, UnreadTape
<1>2. TypeOK /\ [Next]_vars =>
          TypeOK' /\ [Tape!Next]_<<UnreadTape, drop_count, out>>
  <2>. SUFFICES ASSUME TypeOK, [Next]_vars
                PROVE  TypeOK' /\ [Tape!Next]_<<UnreadTape, drop_count, out>>
    OBVIOUS
  <2>0. TypeOK'
    BY NextType
  <2>1. Unread \in Nat /\ Size \in Nat /\ Len(UnreadTape) = Unread /\ Unread <= Size
    BY TapeType DEF TypeOK
  <2>2. ASSUME NEW t \in Trades, Store(t), UNCHANGED out  PROVE Tape!Push(t)
    <3>1. Unread < Size /\ UnreadTape' = Append(UnreadTape, t) /\ drop_count' = drop_count
      BY <2>0, <2>2, StoreFacts, StoreAppends DEF Store
    <3>. QED  BY <2>1, <2>2, <3>1 DEF Tape!Push, UnreadTape
  <2>3. ASSUME NEW t \in Trades, Drop, UNCHANGED out  PROVE Tape!Push(t)
    <3>1. UnreadTape' = UnreadTape /\ drop_count' = drop_count + 1 /\ Unread = Size
      BY <2>3 DEF Drop, Full, UnreadTape, Unread, Slot
    <3>2. ~(Len(UnreadTape) < Size)
      BY <2>1, <3>1
    <3>. QED  BY <2>3, <3>1, <3>2, Zenon DEF Tape!Push, UnreadTape
  <2>4. ASSUME Consume, out' = buffer[Slot(tail)]  PROVE Tape!Pop
    <3>1. /\ UnreadTape # <<>> /\ Head(UnreadTape) = buffer[Slot(tail)]
          /\ UnreadTape' = Tail(UnreadTape) /\ drop_count' = drop_count
      BY <2>0, <2>4, ConsumeTakesHead DEF Consume
    <3>. QED  BY <2>4, <3>1 DEF Tape!Pop, UnreadTape
  <2>5. CASE head = tail /\ out' = NoTrade /\ UNCHANGED <<buffer, head, tail, drop_count>>
    <3>1. Unread = 0
      <4>1. head \in Words /\ tail \in Words
        BY DEF TypeOK, Words
      <4>. QED  BY <2>5, <4>1, DistanceFacts DEF Unread, Distance
    <3>2. UnreadTape = <<>> /\ UnreadTape' = UnreadTape
      <4>1. UnreadTape = <<>>
        BY <3>1, TapeType
      <4>. QED  BY <2>5, <4>1 DEF UnreadTape, Unread, Slot
    <3>3. drop_count' = drop_count /\ out' = NoTrade
      BY <2>5
    <3>. QED  BY <2>0, <3>2, <3>3, Zenon DEF Tape!Next, Tape!Pop, UnreadTape
  <2>6. CASE UNCHANGED vars
    BY <2>0, <2>6 DEF UnreadTape, Unread, Slot, vars
  <2>. QED  BY <2>0, <2>2, <2>3, <2>4, <2>5, <2>6
            DEF Next, Push, Record, Pop, Tape!Next
<1>. QED  BY <1>1, <1>2, PTL DEF Spec, ImplementsTape, Tape!Spec, UnreadTape
=============================================================================
