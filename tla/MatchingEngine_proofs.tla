------------------------ MODULE MatchingEngine_proofs ------------------------
(***************************************************************************)
(* Proofs that the matching engine keeps its books for every set of ids,   *)
(* owners and prices, every quantity bound and every ring capacity.        *)
(***************************************************************************)
EXTENDS MatchingEngine, Foundations, TLAPS

-----------------------------------------------------------------------------
(***************************************************************************)
(* Queues that lose an order                                               *)
(***************************************************************************)

\* q2 is the queue q after some orders left it or were partly filled: those
\* that stay are in the order they were.
Thinned(q2, q) ==
    \E f \in [1..Len(q2) -> 1..Len(q)] :
        /\ \A i, j \in 1..Len(q2) : i < j => f[i] < f[j]
        /\ \A i \in 1..Len(q2) : q2[i].id = q[f[i]].id

Queues == Seq(RestingOrder)
Books == [Sides -> [Prices -> Queues]]

\* The parts of NotCrossed and LiveIdsUnique that speak of the book alone.
Uncrossed(b) ==
    \A x, y \in Prices : b["Buy"][x] # <<>> /\ b["Sell"][y] # <<>> => x < y

Unique(b) ==
    \A s, t \in Sides, p, q \in Prices :
        \A i \in DOMAIN b[s][p], j \in DOMAIN b[t][q] :
            b[s][p][i].id = b[t][q][j].id => s = t /\ p = q /\ i = j

LEMMA RemoveAtThins ==
    ASSUME NEW q \in Queues, NEW i \in 1..Len(q)
    PROVE  RemoveAt(q, i) \in Queues /\ Thinned(RemoveAt(q, i), q)
<1>. DEFINE r == RemoveAt(q, i)
            f == [j \in 1..Len(r) |-> IF j < i THEN j ELSE j + 1]
<1>1. /\ r \in Queues /\ Len(r) = Len(q) - 1 /\ Len(q) \in Nat
      /\ \A j \in 1..(Len(q) - 1) : r[j] = IF j < i THEN q[j] ELSE q[j + 1]
  BY RemoveAtFacts DEF Queues
<1>2. f \in [1..Len(r) -> 1..Len(q)]
  BY <1>1
<1>3. \A j, k \in 1..Len(r) : j < k => f[j] < f[k]
  BY <1>1
<1>4. \A j \in 1..Len(r) : r[j].id = q[f[j]].id
  BY <1>1
<1>. QED  BY <1>1, <1>2, <1>3, <1>4 DEF Thinned

LEMMA TailThins ==
    ASSUME NEW q \in Queues, q # <<>>
    PROVE  Tail(q) \in Queues /\ Thinned(Tail(q), q)
<1>. DEFINE f == [j \in 1..Len(Tail(q)) |-> j + 1]
<1>1. /\ Tail(q) \in Queues /\ Len(Tail(q)) = Len(q) - 1 /\ Len(q) \in Nat
      /\ \A j \in 1..(Len(q) - 1) : Tail(q)[j] = q[j + 1]
  BY DEF Queues
<1>2. f \in [1..Len(Tail(q)) -> 1..Len(q)]
  BY <1>1
<1>3. \A j, k \in 1..Len(Tail(q)) : j < k => f[j] < f[k]
  BY <1>1
<1>4. \A j \in 1..Len(Tail(q)) : Tail(q)[j].id = q[f[j]].id
  BY <1>1
<1>. QED  BY <1>1, <1>2, <1>3, <1>4 DEF Thinned

\* Whoever is ahead in what stays was ahead before.
LEMMA ThinnedKeepsOrder ==
    ASSUME NEW q \in Queues, NEW r \in Queues, Thinned(r, q),
           NEW a, NEW b, Ahead(r, a, b)
    PROVE  Ahead(q, a, b)
<1>1. PICK f \in [1..Len(r) -> 1..Len(q)] :
          /\ \A i, j \in 1..Len(r) : i < j => f[i] < f[j]
          /\ \A i \in 1..Len(r) : r[i].id = q[f[i]].id
  BY DEF Thinned
<1>2. DOMAIN r = 1..Len(r) /\ DOMAIN q = 1..Len(q)
  BY DEF Queues
<1>3. PICK i \in 1..Len(r), j \in 1..Len(r) :
          i < j /\ r[i].id = a /\ r[j].id = b
  BY <1>2 DEF Ahead
<1>4. /\ f[i] \in DOMAIN q /\ f[j] \in DOMAIN q /\ f[i] < f[j]
      /\ q[f[i]].id = a /\ q[f[j]].id = b
  BY <1>1, <1>2, <1>3
<1>. QED  BY <1>4 DEF Ahead

LEMMA UnchangedIsThinned ==
    ASSUME NEW q \in Queues
    PROVE  Thinned(q, q)
<1>. DEFINE f == [i \in 1..Len(q) |-> i]
<1>1. f \in [1..Len(q) -> 1..Len(q)]
  OBVIOUS
<1>2. \A i, j \in 1..Len(q) : i < j => f[i] < f[j]
  OBVIOUS
<1>3. \A i \in 1..Len(q) : q[i].id = q[f[i]].id
  OBVIOUS
<1>. QED  BY <1>1, <1>2, <1>3 DEF Thinned

\* An order that joins a queue joins behind everybody.
LEMMA AppendKeepsOrder ==
    ASSUME NEW q \in Queues, NEW o \in RestingOrder, NEW a, NEW b,
           Ahead(Append(q, o), a, b), b # o.id
    PROVE  Ahead(q, a, b)
<1>. DEFINE r == Append(q, o)
<1>1. /\ DOMAIN q = 1..Len(q) /\ Len(q) \in Nat /\ DOMAIN r = 1..(Len(q) + 1)
      /\ r[Len(q) + 1] = o /\ \A i \in 1..Len(q) : r[i] = q[i]
  BY DEF Queues
<1>2. PICK i \in DOMAIN r, j \in DOMAIN r : i < j /\ r[i].id = a /\ r[j].id = b
  BY DEF Ahead
<1>. HIDE DEF r
<1>3. j \in 1..Len(q)
  BY <1>1, <1>2
<1>4. i \in 1..Len(q)
  BY <1>1, <1>2, <1>3
<1>. QED  BY <1>1, <1>2, <1>3, <1>4 DEF Ahead

\* A fill leaves a queue of well-formed orders: the head either goes, or keeps
\* its place with what it has left.
LEMMA HeadFilledThins ==
    ASSUME NEW q \in Queues, q # <<>>, NEW n \in 1..MaxQty, n <= q[1].qty
    PROVE  HeadFilled(q, n) \in Queues /\ Thinned(HeadFilled(q, n), q)
<1>1. CASE q[1].qty = n
  BY <1>1, TailThins DEF HeadFilled
<1>2. CASE q[1].qty # n
  <2>. DEFINE r == [q EXCEPT ![1].qty = @ - n]
              f == [j \in 1..Len(r) |-> j]
  <2>0. HeadFilled(q, n) = r
    BY <1>2 DEF HeadFilled
  <2>1. q[1] \in RestingOrder /\ Len(q) \in Nat /\ 1 \in DOMAIN q /\ DOMAIN q = 1..Len(q)
    BY DEF Queues
  <2>2. [q[1] EXCEPT !.qty = @ - n] \in RestingOrder
    BY <1>2, <2>1, BoundsAssumption DEF RestingOrder
  <2>3. /\ r \in Queues /\ Len(r) = Len(q)
        /\ \A j \in 1..Len(q) : r[j].id = q[j].id
    BY <2>1, <2>2 DEF Queues, RestingOrder
  <2>4. f \in [1..Len(r) -> 1..Len(q)]
    BY <2>1, <2>3
  <2>5. \A j, k \in 1..Len(r) : j < k => f[j] < f[k]
    OBVIOUS
  <2>6. \A j \in 1..Len(r) : r[j].id = q[f[j]].id
    BY <2>1, <2>3
  <2>7. Thinned(r, q)
    <3>. HIDE DEF r
    <3>. QED  BY <2>4, <2>5, <2>6 DEF Thinned
  <2>. QED  BY <2>0, <2>3, <2>7
<1>. QED  BY <1>1, <1>2
-----------------------------------------------------------------------------
(***************************************************************************)
(* Books that change at one price                                          *)
(***************************************************************************)

\* The book b with the queue at one price replaced.
Replaced(b, s, p, q) == [b EXCEPT ![s][p] = q]

\* Taking orders out of a queue can neither cross the book nor make an id live
\* or rest twice.
LEMMA ThinningKeeps ==
    ASSUME NEW b \in Books, NEW s \in Sides, NEW p \in Prices,
           NEW q \in Queues, Thinned(q, b[s][p]),
           NEW c, c = Replaced(b, s, p, q)
    PROVE  /\ c \in Books
           /\ Uncrossed(b) => Uncrossed(c)
           /\ Unique(b) => Unique(c)
           /\ \A id \in Ids : Live(c, id) => Live(b, id)
<1>0. c = [b EXCEPT ![s][p] = q]
  BY DEF Replaced
<1>1. c \in Books
  BY <1>0 DEF Books
<1>2. PICK f \in [1..Len(q) -> 1..Len(b[s][p])] :
          /\ \A i, j \in 1..Len(q) : f[i] = f[j] => i = j
          /\ \A i \in 1..Len(q) : q[i].id = b[s][p][f[i]].id
  <2>1. PICK f \in [1..Len(q) -> 1..Len(b[s][p])] :
            /\ \A i, j \in 1..Len(q) : i < j => f[i] < f[j]
            /\ \A i \in 1..Len(q) : q[i].id = b[s][p][f[i]].id
    BY DEF Thinned
  <2>2. \A i, j \in 1..Len(q) : f[i] = f[j] => i = j
    <3>. SUFFICES ASSUME NEW i \in 1..Len(q), NEW j \in 1..Len(q), i # j
                  PROVE  f[i] # f[j]
      OBVIOUS
    <3>1. f[i] \in Int /\ f[j] \in Int /\ i \in Int /\ j \in Int
      OBVIOUS
    <3>. QED  BY <2>1, <3>1
  <2>. QED  BY <2>1, <2>2
<1>3. /\ c[s][p] = q
      /\ \A t \in Sides, r \in Prices : ~(t = s /\ r = p) => c[t][r] = b[t][r]
  BY <1>0 DEF Books
<1>4. \A t \in Sides, r \in Prices : /\ DOMAIN c[t][r] = 1..Len(c[t][r])
                                     /\ DOMAIN b[t][r] = 1..Len(b[t][r])
                                     /\ Len(c[t][r]) \in Nat
                                     /\ Len(b[t][r]) \in Nat
  BY <1>1 DEF Books, Queues
\* Every order of c was already in b, two different ones at different places.
<1>5. \A t \in Sides, r \in Prices : \A i \in DOMAIN c[t][r] :
          \E k \in DOMAIN b[t][r] :
              /\ c[t][r][i].id = b[t][r][k].id
              /\ k = IF t = s /\ r = p THEN f[i] ELSE i
  BY <1>2, <1>3, <1>4
<1>6. \A t \in Sides, r \in Prices : c[t][r] # <<>> => b[t][r] # <<>>
  <2>. SUFFICES ASSUME NEW t \in Sides, NEW r \in Prices, c[t][r] # <<>>
                PROVE  b[t][r] # <<>>
    OBVIOUS
  <2>1. 1 \in DOMAIN c[t][r]
    BY <1>1, <1>4 DEF Books, Queues
  <2>2. DOMAIN b[t][r] # {}
    BY <1>5, <2>1
  <2>. QED  BY <2>2, <1>4
<1>7. Uncrossed(b) => Uncrossed(c)
  BY <1>6 DEF Uncrossed, Sides
<1>8. Unique(b) => Unique(c)
  <2>. SUFFICES ASSUME Unique(b),
                       NEW t \in Sides, NEW u \in Sides,
                       NEW x \in Prices, NEW y \in Prices,
                       NEW i \in DOMAIN c[t][x], NEW j \in DOMAIN c[u][y],
                       c[t][x][i].id = c[u][y][j].id
                PROVE  t = u /\ x = y /\ i = j
    BY DEF Unique
  <2>1. PICK k \in DOMAIN b[t][x] :
            /\ c[t][x][i].id = b[t][x][k].id
            /\ k = IF t = s /\ x = p THEN f[i] ELSE i
    BY <1>5
  <2>2. PICK l \in DOMAIN b[u][y] :
            /\ c[u][y][j].id = b[u][y][l].id
            /\ l = IF u = s /\ y = p THEN f[j] ELSE j
    BY <1>5
  <2>3. t = u /\ x = y /\ k = l
    <3>1. b[t][x][k].id = b[u][y][l].id
      BY <2>1, <2>2
    <3>. QED  BY <3>1 DEF Unique
  <2>4. CASE t = s /\ x = p
    <3>1. f[i] = f[j]
      BY <2>1, <2>2, <2>3, <2>4
    <3>2. i \in 1..Len(q) /\ j \in 1..Len(q)
      BY <1>3, <1>4, <2>3, <2>4
    <3>. QED  BY <3>1, <3>2, <2>3, <1>2
  <2>5. CASE ~(t = s /\ x = p)
    BY <2>1, <2>2, <2>3, <2>5
  <2>. QED  BY <2>4, <2>5
<1>9. \A id \in Ids : Live(c, id) => Live(b, id)
  <2>. SUFFICES ASSUME NEW id \in Ids, NEW t \in Sides, NEW r \in Prices,
                       NEW i \in DOMAIN c[t][r], c[t][r][i].id = id
                PROVE  \E k \in DOMAIN b[t][r] : b[t][r][k].id = id
    BY DEF Live
  <2>1. PICK k \in DOMAIN b[t][r] : c[t][r][i].id = b[t][r][k].id
    BY <1>5
  <2>. QED  BY <2>1
<1>. QED  BY <1>1, <1>7, <1>8, <1>9

\* An order joins the back of a queue: ids stay unique if its id was not live.
LEMMA AppendKeeps ==
    ASSUME NEW b \in Books, NEW s \in Sides, NEW p \in Prices,
           NEW o \in RestingOrder,
           NEW c, c = Replaced(b, s, p, Append(b[s][p], o))
    PROVE  /\ c \in Books
           /\ Unique(b) /\ ~Live(b, o.id) => Unique(c)
           /\ Live(c, o.id)
           /\ \A t \in Sides, r \in Prices : ~(t = s /\ r = p) => c[t][r] = b[t][r]
           /\ c[s][p] # <<>> /\ c[s][p][Len(c[s][p])] = o
<1>. DEFINE q == b[s][p]
            longer == Append(q, o)
<1>1. q \in Queues /\ DOMAIN q = 1..Len(q) /\ Len(q) \in Nat
  BY DEF Books, Queues
<1>0. c = [b EXCEPT ![s][p] = longer]
  BY DEF Replaced
<1>2. /\ c[s][p] = longer
      /\ \A t \in Sides, r \in Prices : ~(t = s /\ r = p) => c[t][r] = b[t][r]
  BY <1>0 DEF Books
<1>3. /\ longer \in Queues /\ Len(longer) = Len(q) + 1
      /\ DOMAIN longer = 1..(Len(q) + 1)
      /\ longer[Len(q) + 1] = o
      /\ \A k \in 1..Len(q) : longer[k] = q[k]
  BY <1>1 DEF Queues
<1>. HIDE DEF longer
<1>4. c \in Books
  BY <1>0, <1>3 DEF Books
<1>5. c[s][p] # <<>> /\ c[s][p][Len(c[s][p])] = o
  BY <1>1, <1>2, <1>3
<1>. HIDE DEF q
<1>6. Live(c, o.id)
  <2>1. Len(q) + 1 \in DOMAIN c[s][p] /\ c[s][p][Len(q) + 1].id = o.id
    BY <1>1, <1>2, <1>3
  <2>. QED  BY <2>1 DEF Live
\* A place of c is a place of b, or the new one.
<1>7. \A t \in Sides, r \in Prices : \A k \in DOMAIN c[t][r] :
          \/ k \in DOMAIN b[t][r] /\ c[t][r][k] = b[t][r][k]
          \/ t = s /\ r = p /\ k = Len(q) + 1 /\ c[t][r][k] = o
  <2>. SUFFICES ASSUME NEW t \in Sides, NEW r \in Prices, NEW k \in DOMAIN c[t][r]
                PROVE  \/ k \in DOMAIN b[t][r] /\ c[t][r][k] = b[t][r][k]
                       \/ t = s /\ r = p /\ k = Len(q) + 1 /\ c[t][r][k] = o
    OBVIOUS
  <2>1. CASE t = s /\ r = p
    <3>1. k \in 1..(Len(q) + 1) /\ c[t][r] = longer
      BY <1>2, <1>3, <2>1
    <3>2. k \in 1..Len(q) \/ k = Len(q) + 1
      BY <1>1, <3>1
    <3>3. b[t][r] = q
      BY <2>1 DEF q
    <3>. QED  BY <1>1, <1>3, <2>1, <3>1, <3>2, <3>3
  <2>2. CASE ~(t = s /\ r = p)
    BY <1>2, <2>2
  <2>. QED  BY <2>1, <2>2
<1>8. ASSUME Unique(b), ~Live(b, o.id)  PROVE Unique(c)
  <2>. SUFFICES ASSUME NEW t \in Sides, NEW u \in Sides,
                       NEW x \in Prices, NEW y \in Prices,
                       NEW i \in DOMAIN c[t][x], NEW j \in DOMAIN c[u][y],
                       c[t][x][i].id = c[u][y][j].id
                PROVE  t = u /\ x = y /\ i = j
    BY DEF Unique
  <2>1. \A v \in Sides, z \in Prices : \A k \in DOMAIN b[v][z] : b[v][z][k].id # o.id
    BY <1>8 DEF Live
  <2>2. CASE /\ i \in DOMAIN b[t][x] /\ c[t][x][i] = b[t][x][i]
             /\ j \in DOMAIN b[u][y] /\ c[u][y][j] = b[u][y][j]
    BY <1>8, <2>2 DEF Unique
  <2>3. CASE /\ t = s /\ x = p /\ i = Len(q) + 1 /\ c[t][x][i] = o
             /\ u = s /\ y = p /\ j = Len(q) + 1
    BY <2>3
  <2>4. CASE /\ i \in DOMAIN b[t][x] /\ c[t][x][i] = b[t][x][i]
             /\ c[u][y][j] = o
    BY <2>1, <2>4
  <2>5. CASE /\ j \in DOMAIN b[u][y] /\ c[u][y][j] = b[u][y][j]
             /\ c[t][x][i] = o
    BY <2>1, <2>5
  <2>. QED  BY <1>7, <2>2, <2>3, <2>4, <2>5
<1>. QED  BY <1>2, <1>4, <1>5, <1>6, <1>8

-----------------------------------------------------------------------------
(***************************************************************************)
(* The best price                                                          *)
(***************************************************************************)

LEMMA PriceType == \A p \in Prices : p \in Nat
BY PricesAssumption

\* An occupied side has a best price: prices are bounded naturals.
LEMMA BestExists ==
    ASSUME NEW side \in Sides, NEW r \in Prices, book[side][r] # <<>>
    PROVE  \E p \in Prices : IsBest(side, p) /\ ~Better(side, r, p)
<1>. DEFINE T == {p \in Prices : book[side][p] # <<>>}
<1>1. T \subseteq 0..MaxPrice /\ T \subseteq Nat /\ T # {} /\ MaxPrice \in Nat
  BY PricesAssumption, PriceType
<1>2. CASE side = "Buy"
  <2>1. PICK p \in T : \A q \in T : q <= p
    <3>. HIDE DEF T
    <3>. QED  BY <1>1, LargestExists
  <2>2. \A q \in T : ~(q > p)
    BY <1>1, <2>1
  <2>. QED  BY <1>2, <2>2 DEF IsBest, Better
<1>3. CASE side = "Sell"
  <2>1. PICK p \in T : \A q \in T : p <= q
    <3>. HIDE DEF T
    <3>. QED  BY <1>1, SmallestExists
  <2>2. \A q \in T : ~(q < p)
    BY <1>1, <2>1
  <2>. QED  BY <1>3, <2>2 DEF IsBest, Better
<1>. QED  BY <1>2, <1>3 DEF Sides

\* match() looks at the best far level only, and stops when that does not
\* cross. Then no far level crosses.
LEMMA BestDecides ==
    ASSUME incoming \in Calls, ~\E p \in Prices : Reaches(p)
    PROVE  \A p \in Prices : book[Far][p] # <<>> => ~Crosses(p)
<1>. SUFFICES ASSUME NEW r \in Prices, book[Far][r] # <<>>, Crosses(r)
              PROVE  FALSE
  OBVIOUS
<1>1. Far \in Sides
  BY DEF Far, Opposite, Sides
<1>2. PICK p \in Prices : IsBest(Far, p) /\ ~Better(Far, r, p)
  BY <1>1, BestExists
<1>3. /\ r \in Nat /\ p \in Nat
      /\ incoming.limit # NoLimit => incoming.limit \in Nat
      /\ incoming.side \in Sides
  BY PriceType DEF Calls, Limits
<1>4. Crosses(p)
  BY <1>2, <1>3 DEF Crosses, Better, Far, Opposite, Sides
<1>. QED  BY <1>2, <1>4 DEF Reaches
-----------------------------------------------------------------------------
(***************************************************************************)
(* The inductive invariant                                                 *)
(***************************************************************************)

\* What holds inside a call, and makes the report come out right: the taker's
\* quantity is either filled or still in hand, and a halted taker stands in
\* front of an order of its own.
InFlight ==
    pc = "match" =>
        /\ rep.filled + incoming.qty = incoming.asked
        /\ ~rep.rested
        /\ rep.stp_halted => policy = "CancelIncoming" /\ FacesItself

IInv == /\ TypeOK
        /\ NotCrossed
        /\ LiveIdsUnique
        /\ InFlight
        /\ ReportTellsTheTruth
        /\ LeftoverExplained
        /\ GapsAreDrops

\* The book half of the invariant, on any book.
GoodBook(b) == b \in Books /\ Uncrossed(b) /\ Unique(b)

LEMMA ThinnedIsGood ==
    ASSUME NEW b, GoodBook(b), NEW s \in Sides, NEW p \in Prices,
           NEW q \in Queues, Thinned(q, b[s][p]),
           NEW c, c = Replaced(b, s, p, q)
    PROVE  GoodBook(c) /\ \A id \in Ids : Live(c, id) => Live(b, id)
BY ThinningKeeps DEF GoodBook

LEMMA BookOfInv == IInv => GoodBook(book)
BY DEF IInv, GoodBook, TypeOK, NotCrossed, LiveIdsUnique, Books, Queues,
       Uncrossed, Unique

\* Outside a matching loop only the book and the tape matter.
LEMMA QuietStep ==
    ASSUME IInv, GoodBook(book'), policy' = policy, pc' \in {"idle", "done"},
           incoming' = NoCall, rep' \in ExecReport,
           next_seq' = next_seq,
           ring' \in Seq(Trade), drop_count' = drop_count, GapsAreDrops'
    PROVE  IInv'
<1>1. TypeOK'
  BY DEF IInv, TypeOK, GoodBook, Books, Queues
<1>2. NotCrossed' /\ LiveIdsUnique'
  BY DEF GoodBook, NotCrossed, LiveIdsUnique, Uncrossed, Unique
<1>3. InFlight' /\ ReportTellsTheTruth' /\ LeftoverExplained'
  BY DEF InFlight, ReportTellsTheTruth, LeftoverExplained, Submitted
<1>. QED  BY <1>1, <1>2, <1>3 DEF IInv

LEMMA EmptyReportType == EmptyReport \in ExecReport
BY DEF EmptyReport, ExecReport

LEMMA RejectionType == \A qty \in Nat : Rejection(qty) \in ExecReport
<1>. SUFFICES ASSUME NEW qty \in Nat  PROVE Rejection(qty) \in ExecReport
  OBVIOUS
<1>1. Rejection(qty) =
        [first_seq |-> 0, trade_count |-> 0, filled |-> 0, remaining |-> qty,
         stp_cancelled |-> 0, rested |-> FALSE, accepted |-> FALSE,
         stp_halted |-> FALSE]
  <2>1. Rejection(qty) = [[EmptyReport EXCEPT !.accepted = FALSE]
                              EXCEPT !.remaining = qty]
    BY DEF Rejection
  <2>. QED  BY <2>1 DEF EmptyReport
<1>. QED  BY <1>1 DEF ExecReport

LEMMA ReportHalted ==
    ASSUME NEW r \in ExecReport
    PROVE  LET f == [r EXCEPT !.stp_halted = TRUE]
           IN  f \in ExecReport /\ f.filled = r.filled /\ f.rested = r.rested
BY DEF ExecReport

LEMMA InitInv == Init => IInv
<1>. SUFFICES ASSUME Init  PROVE IInv
  OBVIOUS
<1>1. TypeOK
  BY EmptyReportType DEF Init, TypeOK
<1>2. \A s \in Sides, p \in Prices : book[s][p] = <<>> /\ DOMAIN book[s][p] = {}
  BY DEF Init
<1>3. NotCrossed /\ LiveIdsUnique
  BY <1>2 DEF Init, NotCrossed, LiveIdsUnique, Sides
<1>. QED
  BY <1>1, <1>3 DEF Init, IInv, InFlight, ReportTellsTheTruth,
                    LeftoverExplained, Submitted, GapsAreDrops

LEMMA AnswerKeeps ==
    ASSUME IInv, NEW b, GoodBook(b), NEW r \in ExecReport, Answer(b, r)
    PROVE  IInv'
<1>1. /\ GoodBook(book') /\ pc' \in {"idle", "done"} /\ incoming' = NoCall
      /\ rep' \in ExecReport /\ ring' \in Seq(Trade)
  BY DEF Answer, IInv, TypeOK
<1>2. GapsAreDrops'
  BY DEF Answer, IInv, GapsAreDrops
<1>. QED  BY <1>1, <1>2, QuietStep DEF Answer

LEMMA SubmitKeeps ==
    ASSUME IInv, NEW b, GoodBook(b), NEW id \in Ids, NEW owner \in Owners,
           NEW side \in Sides, NEW limit \in Limits, NEW qty \in 0..MaxQty,
           Submit(b, id, owner, side, limit, qty)
    PROVE  IInv'
<1>1. CASE (qty = 0 \/ Live(b, id)) /\ Answer(b, Rejection(qty))
  <2>1. Rejection(qty) \in ExecReport
    <3>1. qty \in Nat
      BY BoundsAssumption
    <3>. QED  BY <3>1, RejectionType
  <2>. QED  BY <1>1, <2>1, AnswerKeeps
<1>2. CASE ~(qty = 0 \/ Live(b, id))
  <2>. DEFINE o == [id |-> id, owner |-> owner, side |-> side,
                    limit |-> limit, asked |-> qty, qty |-> qty]
  <2>1. /\ book' = b /\ pc' = "match" /\ incoming' = o /\ rep' = EmptyReport
        /\ policy' = policy /\ next_seq' = next_seq /\ ring' = ring
        /\ drop_count' = drop_count
    BY <1>2 DEF Submit
  <2>2. o \in Calls
    BY DEF Calls
  <2>3. TypeOK'
    BY <2>1, <2>2, EmptyReportType DEF IInv, TypeOK, GoodBook, Books, Queues
  <2>4. NotCrossed' /\ LiveIdsUnique'
    BY <1>2, <2>1 DEF GoodBook, NotCrossed, LiveIdsUnique, Uncrossed, Unique
  <2>5. InFlight'
    BY <2>1, BoundsAssumption DEF InFlight, EmptyReport
  <2>6. ReportTellsTheTruth' /\ LeftoverExplained'
    BY <2>1 DEF ReportTellsTheTruth, LeftoverExplained, Submitted
  <2>7. GapsAreDrops'
    BY <2>1 DEF IInv, GapsAreDrops
  <2>. QED  BY <2>3, <2>4, <2>5, <2>6, <2>7 DEF IInv
<1>. QED  BY <1>1, <1>2 DEF Submit

\* Taking an order out of the book leaves a good book.
LEMMA RemovalIsGood ==
    ASSUME IInv, NEW s \in Sides, NEW p \in Prices, NEW i \in DOMAIN book[s][p]
    PROVE  GoodBook(Removed(s, p, i))
<1>. DEFINE q == RemoveAt(book[s][p], i)
<1>1. GoodBook(book)
  BY BookOfInv
<1>2. book[s][p] \in Queues /\ i \in 1..Len(book[s][p])
  BY <1>1 DEF GoodBook, Books, Queues
<1>3. q \in Queues /\ Thinned(q, book[s][p])
  BY <1>2, RemoveAtThins
<1>4. Removed(s, p, i) = Replaced(book, s, p, q)
  BY DEF Removed, Replaced
<1>. HIDE DEF q
<1>. QED  BY <1>1, <1>3, <1>4, ThinnedIsGood

LEMMA CancelKeeps ==
    ASSUME IInv, NEW id \in Ids, Cancel(id)
    PROVE  IInv'
<1>1. GoodBook(book')
  <2>1. GoodBook(book)
    BY BookOfInv
  <2>2. CASE UNCHANGED book
    BY <2>1, <2>2
  <2>3. CASE \E s \in Sides, p \in Prices : \E i \in DOMAIN book[s][p] :
                 book' = Removed(s, p, i)
    BY <2>3, RemovalIsGood
  <2>. QED  BY <2>2, <2>3 DEF Cancel
<1>2. /\ pc' \in {"idle", "done"} /\ incoming' = NoCall
      /\ rep' \in ExecReport /\ ring' \in Seq(Trade)
  BY DEF Cancel, IInv, TypeOK
<1>3. GapsAreDrops'
  BY DEF Cancel, IInv, GapsAreDrops
<1>. QED  BY <1>1, <1>2, <1>3, QuietStep DEF Cancel

LEMMA ModifyKeeps ==
    ASSUME IInv, NEW id \in Ids, NEW price \in Prices, NEW qty \in 0..MaxQty,
           Modify(id, price, qty)
    PROVE  IInv'
<1>1. CASE Answer(book, Rejection(qty))
  <2>1. qty \in Nat
    BY BoundsAssumption
  <2>. QED  BY <1>1, <2>1, RejectionType, AnswerKeeps, BookOfInv
<1>2. ASSUME NEW s \in Sides, NEW p \in Prices, NEW i \in DOMAIN book[s][p],
             \/ Answer(Removed(s, p, i), EmptyReport)
             \/ Submit(Removed(s, p, i), id, book[s][p][i].owner, s, price, qty)
      PROVE  IInv'
  <2>1. GoodBook(Removed(s, p, i))
    BY RemovalIsGood
  <2>2. book[s][p][i].owner \in Owners
    <3>1. book[s][p] \in Seq(RestingOrder)
      BY DEF IInv, TypeOK
    <3>2. book[s][p][i] \in RestingOrder
      BY <3>1
    <3>. QED  BY <3>2 DEF RestingOrder
  <2>3. price \in Limits
    BY DEF Limits
  <2>4. CASE Answer(Removed(s, p, i), EmptyReport)
    BY <2>1, <2>4, EmptyReportType, AnswerKeeps
  <2>5. CASE Submit(Removed(s, p, i), id, book[s][p][i].owner, s, price, qty)
    BY <2>1, <2>2, <2>3, <2>5, SubmitKeeps
  <2>. QED  BY <1>2, <2>4, <2>5
<1>. QED  BY <1>1, <1>2 DEF Modify

LEMMA ReturnKeeps == IInv /\ Return => IInv'
<1>. SUFFICES ASSUME IInv, Return  PROVE IInv'
  OBVIOUS
<1>1. /\ GoodBook(book') /\ pc' \in {"idle", "done"} /\ incoming' = NoCall
      /\ rep' \in ExecReport /\ ring' \in Seq(Trade)
  BY BookOfInv, EmptyReportType DEF Return, IInv, TypeOK
<1>2. GapsAreDrops'
  BY DEF Return, IInv, GapsAreDrops
<1>. QED  BY <1>1, <1>2, QuietStep DEF Return

LEMMA SeqNumbers ==
    ASSUME NEW r \in Seq(Trade)
    PROVE  \A i \in 1..Len(r) : r[i].seq \in Nat
<1>. SUFFICES ASSUME NEW i \in 1..Len(r)  PROVE r[i].seq \in Nat
  OBVIOUS
<1>1. r[i] \in Trade
  OBVIOUS
<1>. QED  BY <1>1 DEF Trade

\* Popping the oldest trade only widens the caller's view of what is missing.
LEMMA PopKeeps == IInv /\ Pop => IInv'
<1>. SUFFICES ASSUME IInv, Pop  PROVE IInv'
  OBVIOUS
<1>1. /\ ring \in Seq(Trade) /\ ring # <<>> /\ ring' = Tail(ring)
      /\ Len(ring) \in Nat /\ next_seq \in Nat /\ drop_count \in Nat
      /\ UNCHANGED <<next_seq, drop_count>>
  BY DEF IInv, TypeOK, Pop
<1>2. /\ ring' \in Seq(Trade) /\ Len(ring') = Len(ring) - 1
      /\ DOMAIN ring = 1..Len(ring) /\ DOMAIN ring' = 1..(Len(ring) - 1)
      /\ \A i \in 1..(Len(ring) - 1) : ring'[i] = ring[i + 1]
  <2>. DEFINE r == Tail(ring)
  <2>1. /\ r \in Seq(Trade) /\ Len(r) = Len(ring) - 1
        /\ \A i \in 1..Len(r) : r[i] = ring[i + 1]
    BY <1>1, HeadTailProperties, Zenon
  <2>2. DOMAIN ring = 1..Len(ring)
    BY <1>1
  <2>. HIDE DEF r
  <2>3. DOMAIN r = 1..Len(r)
    BY <2>1
  <2>4. ring' = r
    BY <1>1 DEF r
  <2>. QED  BY <2>1, <2>2, <2>3, <2>4
<1>3. \A i \in 1..Len(ring) : ring[i].seq \in Nat
  BY <1>1, SeqNumbers
<1>4. GapsAreDrops'
  <2>1. /\ \A i \in DOMAIN ring : ring[i].seq < next_seq
        /\ \A i, j \in DOMAIN ring : i < j => ring[i].seq < ring[j].seq
        /\ next_seq - ring[1].seq - Len(ring) <= drop_count
    BY <1>1 DEF IInv, GapsAreDrops
  <2>2. \A i \in DOMAIN ring' : ring'[i].seq < next_seq'
    BY <1>1, <1>2, <2>1
  <2>3. \A i, j \in DOMAIN ring' : i < j => ring'[i].seq < ring'[j].seq
    BY <1>1, <1>2, <2>1
  <2>4. ring' # <<>> => next_seq' - ring'[1].seq - Len(ring') <= drop_count'
    <3>. SUFFICES ASSUME ring' # <<>>
                  PROVE  next_seq - ring'[1].seq - Len(ring') <= drop_count
      BY <1>1
    <3>1. 2 \in 1..Len(ring) /\ 1 \in 1..(Len(ring) - 1)
      BY <1>1, <1>2
    <3>2. ring'[1] = ring[2] /\ ring[1].seq < ring[2].seq
      BY <1>2, <2>1, <3>1
    <3>. QED  BY <1>1, <1>2, <1>3, <2>1, <3>1, <3>2
  <2>. QED  BY <2>2, <2>3, <2>4 DEF GapsAreDrops
<1>5. /\ GoodBook(book') /\ pc' \in {"idle", "done"} /\ incoming' = NoCall
      /\ rep' \in ExecReport
  BY BookOfInv DEF Pop, IInv, TypeOK
<1>. QED  BY <1>2, <1>4, <1>5, QuietStep DEF Pop

-----------------------------------------------------------------------------
(***************************************************************************)
(* The steps of the matching loop                                          *)
(***************************************************************************)

\* What every step of the loop may assume of the level it works on.
LEMMA LevelFacts ==
    ASSUME IInv, Looping, NEW p \in Prices, Reaches(p)
    PROVE  /\ incoming \in Calls /\ Far \in Sides
           /\ book[Far][p] \in Queues /\ book[Far][p] # <<>>
           /\ Head(book[Far][p]) = book[Far][p][1]
           /\ Head(book[Far][p]) \in RestingOrder
           /\ incoming.qty \in 1..MaxQty
<1>1. incoming \in Calls /\ incoming.qty > 0
  BY DEF IInv, TypeOK, Looping
<1>2. incoming.qty \in 1..MaxQty
  BY <1>1, BoundsAssumption DEF Calls
<1>3. Far \in Sides
  BY DEF Far, Opposite, Sides
<1>4. book[Far][p] \in Queues /\ book[Far][p] # <<>>
  BY <1>3 DEF IInv, TypeOK, Queues, Reaches, IsBest
<1>. QED  BY <1>1, <1>2, <1>3, <1>4 DEF Queues

\* A step that thins the far level and stays in the loop.
LEMMA LoopStep ==
    ASSUME IInv, Looping, NEW p \in Prices, Reaches(p),
           NEW q \in Queues, Thinned(q, book[Far][p]),
           book' = [book EXCEPT ![Far][p] = q],
           policy' = policy, pc' = pc, incoming' \in Calls,
           incoming'.id = incoming.id, incoming'.asked = incoming.asked,
           rep' \in ExecReport, rep'.filled + incoming'.qty = incoming'.asked,
           rep'.rested = rep.rested, rep'.stp_halted = rep.stp_halted,
           next_seq' \in Nat \ {0}, ring' \in Seq(Trade), drop_count' \in Nat,
           GapsAreDrops'
    PROVE  IInv'
<1>1. GoodBook(book) /\ Far \in Sides /\ pc = "match" /\ incoming \in Calls
  BY BookOfInv, LevelFacts DEF Looping
<1>2. GoodBook(book') /\ \A id \in Ids : Live(book', id) => Live(book, id)
  <2>1. book' = Replaced(book, Far, p, q)
    BY DEF Replaced
  <2>. QED  BY <1>1, <2>1, ThinnedIsGood
<1>3. TypeOK'
  BY <1>1, <1>2 DEF IInv, TypeOK, GoodBook, Books, Queues
<1>4. NotCrossed'
  BY <1>2 DEF GoodBook, NotCrossed, Uncrossed
<1>5. LiveIdsUnique'
  <2>1. ~Live(book, incoming.id) /\ incoming.id \in Ids
    BY <1>1 DEF IInv, LiveIdsUnique, Calls
  <2>. QED  BY <1>2, <2>1 DEF GoodBook, LiveIdsUnique, Unique
<1>6. InFlight'
  BY <1>1 DEF IInv, InFlight, Looping
<1>7. ReportTellsTheTruth' /\ LeftoverExplained'
  BY <1>1 DEF ReportTellsTheTruth, LeftoverExplained, Submitted
<1>. QED  BY <1>3, <1>4, <1>5, <1>6, <1>7 DEF IInv

\* The tape stays gapless but for the counted drops when a trade is printed.
LEMMA PushKeeps ==
    ASSUME IInv, NEW t \in Trade, t.seq = next_seq, Push(t),
           next_seq' = next_seq + 1
    PROVE  /\ ring' \in Seq(Trade) /\ drop_count' \in Nat
           /\ next_seq' \in Nat \ {0} /\ GapsAreDrops'
<1>1. /\ ring \in Seq(Trade) /\ Len(ring) \in Nat /\ DOMAIN ring = 1..Len(ring)
      /\ next_seq \in Nat /\ next_seq > 0 /\ drop_count \in Nat
      /\ \A i \in 1..Len(ring) : ring[i].seq \in Nat
  BY SeqNumbers DEF IInv, TypeOK
<1>2. /\ \A i \in 1..Len(ring) : ring[i].seq < next_seq
      /\ \A i, j \in 1..Len(ring) : i < j => ring[i].seq < ring[j].seq
      /\ ring # <<>> => next_seq - ring[1].seq - Len(ring) <= drop_count
  BY <1>1 DEF IInv, GapsAreDrops
<1>3. CASE ring' = ring /\ drop_count' = drop_count + 1
  <2>1. \A i \in 1..Len(ring) : ring[i].seq < next_seq + 1
    BY <1>1, <1>2
  <2>2. ring # <<>> => next_seq + 1 - ring[1].seq - Len(ring) <= drop_count + 1
    <3>. SUFFICES ASSUME ring # <<>>
                  PROVE  next_seq + 1 - ring[1].seq - Len(ring) <= drop_count + 1
      OBVIOUS
    <3>1. ring[1].seq \in Nat
      BY <1>1
    <3>. QED  BY <1>1, <1>2, <3>1
  <2>3. GapsAreDrops'
    BY <1>1, <1>2, <1>3, <2>1, <2>2 DEF GapsAreDrops
  <2>. QED  BY <1>1, <1>3, <2>3
<1>4. CASE ring' = Append(ring, t) /\ drop_count' = drop_count
  <2>1. /\ ring' \in Seq(Trade) /\ Len(ring') = Len(ring) + 1
        /\ DOMAIN ring' = 1..(Len(ring) + 1)
        /\ ring'[Len(ring) + 1] = t
        /\ \A i \in 1..Len(ring) : ring'[i] = ring[i]
    BY <1>1, <1>4
  <2>2. \A i \in DOMAIN ring' : ring'[i].seq < next_seq'
    BY <1>1, <1>2, <2>1
  <2>3. \A i, j \in DOMAIN ring' : i < j => ring'[i].seq < ring'[j].seq
    <3>. SUFFICES ASSUME NEW i \in 1..(Len(ring) + 1), NEW j \in 1..(Len(ring) + 1),
                         i < j
                  PROVE  ring'[i].seq < ring'[j].seq
      BY <2>1
    <3>1. i \in 1..Len(ring) /\ ring'[i].seq = ring[i].seq
      BY <1>1, <2>1
    <3>2. CASE j = Len(ring) + 1
      BY <1>2, <2>1, <3>1, <3>2
    <3>3. CASE j # Len(ring) + 1
      <4>1. j \in 1..Len(ring)
        BY <1>1, <3>3
      <4>. QED  BY <1>2, <2>1, <3>1, <4>1
    <3>. QED  BY <3>2, <3>3
  <2>4. next_seq' - ring'[1].seq - Len(ring') <= drop_count'
    <3>1. CASE ring = <<>>
      BY <1>1, <1>4, <2>1, <3>1
    <3>2. CASE ring # <<>>
      <4>1. 1 \in 1..Len(ring) /\ ring'[1] = ring[1] /\ ring[1].seq \in Nat
        BY <1>1, <2>1, <3>2
      <4>. QED  BY <1>1, <1>2, <1>4, <2>1, <3>2, <4>1
    <3>. QED  BY <3>1, <3>2
  <2>. QED  BY <1>1, <1>4, <2>1, <2>2, <2>3, <2>4 DEF GapsAreDrops
<1>. QED  BY <1>3, <1>4 DEF Push

LEMMA FillKeeps ==
    ASSUME IInv, NEW p \in Prices, Fill(p)
    PROVE  IInv'
<1>. DEFINE q == book[Far][p]
            maker == Head(q)
            traded == IF incoming.qty < maker.qty THEN incoming.qty ELSE maker.qty
            t == [seq |-> next_seq, maker_id |-> maker.id,
                  taker_id |-> incoming.id, price |-> p, qty |-> traded,
                  taker_side |-> incoming.side]
<1>1. /\ Looping /\ Reaches(p)
      /\ book' = [book EXCEPT ![Far][p] = HeadFilled(@, traded)]
      /\ incoming' = [incoming EXCEPT !.qty = @ - traded]
      /\ Push(t) /\ next_seq' = next_seq + 1
      /\ rep' = [rep EXCEPT
                   !.first_seq = FirstSeq,
                   !.trade_count = @ + 1, !.filled = @ + traded]
      /\ policy' = policy /\ pc' = pc
  BY DEF Fill
<1>2. /\ incoming \in Calls /\ q \in Queues /\ q # <<>> /\ maker = q[1]
      /\ maker \in RestingOrder /\ incoming.qty \in 1..MaxQty
  BY <1>1, LevelFacts
<1>3. traded \in 1..MaxQty /\ traded <= maker.qty /\ traded <= incoming.qty
  BY <1>2, BoundsAssumption DEF RestingOrder
<1>4. t \in Trade
  BY <1>2, <1>3 DEF IInv, TypeOK, Trade, Calls, RestingOrder
<1>5. /\ ring' \in Seq(Trade) /\ drop_count' \in Nat
      /\ next_seq' \in Nat \ {0} /\ GapsAreDrops'
  <2>1. t.seq = next_seq
    OBVIOUS
  <2>. HIDE DEF t
  <2>. QED  BY <1>1, <1>4, <2>1, PushKeeps
<1>6. HeadFilled(q, traded) \in Queues /\ Thinned(HeadFilled(q, traded), q)
  <2>. HIDE DEF traded, q
  <2>. QED  BY <1>2, <1>3, HeadFilledThins
<1>7. book' = [book EXCEPT ![Far][p] = HeadFilled(q, traded)]
  BY <1>1
<1>8. /\ incoming' \in Calls /\ incoming'.id = incoming.id
      /\ incoming'.asked = incoming.asked
      /\ incoming'.qty = incoming.qty - traded
  <2>. HIDE DEF traded
  <2>. QED  BY <1>1, <1>2, <1>3, BoundsAssumption DEF Calls
<1>9. /\ rep' \in ExecReport /\ rep'.filled = rep.filled + traded
      /\ rep'.rested = rep.rested /\ rep'.stp_halted = rep.stp_halted
  <2>1. rep \in ExecReport /\ next_seq \in Nat /\ traded \in Nat
    BY <1>3, BoundsAssumption DEF IInv, TypeOK
  <2>2. FirstSeq \in Nat
    BY <2>1 DEF ExecReport, FirstSeq
  <2>3. rep.trade_count + 1 \in Nat /\ rep.filled + traded \in Nat
    BY <2>1 DEF ExecReport
  <2>4. PICK count \in Nat, sum \in Nat :
            count = rep.trade_count + 1 /\ sum = rep.filled + traded
    BY <2>3
  <2>5. rep' = [rep EXCEPT !.first_seq = FirstSeq, !.trade_count = count,
                           !.filled = sum]
    BY <1>1, <2>4
  <2>. HIDE DEF traded
  <2>. QED  BY <2>1, <2>2, <2>4, <2>5 DEF ExecReport
<1>10. rep'.filled + incoming'.qty = incoming'.asked
  <2>1. /\ rep.filled + incoming.qty = incoming.asked
        /\ rep.filled \in Nat /\ incoming.qty \in Nat /\ traded \in Nat
    <3>1. rep.filled + incoming.qty = incoming.asked
      BY <1>1 DEF IInv, InFlight, Looping
    <3>2. rep.filled \in Nat
      BY DEF IInv, TypeOK, ExecReport
    <3>. QED  BY <1>2, <1>3, <3>1, <3>2, BoundsAssumption
  <2>. HIDE DEF traded
  <2>. QED  BY <1>8, <1>9, <2>1
<1>. HIDE DEF traded, q, t
<1>. QED  BY <1>1, <1>5, <1>6, <1>7, <1>8, <1>9, <1>10, LoopStep DEF q

LEMMA CancelMakerKeeps ==
    ASSUME IInv, NEW p \in Prices, CancelMaker(p)
    PROVE  IInv'
<1>. DEFINE q == book[Far][p]
<1>1. /\ Looping /\ Reaches(p)
      /\ book' = [book EXCEPT ![Far][p] = Tail(q)]
      /\ rep' = [rep EXCEPT !.stp_cancelled = @ + Head(q).qty]
      /\ UNCHANGED <<policy, pc, incoming, next_seq, ring, drop_count>>
  BY DEF CancelMaker
<1>2. /\ incoming \in Calls /\ q \in Queues /\ q # <<>>
      /\ Head(q) \in RestingOrder
  BY <1>1, LevelFacts
<1>3. Tail(q) \in Queues /\ Thinned(Tail(q), q)
  BY <1>2, TailThins
<1>4. /\ rep' \in ExecReport /\ rep'.filled = rep.filled
      /\ rep'.rested = rep.rested /\ rep'.stp_halted = rep.stp_halted
  <2>1. rep \in ExecReport /\ Head(q).qty \in Nat
    BY <1>2, BoundsAssumption DEF IInv, TypeOK, RestingOrder
  <2>. QED  BY <1>1, <2>1 DEF ExecReport
<1>5. rep'.filled + incoming'.qty = incoming'.asked
  BY <1>1, <1>4 DEF IInv, InFlight, Looping
<1>6. /\ next_seq' \in Nat \ {0} /\ ring' \in Seq(Trade) /\ drop_count' \in Nat
      /\ GapsAreDrops'
  BY <1>1 DEF IInv, TypeOK, GapsAreDrops
<1>. QED  BY <1>1, <1>2, <1>3, <1>4, <1>5, <1>6, LoopStep

LEMMA SameFace ==
    ASSUME book' = book, incoming' = incoming
    PROVE  FacesItself' <=> FacesItself
BY DEF FacesItself, Reaches, IsBest, Crosses, Far

LEMMA HaltKeeps ==
    ASSUME IInv, NEW p \in Prices, Halt(p)
    PROVE  IInv'
<1>1. /\ pc = "match" /\ Reaches(p) /\ SelfTrade(Head(book[Far][p]))
      /\ policy = "CancelIncoming"
      /\ rep' = [rep EXCEPT !.stp_halted = TRUE]
      /\ UNCHANGED <<policy, book, pc, incoming, next_seq, ring, drop_count>>
  BY DEF Halt, Looping
<1>2. /\ rep' \in ExecReport /\ rep'.filled = rep.filled
      /\ rep'.rested = rep.rested
  <2>1. rep \in ExecReport
    BY DEF IInv, TypeOK
  <2>. QED  BY <1>1, <2>1, ReportHalted
<1>3. TypeOK' /\ NotCrossed' /\ LiveIdsUnique' /\ GapsAreDrops'
  <2>1. TypeOK'
    BY <1>1, <1>2 DEF IInv, TypeOK
  <2>2. NotCrossed' /\ GapsAreDrops'
    BY <1>1 DEF IInv, NotCrossed, GapsAreDrops
  <2>3. LiveIdsUnique'
    BY <1>1 DEF IInv, LiveIdsUnique
  <2>. QED  BY <2>1, <2>2, <2>3
<1>4. FacesItself /\ FacesItself'
  BY <1>1, SameFace DEF FacesItself, SelfTrade, StpPossible
<1>5. InFlight'
  BY <1>1, <1>2, <1>4 DEF IInv, InFlight
<1>6. ReportTellsTheTruth' /\ LeftoverExplained'
  BY <1>1 DEF ReportTellsTheTruth, LeftoverExplained, Submitted
<1>. QED  BY <1>3, <1>5, <1>6 DEF IInv

\* The end of the loop: the report is closed, and the taker either joins the
\* back of its queue or is gone.
LEMMA DropLeftoverKeeps ==
    ASSUME IInv, DropLeftover
    PROVE  IInv'
<1>1. /\ pc = "match" /\ LoopEnds /\ ~LeftoverRests /\ pc' = "done"
      /\ rep' = [rep EXCEPT !.remaining = incoming.qty]
      /\ UNCHANGED <<policy, book, incoming, next_seq, ring, drop_count>>
  BY DEF DropLeftover, LoopEnds
<1>2. /\ incoming \in Calls /\ rep \in ExecReport /\ incoming.qty \in Nat
      /\ incoming.id \in Ids
  BY <1>1, BoundsAssumption DEF IInv, TypeOK, Calls
<1>3. /\ rep' \in ExecReport /\ rep'.filled = rep.filled
      /\ rep'.remaining = incoming.qty
      /\ rep'.rested = rep.rested /\ rep'.stp_halted = rep.stp_halted
  BY <1>1, <1>2 DEF ExecReport
<1>4. TypeOK'
  BY <1>1, <1>3 DEF IInv, TypeOK
<1>5. NotCrossed' /\ GapsAreDrops'
  BY <1>1 DEF IInv, NotCrossed, GapsAreDrops
<1>6. LiveIdsUnique'
  BY <1>1 DEF IInv, LiveIdsUnique
<1>7. InFlight'
  BY <1>1 DEF InFlight
<1>8. ReportTellsTheTruth'
  BY <1>1, <1>3 DEF IInv, InFlight, LiveIdsUnique, ReportTellsTheTruth, Submitted
<1>9. LeftoverExplained'
  <2>. SUFFICES ASSUME incoming.qty > 0
                PROVE  IF rep.stp_halted
                       THEN policy = "CancelIncoming" /\ FacesItself
                       ELSE \A p \in Prices : book[Far][p] # <<>> => ~Crosses(p)
    <3>1. FacesItself' <=> FacesItself
      BY <1>1, SameFace
    <3>2. ~rep'.rested
      BY <1>1, <1>3 DEF IInv, InFlight
    <3>. QED  BY <1>1, <1>3, <3>1, <3>2 DEF LeftoverExplained, Crosses, Far
  <2>1. CASE rep.stp_halted
    BY <1>1, <2>1 DEF IInv, InFlight
  <2>2. CASE ~rep.stp_halted
    <3>1. ~\E p \in Prices : Reaches(p)
      BY <1>1, <2>2 DEF LoopEnds, Looping
    <3>. QED  BY <1>2, <2>2, <3>1, BestDecides
  <2>. QED  BY <2>1, <2>2
<1>. QED  BY <1>4, <1>5, <1>6, <1>7, <1>8, <1>9 DEF IInv

LEMMA RestLeftoverKeeps ==
    ASSUME IInv, RestLeftover
    PROVE  IInv'
<1>. DEFINE o == [id |-> incoming.id, owner |-> incoming.owner,
                  qty |-> incoming.qty]
            s == incoming.side
            p == incoming.limit
<1>1. /\ pc = "match" /\ LoopEnds /\ LeftoverRests /\ pc' = "done"
      /\ rep' = [rep EXCEPT !.remaining = incoming.qty, !.rested = TRUE]
      /\ UNCHANGED <<policy, incoming, next_seq, ring, drop_count>>
  BY DEF RestLeftover, LoopEnds
<1>2. book' = Replaced(book, s, p, Append(book[s][p], o))
  BY DEF RestLeftover, Replaced
<1>3. incoming \in Calls /\ rep \in ExecReport
  BY <1>1 DEF IInv, TypeOK
<1>4. /\ s \in Sides /\ p \in Prices /\ o \in RestingOrder
      /\ incoming.qty \in Nat /\ incoming.qty > 0 /\ ~rep.stp_halted
      /\ incoming.id \in Ids /\ p # NoLimit
  BY <1>1, <1>3, BoundsAssumption DEF LeftoverRests, Calls, Limits, RestingOrder
<1>5. /\ rep' \in ExecReport /\ rep'.filled = rep.filled /\ rep'.rested
      /\ rep'.remaining = incoming.qty /\ rep'.stp_halted = rep.stp_halted
  BY <1>1, <1>3, <1>4 DEF ExecReport
<1>6. ~Live(book, o.id) /\ GoodBook(book)
  BY <1>1, BookOfInv DEF IInv, LiveIdsUnique
<1>7. /\ book' \in Books /\ Unique(book') /\ Live(book', o.id)
      /\ \A t \in Sides, r \in Prices : ~(t = s /\ r = p) => book'[t][r] = book[t][r]
      /\ book'[s][p] # <<>> /\ book'[s][p][Len(book'[s][p])] = o
  <2>. HIDE DEF o, s, p
  <2>. QED  BY <1>2, <1>4, <1>6, AppendKeeps DEF GoodBook
<1>8. /\ Far \in Sides /\ Far # s
      /\ \A r \in Prices : book[Far][r] # <<>> => ~Crosses(r)
  <2>1. ~\E r \in Prices : Reaches(r)
    BY <1>1, <1>4 DEF LoopEnds, Looping
  <2>. QED  BY <1>3, <1>4, <2>1, BestDecides DEF Far, Opposite, Sides
<1>9. TypeOK'
  BY <1>1, <1>5, <1>7 DEF IInv, TypeOK, Books, Queues
\* The leftover rests at a price that no far order can be reached at.
<1>10. NotCrossed'
  <2>. SUFFICES ASSUME NEW x \in Prices, NEW y \in Prices,
                       book'["Buy"][x] # <<>>, book'["Sell"][y] # <<>>
                PROVE  x < y
    BY DEF NotCrossed
  <2>1. x \in Nat /\ y \in Nat /\ p \in Nat
    BY <1>4, PriceType
  <2>2. CASE s = "Buy" /\ x = p
    <3>1. book[Far][y] # <<>> /\ ~Crosses(y)
      BY <1>7, <1>8, <2>2 DEF Far, Opposite, Sides
    <3>. QED  BY <1>4, <2>1, <2>2, <3>1 DEF Crosses
  <2>3. CASE s = "Sell" /\ y = p
    <3>1. book[Far][x] # <<>> /\ ~Crosses(x)
      BY <1>7, <1>8, <2>3 DEF Far, Opposite, Sides
    <3>. QED  BY <1>4, <2>1, <2>3, <3>1 DEF Crosses
  <2>4. CASE ~(s = "Buy" /\ x = p) /\ ~(s = "Sell" /\ y = p)
    <3>1. book["Buy"][x] # <<>> /\ book["Sell"][y] # <<>>
      BY <1>7, <2>4 DEF Sides
    <3>. QED  BY <3>1 DEF IInv, NotCrossed
  <2>. QED  BY <2>2, <2>3, <2>4
<1>11. LiveIdsUnique'
  BY <1>1, <1>7 DEF LiveIdsUnique, Unique
<1>12. InFlight'
  BY <1>1 DEF InFlight
<1>13. ReportTellsTheTruth'
  <2>1. rep'.filled + rep'.remaining = incoming'.asked
    BY <1>1, <1>5 DEF IInv, InFlight
  <2>2. rep'.rested <=> Live(book', incoming'.id)
    BY <1>1, <1>5, <1>7
  <2>3. /\ book'[incoming'.side][incoming'.limit] # <<>>
        /\ book'[incoming'.side][incoming'.limit]
              [Len(book'[incoming'.side][incoming'.limit])] =
                  [id |-> incoming'.id, owner |-> incoming'.owner,
                   qty |-> rep'.remaining]
    BY <1>1, <1>5, <1>7
  <2>. QED  BY <2>1, <2>2, <2>3 DEF ReportTellsTheTruth
<1>14. LeftoverExplained'
  <2>1. \A r \in Prices : book'[Far][r] = book[Far][r]
    BY <1>7, <1>8
  <2>2. Far' = Far /\ \A r \in Prices : Crosses(r)' <=> Crosses(r)
    BY <1>1 DEF Far, Crosses
  <2>. QED  BY <1>4, <1>5, <1>8, <2>1, <2>2 DEF LeftoverExplained
<1>15. GapsAreDrops'
  BY <1>1 DEF IInv, GapsAreDrops
<1>. QED  BY <1>9, <1>10, <1>11, <1>12, <1>13, <1>14, <1>15 DEF IInv

-----------------------------------------------------------------------------
(***************************************************************************)
(* Time priority                                                           *)
(***************************************************************************)

\* What a step may do to a queue: take orders out, or put one that was not
\* live at the back.
LEMMA QueueSteps ==
    ASSUME IInv, [Next]_vars, NEW s \in Sides, NEW p \in Prices
    PROVE  \/ Thinned(book'[s][p], book[s][p])
           \/ \E o \in RestingOrder : /\ book'[s][p] = Append(book[s][p], o)
                                      /\ ~Live(book, o.id)
<1>0. book \in Books /\ book[s][p] \in Queues
  BY BookOfInv DEF GoodBook, Books
<1>1. CASE book' = book
  BY <1>0, <1>1, UnchangedIsThinned
<1>2. ASSUME NEW t \in Sides, NEW r \in Prices, NEW q \in Queues,
             Thinned(q, book[t][r]), book' = [book EXCEPT ![t][r] = q]
      PROVE  Thinned(book'[s][p], book[s][p])
  <2>1. CASE t = s /\ r = p
    <3>1. book'[s][p] = q
      BY <1>0, <1>2, <2>1 DEF Books
    <3>. QED  BY <1>2, <2>1, <3>1
  <2>2. CASE ~(t = s /\ r = p)
    <3>1. book'[s][p] = book[s][p]
      BY <1>0, <1>2, <2>2 DEF Books
    <3>. QED  BY <1>0, <3>1, UnchangedIsThinned
  <2>. QED  BY <2>1, <2>2
<1>3. ASSUME NEW t \in Sides, NEW r \in Prices, NEW i \in DOMAIN book[t][r],
             book' = Removed(t, r, i)
      PROVE  Thinned(book'[s][p], book[s][p])
  <2>1. book[t][r] \in Queues /\ i \in 1..Len(book[t][r])
    BY <1>0 DEF Books, Queues
  <2>2. PICK q \in Queues : q = RemoveAt(book[t][r], i) /\ Thinned(q, book[t][r])
    BY <2>1, RemoveAtThins
  <2>. QED  BY <1>2, <1>3, <2>2 DEF Removed
<1>4. CASE Request
  BY <1>1, <1>3, <1>4 DEF Request, AddLimit, AddMarket, Modify, Cancel, Submit, Answer
<1>5. ASSUME NEW r \in Prices, Fill(r)
      PROVE  Thinned(book'[s][p], book[s][p])
  <2>. DEFINE q == book[Far][r]
              traded == IF incoming.qty < Head(q).qty THEN incoming.qty
                        ELSE Head(q).qty
  <2>1. Looping /\ Reaches(r) /\ book' = [book EXCEPT ![Far][r] = HeadFilled(q, traded)]
    BY <1>5 DEF Fill
  <2>2. /\ q \in Queues /\ q # <<>> /\ Head(q) = q[1] /\ Head(q) \in RestingOrder
        /\ incoming.qty \in 1..MaxQty /\ Far \in Sides
    BY <2>1, LevelFacts
  <2>3. traded \in 1..MaxQty /\ traded <= q[1].qty
    BY <2>2, BoundsAssumption DEF RestingOrder
  <2>. HIDE DEF traded
  <2>4. HeadFilled(q, traded) \in Queues /\ Thinned(HeadFilled(q, traded), q)
    BY <2>2, <2>3, HeadFilledThins
  <2>. QED  BY <1>2, <2>1, <2>2, <2>4
<1>6. ASSUME NEW r \in Prices, CancelMaker(r)
      PROVE  Thinned(book'[s][p], book[s][p])
  <2>1. /\ Looping /\ Reaches(r)
        /\ book' = [book EXCEPT ![Far][r] = Tail(book[Far][r])]
    BY <1>6 DEF CancelMaker
  <2>2. book[Far][r] \in Queues /\ book[Far][r] # <<>> /\ Far \in Sides
    BY <2>1, LevelFacts
  <2>3. PICK q \in Queues : q = Tail(book[Far][r]) /\ Thinned(q, book[Far][r])
    BY <2>2, TailThins
  <2>. QED  BY <1>2, <2>1, <2>2, <2>3
<1>7. CASE RestLeftover
  <2>. DEFINE o == [id |-> incoming.id, owner |-> incoming.owner,
                    qty |-> incoming.qty]
  <2>1. /\ pc = "match" /\ LeftoverRests
        /\ book' = [book EXCEPT ![incoming.side][incoming.limit] =
                       Append(book[incoming.side][incoming.limit], o)]
    BY <1>7 DEF RestLeftover, LoopEnds
  <2>2. incoming \in Calls /\ ~Live(book, incoming.id)
    BY <2>1 DEF IInv, TypeOK, LiveIdsUnique
  <2>3. incoming.side \in Sides /\ incoming.limit \in Prices /\ o \in RestingOrder
    BY <2>1, <2>2, BoundsAssumption DEF LeftoverRests, Calls, Limits, RestingOrder
  <2>4. o.id = incoming.id
    OBVIOUS
  <2>. HIDE DEF o
  <2>5. CASE incoming.side = s /\ incoming.limit = p
    <3>1. book'[s][p] = Append(book[s][p], o)
      BY <1>0, <2>1, <2>5 DEF Books
    <3>. QED  BY <2>2, <2>3, <2>4, <3>1
  <2>6. CASE ~(incoming.side = s /\ incoming.limit = p)
    <3>1. book'[s][p] = book[s][p]
      BY <1>0, <2>1, <2>3, <2>6 DEF Books
    <3>. QED  BY <1>0, <3>1, UnchangedIsThinned
  <2>. QED  BY <2>5, <2>6
<1>8. CASE Step
  BY <1>1, <1>5, <1>6, <1>7, <1>8 DEF Step, Halt, DropLeftover, Return
<1>9. CASE Pop \/ UNCHANGED vars
  BY <1>1, <1>9 DEF Pop, vars
<1>. QED  BY <1>4, <1>8, <1>9 DEF Next

LEMMA StepsKeepOrder ==
    ASSUME IInv, IInv', [Next]_vars
    PROVE  NoOneOvertakes
<1>. SUFFICES ASSUME NEW s \in Sides, NEW p \in Prices, NEW a \in Ids, NEW b \in Ids,
                     Ahead(book'[s][p], a, b),
                     NEW k \in DOMAIN book[s][p], book[s][p][k].id = b
              PROVE  Ahead(book[s][p], a, b)
  BY DEF NoOneOvertakes
<1>1. book[s][p] \in Queues /\ book'[s][p] \in Queues
  BY DEF IInv, TypeOK, Queues
<1>2. CASE Thinned(book'[s][p], book[s][p])
  BY <1>1, <1>2, ThinnedKeepsOrder
<1>3. ASSUME NEW o \in RestingOrder, book'[s][p] = Append(book[s][p], o),
             ~Live(book, o.id)
      PROVE  Ahead(book[s][p], a, b)
  <2>1. b # o.id
    BY <1>3 DEF Live
  <2>. QED  BY <1>1, <1>3, <2>1, AppendKeepsOrder
<1>. QED  BY <1>2, <1>3, QueueSteps

-----------------------------------------------------------------------------
(***************************************************************************)
(* Price priority                                                          *)
(***************************************************************************)

\* A step that works on the head of the best level touches nobody else.
LEMMA HeadOnly ==
    ASSUME IInv, Looping, NEW r \in Prices, Reaches(r), NEW q \in Queues,
           book' = [book EXCEPT ![Far][r] = q],
           \A i \in DOMAIN book[Far][r] :
               i # 1 => \E j \in DOMAIN q : q[j] = book[Far][r][i],
           next_seq' # next_seq => ~SelfTrade(book[Far][r][1])
    PROVE  TakesInPriority
<1>. SUFFICES ASSUME NEW x \in Prices, NEW y \in Prices,
                     NEW i \in DOMAIN book[Far][x], NEW j \in DOMAIN book[Far][y],
                     Touched(Far, x, i)
              PROVE  /\ ~Better(Far, y, x)
                     /\ x = y => i <= j
                     /\ next_seq' # next_seq => ~SelfTrade(book[Far][x][i])
  BY DEF TakesInPriority
<1>1. book \in Books /\ Far \in Sides
  BY BookOfInv, LevelFacts DEF GoodBook
<1>2. /\ book'[Far][r] = q
      /\ \A z \in Prices : z # r => book'[Far][z] = book[Far][z]
  BY <1>1 DEF Books
<1>3. x = r
  <2>1. x # r => ~Touched(Far, x, i)
    BY <1>2 DEF Touched
  <2>. QED  BY <2>1
<1>4. i = 1
  BY <1>2, <1>3 DEF Touched
<1>5. /\ book[Far][y] # <<>> /\ j \in Nat /\ j >= 1
  <2>1. book[Far][y] \in Queues
    BY <1>1 DEF Books
  <2>2. j \in 1..Len(book[Far][y])
    BY <2>1 DEF Queues
  <2>3. book[Far][y] = <<>> => Len(book[Far][y]) = 0
    OBVIOUS
  <2>. QED  BY <2>1, <2>2, <2>3 DEF Queues
<1>6. ~Better(Far, y, x)
  BY <1>3, <1>5 DEF Reaches, IsBest
<1>. QED  BY <1>3, <1>4, <1>5, <1>6

LEMMA FarUntouched ==
    ASSUME IInv, pc = "match", \A p \in Prices : book'[Far][p] = book[Far][p]
    PROVE  TakesInPriority
BY DEF TakesInPriority, Touched

LEMMA StepsTakeInPriority ==
    ASSUME IInv, Next
    PROVE  TakesInPriority
<1>. SUFFICES ASSUME pc = "match"  PROVE TakesInPriority
  BY DEF TakesInPriority
<1>1. Step /\ ~Return
  BY DEF Next, Request, AddLimit, AddMarket, Modify, Cancel, Submit, Answer,
         Pop, Return
<1>2. ASSUME NEW r \in Prices, Fill(r)  PROVE TakesInPriority
  <2>. DEFINE q == book[Far][r]
              traded == IF incoming.qty < Head(q).qty THEN incoming.qty
                        ELSE Head(q).qty
              t == HeadFilled(q, traded)
  <2>1. /\ Looping /\ Reaches(r) /\ ~SelfTrade(Head(q))
        /\ book' = [book EXCEPT ![Far][r] = t]
    BY <1>2 DEF Fill
  <2>2. /\ q \in Queues /\ q # <<>> /\ Head(q) = q[1] /\ Head(q) \in RestingOrder
        /\ incoming.qty \in 1..MaxQty
    BY <2>1, LevelFacts
  <2>3. traded \in 1..MaxQty /\ traded <= q[1].qty
    BY <2>2, BoundsAssumption DEF RestingOrder
  <2>4. t \in Queues
    <3>. HIDE DEF traded
    <3>. QED  BY <2>2, <2>3, HeadFilledThins
  <2>5. \A i \in DOMAIN q : i # 1 => \E j \in DOMAIN t : t[j] = q[i]
    <3>. HIDE DEF traded
    <3>1. DOMAIN q = 1..Len(q) /\ Len(q) \in Nat
      BY <2>2 DEF Queues
    <3>2. CASE q[1].qty = traded
      <4>1. t = Tail(q)
        BY <3>2 DEF HeadFilled
      <4>2. /\ DOMAIN Tail(q) = 1..(Len(q) - 1)
            /\ \A j \in 1..(Len(q) - 1) : Tail(q)[j] = q[j + 1]
        BY <2>2 DEF Queues
      <4>3. \A i \in DOMAIN q : i # 1 => i - 1 \in 1..(Len(q) - 1) /\ (i - 1) + 1 = i
        BY <3>1
      <4>. QED  BY <4>1, <4>2, <4>3
    <3>3. CASE q[1].qty # traded
      BY <3>3 DEF HeadFilled
    <3>. QED  BY <3>2, <3>3
  <2>. HIDE DEF t, traded
  <2>. QED  BY <2>1, <2>2, <2>4, <2>5, HeadOnly
<1>3. ASSUME NEW r \in Prices, CancelMaker(r)  PROVE TakesInPriority
  <2>. DEFINE q == book[Far][r]
  <2>1. /\ Looping /\ Reaches(r) /\ next_seq' = next_seq
        /\ book' = [book EXCEPT ![Far][r] = Tail(q)]
    BY <1>3 DEF CancelMaker
  <2>2. q \in Queues /\ q # <<>>
    BY <2>1, LevelFacts
  <2>3. /\ DOMAIN q = 1..Len(q) /\ Len(q) \in Nat /\ Tail(q) \in Queues
        /\ DOMAIN Tail(q) = 1..(Len(q) - 1)
        /\ \A j \in 1..(Len(q) - 1) : Tail(q)[j] = q[j + 1]
    BY <2>2 DEF Queues
  <2>4. \A i \in DOMAIN q : i # 1 => i - 1 \in 1..(Len(q) - 1) /\ (i - 1) + 1 = i
    BY <2>3
  <2>5. \A i \in DOMAIN q : i # 1 => \E j \in DOMAIN Tail(q) : Tail(q)[j] = q[i]
    BY <2>3, <2>4
  <2>6. PICK t \in Queues : t = Tail(q)
    BY <2>3
  <2>. QED  BY <2>1, <2>5, <2>6, HeadOnly
<1>4. CASE RestLeftover
  <2>1. incoming \in Calls /\ book \in Books
    BY BookOfInv DEF IInv, TypeOK, GoodBook
  <2>2. Far # incoming.side /\ Far \in Sides /\ incoming.side \in Sides
    BY <2>1 DEF Far, Opposite, Sides, Calls
  <2>3. incoming.limit \in Prices
    BY <1>4, <2>1 DEF RestLeftover, LeftoverRests, Calls, Limits
  <2>4. \A p \in Prices : book'[Far][p] = book[Far][p]
    BY <1>4, <2>1, <2>2, <2>3 DEF RestLeftover, Books
  <2>. QED  BY <2>4, FarUntouched
<1>5. CASE book' = book
  BY <1>5, FarUntouched
<1>. QED  BY <1>1, <1>2, <1>3, <1>4, <1>5 DEF Step, Halt, DropLeftover

-----------------------------------------------------------------------------
(***************************************************************************)
(* Volumes                                                                 *)
(***************************************************************************)

Qtys(q) == [i \in DOMAIN q |-> q[i].qty]

VolumeOf(b, s) == SumOver([p \in Prices |-> TotalQty(b[s][p])], Prices, MaxPrice)

LEMMA QtyFacts ==
    ASSUME NEW q \in Queues
    PROVE  /\ DOMAIN q = 1..Len(q) /\ Len(q) \in Nat
           /\ \A i \in DOMAIN q : Qtys(q)[i] = q[i].qty /\ q[i].qty \in Nat
           /\ \A i \in DOMAIN q : Qtys(q)[i] \in Int
           /\ TotalQty(q) = SumOver(Qtys(q), DOMAIN q, Len(q))
           /\ TotalQty(q) \in Int
<1>1. DOMAIN q = 1..Len(q) /\ Len(q) \in Nat /\ \A i \in DOMAIN q : q[i] \in RestingOrder
  BY DEF Queues
<1>2. \A i \in DOMAIN q : Qtys(q)[i] = q[i].qty /\ q[i].qty \in Nat
  BY <1>1, BoundsAssumption DEF Qtys, RestingOrder
<1>3. \A i \in DOMAIN q : Qtys(q)[i] \in Int
  BY <1>2
<1>4. TotalQty(q) = SumOver(Qtys(q), DOMAIN q, Len(q))
  BY DEF TotalQty, Qtys
<1>5. SumOver(Qtys(q), DOMAIN q, Len(q)) \in Int
  BY <1>1, <1>3, SumOverDef
<1>. QED  BY <1>1, <1>2, <1>3, <1>4, <1>5

\* A queue that loses its head loses the head's quantity.
LEMMA TailQty ==
    ASSUME NEW q \in Queues, q # <<>>
    PROVE  TotalQty(Tail(q)) = TotalQty(q) - q[1].qty
<1>. DEFINE n == Len(q) - 1
<1>1. Tail(q) \in Queues /\ n \in Nat /\ n + 1 = Len(q) /\ 1 \in DOMAIN q
  BY DEF Queues
<1>2. /\ DOMAIN Tail(q) = 1..n /\ Len(Tail(q)) = n
      /\ \A i \in 1..n : Tail(q)[i] = q[i + 1]
  BY DEF Queues
<1>3. PICK r \in Queues : r = Tail(q)
  BY <1>1
<1>. HIDE DEF n
<1>4. /\ \A i \in DOMAIN q : Qtys(q)[i] \in Int
      /\ \A i \in DOMAIN r : Qtys(r)[i] \in Int
      /\ 0 \notin DOMAIN q /\ 0 \notin DOMAIN r /\ DOMAIN q = 1..(n + 1)
  <2>1. DOMAIN q = 1..(n + 1) /\ DOMAIN r = 1..n
    BY <1>1, <1>2, <1>3, QtyFacts
  <2>2. 0 \notin 1..(n + 1) /\ 0 \notin 1..n
    BY <1>1
  <2>3. /\ \A i \in DOMAIN q : Qtys(q)[i] \in Int
        /\ \A i \in DOMAIN r : Qtys(r)[i] \in Int
    BY QtyFacts
  <2>. QED  BY <2>1, <2>2, <2>3
<1>5. \A k \in 1..n : Term(Qtys(r), DOMAIN r, k) = Term(Qtys(q), DOMAIN q, k + 1)
  <2>. TAKE k \in 1..n
  <2>1. k \in DOMAIN r /\ k + 1 \in DOMAIN q
    BY <1>1, <1>2, <1>3, <1>4
  <2>2. Qtys(r)[k] = Qtys(q)[k + 1]
    BY <1>2, <1>3, <2>1 DEF Qtys
  <2>. QED  BY <2>1, <2>2 DEF Term
<1>6. SumOver(Qtys(r), DOMAIN r, n)
          = SumOver(Qtys(q), DOMAIN q, n + 1) - Term(Qtys(q), DOMAIN q, 1)
  BY <1>1, <1>4, <1>5, SumShifts
<1>7. Term(Qtys(q), DOMAIN q, 1) = q[1].qty
  BY <1>1 DEF Term, Qtys
<1>. QED  BY <1>1, <1>2, <1>3, <1>6, <1>7, QtyFacts

LEMMA HeadFilledQty ==
    ASSUME NEW q \in Queues, q # <<>>, NEW n \in 1..MaxQty, n <= q[1].qty
    PROVE  TotalQty(HeadFilled(q, n)) = TotalQty(q) - n
<1>1. CASE q[1].qty = n
  BY <1>1, TailQty DEF HeadFilled
<1>2. CASE q[1].qty # n
  <2>1. PICK r \in Queues : r = HeadFilled(q, n)
    BY HeadFilledThins
  <2>2. r = [q EXCEPT ![1].qty = @ - n]
    BY <1>2, <2>1 DEF HeadFilled
  <2>3. 1 \in DOMAIN q /\ q[1] \in RestingOrder /\ DOMAIN q = 1..Len(q) /\ Len(q) \in Nat
    BY DEF Queues
  <2>4. /\ DOMAIN r = DOMAIN q /\ Len(r) = Len(q)
        /\ r[1].qty = q[1].qty - n
        /\ \A i \in DOMAIN q : i # 1 => r[i] = q[i]
    BY <2>2, <2>3 DEF RestingOrder, Queues
  <2>5. /\ \A i \in DOMAIN q : Qtys(q)[i] \in Int
        /\ \A i \in DOMAIN r : Qtys(r)[i] \in Int
        /\ 1 \in 0..Len(q)
    BY <2>3, QtyFacts
  <2>6. \A k \in 0..Len(q) :
            k # 1 => Term(Qtys(r), DOMAIN r, k) = Term(Qtys(q), DOMAIN q, k)
    BY <2>4 DEF Term, Qtys
  <2>7. SumOver(Qtys(r), DOMAIN r, Len(q)) = SumOver(Qtys(q), DOMAIN q, Len(q))
            + Term(Qtys(r), DOMAIN r, 1) - Term(Qtys(q), DOMAIN q, 1)
    BY <2>3, <2>5, <2>6, SumChangesAt
  <2>8. /\ Term(Qtys(r), DOMAIN r, 1) = q[1].qty - n
        /\ Term(Qtys(q), DOMAIN q, 1) = q[1].qty
    BY <2>3, <2>4 DEF Term, Qtys
  <2>9. q[1].qty \in Int /\ n \in Int /\ TotalQty(q) \in Int
    BY <2>3, QtyFacts
  <2>10. TotalQty(r) = TotalQty(q) + (q[1].qty - n) - q[1].qty
    BY <2>4, <2>7, <2>8, QtyFacts
  <2>. QED  BY <2>1, <2>9, <2>10
<1>. QED  BY <1>1, <1>2

LEMMA AppendQty ==
    ASSUME NEW q \in Queues, NEW o \in RestingOrder
    PROVE  TotalQty(Append(q, o)) = TotalQty(q) + o.qty
<1>1. PICK r \in Queues : r = Append(q, o)
  <2>1. Append(q, o) \in Queues
    BY DEF Queues
  <2>. QED  BY <2>1
<1>2. DOMAIN q = 1..Len(q) /\ Len(q) \in Nat
  BY DEF Queues
<1>3. /\ Len(r) = Len(q) + 1 /\ DOMAIN r = 1..(Len(q) + 1)
      /\ r[Len(q) + 1] = o /\ \A i \in 1..Len(q) : r[i] = q[i]
  BY <1>1 DEF Queues
<1>4. /\ \A i \in DOMAIN q : Qtys(q)[i] \in Int
      /\ \A i \in DOMAIN r : Qtys(r)[i] \in Int
  BY QtyFacts
<1>5. \A k \in 0..Len(q) : Term(Qtys(r), DOMAIN r, k) = Term(Qtys(q), DOMAIN q, k)
  <2>. TAKE k \in 0..Len(q)
  <2>1. k \in DOMAIN q <=> k \in DOMAIN r
    BY <1>2, <1>3
  <2>. QED  BY <1>2, <1>3, <2>1 DEF Term, Qtys
<1>6. SumOver(Qtys(r), DOMAIN r, Len(q)) = SumOver(Qtys(q), DOMAIN q, Len(q))
  BY <1>2, <1>4, <1>5, SumUnchanged
<1>7. SumOver(Qtys(r), DOMAIN r, Len(q) + 1)
          = SumOver(Qtys(r), DOMAIN r, Len(q)) + Term(Qtys(r), DOMAIN r, Len(q) + 1)
  BY <1>2, <1>4, SumStep
<1>8. Term(Qtys(r), DOMAIN r, Len(q) + 1) = o.qty
  <2>1. Len(q) + 1 \in DOMAIN r
    BY <1>2, <1>3
  <2>. QED  BY <1>3, <2>1 DEF Term, Qtys
<1>. QED  BY <1>1, <1>3, <1>6, <1>7, <1>8, QtyFacts

\* A side's volume changes by what the queue at one price changes by.
LEMMA VolumeChanges ==
    ASSUME NEW b \in Books, NEW c \in Books, NEW s \in Sides, NEW p \in Prices,
           \A r \in Prices : r # p => c[s][r] = b[s][r]
    PROVE  VolumeOf(c, s) = VolumeOf(b, s) + TotalQty(c[s][p]) - TotalQty(b[s][p])
<1>. DEFINE f == [r \in Prices |-> TotalQty(b[s][r])]
            g == [r \in Prices |-> TotalQty(c[s][r])]
<1>1. \A r \in Prices : /\ b[s][r] \in Queues /\ c[s][r] \in Queues
                        /\ f[r] \in Int /\ g[r] \in Int
  BY QtyFacts DEF Books
<1>2. MaxPrice \in Nat /\ p \in 0..MaxPrice
  BY PricesAssumption
<1>3. \A k \in 0..MaxPrice : k # p => Term(g, Prices, k) = Term(f, Prices, k)
  BY DEF Term
<1>4. Term(f, Prices, p) = TotalQty(b[s][p]) /\ Term(g, Prices, p) = TotalQty(c[s][p])
  BY DEF Term
<1>5. /\ VolumeOf(b, s) = SumOver(f, Prices, MaxPrice)
      /\ VolumeOf(c, s) = SumOver(g, Prices, MaxPrice)
  BY DEF VolumeOf
<1>. HIDE DEF f, g
<1>6. SumOver(g, Prices, MaxPrice) = SumOver(f, Prices, MaxPrice)
          + Term(g, Prices, p) - Term(f, Prices, p)
  BY <1>1, <1>2, <1>3, SumChangesAt
<1>. QED  BY <1>4, <1>5, <1>6

LEMMA VolumeIsOfBook ==
    \A s \in Sides : Volume(s) = VolumeOf(book, s) /\ VolumeOf(book, s) = Volume(s)
BY DEF Volume, VolumeOf, qty_at

LEMMA VolumeIsOfBookNext ==
    ASSUME Far' = Far, incoming'.side = incoming.side
    PROVE  /\ Volume(Far)' = VolumeOf(book', Far)
           /\ Volume(incoming.side)' = VolumeOf(book', incoming.side)
BY DEF Volume, VolumeOf, qty_at

\* The property, in terms of the books before and after.
LEMMA VolumesMove ==
    ASSUME IInv, pc = "match", incoming'.side = incoming.side,
           VolumeOf(book, Far) - VolumeOf(book', Far) =
               rep'.filled - rep.filled + rep'.stp_cancelled - rep.stp_cancelled,
           VolumeOf(book', incoming.side) - VolumeOf(book, incoming.side) =
               IF rep'.rested THEN rep'.remaining ELSE 0
    PROVE  TakesWhatItReports
<1>1. Far' = Far /\ Far \in Sides /\ incoming.side \in Sides
  BY DEF Far, Opposite, Sides, IInv, TypeOK, Calls
<1>2. /\ Volume(Far)' = VolumeOf(book', Far)
      /\ Volume(incoming.side)' = VolumeOf(book', incoming.side)
  BY <1>1, VolumeIsOfBookNext
<1>3. /\ Volume(Far) = VolumeOf(book, Far)
      /\ Volume(incoming.side) = VolumeOf(book, incoming.side)
  BY <1>1, VolumeIsOfBook
<1>. QED  BY <1>2, <1>3 DEF TakesWhatItReports

LEMMA VolumeType ==
    ASSUME NEW b \in Books, NEW s \in Sides
    PROVE  VolumeOf(b, s) \in Int
<1>. DEFINE f == [r \in Prices |-> TotalQty(b[s][r])]
<1>1. \A r \in Prices : f[r] \in Int
  BY QtyFacts DEF Books
<1>2. VolumeOf(b, s) = SumOver(f, Prices, MaxPrice) /\ MaxPrice \in Nat
  BY PricesAssumption DEF VolumeOf
<1>. HIDE DEF f
<1>. QED  BY <1>1, <1>2, SumOverDef

LEMMA VolumeSame ==
    ASSUME NEW b, NEW c, NEW s, \A r \in Prices : c[s][r] = b[s][r]
    PROVE  VolumeOf(c, s) = VolumeOf(b, s)
<1>1. [r \in Prices |-> TotalQty(c[s][r])] = [r \in Prices |-> TotalQty(b[s][r])]
  OBVIOUS
<1>. QED  BY <1>1 DEF VolumeOf

LEMMA StepsReportWhatTheyTake ==
    ASSUME IInv, IInv', Next
    PROVE  TakesWhatItReports
<1>. SUFFICES ASSUME pc = "match"  PROVE TakesWhatItReports
  BY DEF TakesWhatItReports
<1>1. Step /\ ~Return
  BY DEF Next, Request, AddLimit, AddMarket, Modify, Cancel, Submit, Answer,
         Pop, Return
<1>2. /\ incoming \in Calls /\ incoming.side \in Sides /\ Far \in Sides
      /\ Far # incoming.side /\ book \in Books /\ book' \in Books
      /\ rep \in ExecReport /\ ~rep.rested
  BY DEF IInv, TypeOK, Books, Queues, Far, Opposite, Sides, Calls, InFlight
<1>3. /\ VolumeOf(book, Far) \in Int /\ VolumeOf(book, incoming.side) \in Int
      /\ rep.filled \in Int /\ rep.stp_cancelled \in Int
  BY <1>2, VolumeType DEF ExecReport
\* One queue of the far side loses n.
<1>4. ASSUME NEW r \in Prices, NEW q, book' = [book EXCEPT ![Far][r] = q],
             NEW n \in Int, TotalQty(q) = TotalQty(book[Far][r]) - n
      PROVE  /\ VolumeOf(book', Far) = VolumeOf(book, Far) - n
             /\ VolumeOf(book', incoming.side) = VolumeOf(book, incoming.side)
  <2>1. /\ book'[Far][r] = q
        /\ \A p \in Prices : p # r => book'[Far][p] = book[Far][p]
        /\ \A p \in Prices : book'[incoming.side][p] = book[incoming.side][p]
    BY <1>2, <1>4 DEF Books
  <2>2. VolumeOf(book', incoming.side) = VolumeOf(book, incoming.side)
    BY <2>1, VolumeSame
  <2>3. VolumeOf(book', Far)
            = VolumeOf(book, Far) + TotalQty(book'[Far][r]) - TotalQty(book[Far][r])
    BY <1>2, <2>1, VolumeChanges
  <2>4. TotalQty(book[Far][r]) \in Int
    BY <1>2, QtyFacts DEF Books
  <2>. QED  BY <1>3, <1>4, <2>1, <2>2, <2>3, <2>4
<1>5. ASSUME NEW r \in Prices, Fill(r)  PROVE TakesWhatItReports
  <2>. DEFINE q == book[Far][r]
              traded == IF incoming.qty < Head(q).qty THEN incoming.qty
                        ELSE Head(q).qty
              t == HeadFilled(q, traded)
  <2>1. /\ Looping /\ Reaches(r)
        /\ book' = [book EXCEPT ![Far][r] = t]
        /\ incoming' = [incoming EXCEPT !.qty = @ - traded]
        /\ rep' = [rep EXCEPT !.first_seq = FirstSeq, !.trade_count = @ + 1,
                              !.filled = @ + traded]
    BY <1>5 DEF Fill
  <2>2. /\ q \in Queues /\ q # <<>> /\ Head(q) = q[1] /\ Head(q) \in RestingOrder
        /\ incoming.qty \in 1..MaxQty
    BY <2>1, LevelFacts
  <2>3. traded \in 1..MaxQty /\ traded <= q[1].qty
    BY <2>2, BoundsAssumption DEF RestingOrder
  <2>. HIDE DEF traded
  <2>4. TotalQty(t) = TotalQty(q) - traded
    BY <2>2, <2>3, HeadFilledQty
  <2>5. /\ rep'.filled = rep.filled + traded /\ rep'.stp_cancelled = rep.stp_cancelled
        /\ ~rep'.rested /\ incoming'.side = incoming.side
    BY <1>2, <2>1 DEF ExecReport, Calls
  <2>6. traded \in Int
    BY <2>3
  <2>. HIDE DEF t
  <2>7. /\ VolumeOf(book', Far) = VolumeOf(book, Far) - traded
        /\ VolumeOf(book', incoming.side) = VolumeOf(book, incoming.side)
    BY <1>4, <2>1, <2>4, <2>6
  <2>8. /\ VolumeOf(book', incoming.side) - VolumeOf(book, incoming.side) = 0
        /\ VolumeOf(book, Far) - VolumeOf(book', Far) =
               rep'.filled - rep.filled + rep'.stp_cancelled - rep.stp_cancelled
    BY <1>3, <2>5, <2>6, <2>7
  <2>. QED  BY <2>5, <2>8, VolumesMove
<1>6. ASSUME NEW r \in Prices, CancelMaker(r)  PROVE TakesWhatItReports
  <2>. DEFINE q == book[Far][r]
              n == q[1].qty
  <2>1. /\ Looping /\ Reaches(r) /\ incoming' = incoming
        /\ book' = [book EXCEPT ![Far][r] = Tail(q)]
        /\ rep' = [rep EXCEPT !.stp_cancelled = @ + Head(q).qty]
    BY <1>6 DEF CancelMaker
  <2>2. q \in Queues /\ q # <<>> /\ Head(q) = q[1] /\ Head(q) \in RestingOrder
    BY <2>1, LevelFacts
  <2>3. TotalQty(Tail(q)) = TotalQty(q) - n /\ n \in Int
    BY <2>2, TailQty, BoundsAssumption DEF RestingOrder
  <2>4. /\ rep'.filled = rep.filled /\ rep'.stp_cancelled = rep.stp_cancelled + n
        /\ ~rep'.rested
    BY <1>2, <2>1, <2>2 DEF ExecReport
  <2>. HIDE DEF n
  <2>5. /\ VolumeOf(book', Far) = VolumeOf(book, Far) - n
        /\ VolumeOf(book', incoming.side) = VolumeOf(book, incoming.side)
    <3>1. PICK t : t = Tail(q)
      OBVIOUS
    <3>. QED  BY <1>4, <2>1, <2>3, <3>1
  <2>6. /\ VolumeOf(book', incoming.side) - VolumeOf(book, incoming.side) = 0
        /\ VolumeOf(book, Far) - VolumeOf(book', Far) =
               rep'.filled - rep.filled + rep'.stp_cancelled - rep.stp_cancelled
    BY <1>3, <2>3, <2>4, <2>5
  <2>. QED  BY <2>1, <2>4, <2>6, VolumesMove
<1>7. CASE (\E r \in Prices : Halt(r)) \/ DropLeftover
  <2>1. /\ book' = book /\ incoming' = incoming
        /\ rep'.filled = rep.filled /\ rep'.stp_cancelled = rep.stp_cancelled
        /\ ~rep'.rested
    <3>1. CASE \E r \in Prices : Halt(r)
      BY <1>2, <3>1 DEF Halt, ExecReport
    <3>2. CASE DropLeftover
      BY <1>2, <3>2 DEF DropLeftover, ExecReport
    <3>. QED  BY <1>7, <3>1, <3>2
  <2>2. /\ VolumeOf(book', incoming.side) - VolumeOf(book, incoming.side) = 0
        /\ VolumeOf(book, Far) - VolumeOf(book', Far) =
               rep'.filled - rep.filled + rep'.stp_cancelled - rep.stp_cancelled
    BY <1>3, <2>1
  <2>. QED  BY <2>1, <2>2, VolumesMove
<1>8. CASE RestLeftover
  <2>. DEFINE o == [id |-> incoming.id, owner |-> incoming.owner,
                    qty |-> incoming.qty]
              s == incoming.side
              p == incoming.limit
  <2>1. /\ LeftoverRests /\ incoming' = incoming
        /\ book' = [book EXCEPT ![s][p] = Append(book[s][p], o)]
        /\ rep' = [rep EXCEPT !.remaining = incoming.qty, !.rested = TRUE]
    BY <1>8 DEF RestLeftover
  <2>2. p \in Prices /\ o \in RestingOrder /\ incoming.qty \in Int
    BY <1>2, <2>1, BoundsAssumption DEF LeftoverRests, Calls, Limits, RestingOrder
  <2>3. o.qty = incoming.qty /\ book[s][p] \in Queues
    BY <1>2, <2>2 DEF Books
  <2>. HIDE DEF o, p
  <2>4. /\ book'[s][p] = Append(book[s][p], o)
        /\ \A r \in Prices : r # p => book'[s][r] = book[s][r]
        /\ \A r \in Prices : book'[Far][r] = book[Far][r]
    BY <1>2, <2>1, <2>2 DEF Books
  <2>5. VolumeOf(book', Far) = VolumeOf(book, Far)
    BY <2>4, VolumeSame
  <2>6. VolumeOf(book', s) = VolumeOf(book, s) + TotalQty(book'[s][p]) - TotalQty(book[s][p])
    BY <1>2, <2>2, <2>4, VolumeChanges
  <2>7. TotalQty(book'[s][p]) = TotalQty(book[s][p]) + incoming.qty
    BY <2>2, <2>3, <2>4, AppendQty
  <2>8. TotalQty(book[s][p]) \in Int
    BY <2>3, QtyFacts
  <2>9. /\ rep'.filled = rep.filled /\ rep'.stp_cancelled = rep.stp_cancelled
        /\ rep'.rested /\ rep'.remaining = incoming.qty
    BY <1>2, <2>1 DEF ExecReport
  <2>10. /\ VolumeOf(book', incoming.side) - VolumeOf(book, incoming.side)
               = incoming.qty
         /\ VolumeOf(book, Far) - VolumeOf(book', Far) =
               rep'.filled - rep.filled + rep'.stp_cancelled - rep.stp_cancelled
    BY <1>3, <2>2, <2>5, <2>6, <2>7, <2>8, <2>9
  <2>. QED  BY <2>1, <2>9, <2>10, VolumesMove
<1>. QED  BY <1>1, <1>5, <1>6, <1>7, <1>8 DEF Step

-----------------------------------------------------------------------------
(***************************************************************************)
(* The fills of a call on the tape                                         *)
(***************************************************************************)

\* While the loop runs, what is left on the far side is no better than the
\* prices already printed.
WorseLeft ==
    pc = "match" =>
        \A i \in Mine, r \in Prices :
            book[Far][r] # <<>> => ~Better(Far, r, ring[i].price)

FInv == ReportNamesItsFills /\ WorseLeft

RingQtys(r) == [i \in DOMAIN r |-> r[i].qty]

LEMMA RingFacts ==
    ASSUME NEW r \in Seq(Trade)
    PROVE  /\ DOMAIN r = 1..Len(r) /\ Len(r) \in Nat
           /\ \A i \in DOMAIN r : /\ r[i].seq \in Nat /\ r[i].price \in Prices
                                  /\ r[i].qty \in Int /\ RingQtys(r)[i] = r[i].qty
<1>1. DOMAIN r = 1..Len(r) /\ Len(r) \in Nat /\ \A i \in DOMAIN r : r[i] \in Trade
  OBVIOUS
<1>2. \A i \in DOMAIN r : r[i].seq \in Nat /\ r[i].price \in Prices /\ r[i].qty \in Int
  BY <1>1, BoundsAssumption DEF Trade
<1>3. \A i \in DOMAIN r : RingQtys(r)[i] = r[i].qty
  BY DEF RingQtys
<1>. QED  BY <1>1, <1>2, <1>3

\* Before the first fill no trade of the ring is the call's.
LEMMA NothingFilledYet ==
    ASSUME ring \in Seq(Trade), rep = EmptyReport
    PROVE  FInv
<1>1. /\ DOMAIN ring = 1..Len(ring) /\ Len(ring) \in Nat
      /\ \A i \in DOMAIN ring : ring[i].seq \in Nat
  BY RingFacts
<1>2. rep.first_seq = 0 /\ rep.trade_count = 0 /\ rep.filled = 0
  BY DEF EmptyReport
<1>3. Mine = {}
  BY <1>1, <1>2 DEF Mine
<1>4. SumOver(RingQtys(ring), {}, Len(ring)) = 0
  <2>1. \A k \in 0..Len(ring) : Term(RingQtys(ring), {}, k) = 0
    BY DEF Term
  <2>. QED  BY <1>1, <2>1, SumOfZeros
<1>5. SumOver([i \in DOMAIN ring |-> ring[i].qty], Mine, Len(ring)) = 0
  BY <1>3, <1>4 DEF RingQtys
<1>6. ReportNamesItsFills
  BY <1>2, <1>3, <1>5 DEF ReportNamesItsFills
<1>. QED  BY <1>3, <1>6 DEF FInv, WorseLeft

\* A step that prints nothing and leaves the taker alone.
LEMMA NothingPrinted ==
    ASSUME IInv, FInv, incoming' = incoming, ring' = ring, next_seq' = next_seq,
           drop_count' = drop_count, rep'.first_seq = rep.first_seq,
           rep'.trade_count = rep.trade_count, rep'.filled = rep.filled,
           pc' = "match" =>
               /\ pc = "match"
               /\ \A r \in Prices : book'[Far][r] # <<>> => book[Far][r] # <<>>
    PROVE  FInv'
<1>1. Mine' = Mine /\ Far' = Far /\ \A r \in Prices : Crosses(r)' <=> Crosses(r)
  BY DEF Mine, Far, Crosses
<1>2. ReportNamesItsFills'
  <2>1. \A i \in Mine : ring[i].price \in Prices
    BY RingFacts DEF IInv, TypeOK, Mine
  <2>. QED  BY <1>1, <2>1 DEF FInv, ReportNamesItsFills, Better
<1>3. WorseLeft'
  BY <1>1 DEF FInv, WorseLeft, Better
<1>. QED  BY <1>2, <1>3 DEF FInv

LEMMA FillPrints ==
    ASSUME IInv, FInv, NEW p \in Prices, Fill(p)
    PROVE  FInv'
<1>. DEFINE q == book[Far][p]
            maker == Head(q)
            traded == IF incoming.qty < maker.qty THEN incoming.qty ELSE maker.qty
            t == [seq |-> next_seq, maker_id |-> maker.id,
                  taker_id |-> incoming.id, price |-> p, qty |-> traded,
                  taker_side |-> incoming.side]
            n == Len(ring)
<1>1. /\ Looping /\ Reaches(p)
      /\ book' = [book EXCEPT ![Far][p] = HeadFilled(@, traded)]
      /\ incoming' = [incoming EXCEPT !.qty = @ - traded]
      /\ Push(t) /\ next_seq' = next_seq + 1
      /\ rep' = [rep EXCEPT !.first_seq = FirstSeq, !.trade_count = @ + 1,
                            !.filled = @ + traded]
      /\ pc' = pc /\ pc = "match"
  BY DEF Fill, Looping
<1>2. /\ incoming \in Calls /\ q \in Queues /\ q # <<>> /\ maker = q[1]
      /\ maker \in RestingOrder /\ incoming.qty \in 1..MaxQty /\ Far \in Sides
  BY <1>1, LevelFacts
<1>3. traded \in 1..MaxQty /\ traded <= maker.qty
  BY <1>2, BoundsAssumption DEF RestingOrder
<1>4. /\ t.seq = next_seq /\ t.taker_id = incoming.id /\ t.price = p
      /\ t.qty = traded /\ t.taker_side = incoming.side
  OBVIOUS
<1>. HIDE DEF traded, t
<1>5. /\ incoming # NoCall /\ incoming'.id = incoming.id
      /\ incoming'.side = incoming.side /\ incoming'.limit = incoming.limit
  <2>1. incoming # NoCall
    BY <1>2, NoCallAssumption DEF Calls, Limits, Sides
  <2>. QED  BY <1>1, <1>2, <2>1 DEF Calls
<1>6. Far' = Far /\ \A r \in Prices : Crosses(r)' <=> Crosses(r)
  BY <1>5 DEF Far, Crosses
<1>7. /\ rep \in ExecReport /\ rep.first_seq \in Nat /\ rep.trade_count \in Nat
      /\ rep.filled \in Nat /\ ring \in Seq(Trade) /\ drop_count \in Nat
      /\ next_seq \in Nat /\ traded \in Nat
  BY <1>3, BoundsAssumption DEF IInv, TypeOK, ExecReport
<1>8. /\ rep'.first_seq = FirstSeq /\ rep'.trade_count = rep.trade_count + 1
      /\ rep'.filled = rep.filled + traded
  BY <1>1, <1>7 DEF ExecReport
<1>9. /\ n \in Nat /\ DOMAIN ring = 1..n
      /\ \A i \in 1..n : /\ ring[i].seq \in Nat /\ ring[i].price \in Prices
                         /\ ring[i].qty \in Int /\ ring[i].seq < next_seq
  BY <1>7, RingFacts DEF IInv, GapsAreDrops
<1>10. /\ rep.trade_count > 0 => next_seq = rep.first_seq + rep.trade_count
       /\ \A i \in Mine : /\ ring[i].taker_id = incoming.id
                          /\ ring[i].taker_side = incoming.side
                          /\ Crosses(ring[i].price)
       /\ \A i, j \in Mine : i < j => ~Better(Far, ring[j].price, ring[i].price)
       /\ drop_count = 0 => rep.filled = SumOver(RingQtys(ring), Mine, n)
  BY <1>5 DEF FInv, ReportNamesItsFills, RingQtys
<1>. HIDE DEF n
<1>11. \A i \in Mine, r \in Prices :
           book[Far][r] # <<>> => ~Better(Far, r, ring[i].price)
  BY <1>1 DEF FInv, WorseLeft
\* The range of sequence numbers grows by the new trade and by no other.
<1>12. FirstSeq \in Nat /\ FirstSeq <= next_seq
       /\ FirstSeq + (rep.trade_count + 1) = next_seq + 1
  BY <1>7, <1>10 DEF FirstSeq
<1>13. \A i \in 1..n : (FirstSeq <= ring[i].seq) <=> i \in Mine
  <2>. TAKE i \in 1..n
  <2>1. CASE rep.trade_count = 0
    BY <1>7, <1>9, <2>1 DEF FirstSeq, Mine
  <2>2. CASE rep.trade_count > 0
    BY <1>7, <1>9, <1>10, <2>2 DEF FirstSeq, Mine
  <2>. QED  BY <1>7, <2>1, <2>2
<1>14. Mine' = {i \in DOMAIN ring' : /\ FirstSeq <= ring'[i].seq
                                     /\ ring'[i].seq < next_seq + 1}
  BY <1>8, <1>12 DEF Mine
<1>15. \A r \in Prices : book'[Far][r] # <<>> => book[Far][r] # <<>>
  <2>1. book \in Books
    BY BookOfInv DEF GoodBook
  <2>. QED  BY <1>1, <1>2, <2>1 DEF Books
<1>16. Crosses(p) /\ \A r \in Prices : book[Far][r] # <<>> => ~Better(Far, r, p)
  BY <1>1 DEF Reaches, IsBest
<1>17. CASE ring' = ring /\ drop_count' = drop_count + 1
  <2>1. Mine' = Mine
    <3>1. Mine' \subseteq 1..n /\ Mine \subseteq 1..n
      BY <1>9, <1>14, <1>17 DEF Mine
    <3>2. \A i \in 1..n : i \in Mine' <=> i \in Mine
      BY <1>7, <1>9, <1>13, <1>14, <1>17
    <3>. QED  BY <3>1, <3>2
  <2>2. \A i \in Mine : ring[i].price \in Prices
    BY <1>9 DEF Mine
  <2>3. drop_count' # 0
    BY <1>7, <1>17
  <2>4. rep'.trade_count > 0 => next_seq' = rep'.first_seq + rep'.trade_count
    BY <1>1, <1>8, <1>12
  <2>5. ReportNamesItsFills'
    BY <1>5, <1>6, <1>10, <1>17, <2>1, <2>2, <2>3, <2>4
       DEF ReportNamesItsFills, Better
  <2>6. WorseLeft'
    BY <1>6, <1>11, <1>15, <1>17, <2>1 DEF WorseLeft, Better
  <2>. QED  BY <2>5, <2>6 DEF FInv
<1>18. CASE ring' = Append(ring, t) /\ drop_count' = drop_count
  <2>1. /\ DOMAIN ring' = 1..(n + 1) /\ Len(ring') = n + 1 /\ ring'[n + 1] = t
        /\ \A i \in 1..n : ring'[i] = ring[i]
    BY <1>7, <1>9, <1>18 DEF n
  <2>2. Mine \subseteq 1..n
    BY <1>9 DEF Mine
  <2>3. Mine' = Mine \cup {n + 1}
    <3>1. Mine' \subseteq 1..(n + 1)
      BY <1>14, <2>1
    <3>2. \A i \in 1..n : i \in Mine' <=> i \in Mine
      <4>. TAKE i \in 1..n
      <4>1. i \in 1..(n + 1) /\ ring'[i] = ring[i] /\ ring[i].seq < next_seq + 1
        BY <1>7, <1>9, <2>1
      <4>. QED  BY <1>13, <1>14, <2>1, <4>1
    <3>3. n + 1 \in Mine'
      <4>1. n + 1 \in 1..(n + 1) /\ ring'[n + 1].seq = next_seq
        BY <1>4, <1>9, <2>1
      <4>. QED  BY <1>7, <1>12, <1>14, <2>1, <4>1
    <3>4. \A i \in 1..(n + 1) : i \in 1..n \/ i = n + 1
      BY <1>9
    <3>5. \A i : i \in Mine' <=> i \in Mine \cup {n + 1}
      BY <2>2, <3>1, <3>2, <3>3, <3>4
    <3>. QED  BY <3>5
  <2>4. rep'.trade_count > 0 => next_seq' = rep'.first_seq + rep'.trade_count
    BY <1>1, <1>8, <1>12
  <2>5. (\A i \in Mine : /\ ring[i].taker_id = incoming.id
                         /\ ring[i].taker_side = incoming.side
                         /\ Crosses(ring[i].price))'
    <3>1. \A i \in Mine' : /\ ring'[i].taker_id = incoming.id
                           /\ ring'[i].taker_side = incoming.side
                           /\ ring'[i].price \in Prices
                           /\ Crosses(ring'[i].price)
      BY <1>4, <1>9, <1>10, <1>16, <2>1, <2>2, <2>3
    <3>. QED  BY <1>5, <3>1 DEF Crosses
  <2>6. \A i, j \in Mine' : i < j => ~Better(Far, ring'[j].price, ring'[i].price)
    <3>. SUFFICES ASSUME NEW i \in Mine', NEW j \in Mine', i < j
                  PROVE  ~Better(Far, ring'[j].price, ring'[i].price)
      OBVIOUS
    <3>1. i \in Mine
      <4>1. j \in Nat /\ j <= n + 1
        BY <1>9, <2>2, <2>3
      <4>2. i # n + 1
        BY <1>9, <4>1
      <4>. QED  BY <2>3, <4>2
    <3>2. ring'[i] = ring[i]
      BY <2>1, <2>2, <3>1
    <3>3. CASE j \in Mine
      BY <1>10, <2>1, <2>2, <3>1, <3>2, <3>3
    <3>4. CASE j = n + 1
      BY <1>2, <1>4, <1>11, <2>1, <3>1, <3>2, <3>4
    <3>. QED  BY <2>3, <3>3, <3>4
  <2>7. drop_count' = 0 => rep'.filled = SumOver(RingQtys(ring'), Mine', Len(ring'))
    <3>. SUFFICES ASSUME drop_count = 0
                  PROVE  rep.filled + traded = SumOver(RingQtys(ring'), Mine', n + 1)
      BY <1>8, <1>18, <2>1
    <3>. DEFINE f == RingQtys(ring)
                g == RingQtys(ring')
                U == Mine'
    <3>1. /\ \A i \in Mine : f[i] = ring[i].qty /\ f[i] \in Int
          /\ g[n + 1] = traded
          /\ \A i \in Mine : g[i] = f[i]
      <4>1. /\ \A i \in 1..n : f[i] = ring[i].qty
            /\ \A i \in 1..(n + 1) : g[i] = ring'[i].qty
        BY <1>9, <2>1 DEF RingQtys
      <4>2. n + 1 \in 1..(n + 1) /\ \A i \in Mine : i \in 1..n /\ i \in 1..(n + 1)
        BY <1>9, <2>2
      <4>. HIDE DEF f, g
      <4>. QED  BY <1>4, <1>9, <2>1, <4>1, <4>2
    <3>2. /\ \A k \in U : g[k] \in Int
          /\ \A k \in Mine : f[k] \in Int
          /\ U = Mine \cup {n + 1} /\ n + 1 \notin Mine
      BY <1>7, <1>9, <2>2, <2>3, <3>1
    <3>. HIDE DEF f, g, U
    <3>3. \A k \in 0..n : Term(g, U, k) = Term(f, Mine, k)
      <4>. TAKE k \in 0..n
      <4>1. k # n + 1
        BY <1>9
      <4>. QED  BY <3>1, <3>2, <4>1 DEF Term
    <3>4. SumOver(g, U, n) = SumOver(f, Mine, n)
      BY <1>9, <3>2, <3>3, SumUnchanged
    <3>5. SumOver(g, U, n + 1) = SumOver(g, U, n) + Term(g, U, n + 1)
      BY <1>9, <3>2, SumStep
    <3>6. Term(g, U, n + 1) = traded
      BY <3>1, <3>2 DEF Term
    <3>7. rep.filled = SumOver(f, Mine, n)
      BY <1>10 DEF f
    <3>8. rep.filled + traded = SumOver(g, U, n + 1)
      BY <3>4, <3>5, <3>6, <3>7
    <3>. QED  BY <3>8 DEF g, U
  <2>8. ReportNamesItsFills'
    <3>1. (\A i, j \in Mine : i < j => ~Better(Far, ring[j].price, ring[i].price))'
      BY <1>6, <2>6 DEF Better
    <3>2. (drop_count = 0 =>
               rep.filled = SumOver([i \in DOMAIN ring |-> ring[i].qty], Mine,
                                    Len(ring)))'
      BY <2>7 DEF RingQtys
    <3>. QED  BY <2>4, <2>5, <3>1, <3>2 DEF ReportNamesItsFills
  <2>9. WorseLeft'
    <3>1. \A i \in Mine', r \in Prices :
              book[Far][r] # <<>> => ~Better(Far, r, ring'[i].price)
      BY <1>4, <1>11, <1>16, <2>1, <2>2, <2>3
    <3>. QED  BY <1>6, <1>15, <3>1 DEF WorseLeft, Better
  <2>. QED  BY <2>8, <2>9 DEF FInv
<1>. QED  BY <1>1, <1>17, <1>18 DEF Push

LEMMA InitNames == Init => FInv
<1>. SUFFICES ASSUME Init  PROVE FInv
  OBVIOUS
<1>1. ring \in Seq(Trade) /\ rep = EmptyReport
  BY DEF Init
<1>. QED  BY <1>1, NothingFilledYet

LEMMA NextNames == IInv /\ IInv' /\ FInv /\ [Next]_vars => FInv'
<1>. SUFFICES ASSUME IInv, IInv', FInv, [Next]_vars  PROVE FInv'
  OBVIOUS
<1>1. CASE incoming' = NoCall /\ pc' # "match"
  BY <1>1 DEF FInv, ReportNamesItsFills, WorseLeft
<1>2. CASE ring' = ring /\ rep' = EmptyReport
  <2>1. ring' \in Seq(Trade)
    BY DEF IInv, TypeOK
  <2>2. (ring \in Seq(Trade) /\ rep = EmptyReport => FInv)'
    BY NothingFilledYet, PTL
  <2>. QED  BY <1>2, <2>1, <2>2
<1>3. CASE Request
  <2>1. ASSUME NEW b, NEW r, Answer(b, r)  PROVE FInv'
    BY <1>1, <2>1 DEF Answer, IInv, TypeOK
  <2>2. ASSUME NEW b, NEW id, NEW owner, NEW side, NEW limit, NEW qty,
               Submit(b, id, owner, side, limit, qty)
        PROVE  FInv'
    BY <1>2, <2>1, <2>2 DEF Submit
  <2>3. ASSUME NEW id, Cancel(id)  PROVE FInv'
    BY <1>1, <2>3 DEF Cancel, IInv, TypeOK
  <2>. QED  BY <1>3, <2>1, <2>2, <2>3 DEF Request, AddLimit, AddMarket, Modify
<1>4. ASSUME NEW p \in Prices, CancelMaker(p)  PROVE FInv'
  <2>1. /\ Looping /\ Reaches(p)
        /\ book' = [book EXCEPT ![Far][p] = Tail(book[Far][p])]
        /\ rep' = [rep EXCEPT !.stp_cancelled = @ + Head(book[Far][p]).qty]
        /\ UNCHANGED <<pc, incoming, next_seq, ring, drop_count>>
    BY <1>4 DEF CancelMaker
  <2>2. book[Far][p] # <<>> /\ Far \in Sides /\ book \in Books
    BY <2>1, LevelFacts, BookOfInv DEF GoodBook
  <2>3. \A r \in Prices : book'[Far][r] # <<>> => book[Far][r] # <<>>
    BY <2>1, <2>2 DEF Books
  <2>4. /\ rep'.first_seq = rep.first_seq /\ rep'.trade_count = rep.trade_count
        /\ rep'.filled = rep.filled
    BY <2>1 DEF IInv, TypeOK, ExecReport
  <2>. QED  BY <2>1, <2>3, <2>4, NothingPrinted
<1>5. ASSUME NEW p \in Prices, Halt(p)  PROVE FInv'
  <2>1. /\ rep'.first_seq = rep.first_seq /\ rep'.trade_count = rep.trade_count
        /\ rep'.filled = rep.filled
        /\ UNCHANGED <<book, pc, incoming, next_seq, ring, drop_count>>
    BY <1>5 DEF Halt, IInv, TypeOK, ExecReport
  <2>. QED  BY <2>1, NothingPrinted
<1>6. CASE RestLeftover \/ DropLeftover
  <2>1. /\ rep'.first_seq = rep.first_seq /\ rep'.trade_count = rep.trade_count
        /\ rep'.filled = rep.filled
    <3>1. rep \in ExecReport
      BY DEF IInv, TypeOK
    <3>2. CASE RestLeftover
      BY <3>1, <3>2 DEF RestLeftover, ExecReport
    <3>3. CASE DropLeftover
      BY <3>1, <3>3 DEF DropLeftover, ExecReport
    <3>. QED  BY <1>6, <3>2, <3>3
  <2>2. pc' = "done" /\ UNCHANGED <<incoming, next_seq, ring, drop_count>>
    BY <1>6 DEF RestLeftover, DropLeftover
  <2>. QED  BY <2>1, <2>2, NothingPrinted
<1>7. CASE Return
  BY <1>1, <1>7 DEF Return
<1>8. CASE Step
  BY <1>4, <1>5, <1>6, <1>7, <1>8, FillPrints DEF Step
<1>9. CASE Pop
  BY <1>1, <1>9 DEF Pop, IInv, TypeOK
<1>10. CASE UNCHANGED vars
  BY <1>10, NothingPrinted DEF vars
<1>. QED  BY <1>3, <1>8, <1>9, <1>10 DEF Next

-----------------------------------------------------------------------------
(***************************************************************************)
(* What a caller may rely on, for the proofs about callers                 *)
(***************************************************************************)

\* An order that leaves the book is gone: cancel() frees its id, and modify()
\* may use it again.
LEMMA RemovedIsGone ==
    ASSUME IInv, NEW s \in Sides, NEW p \in Prices, NEW i \in DOMAIN book[s][p],
           NEW c, c = Removed(s, p, i)
    PROVE  /\ ~Live(c, book[s][p][i].id)
           /\ \A id \in Ids : Live(c, id) => Live(book, id)
           /\ \A t \in Sides, r \in Prices : t # s => c[t][r] = book[t][r]
<1>. DEFINE q == book[s][p]
            rest == RemoveAt(q, i)
<1>1. GoodBook(book) /\ book \in Books
  BY BookOfInv DEF GoodBook
<1>2. q \in Seq(RestingOrder) /\ i \in 1..Len(q) /\ q \in Queues
      /\ DOMAIN q = 1..Len(q) /\ Len(q) \in Nat
  BY <1>1 DEF Books, Queues
<1>3. /\ rest \in Seq(RestingOrder) /\ Len(rest) = Len(q) - 1
      /\ \A j \in 1..(Len(q) - 1) : rest[j] = IF j < i THEN q[j] ELSE q[j + 1]
  <2>. HIDE DEF q
  <2>. QED  BY <1>2, RemoveAtFacts
<1>4. rest \in Queues /\ Thinned(rest, q)
  <2>. HIDE DEF q
  <2>. QED  BY <1>2, RemoveAtThins
<1>5. c = Replaced(book, s, p, rest)
  BY DEF Removed, Replaced
<1>6. \A id \in Ids : Live(c, id) => Live(book, id)
  <2>. HIDE DEF rest
  <2>. QED  BY <1>1, <1>4, <1>5, ThinnedIsGood
<1>7. /\ c[s][p] = rest
      /\ \A t \in Sides, r \in Prices : ~(t = s /\ r = p) => c[t][r] = book[t][r]
  <2>. HIDE DEF rest
  <2>. QED  BY <1>1, <1>5 DEF Replaced, Books
<1>8. ASSUME NEW t \in Sides, NEW r \in Prices, NEW j \in DOMAIN c[t][r],
             c[t][r][j].id = q[i].id
      PROVE  FALSE
  <2>1. CASE ~(t = s /\ r = p)
    BY <1>1, <1>2, <1>7, <1>8, <2>1 DEF GoodBook, Unique
  <2>2. CASE t = s /\ r = p
    <3>1. j \in 1..(Len(q) - 1) /\ c[t][r][j] = rest[j]
      <4>. HIDE DEF rest, q
      <4>. QED  BY <1>2, <1>3, <1>7, <1>8, <2>2
    <3>2. PICK k \in 1..Len(q) : k # i /\ rest[j] = q[k]
      <4>. HIDE DEF rest, q
      <4>1. CASE j < i
        BY <1>2, <1>3, <3>1, <4>1
      <4>2. CASE ~(j < i)
        BY <1>2, <1>3, <3>1, <4>2
      <4>. QED  BY <4>1, <4>2
    <3>3. q[k].id = q[i].id
      BY <1>8, <3>1, <3>2
    <3>. QED  BY <1>1, <1>2, <3>2, <3>3 DEF GoodBook, Unique
  <2>. QED  BY <2>1, <2>2
<1>9. ~Live(c, q[i].id)
  BY <1>8 DEF Live
<1>. QED  BY <1>6, <1>7, <1>9

\* Inside the loop no id becomes live, and the ring takes the trade of a fill
\* as long as it has room. A fill costs the taker some of its quantity.
LEMMA LoopSteps ==
    ASSUME IInv, NEW p \in Prices, Fill(p) \/ CancelMaker(p) \/ Halt(p)
    PROVE  /\ Looping /\ Reaches(p)
           /\ pc = "match" /\ pc' = "match"
           /\ incoming \in Calls /\ incoming'.id = incoming.id
           /\ rep'.accepted = rep.accepted
           /\ \A id \in Ids : Live(book', id) => Live(book, id)
           /\ \/ ring' = ring /\ drop_count' = drop_count /\ incoming' = incoming
              \/ /\ incoming'.qty \in Nat /\ incoming'.qty < incoming.qty
                 /\ Len(ring) < Capacity =>
                        Len(ring') = Len(ring) + 1 /\ drop_count' = drop_count
<1>. DEFINE q == book[Far][p]
            maker == Head(q)
            traded == IF incoming.qty < maker.qty THEN incoming.qty ELSE maker.qty
<1>1. Looping /\ Reaches(p) /\ pc = "match" /\ pc' = "match"
  BY DEF Fill, CancelMaker, Halt, Looping
<1>2. /\ incoming \in Calls /\ Far \in Sides /\ q \in Queues /\ q # <<>>
      /\ maker = q[1] /\ maker \in RestingOrder /\ incoming.qty \in 1..MaxQty
  BY <1>1, LevelFacts
<1>3. GoodBook(book) /\ rep \in ExecReport /\ ring \in Seq(Trade)
  BY BookOfInv DEF IInv, TypeOK
<1>4. ASSUME NEW r \in Queues, Thinned(r, q), book' = [book EXCEPT ![Far][p] = r]
      PROVE  \A id \in Ids : Live(book', id) => Live(book, id)
  <2>1. book' = Replaced(book, Far, p, r)
    BY <1>4 DEF Replaced
  <2>. HIDE DEF q
  <2>. QED  BY <1>2, <1>3, <1>4, <2>1, ThinnedIsGood DEF q
<1>5. CASE Fill(p)
  <2>1. traded \in 1..MaxQty /\ traded <= q[1].qty /\ traded <= incoming.qty
    BY <1>2, BoundsAssumption DEF RestingOrder
  <2>2. /\ book' = [book EXCEPT ![Far][p] = HeadFilled(q, traded)]
        /\ incoming' = [incoming EXCEPT !.qty = @ - traded]
        /\ \E t : Push(t)
    BY <1>5 DEF Fill
  <2>3. rep'.accepted = rep.accepted
    BY <1>3, <1>5 DEF Fill, ExecReport
  <2>. HIDE DEF traded, maker
  <2>4. HeadFilled(q, traded) \in Queues /\ Thinned(HeadFilled(q, traded), q)
    <3>. HIDE DEF q
    <3>. QED  BY <1>2, <2>1, HeadFilledThins
  <2>5. \A id \in Ids : Live(book', id) => Live(book, id)
    BY <1>4, <2>2, <2>4
  <2>6. /\ incoming'.id = incoming.id
        /\ incoming'.qty \in Nat /\ incoming'.qty < incoming.qty
    BY <1>2, <2>1, <2>2, BoundsAssumption DEF Calls
  <2>7. Len(ring) < Capacity =>
            Len(ring') = Len(ring) + 1 /\ drop_count' = drop_count
    BY <1>3, <2>2, BoundsAssumption DEF Push
  <2>. QED  BY <1>1, <1>2, <2>3, <2>5, <2>6, <2>7
<1>6. CASE CancelMaker(p)
  <2>1. /\ book' = [book EXCEPT ![Far][p] = Tail(q)]
        /\ UNCHANGED <<incoming, ring, drop_count>>
    BY <1>6 DEF CancelMaker
  <2>2. rep'.accepted = rep.accepted
    BY <1>3, <1>6 DEF CancelMaker, ExecReport
  <2>3. Tail(q) \in Queues /\ Thinned(Tail(q), q)
    BY <1>2, TailThins
  <2>. QED  BY <1>1, <1>2, <1>4, <2>1, <2>2, <2>3
<1>7. CASE Halt(p)
  BY <1>1, <1>2, <1>3, <1>7 DEF Halt, ExecReport
<1>. QED  BY <1>5, <1>6, <1>7

\* When the loop ends, the taker's id is the only one that may become live.
LEMMA EndSteps ==
    ASSUME IInv, RestLeftover \/ DropLeftover
    PROVE  /\ pc = "match" /\ pc' = "done"
           /\ incoming \in Calls /\ rep'.accepted = rep.accepted
           /\ UNCHANGED <<incoming, ring, drop_count>>
           /\ \A id \in Ids :
                  Live(book', id) => Live(book, id) \/ id = incoming.id
<1>1. /\ pc = "match" /\ pc' = "done" /\ UNCHANGED <<incoming, ring, drop_count>>
      /\ incoming \in Calls /\ rep \in ExecReport /\ book \in Books
  BY BookOfInv DEF RestLeftover, DropLeftover, LoopEnds, IInv, TypeOK, GoodBook
<1>2. rep'.accepted = rep.accepted
  BY <1>1 DEF RestLeftover, DropLeftover, ExecReport
<1>3. CASE DropLeftover
  BY <1>1, <1>2, <1>3 DEF DropLeftover
<1>4. CASE RestLeftover
  <2>. DEFINE o == [id |-> incoming.id, owner |-> incoming.owner,
                    qty |-> incoming.qty]
              s == incoming.side
              p == incoming.limit
              q == book[s][p]
  <2>1. book' = [book EXCEPT ![s][p] = Append(q, o)] /\ o.id = incoming.id
    BY <1>4 DEF RestLeftover
  <2>2. s \in Sides /\ p \in Prices
    BY <1>1, <1>4 DEF RestLeftover, LeftoverRests, Calls, Limits
  <2>3. /\ q \in Queues /\ Len(q) \in Nat /\ DOMAIN q = 1..Len(q)
        /\ DOMAIN Append(q, o) = 1..(Len(q) + 1)
        /\ Append(q, o)[Len(q) + 1] = o
        /\ \A k \in 1..Len(q) : Append(q, o)[k] = q[k]
    BY <1>1, <2>2 DEF Books, Queues
  <2>. HIDE DEF o, s, p
  <2>4. ASSUME NEW id \in Ids, NEW t \in Sides, NEW r \in Prices,
               NEW k \in DOMAIN book'[t][r], book'[t][r][k].id = id
        PROVE  Live(book, id) \/ id = incoming.id
    <3>1. CASE t = s /\ r = p
      <4>1. book'[t][r] = Append(q, o)
        BY <1>1, <2>1, <2>2, <3>1 DEF Books
      <4>2. k \in 1..Len(q) \/ k = Len(q) + 1
        BY <2>3, <2>4, <4>1
      <4>3. CASE k \in 1..Len(q)
        <5>1. k \in DOMAIN book[s][p] /\ book[s][p][k].id = id
          BY <2>3, <2>4, <4>1, <4>3
        <5>. QED  BY <2>2, <5>1 DEF Live
      <4>4. CASE k = Len(q) + 1
        BY <2>1, <2>3, <2>4, <4>1, <4>4
      <4>. QED  BY <4>2, <4>3, <4>4
    <3>2. CASE ~(t = s /\ r = p)
      <4>1. book'[t][r] = book[t][r]
        BY <1>1, <2>1, <2>2, <3>2 DEF Books
      <4>. QED  BY <2>4, <4>1 DEF Live
    <3>. QED  BY <3>1, <3>2
  <2>5. \A id \in Ids : Live(book', id) => Live(book, id) \/ id = incoming.id
    BY <2>4 DEF Live
  <2>. QED  BY <1>1, <1>2, <2>5
<1>. QED  BY <1>3, <1>4

-----------------------------------------------------------------------------
(***************************************************************************)
(* The theorems                                                            *)
(***************************************************************************)

\* IInv is inductive: one case per action.
LEMMA NextInv == IInv /\ [Next]_vars => IInv'
<1>. SUFFICES ASSUME IInv, [Next]_vars  PROVE IInv'
  OBVIOUS
<1>1. ASSUME NEW id \in Ids, NEW owner \in Owners, NEW side \in Sides,
             NEW qty \in 0..MaxQty, NEW price \in Prices,
             AddLimit(id, owner, side, price, qty)
      PROVE  IInv'
  <2>1. price \in Limits
    BY DEF Limits
  <2>. QED  BY <1>1, <2>1, SubmitKeeps, BookOfInv DEF AddLimit
<1>2. ASSUME NEW id \in Ids, NEW owner \in Owners, NEW side \in Sides,
             NEW qty \in 0..MaxQty, AddMarket(id, owner, side, qty)
      PROVE  IInv'
  <2>1. NoLimit \in Limits
    BY DEF Limits
  <2>. QED  BY <1>2, <2>1, SubmitKeeps, BookOfInv DEF AddMarket
<1>3. ASSUME NEW id \in Ids, NEW price \in Prices, NEW qty \in 0..MaxQty,
             Modify(id, price, qty)
      PROVE  IInv'
  BY <1>3, ModifyKeeps
<1>4. ASSUME NEW id \in Ids, Cancel(id)  PROVE IInv'
  BY <1>4, CancelKeeps
<1>5. CASE Request
  BY <1>1, <1>2, <1>3, <1>4, <1>5 DEF Request
<1>6. CASE Step
  BY <1>6, FillKeeps, CancelMakerKeeps, HaltKeeps, RestLeftoverKeeps,
     DropLeftoverKeeps, ReturnKeeps DEF Step
<1>7. CASE Pop
  BY <1>7, PopKeeps
<1>8. CASE UNCHANGED vars
  <2>1. /\ TypeOK' /\ NotCrossed' /\ LiveIdsUnique' /\ GapsAreDrops'
    BY <1>8 DEF vars, IInv, TypeOK, NotCrossed, LiveIdsUnique, GapsAreDrops
  <2>2. FacesItself' <=> FacesItself
    BY <1>8, SameFace DEF vars
  <2>3. InFlight' /\ ReportTellsTheTruth' /\ LeftoverExplained'
    BY <1>8, <2>2 DEF vars, IInv, InFlight, ReportTellsTheTruth,
                      LeftoverExplained, Submitted, Crosses, Far
  <2>. QED  BY <2>1, <2>3 DEF IInv
<1>. QED  BY <1>5, <1>6, <1>7, <1>8 DEF Next

LEMMA Invariance == Spec => []IInv
BY InitInv, NextInv, PTL DEF Spec

\* Every variable of the book keeps its type, for all ids, prices, bounds and
\* ring capacities.
THEOREM TypeCorrect == Spec => []TypeOK
<1>1. IInv => TypeOK
  BY DEF IInv
<1>. QED  BY <1>1, Invariance, PTL

\* No sequence of orders, cancels and modifies crosses the book, not even for
\* the length of one fill (submit, match, insert).
THEOREM NeverCrossed == Spec => []NotCrossed
<1>1. IInv => NotCrossed
  BY DEF IInv
<1>. QED  BY <1>1, Invariance, PTL

\* Ids stay unique over both sides of the book, through modify and reuse.
THEOREM IdsStayUnique == Spec => []LiveIdsUnique
<1>1. IInv => LiveIdsUnique
  BY DEF IInv
<1>. QED  BY <1>1, Invariance, PTL

\* The ExecReport of every submitted order is the truth about it.
THEOREM ReportsAreTrue == Spec => []ReportTellsTheTruth
<1>1. IInv => ReportTellsTheTruth
  BY DEF IInv
<1>. QED  BY <1>1, Invariance, PTL

\* match() never stops early: what it leaves of an order met a far side that
\* the limit rules out, or the taker's own order under CancelIncoming.
THEOREM MatchingIsExhaustive == Spec => []LeftoverExplained
<1>1. IInv => LeftoverExplained
  BY DEF IInv
<1>. QED  BY <1>1, Invariance, PTL

\* Whatever the ring's capacity and however rarely the caller drains it, the
\* gaps in the trades it holds are covered by the drop counter.
THEOREM TapeIsAccountedFor == Spec => []GapsAreDrops
<1>1. IInv => GapsAreDrops
  BY DEF IInv
<1>. QED  BY <1>1, Invariance, PTL
\* Time priority for every history of the book: match, insert, cancel and
\* modify never put an order ahead of one that rests in the queue already.
THEOREM TimePriority == Spec => QueueOrderKept
<1>1. IInv /\ IInv' /\ [Next]_vars => [NoOneOvertakes]_vars
  BY StepsKeepOrder
<1>. QED  BY <1>1, Invariance, PTL DEF Spec, QueueOrderKept

\* Price-time priority and self-trade prevention for every history: match()
\* takes from the head of the best far level and from nobody else, and it
\* trades with an order of the taker's owner only where the policy allows it.
THEOREM PricePriority == Spec => MakerHadPriority
<1>1. IInv /\ [Next]_vars => [TakesInPriority]_vars
  BY StepsTakeInPriority
<1>. QED  BY <1>1, Invariance, PTL DEF Spec, MakerHadPriority

\* Volume is conserved by every step of match(): what the far side loses was
\* filled or cancelled by self-trade prevention, as reported, and what the near
\* side gains is the leftover.
THEOREM VolumeIsConserved == Spec => VolumeAccounted
<1>1. IInv /\ IInv' /\ [Next]_vars => [TakesWhatItReports]_vars
  BY StepsReportWhatTheyTake
<1>. QED  BY <1>1, Invariance, PTL DEF Spec, VolumeAccounted

\* For every history and every ring: the range of sequence numbers a report
\* gives names the taker's fills and nobody else's, at prices within its limit
\* that never improve, and nothing of `filled` is missing from the tape unless
\* a trade was dropped.
THEOREM ReportsNameTheirFills == Spec => []ReportNamesItsFills
<1>1. FInv => ReportNamesItsFills
  BY DEF FInv
<1>. QED  BY <1>1, InitNames, NextNames, Invariance, PTL DEF Spec
=============================================================================
