------------------------------ MODULE IdIndex -------------------------------
(***************************************************************************)
(* The id index (include/lob/id_index.hpp): open addressing with linear    *)
(* probing, backward-shift deletion, and doubling at half full. The hash   *)
(* is a parameter: the table is right whatever it is; IdHash has the one   *)
(* the code uses.                                                          *)
(*                                                                         *)
(* The operators are functions of a table t, whose size is a power of two, *)
(* so "& mask" is the remainder.                                           *)
(*                                                                         *)
(* Definitions marked "Slip" are wrong on purpose: each is the definition  *)
(* after it with a plausible coding mistake, and no specification uses it. *)
(***************************************************************************)
EXTENDS Integers, FiniteSets

CONSTANTS
    Ids,
    Values,
    Absent,             \* nullptr; take() returning false
    Hash(_, _),         \* Hash(id, capacity): the home slot of id
    InitialCapacity,    \* what the constructor settles on
    MaxCapacity         \* bound on growth

\* The sizes a table may have: it starts at one and doubles.
Capacities == {cap \in 1..MaxCapacity : cap % InitialCapacity = 0}

Entry == [id : Ids, value : Values]

ASSUME IndexAssumption ==
    /\ InitialCapacity \in Nat \ {0} /\ MaxCapacity \in Nat
    /\ InitialCapacity <= MaxCapacity
    /\ \A id \in Ids, cap \in Capacities : Hash(id, cap) \in 0..(cap - 1)
    /\ Absent \notin Values /\ Absent \notin Entry

VARIABLES
    table,              \* table[i]: an Entry, or Absent when it is not used
    count,
    grow_count,
    taken               \* what the last take() answered

vars == <<table, count, grow_count, taken>>

Capacity(t) == Cardinality(DOMAIN t)
EmptyTable(cap) == [i \in 0..(cap - 1) |-> Absent]

\* The first of `slots` from the home of id on: where a probing loop of the
\* code stops. There is one as long as a slot is free.
FirstFrom(t, id, slots) ==
    LET cap == Capacity(t)
        home == Hash(id, cap)
        stops == {d \in 0..(cap - 1) : (home + d) % cap \in slots}
    IN  (home + CHOOSE d \in stops : \A e \in stops : d <= e) % cap

Free(t) == {i \in DOMAIN t : t[i] = Absent}

\* Where find() and take() stop looking for id.
Seek(t, id) ==
    FirstFrom(t, id, Free(t) \cup {i \in DOMAIN t \ Free(t) : t[i].id = id})

\* find()
Find(t, id) == LET e == t[Seek(t, id)] IN IF e = Absent THEN Absent ELSE e.value

\* place(): the first free slot from the home on.
Place(t, id, value) ==
    [t EXCEPT ![FirstFrom(t, id, Free(t))] = [id |-> id, value |-> value]]

\* Slip: the run of entries does not wrap around the end of the table.
Stays_NoWrap(hole, h, j) == hole < h /\ h <= j

\* The home h of the entry at j lies cyclically in (hole, j].
Stays(hole, h, j) == IF hole <= j THEN hole < h /\ h <= j ELSE hole < h \/ h <= j

\* close_gap(): each entry of the run after the hole is pulled back into it,
\* unless that would move it before its home.
CloseGap(t, hole) ==
    LET cap == Capacity(t)
        at(d) == (hole + d) % cap
        ends == {d \in 1..(cap - 1) : t[at(d)] = Absent}
        run == IF ends = {} THEN cap - 1
               ELSE (CHOOSE d \in ends : \A e \in ends : d <= e) - 1
        shift[d \in 0..run] ==
            IF d = 0 THEN [table |-> t, hole |-> hole]
            ELSE LET s == shift[d - 1]
                     j == at(d)
                 IN  IF Stays(s.hole, Hash(t[j].id, cap), j) THEN s
                     ELSE [table |-> [s.table EXCEPT ![s.hole] = t[j]],
                           hole |-> j]
    IN  [shift[run].table EXCEPT ![shift[run].hole] = Absent]

\* grow(): a table of twice the size, the entries placed again in table order.
Grow(t) ==
    LET cap == Capacity(t)
        moved[n \in 0..cap] ==
            IF n = 0 THEN EmptyTable(2 * cap)
            ELSE IF t[n - 1] = Absent THEN moved[n - 1]
            ELSE Place(moved[n - 1], t[n - 1].id, t[n - 1].value)
    IN  moved[cap]

\* Slip: the table grows once it is full.
MustGrow_WhenFull(t, n) == n = Capacity(t)

\* One entry more would leave the table more than half full.
MustGrow(t, n) == (n + 1) * 2 > Capacity(t)

-----------------------------------------------------------------------------
Init == /\ table = EmptyTable(InitialCapacity)
        /\ count = 0 /\ grow_count = 0
        /\ taken = Absent

\* The table as insert() leaves it: the caller knows that the id is absent.
Enter(id, value) ==
    LET grows == MustGrow(table, count) IN
    /\ Find(table, id) = Absent
    /\ grows => 2 * Capacity(table) <= MaxCapacity
    /\ table' = Place(IF grows THEN Grow(table) ELSE table, id, value)
    /\ grow_count' = IF grows THEN grow_count + 1 ELSE grow_count
    /\ count' = count + 1

\* insert()
Insert(id, value) == Enter(id, value) /\ UNCHANGED taken

\* Slip: the value is read once the gap is closed.
Take_ReadsLate(id) ==
    LET i == Seek(table, id)
        left == CloseGap(table, i)[i]
    IN
    /\ table[i] # Absent
    /\ taken' = IF left = Absent THEN Absent ELSE left.value
    /\ table' = CloseGap(table, i)
    /\ count' = count - 1
    /\ UNCHANGED grow_count

\* erase(): an id that is not there changes nothing.
Erase(id) ==
    LET i == Seek(table, id) IN
    /\ IF table[i] = Absent THEN UNCHANGED <<table, count>>
       ELSE /\ table' = CloseGap(table, i)
            /\ count' = count - 1
    /\ UNCHANGED grow_count

\* take(): erase(), answering the value.
Take(id) == taken' = Find(table, id) /\ Erase(id)

Next == \E id \in Ids : Take(id) \/ \E value \in Values : Insert(id, value)

Spec == Init /\ [][Next]_vars

-----------------------------------------------------------------------------
\* The table, its counters and the last answer have their types; a slot is
\* always free, so every probe ends.
TypeOK == /\ table \in [0..(Capacity(table) - 1) -> Entry \cup {Absent}]
          /\ Capacity(table) \in Capacities
          /\ count \in Nat /\ 2 * count <= Capacity(table)
          /\ grow_count \in Nat
          /\ taken \in Values \cup {Absent}

\* consistent(): every entry is reached from its home without crossing a free
\* slot, in a table that has wrapped, shifted and grown; no id is there twice,
\* and the count is right.
EveryEntryReachable ==
    LET used == {i \in DOMAIN table : table[i] # Absent}
    IN  /\ \A i \in used : Seek(table, table[i].id) = i
        /\ count = Cardinality(used)

Map == INSTANCE IdMap WITH map <- [id \in Ids |-> Find(table, id)]

\* Seen through find() and take(), the table is a map: no other id's entry is
\* lost, resurrected or changed by an insertion, a removal or a growth.
ImplementsMap == Map!Spec
=============================================================================
