# A verification of the order book

TLA+ models of the limit order book in `src/` (a single-threaded matching
engine in C++: `include/lob/*.hpp`, `src/*.cpp`), TLC configurations that check
them on small instances, and TLAPS proofs that hold for every instance.
`PROJECT.json` maps every definition to the source lines it stands for.

## The system

| Part | State | Operations | Used by |
|---|---|---|---|
| `OrderBook` (`order_book.*`) | the parts below, `next_seq`, the self-trade policy | `add_limit`, `add_market`, `cancel`, `modify`, queries | callers |
| `PriceLadder` | array of levels over a price window, fallback map, `occupied`, `best_idx` | `place`, `open`, `find`, `best`, `closed`, `for_each_level` | `OrderBook`, one per side |
| Order queues | head, tail and total per level; links in the slots | `append`, `detach`, `insert`, `remove` | `OrderBook` |
| `SlotPool` | a block of slots, high-water mark, free list | `acquire`, `release`, `grow` | the queues |
| `IdIndex` | an open-addressing table | `find`, `insert`, `take`, `grow` | `OrderBook` |
| `TradeRing` | buffer, two cursors, drop counter | `push` (matching loop), `pop` (caller) | `OrderBook`, callers |
| `NodeArena` | slabs, a cursor, free lists per size class | `allocate`, `deallocate` | the fallback map |
| Test oracle (`tests/reference_book.hpp`) and differential harness | a plain second book | the same calls | tests |
| Flow generator (`bench/flow.*`) | a book, a pool of live ids, a wandering mid price | `add`, `cancel`, `modify`, `marketable` | the benchmark |
| `HugePageAllocator` | mappings of the process | `allocate`, `deallocate` | the slot pool's block, the index's table, the ladder's array |
| Benchmark driver (`bench/bench_main.cpp`) | one sample buffer for all passes and runs, vectors per kind of operation, results per run | `run`, `time_ops`, percentiles, the summary | developers |

Everything runs on the caller's thread; there are no callbacks into the book,
no persistence and no messages. A book may move between threads only under the
caller's synchronisation, so there is no interleaving of calls to model. What is
hard is elsewhere: the matching loop changes the structures it walks, and its
invariants hold or fail in the middle of a call; cached answers (`best_idx`,
`occupied`, `total_qty`, the id index, `first_seq`) have to follow every change;
indices are reused the moment they are free; counters wrap, windows are clipped,
tables and rings fill up; an `insert` can throw halfway.

What makes each part correct:

* matching: the book is never crossed; the order with price-time priority trades
  first; an id rests once; the report says what happened to all of the quantity;
  self-trade prevention stops or cancels exactly what it should; calls return;
* ladder: a map of levels with the right best price, whichever container holds
  a level;
* queues and pool: time order survives removals, reuse and growth; no slot is in
  two places;
* index: a map, whatever collides and wherever runs wrap;
* ring: a bounded queue that counts what it drops;
* arena: blocks never overlap and are not lost;
* the book as stored: ladders, slots, index and ring tell one story between any two
  steps, and callers cannot tell it from the plain book;
* huge pages: what is in use is mapped, what is given back is unmapped;
* flow: every operation names an order that rests, passive orders rest without trading;
* driver: a row is about the operations it names and no others, and a run whose
  trades differ is not summed up.

## Modules

```
MatchingEngine ------- what callers see             MatchingEngine_proofs
  ^--uses-- FlowGenerator                           FlowGenerator_proofs
  ^--refines-- OrderBook (seen through Differential)
BookSide <--refines--- PriceLadder                  PriceLadder_proofs
TradeTape <--refines-- TradeRing                    TradeRing_proofs
IdMap <----refines---- IdIndex  (hash: IdHash)      IdIndex_proofs
SlotPool <-- QueueLinks <-- OrderQueues --> HugePages   OrderQueues_proofs
NodeArena                                           NodeArena_proofs
Bench                  Sums (a helper)              Foundations (lemmas)

OrderBook = PriceLadder x 2 + QueueLinks + IdIndex + TradeRing
Differential = OrderBook + ReferenceBook
```

`MC*` modules only give constants to TLC. Definitions marked "Slip" are
deliberate mistakes: putting one in place of the definition after it must make
the named property fail (`mutants` in `PROJECT.json`).

* **MatchingEngine** is the book at the level of its interface. A side is a
  function from prices to FIFO queues (sequences). A call is not atomic: `pc` is
  `match` inside `OrderBook::match`, and each turn of its inner loop is one action,
  `Fill`, `CancelMaker` or `Halt`; `RestLeftover` and `DropLeftover` end
  `submit`, `Return` hands over `rep`. `Submit` is `submit` up to the loop;
  `AddLimit`, `AddMarket` and `Modify` go through it as in the code, `Cancel` and a
  rejected call end at once. The policy is chosen in `Init` and never changes.
* **PriceLadder** has one operator per member function, on a ladder record, and a
  machine that drives one ladder as `insert`, `remove` and `match` do. The type
  `Price` is `0..MaxPrice`, with the clip in `place` and the shift in
  `centred_base` at both ends. A level is opaque but for being empty.
  **BookSide** is what it implements.
* **TradeRing** has cursors of one machine word, which has `Word` values (any power
  of two), and the buffer size `round_up_pow2` gives; **TradeTape** is the queue it implements.
* **SlotPool** and **QueueLinks** are the operations on slots and links, as
  operators; **OrderQueues** is a machine on top of them. `queued` and `freed` are
  history: what each queue and the free list ought to be; the properties say that
  the links spell them. Growing the pool moves its block, which **HugePages**
  allocates: `Allocations` is the over-mapping and trimming in `allocate`, with `mmap`
  external (any free run of pages may come back), and `mapped` is what the process
  has mapped. `InsertThrows` is the exception at `2^31` slots, with the index
  width scaled down.
* **IdIndex** takes the hash as a parameter; **IdHash** has the code's hash.
  A probing loop is "the first slot from the home on that ..."; `close_gap` is a
  recursive function along the run, `grow` one along the old table. **IdMap** is the map it implements, as
  seen through `find` and `take`.
* **NodeArena** names a block by slab and byte offset; `live` and `tails` are
  history.
* **FlowGenerator** composes the generator with an instance of `MatchingEngine`, the
  generator's own book. `Issue` is one turn of the loops in `run`: it draws an
  operation and enters the book; `BookSteps` is the book at work; `Complete` is
  the rest of `emit` and of the operation, with the sweep of the pool. Random draws
  are existential choices, and the pool a set, since any live id may be drawn. A
  price is taken modulo `MaxPrice + 1`. `pending.room` is history: whether there was a price
  behind the far touch when the operation was issued.
* **OrderBook** is the book as it is stored. Its two ladders, its index and its ring
  are instances of the modules above, so the code is modelled once: a level holds
  `head`, `tail` and `total_qty`, an index entry packs slot and side into one word
  (`index_value`), and one turn of the matching loop reduces the maker in its slot and,
  when nothing is left of it, takes it out of index, queue, pool and ladder. The calls
  and steps have the names they have in `MatchingEngine`. `ThrowSpec` adds the three ways
  `insert` can fail after the level is open: the pool cannot grow
  (`AcquireThrows`), the slot number is too large for the index (`LimitThrows`), the
  index has given up its table and cannot allocate another (`IndexThrows`).
* **ReferenceBook** is the test oracle, as functions of a book: resting orders in one
  sequence by arrival, the best maker found by a scan. **Differential** is
  `diff_harness.cpp`: it gives every call to both. `seen` and `peak` are history: the
  queues and the unread trades the storage stands for, and the most orders that ever
  rested. `ImplementsEngine` is `MatchingEngine` with `seen` for its book and tape.
* **Bench** is the driver: `TimeOp` is a turn of `time_ops`, in three passes through
  one buffer; `Spin` the noise floor; `SumUp` the rest of `run`; `Keep`, `Discard`
  and `Report` are `main`. The clock and the book are external: a duration is
  drawn from a set, and an operation makes the trades the generator saw, or others, or
  too many for the ring. A book that was not fresh would make others. `taken` is
  history: the durations of this run's timed operations.

## Runs

| Run | Shows | Bounds, and why they are enough |
|---|---|---|
| `engine_book` | types, no crossed book, unique ids, truthful reports, leftovers explained, time priority, maker priority, volume accounted, calls return | 3 ids, 2 prices, quantity 2, an owner and anonymous: two makers in one queue or on two levels against a taker, partial fills, self-trades behind and in front of others, under all three policies. `MaxSeq` 1: no new submission once a trade is printed, but a taker may sweep everything that rests |
| `engine_tape` | gaps in the tape are counted drops; a report's range names its fills | ring of 2, `MaxSeq` 2: sweeps that overflow the ring, with and without draining |
| `ladder` | `PriceLadder::check`, visiting order, refinement of `BookSide` | a bid ladder (the proofs are for both sides), prices 0..4, a window of 3 at every base: clipped at the top, shifted at the bottom, prices outside on both sides; 3 insertions outside |
| `ring` | refinement of `TradeTape` | 3 asked for, so 4 slots, 4-bit cursors: both wrap |
| `queues` | time order, free list and slots, the block is mapped and nothing else is | 2 levels, 7 indices of which 4 may be used: the block grows 1, 2, 4, 7, inserts throw until it is exhausted. Huge pages of 3 slots, 30 addresses: the first blocks are below the threshold and on the heap, the last one of a length that is not a multiple |
| `index` | reachability, refinement of `IdMap` | 6 ids, tables of 4 and 8 (16 at least in the code): runs wrap, growth rehashes |
| `arena` | disjoint blocks, small tails, no leak | 3 classes, slabs of 4 granules and a header, 3 slabs, 3 blocks in use |
| `flow` | only resting orders are named, passive orders rest whole where there is a price behind the far touch, the pool covers the book, no drops | one order to build the book and 3 mixed operations, 2 participants, 2 lots at most: stale ids, a sweep, leftovers past the touch that become the new touch, a mid price at its floor. A ring of as many trades as a marketable order has lots, as 4096 exceeds 64 draws of 20. Prices 0..5 with a mid price that starts a tick above its floor: leftovers of marketable orders rest at both ends of the range, and prices drawn behind the mid price wrap |
| `book` | `check_invariants` in every state, agreement with the reference, refinement of `MatchingEngine`, no growth within `expected_orders` | the ids 3, 6 and 15, which collide in a table of 4; two orders of one owner on either side and one anonymous sell; 2 prices and a window of 1 level, so that both containers are used; 2 orders expected, so that the third one grows pool and table; two policies (`Allow` is the code without the test, and in `engine_book`) |
| `bench` | buffers are large enough, rows are percentiles of the run's own samples, a summary is of runs that matched | 4 operations to build the book, 1 to warm up, 3 timed: the buffer holds samples past the timed ones. 3 runs through the same buffers; durations below and above the overhead of the clock; points at quarters, where the code has millionths |

Two runs are expected to fail, each on a statement of the repository:

* `engine_market`: "remaining > 0 means the book ran out of liquidity"
  (`order_book.hpp:339`) is not so under `CancelIncoming`.
* `book_throw`: `check_invariants` "runs after every mutating call"
  (`order_book.hpp:407`), and fails once `insert` has thrown: the level it opened is
  left without orders (`order_book.cpp:352`), or the pool holds a slot "that no queue
  reaches" (`order_book.cpp:384`), or the index has no table.

Also met while modelling, without a run of their own:

* "Levels opened in the fallback map" (`order_book.hpp:400`) are really orders
  rested there (`order_book.hpp:138`): the counter grows with each order that joins
  a level that is already open.
* A passive price "that never crosses the far touch" (`flow.cpp:171`; "passive adds are priced
  so they never cross", `flow.hpp:22`) does once the best ask is at zero: `*ask - 1` wraps
  (`flow.cpp:177`), and so does a tick above a bid at the largest price (`flow.cpp:181`). The
  constructor keeps the mid price above the tail (`flow.cpp:82`), but a marketable sell
  that goes through the touch (`flow.cpp:239`) can leave an ask below it. With
  `start_mid` 3 and `tail_ticks` 1, which it accepts: a bid at 2; a sell two ticks through
  it, whose leftover rests at zero; an added buy, priced at the far end of the range,
  trades. These states are in the `flow` run, with `pending.room` false; `PassiveRestsWhole` is what
  holds, and without its conjunct `pending.room` it fails there.
* The dump of a run is written (`bench_main.cpp:401`) before its trades are compared
  (`bench_main.cpp:697`, "numbers discarded"): the samples stay in the CSV.

**Bounds.** `MaxSeq`, `MaxOpens`, `MaxDrops`, `MaxCapacity`, `MaxSlabs` and
`MaxLive` stop the unbounded counters, in guards. Ids in the engine, trades in
the ring, prices in the queues and participants in the flow are symmetric: nothing
compares them but for equality. The flow has an end (`MixedOps` operations), so
its run does not check for deadlock, and neither does `bench`'s, which ends with a
report or a mismatch. Symmetry is not used in `engine_book`, which checks
liveness.

**Fairness.** `FairSpec` is weak fairness on `Step`, the continuation of a call
that is inside the matching loop. The code justifies it: a call runs on the
caller's thread, takes no lock and waits for nothing. No fairness is assumed of
callers.

## Proofs

Each theorem is about every value of its module's constants. Most state a property
that a run also checks, and each rests on an inductive invariant of which the
property is a part or a consequence.

**The engine** (`MatchingEngine_proofs`), for every set of ids, owners and prices,
every quantity bound and every ring size. `TypeCorrect`, `NeverCrossed`,
`IdsStayUnique`, `ReportsAreTrue`, `MatchingIsExhaustive` and `TapeIsAccountedFor` follow
from one invariant, `IInv`. It adds `InFlight` to the properties: while an order is
matched, what it has filled and what it has left make up what it asked for, and a
halted taker faces its own order. Without this the report at the end cannot be
related to the request, nor a halted call to the book. `NotCrossed` is needed inside
the loop, where resting a leftover keeps it because the loop ends only when
no far price crosses the limit. The action properties (`TimePriority`,
`PricePriority`, `VolumeIsConserved`) hold of every step from a state with `IInv`; volume is
a sum over queues and prices, and a step changes one summand. `ReportsNameTheirFills` needs
a second invariant on top, `WorseLeft`: what is left of the far side is no better than
the trades this call has printed, so that prices in a report never improve.

**The ladder** (`PriceLadder_proofs`), for every window size, base, price range and
level type: `TypeCorrect`, `StaysConsistent`, `VisitsInOrder` and `LadderImplementsSide`, the
refinement of `BookSide`. The invariant `Good` is what `PriceLadder::check` asserts, plus that
the window stays inside the price range and that a ladder that is not placed is
empty. The main lemmas are one per kind of write (`OutsideGood`,
`InsertInsideGood`, `ShrinkInsideGood`) and `BestPriceIsTop`. That
`next_occupied` always finds a level, which is why its scan needs no bound, is
step `<1>6` of `ShrinkInsideGood`: `occupied` is the cardinality of the occupied
slots, so one is left. `VisitsInOrder` is about the three parts of `for_each_level`. A price's
place in a walk is the number of better ones (`BestFirst`); different prices have
different numbers, all below the size of the set, so every place is taken
(`BestFirstOrders`). Cutting the map at the first key that does not beat the window
leaves one part above the window and one below it (`CutOrdered`, `VisitIsOrdered`), and
`Good` gives that the walk from `best_idx` misses no level.

**The ring** (`TradeRing_proofs`), for every capacity asked for and every word size that is
a power of two: `TypeCorrect` and `RingImplementsTape`, the refinement of `TradeTape`. The
mapping reads the buffer from `tail` to `head`. The argument is modular: the buffer's
size divides the word (`SizeFacts`), so masking survives the wrap of a cursor, and
cursors less than a buffer apart name different slots (`NearbyDiffer`).

**Queues, pool and block** (`OrderQueues_proofs`), for every slot limit, initial size,
page size and address space: `TypeCorrect`, `TimeOrderKept`, `EverySlotAccountedFor`,
`BlockStaysMapped` and `TotalsAreSums`. The invariant `Inv` says of every
level that its head, tail, `prev` and `next` spell its history (`QueueAt`), of the free list
that its links spell `freed`, that no slot is in two places (`Apart`) and every used one
is in some (`Covered`), that a total is the running sum of its queue, and that the block is as
large as the pool and its pages are what is mapped (`Memory`). Reuse of an index is safe
because a slot on the free list is in no queue; that links outside the detached
neighbours do not change is the heart of `Detach`.

**The arena** (`NodeArena_proofs`), for every granule, largest block, slab size and reserve:
`TypeCorrect`, `BlocksStayDisjoint`, `LittleAbandoned` and `NoLeak`. The property alone is not
inductive: two callers may ask for fewer bytes than their blocks have, so `Layout`
states the invariant of whole blocks, free ones included, and places every block of
the newest slab below the cursor. `Tip` ties cursor and limit to the newest slab. `NoLeak`
is a second layer: a call that carves adds one block to its class's count and moves
the cursor by as much; a call that reuses, or hands back, leaves the counts alone.

**The index** (`IdIndex_proofs`), for every set of ids, every initial capacity and every hash
that stays inside the table: `TypeCorrect`, `EntriesStayReachable` and `IndexImplementsMap`, the
refinement of `IdMap`. The invariant is `HalfFull`: the table is `Sound` (no id twice, and
the probe for an entry passes used slots only, `Reached`), its used slots are counted by
`count` and are at most half. `EveryEntryReachable` says where a probe ends and is not
inductive; what it passes on the way is what a removal can break. `place` keeps
`Sound` since it stops at the first free slot; `grow` is that, once for each old slot
(`GrowTurn`). `close_gap` needs an invariant of its own loop, `Gap`: with the d slots
after the removed one looked at, every probe still passes only slots that were used
before, and only entries further on than d may pass the hole. The cyclic
comparison in the code is exactly "a probe for this entry does not pass the hole"
(`StaysFacts`), an entry behind the hole is never cut off because its probe would have
passed the free slot that ends the run (`PassesOn`), and at that slot `Gap` gives
`Reached` (`GapCloses`).

**The flow** (`FlowGenerator_proofs`), for flows of any length and depth, any participants,
quantities and price range: `TypeCorrect`, `OperationsAreAccepted`, `PoolIsComplete`,
`NothingIsDropped` and `PassiveOrdersRest`. The generator drives a book, so the invariant `FlowInv`
starts with the engine's own `IInv`, and a step of the book is a step of
`MatchingEngine_proofs`, which is instantiated with the generator's constants. `IdsGivenOut` says that
the book, the pool and the pending operation know only ids below `next_id`: an add
is accepted because its id is new, a modify because `take()` hands out an id that rests.
`PoolKnows` says that an order outside the pool is the one being worked on, which
`Complete` puts back if it rests. `RingHasRoom` is the budget of the ring: trades unread
and lots still to fill are together no more than the largest order, since a fill
takes a lot at least. `PassiveOrdersRest` adds `PassiveInFlight`: a passive order with a price
behind the far touch to go to crosses no far price while it is matched, since
`passive_price` looks at the far side the order will meet, which taking out a
re-priced order does not change. `PassiveRestsWhole` says nothing of orders issued while the far
touch is on the edge of the price range; there an order may trade (see above).

`Foundations` has what the proofs share: smallest and largest elements, division,
loops (a recursive function over `0..n` is the sequence of states of its loop) and sums. Sums are `SumOver`, a recursive function of the upper bound; the
library's induction theorems cannot be instantiated here, so its lemmas
argue by the smallest counterexample (`SmallestExists`).

The assumptions are those named in the modules: a constant is a natural number,
a marker is not a member of the set it marks, the window is not larger than the
price range, a word has a power of two values, blocks and slabs are whole granules, the
largest block fits a slab with its header, and the home of an id is a slot of the table
(`& mask` in `home`). Of the flow: the mid price starts above the deepest tail, which the
constructor checks; a marketable order has at least one draw; and its lots fit the
generator's ring (64 draws of at most 20 lots are 1280, and `kTradeCapacity` is 4096). Bounds such as `MaxSeq` are only assumed to be
naturals.

Checked by TLC only:

* `CallsReturn`: liveness under fairness is out of the prover's reach;
* `CheckInvariants` and `ImplementsEngine` of the stored book. The containers are proved one by
  one; that the ladders, slots, index and ring of one book agree between any two steps
  needs the invariants of all of them at once, with the links and the entries tied to
  each other, and is checked on the instance of `book`;
* `AgreesWithReference` and `NoGrowthWithinPlan`, which rest on it;
* the driver, whose properties compare percentiles of sorted samples.

## Not modelled

* allocation failure outside `insert` (in constructors, where no book exists yet), and
  what a caller may do with a book after `insert` has thrown beyond the calls of
  `ThrowSpec`: `book_throw` ends at the first state that breaks the invariants. A map
  node that cannot be allocated inside `open` throws before a level, slot or index entry
  has changed;
* growth of the fallback map's arena in the stored book: `NoGrowthWithinPlan` is about the slot
  pool and the id index, and `NodeArena` is checked by itself;
* AddressSanitizer poisoning, the 0xDD patterns of debug builds (a released slot's
  value is `Garbage` in the model), and the advice to use huge pages, which has no
  effect on what is stored;
* threads: the contract is that calls on one book do not overlap;
* the harness's random generator, its shrinking of a failing sequence and its messages:
  TLC tries every sequence of calls within the bounds instead;
* of the driver: options, pinning, calibration of the clock, page-fault counts, the dump
  and all printing; plotting and build scripts under `tools/`;
* overflow of 64-bit sequence numbers, counters and volumes: at most 2^31 orders
  of less than 2^32 fit a `Volume` with room to spare.

## Plan

Every part that keeps state is modelled, and the parts below the stored book are proved.
The next step is the stored book itself: the invariant that ties slots, index entries and
level queues together, by way of the lemmas about `Detach`, `close_gap` and
`ShrinkInsideGood`, and from it the refinement of `MatchingEngine`.
