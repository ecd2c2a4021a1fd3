------------------------------- MODULE Bench --------------------------------
(***************************************************************************)
(* The benchmark driver (bench/bench_main.cpp): Bench, which replays one   *)
(* flow on a fresh book and sums up how long its operations took, and the  *)
(* loop of main() that repeats it, compares every run's trades with the    *)
(* generator's, and reports medians. One Bench does all the runs, and its  *)
(* buffers outlive each of them.                                           *)
(*                                                                         *)
(* The clock and the book are external: an operation takes any of some     *)
(* durations, and yields the trades the generator saw or others. Options,  *)
(* pinning, page faults, the dump and all printing are left out.           *)
(*                                                                         *)
(* Definitions marked "Slip" are wrong on purpose: each is the definition  *)
(* after it with a plausible coding mistake, and no specification uses it. *)
(***************************************************************************)
EXTENDS Integers, Sequences, SequencesExt, FiniteSetsExt

CONSTANTS
    Kinds,          \* flow::Kind
    Flows,          \* the kinds of the timed operations, in order
    Build, Warmup,  \* operations before them
    Runs,           \* --runs
    Points,         \* kPointPpm, in parts of a whole: p50 first
    Whole,          \* 1,000,000
    Durations,      \* ticks an operation may take, clock reads included
    Overheads,      \* ticks an empty bracket may take
    MaxJitter,      \* ticks a spin may be late
    Differs         \* the hash of other trades than the generator's

ASSUME BenchAssumption ==
    /\ Flows \subseteq Seq(Kinds) \ {<<>>}
    /\ {Build, Warmup, MaxJitter} \cup Durations \cup Overheads \subseteq Nat
    /\ Runs \in Nat \ {0} /\ Whole \in Nat \ {0}
    /\ Points \in Seq(0..Whole)

VARIABLES
    kinds, overhead,            \* fixed once main() is under way
    samples, spin, by_kind,     \* the buffers of Bench
    book,                       \* operations the book of this run has executed
    hash, dropped,              \* what this run knows of its trades
    pass, pos,                  \* the operation time_ops() is at
    res,                        \* what run() returned
    results, summary,
    taken                       \* history: durations of this run's timed operations

buffers == <<samples, spin, by_kind>>
replay == <<book, hash, dropped>>
vars == <<kinds, overhead, buffers, replay, pass, pos, res, results, summary, taken>>

-----------------------------------------------------------------------------
TimedCount == Len(kinds)
Total == Build + Warmup + TimedCount

\* The operations of each pass, from 0.
PassBegin == [build |-> 0, warmup |-> Build, timed |-> Build + Warmup]
PassEnd == [build |-> Build, warmup |-> Build + Warmup, timed |-> Total]
PassAfter == [build |-> "warmup", warmup |-> "timed", timed |-> "spin"]

\* Slip: a buffer for the timed operations only.
SampleSlots_Timed == 0..(TimedCount - 1)

\* One buffer for all three passes.
SampleSlots == 0..(Max({Build, Warmup, TimedCount}) - 1)

\* A duration without the cost of the clock, which may exceed it.
Net(dt) == IF dt > overhead THEN dt - overhead ELSE 0

Sorted(v) == SortSeq(v, <)

\* median(), and nearest-rank percentiles().
UpperMedian(v) == Sorted(v)[Len(v) \div 2 + 1]

Percentile(v, point) ==
    LET rank == (Len(v) * point + Whole - 1) \div Whole
    IN  Sorted(v)[IF rank = 0 THEN 1 ELSE rank]

Percentiles(v) ==
    [j \in DOMAIN Points |-> IF v = <<>> THEN 0 ELSE Percentile(v, Points[j])]

\* The samples of the last pass.
Timed == [i \in 1..TimedCount |-> samples[i - 1]]

\* The timed operations of a kind.
At(k) == {i \in 1..TimedCount : kinds[i] = k}

\* Slip: the samples of earlier runs are still in the vectors.
Grouped_Appended ==
    [k \in Kinds |-> by_kind[k] \o
        [i \in 1..Cardinality(At(k)) |-> Timed[SetToSortSeq(At(k), <)[i]]]]

\* by_kind, cleared and filled again.
Grouped ==
    [k \in Kinds |->
        [i \in 1..Cardinality(At(k)) |-> Timed[SetToSortSeq(At(k), <)[i]]]]

Rows == Kinds \cup {"all", "spin"}

Init ==
    /\ kinds \in Flows /\ overhead \in Overheads
    /\ samples = [i \in SampleSlots |-> 0]
    /\ spin = [i \in 1..TimedCount |-> 0]
    /\ by_kind = [k \in Kinds |-> <<>>]
    /\ book = 0 /\ hash = 0 /\ dropped = 0
    /\ pass = "build" /\ pos = 0
    /\ res = [rows |-> [r \in Rows |-> Percentiles(<<>>)], hash |-> 0,
              dropped |-> 0, growths |-> 0]
    /\ results = <<>> /\ summary = <<>> /\ taken = <<>>

-----------------------------------------------------------------------------
\* External: what an operation does to the book. Its trades are the generator's
\* if the book has executed just the operations before it; or else they are
\* others, or do not fit the ring.
Execute ==
    /\ book' = book + 1
    /\ \/ /\ hash' = IF book = pos /\ hash = pos THEN pos + 1 ELSE Differs
          /\ UNCHANGED dropped
       \/ hash' = Differs /\ UNCHANGED dropped
       \/ hash' = Differs /\ dropped' = 1

\* One turn of time_ops(): the call between two reads of the clock, then the
\* trades drained and hashed.
TimeOp ==
    /\ pass \in DOMAIN PassEnd /\ pos < PassEnd[pass]
    /\ Execute
    /\ \E dt \in Durations :
           /\ samples' = [samples EXCEPT ![pos - PassBegin[pass]] = Net(dt)]
           /\ taken' = IF pass = "timed" THEN Append(taken, dt) ELSE taken
    /\ pos' = pos + 1
    /\ UNCHANGED <<kinds, overhead, spin, by_kind, pass, res, results, summary>>

PassEnds ==
    /\ pass \in DOMAIN PassEnd /\ pos = PassEnd[pass]
    /\ pass' = PassAfter[pass]
    /\ UNCHANGED <<kinds, overhead, buffers, replay, pos, res, results, summary, taken>>

\* The noise floor: a busy wait as long as the median operation, as many times.
Spin ==
    /\ pass = "spin"
    /\ \E late \in [1..TimedCount -> 0..MaxJitter] :
           spin' = [i \in 1..TimedCount |-> Net(UpperMedian(Timed) + late[i])]
    /\ pass' = "sums"
    /\ UNCHANGED <<kinds, overhead, samples, by_kind, replay, pos, res, results,
                   summary, taken>>

\* The rest of run(): percentiles() sorts the vectors it is given. Whether pool
\* or index grew is up to the book.
SumUp ==
    /\ pass = "sums"
    /\ by_kind' = [k \in Kinds |-> Sorted(Grouped[k])]
    /\ spin' = Sorted(spin)
    /\ \E growths \in {0, 1} : res' =
           [rows |-> [r \in Rows |->
                       CASE r = "all" -> Percentiles(Timed)
                         [] r = "spin" -> Percentiles(spin)
                         [] OTHER -> Percentiles(Grouped[r])],
            hash |-> hash, dropped |-> dropped, growths |-> growths]
    /\ pass' = "check"
    /\ UNCHANGED <<kinds, overhead, samples, replay, pos, results, summary, taken>>

\* Slip: a run is discarded only if trades were dropped as well.
Mismatch_Both == res.hash # Total /\ res.dropped # 0

\* "trade stream does not match the generator's"
Mismatch == res.hash # Total \/ res.dropped # 0

\* main() keeps the result. The next run starts on a fresh book.
Keep ==
    /\ pass = "check" /\ ~Mismatch
    /\ results' = Append(results, res)
    /\ book' = 0 /\ hash' = 0 /\ dropped' = 0
    /\ pass' = IF Len(results') < Runs THEN "build" ELSE "report"
    /\ pos' = 0 /\ taken' = <<>>
    /\ UNCHANGED <<kinds, overhead, buffers, res, summary>>

\* "numbers discarded": main() returns 1.
Discard ==
    /\ pass = "check" /\ Mismatch
    /\ pass' = "failed"
    /\ UNCHANGED <<kinds, overhead, buffers, replay, pos, res, results, summary, taken>>

\* across_runs(): the median of one cell, and how far apart the runs are, which
\* is reported in percent of it.
Cell(row, j) ==
    LET v == Sorted([r \in 1..Len(results) |-> results[r].rows[row][j]])
        med == v[(Len(v) - 1) \div 2 + 1]
    IN  [median |-> med, spread |-> IF med = 0 THEN 0 ELSE v[Len(v)] - v[1]]

\* print_summary()
Cells == [r \in Rows |-> [j \in DOMAIN Points |-> Cell(r, j)]]

\* The end of main(), with the warning that a book outgrew its provisions.
Report ==
    /\ pass = "report"
    /\ summary' = [cells |-> Cells,
                   growths |-> Max({results[r].growths : r \in 1..Len(results)})]
    /\ pass' = "reported"
    /\ UNCHANGED <<kinds, overhead, buffers, replay, pos, res, results, taken>>

Next == TimeOp \/ PassEnds \/ Spin \/ SumUp \/ Keep \/ Discard \/ Report

Spec == Init /\ [][Next]_vars

-----------------------------------------------------------------------------
\* Every buffer has room for every pass, so that no sample is written past its
\* end, and holds ticks that did not underflow.
TypeOK ==
    /\ pass \in DOMAIN PassEnd /\ pos < PassEnd[pass] =>
           pos - PassBegin[pass] \in DOMAIN samples
    /\ \A i \in DOMAIN samples : samples[i] \in 0..Max(Durations)
    /\ spin \in Seq(0..(Max(Durations) + MaxJitter)) /\ Len(spin) = TimedCount
    /\ \A k \in Kinds : by_kind[k] \in Seq(0..Max(Durations))
    /\ pos \in 0..Total /\ book \in 0..Total /\ hash \in 0..Total \cup {Differs}
    /\ Len(results) <= Runs

\* x is the least sample that as many as the point asks for do not exceed.
IsPercentile(x, v, point) ==
    LET enough(y) == Cardinality({i \in DOMAIN v : v[i] <= y}) * Whole
                         >= point * Len(v)
    IN  /\ x \in ToSet(v) /\ enough(x)
        /\ \A y \in ToSet(v) : y < x => ~enough(y)

\* The rows of a run are about its own timed operations: not the warm-up that
\* went through the same buffer, and no earlier run. Each kind has its own, no
\* overhead makes a sample wrap around, and a spin is as long as the operation
\* that half of the others do not exceed.
RowsDescribeTheRun ==
    pass = "check" =>
        LET net(I) == LET s == SetToSortSeq(I, <)
                      IN  [i \in DOMAIN s |-> Max({taken[s[i]] - overhead, 0})]
            about(row, v) == \A j \in DOMAIN Points :
                                 IF v = <<>> THEN res.rows[row][j] = 0
                                 ELSE IsPercentile(res.rows[row][j], v, Points[j])
        IN  /\ about("all", net(1..TimedCount))
            /\ \A k \in Kinds : about(k, net(At(k)))
            /\ \A j \in DOMAIN Points : \E i \in 1..TimedCount :
                   /\ 2 * Cardinality({m \in 1..TimedCount : taken[m] <= taken[i]})
                          > TimedCount
                   /\ res.rows["spin"][j] >= Net(Net(taken[i]))

\* "Every run's trade stream is hashed and checked against the generator's": a
\* summary is of as many runs as were asked for, each on a book that did what
\* the generator's did; its cells are medians of those runs, and it warns if any
\* book grew.
SummaryIsTrue ==
    pass = "reported" =>
        /\ Len(results) = Runs
        /\ \A r \in 1..Runs : results[r].hash = Total /\ results[r].dropped = 0
        /\ \A row \in Rows, j \in DOMAIN Points :
               LET med == summary.cells[row][j].median
                   side(S) == 2 * Cardinality(S) >= Runs
                   cell(r) == results[r].rows[row][j]
               IN  /\ side({r \in 1..Runs : cell(r) <= med})
                   /\ side({r \in 1..Runs : cell(r) >= med})
        /\ summary.growths = 0 <=> \A r \in 1..Runs : results[r].growths = 0
=============================================================================
