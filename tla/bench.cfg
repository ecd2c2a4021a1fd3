\* The depth-building pass is longer than the timed one, so that the buffer keeps
\* samples past its end. An empty bracket takes longer than the fast operations.
\* The benchmark ends with a report or with a mismatch.
CONSTANTS
    Kinds = {"add", "cancel", "modify"}
    Flows <- AFlow
    Build = 4
    Warmup = 1
    Runs = 3
    Points <- Quarters
    Whole = 4
    Durations = {1, 4}
    Overheads = {2}
    MaxJitter = 1
    Differs = Differs
SPECIFICATION Spec
INVARIANTS
    TypeOK
    RowsDescribeTheRun
    SummaryIsTrue
CHECK_DEADLOCK FALSE
