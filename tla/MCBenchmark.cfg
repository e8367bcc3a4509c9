\* Two processes, three benchmarks, one fault.
CONSTANTS
    p1 = p1
    p2 = p2
    Procs = {p1, p2}
    Cost <- CallCost
    Iterations = {0, 2}
    MaxRuns = 3
    MaxFaults = 1
SPECIFICATION Spec
SYMMETRY Symmetry
INVARIANTS
    TypeOK
    AveragesExact
    SucceedsWhenConnected
    BenchmarkWiped
    HeaderFirst
    HeadersBounded
CHECK_DEADLOCK FALSE
