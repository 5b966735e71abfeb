\* One client, one run of the loader with two batches.
SPECIFICATION Spec
CONSTANTS
    None = None
    Sources = {s1, s2, s3}
    Distances = {1, 2, 9}
    Radius = 5
    Limits <- SomeLimits
    DefaultLimit = 2
    MaxLimit = 3
    BatchSize = 2
    MaxLines = 3
    MaxLoads = 1
SYMMETRY Symmetry
INVARIANTS TypeOK SteadyCrimesSeenOnce StrictlyOrdered LastLineWins
