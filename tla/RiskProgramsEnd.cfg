SPECIFICATION FairSpec
CONSTANTS
    seed = seed
    first = first
    second = second
    final = final
    p0 = p0
    p1 = p1
    p2 = p2
    None = None
    Seed = seed
    SeedParams = p0
    Models = {seed, first, second, final}
    Params = {p0, p1, p2}
    Candidates = 2
    CandidateName <- TwoNames
    Override <- TwoOverrides
    Contexts = 2
    MaxDate = 1
    Programs = {a, b}
    MaxCommands <- Waits
    Scorable = {first}
    Bases = {seed, second}
    Finals = {final, first}
    Events = {"failure"}
CHECK_DEADLOCK FALSE
INVARIANT ScoresCurrent
PROPERTY ProgramsEnd
