SPECIFICATION Spec
CONSTANTS
    seed = seed
    first = first
    second = second
    final = final
    p0 = p0
    p1 = p1
    p2 = p2
    None = None
    Seed = seed
    SeedParams = p0
    Models = {seed, first, final}
    Params = {p0, p1}
    Candidates = 1
    CandidateName <- OneName
    Override <- OneOverride
    Contexts = 1
    MaxDate = 1
    Programs = {a}
    MaxCommands <- OneOfEach
    Scorable = {first}
    Bases = {seed, first}
    Finals = {final}
    Events = {}
CHECK_DEADLOCK FALSE
INVARIANT FailedModelsStayOut
