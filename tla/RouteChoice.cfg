\* One request, with every history of the graph.
SPECIFICATION Spec
CONSTANTS
    None = None
    a = a b = b c = c d = d i = i j = j
    direct = direct via = via on = on around = around back = back
    island = island bridge = bridge loop = loop
    Nodes = {a, b, c, d, i, j}
    Edges = {direct, via, on, around, back, island, bridge, loop}
    Ends <- EdgeEnds
    Length <- EdgeLength
    Valid = {direct, via, on, around, back, island, bridge, loop}
    MaxLength = 900
    Imports <- SomeImports
    Risks <- SomeRisks
    Multiplier <- SomeMultipliers
    Scale = 200
    LowMax = 30
    ModerateMax = 70
    Unit = 10
    Grid = 10
    LengthUnit = 10
    Times = {4}
    K = 2
    Detour <- SomeDetour
INVARIANTS OneComponent NeverStranded TradeOff CandidateContrasts ScoresAgree
