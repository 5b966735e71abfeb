\* Two requests, the cache and the pipeline.
SPECIFICATION Spec
CONSTANTS
    here = here
    near = near
    away = away
    wrong = wrong
    spot = spot
    other = other
    None = None
    Models = {m1, m2}
    Params = {p1, p2}
    Batches = {b1, b2}
    Queries = {here, near, away, wrong}
    Keys = {spot, other}
    Resolved <- TwoKeys
    Outcome <- Graph
    Profiles = 2
    Requests = {r1, r2}
    MaxChanges = 5
    Events = {"dbError", "cacheError", "crash", "expiry"}
SYMMETRY Symmetry
INVARIANTS TypeOK NoBlindRoutes ServedModelWasActive ServesTheQuestion OnlyTheDatabaseFails FreshUnlessRewritten
