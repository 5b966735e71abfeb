\* A process that is started in every way, stopped while it serves, and started again.
SPECIFICATION FairSpec
CONSTANTS
    None = None
    Procs = {p}
    Configs <- SomeConfigs
    Requests = {r1, r2}
    Clients = {c}
    Limit <- SomeLimits
    Authenticated = {"routes"}
    Statements <- SomeStatements
    MaxConns = 1
    Window = 2
    Events = {"redis", "postgres", "listener"}
    MaxClock = 2
    MaxArrivals = 3
INVARIANTS TypeOK ResourcesSound GracefulStop StatementsKeepTheirConnection QuotaKept
PROPERTIES RejectedForOwnHits StopsInOrder
