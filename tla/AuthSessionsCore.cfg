\* Two concurrent requests on the sessions of one user; every fault.
CONSTANTS
    None = None
    ana = ana
    bob = bob
    Emails = {ana}
    RawEmails = {"ANA "}
    Normal <- OneUserNormal
    Sessions = {s1, s2, s3}
    Requests = {r1, r2}
    RefreshTTL = 1
    AccessTTL = 1
    MaxClock = 2
    Operations = {"login", "refresh", "logout"}
    Events = {"dbError", "crash", "lostResponse"}
    Seeded = {ana}
SPECIFICATION Spec
SYMMETRY Symmetry
INVARIANTS
    TypeOK
    LinksSound
    SuccessorsSound
    ChainsEnd
    StaleTokenNeverRotates
    RecordsAreTrue
    GrantsAreBacked
    LoggedOutIsRevoked
PROPERTIES
    ImplementsStore
