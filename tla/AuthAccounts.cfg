\* Two accounts, registration, deactivation by the operator, access tokens.
CONSTANTS
    None = None
    ana = ana
    bob = bob
    Emails = {ana, bob}
    RawEmails = {"ANA ", "bob", " "}
    Normal <- TwoUsersNormal
    Sessions = {s1, s2}
    Requests = {r1, r2}
    RefreshTTL = 2
    AccessTTL = 1
    MaxClock = 1
    Operations = {"register", "login", "me"}
    Events = {"dbError", "operator"}
    Seeded = {ana}
SPECIFICATION Spec
SYMMETRY Symmetry
INVARIANTS
    InactiveShutOut
