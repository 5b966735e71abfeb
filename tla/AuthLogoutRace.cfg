\* A logout answered while a refresh of the same token is under way.
CONSTANTS
    None = None
    ana = ana
    bob = bob
    Emails = {ana}
    RawEmails = {"ANA "}
    Normal <- OneUserNormal
    Sessions = {s1, s2, s3}
    Requests = {r1, r2}
    RefreshTTL = 1
    AccessTTL = 1
    MaxClock = 0
    Operations = {"login", "refresh", "logout"}
    Events = {}
    Seeded = {ana}
SPECIFICATION Spec
PROPERTIES
    NoSessionAfterLogout
