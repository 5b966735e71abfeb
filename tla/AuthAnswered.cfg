\* Rotations of one token wait for each other, and some are rolled back.
CONSTANTS
    None = None
    ana = ana
    bob = bob
    Emails = {ana}
    RawEmails = {"ANA "}
    Normal <- OneUserNormal
    Sessions = {s1, s2, s3}
    Requests = {r1, r2}
    RefreshTTL = 1
    AccessTTL = 1
    MaxClock = 0
    Operations = {"login", "refresh"}
    Events = {"dbError"}
    Seeded = {ana}
SPECIFICATION FairSpec
PROPERTIES
    Answered
