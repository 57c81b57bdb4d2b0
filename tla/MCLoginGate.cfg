SPECIFICATION FairSpec
CONSTANTS
    user = user
    front = front
    back = back
    g1 = g1
    g2 = g2
    Whole = Whole
    Logins <- MCLogins
    Paths <- MCPaths
    Grabs <- MCGrabs
    Waits <- MCWaits
    ForcedTryGap = 1
    ForgetAfter = 2
    Followed <- MCFollowed
INVARIANTS
    TypeOK
    OneAsks
PROPERTIES
    WaitKept
    TestsSpaced
    AskedAgain
