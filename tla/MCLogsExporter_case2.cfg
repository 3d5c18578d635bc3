SPECIFICATION FairSpec
CONSTANTS
    p1 = p1
    p2 = p2
    r1 = r1
    r2 = r2
    r3 = r3
    r4 = r4
    x = x
    y = y
    Pushes = {p1}
    Records = {r1, r2, r3, r4}
    Data <- MCOneData
    Resources = {x, y}
    ResourceOf <- MCResourceOf
    Old = {}
    Limit = 1
    MaxAttempts <- MCOneAttempt
PROPERTY
    FailedGroupsExit
CHECK_DEADLOCK FALSE
