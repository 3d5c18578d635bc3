SPECIFICATION FairSpec
CONSTANTS
    p1 = p1
    p2 = p2
    r1 = r1
    r2 = r2
    r3 = r3
    r4 = r4
    x = x
    y = y
    Pushes = {p1, p2}
    Records = {r1, r2, r3, r4}
    Data <- MCData
    Resources = {x, y}
    ResourceOf <- MCResourceOf
    Old = {r3}
    Limit = 1
    MaxAttempts <- MCMaxAttempts
INVARIANTS
    AckedComplete
    NoUseAfterClose
PROPERTY
    UndisturbedCallsReturn
CHECK_DEADLOCK FALSE
