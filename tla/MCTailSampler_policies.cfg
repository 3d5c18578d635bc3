SPECIFICATION Spec
CONSTANTS
    a = a
    b = b
    c = c
    a1 = a1
    a2 = a2
    b1 = b1
    c1 = c1
    w1 = w1
    w2 = w2
    Ids = {a, b, c}
    Spans = {a1, a2, b1, c1}
    TraceOf <- MCTraceOf
    Arrivals <- MCAnyArrivals
    Workers = {w1, w2}
    NumBatches = 1
    PendingCap = 1
    NumTraces = 1
    MaxGen = 2
    PolicyLists <- MCNewPolicies
    NoId = NoId
    NoSpan = NoSpan
PROPERTY
    ConfiguredPoliciesDecide
