SPECIFICATION FairSpec
CONSTANTS
    Guards = {g1}
    Configs <- MCConfigs
    MaxLag = 1
    Horizon = 8
    Gates = {traces, logs}
    Linked = {traces}
    Workers = {w1, w2}
    Batches <- MCBatches
    MaxBatches = 2
    NoChecker = NoChecker
INVARIANTS
    DropJustified
    AdmitJustified
    NoLateAdmission
PROPERTIES
    ExpiredIsBlocked
CHECK_DEADLOCK FALSE
