\* A user or an eng build, six PerfService slots, three successful loads.
CONSTANTS
    BuildTypes = {"user", "eng"}
    RndisIfaces = {"rndis0"}
    OtherIfaces = {"rmnet0"}
    SimProps <- MCSimProps
    TokenCounts <- MCTokenCounts
    LibVersions <- MCLibVersions
    FailCodes <- MCFailCodes
    MaxScn = 6
    MaxLoads = 3
    AckSettings = {"3"}
    RpsProps = {"", "f"}
SPECIFICATION Spec
\* netd ends when it dies in enable_Perf_RPS(); init restarting it is not modelled.
CHECK_DEADLOCK FALSE
INVARIANTS TypeOK EnabledMatchesHandles NoNullCall
