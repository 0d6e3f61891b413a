\* The firmware logger over two Bluetooth enables, each loading the stack
\* config with the override files as other processes left them.
CONSTANTS
    Configs <- MCConfigs
    C0Replies <- MCC0Replies
    MaxInits = 2
    Base <- MCBase
    Overlay <- MCOverlay
    RedirValues <- MCRedirValues
    OvValues <- MCOvValues
    Writable <- MCWritable
    Installed <- MCInstalled
    FpathLens <- MCFpathLens
    DefaultBuilds = {TRUE, FALSE}
SPECIFICATION StackSpec
\* The model is bounded: after MaxInits inits with the logger stopped, only
\* file edits remain, and those too end once every combination was seen.
CHECK_DEADLOCK FALSE
INVARIANTS TypeOK RunsWithCurrentLimits
PROPERTIES InitReturns
