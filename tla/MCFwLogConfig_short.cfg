\* The firmware log configuration alone, five answers to C0, two inits.
CONSTANTS
    Configs <- MCShortConfigs
    C0Replies <- MCAllC0Replies
    MaxInits = 2
    \* StackConfig's constants, which Spec does not read.
    Base <- MCBase
    Overlay <- MCOverlay
    RedirValues <- MCRedirValues
    OvValues <- MCOvValues
    Writable <- MCWritable
    Installed <- MCInstalled
    FpathLens <- MCFpathLens
    DefaultBuilds = {TRUE, FALSE}
SPECIFICATION ConfigOnlySpec
\* The model is bounded: after MaxInits inits with the logger stopped, nothing remains.
CHECK_DEADLOCK FALSE
INVARIANT SentMatchesConfig
