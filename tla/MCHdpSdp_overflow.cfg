\* An app whose MDEPs give more feature entries than list_elem[] holds,
\* with a further MDEP after the entry that fills it.
CONSTANTS
    Apps = {0, 1}
    AppConfigs <- MCOverflowConfigs
    NUM_SUP_FEATURE_ELEMS = 3
    SDP_MAX_RECORDS = 2
    OtherRecord = 1
    MaxCalls = 4
SPECIFICATION Spec
\* The model stops after MaxCalls calls.
CHECK_DEADLOCK FALSE
INVARIANT FeatureWritesInBounds
