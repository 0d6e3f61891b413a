\* MtkBtFwLogFileMaxCount above 9: names with a two-digit index.
CONSTANTS
    MaxCount = 11
    MaxSize = 8
    LengthBytes <- MCOneBlock
    MaxRecords = 12
    MaxRestarts = 1
    Failures <- MCNoFailures
    CrashInCreate = FALSE
SPECIFICATION Spec
CHECK_DEADLOCK FALSE
PROPERTY RemovesOnlyOldest
