\* An open() that fails after the previous log was renamed, then a restart.
CONSTANTS
    MaxCount = 3
    MaxSize = 16
    LengthBytes <- MCLengthBytes
    MaxRecords = 6
    MaxRestarts = 1
    Failures <- MCOpenFails
    CrashInCreate = FALSE
SPECIFICATION Spec
CHECK_DEADLOCK FALSE
PROPERTY RemovesOnlyOldest
