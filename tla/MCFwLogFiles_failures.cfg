\* Every syscall create_fw_log_file() makes may fail, the process may die anywhere, and a record may be longer than a file.
CONSTANTS
    MaxCount = 2
    MaxSize = 16
    LengthBytes <- MCOversizeLengthBytes
    MaxRecords = 4
    MaxRestarts = 1
    Failures <- MCAllFailures
    CrashInCreate = TRUE
SPECIFICATION Spec
CHECK_DEADLOCK FALSE
INVARIANT SizeBound
