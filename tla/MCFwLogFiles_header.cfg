\* The longest log event the controller can send.
CONSTANTS
    MaxCount = 3
    MaxSize = 512
    LengthBytes <- MCLongestLengthByte
    MaxRecords = 2
    MaxRestarts = 0
    Failures <- MCNoFailures
    CrashInCreate = FALSE
SPECIFICATION Spec
CHECK_DEADLOCK FALSE
INVARIANT HeaderRecordsFirstLength
