\* Rotation across restarts of the process, with the syscalls succeeding
\* (but for a mkdir() of the folder) and the process dying between records.
CONSTANTS
    MaxCount = 3
    MaxSize = 16
    LengthBytes <- MCLengthBytes
    MaxRecords = 7
    MaxRestarts = 2
    Failures <- MCNoFailures
    CrashInCreate = FALSE
SPECIFICATION Spec
\* The model stops once MaxRecords events are handled.
CHECK_DEADLOCK FALSE
INVARIANTS TypeOK LoggingFileIsNewest
PROPERTIES RemovesOnlyOldest ArchiveSpec
