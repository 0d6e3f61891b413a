----------------------------- MODULE FwLogFiles -----------------------------
(***************************************************************************)
(* The firmware-log file rotation of fw_logger.c: event_fw_log_data_ready() *)
(* run by the fw log thread for every captured picus log event, the        *)
(* create_fw_log_file() it calls to open the next bt_fw_log_N_curr.picus,   *)
(* shut_down() closing the file, and the Bluetooth process dying and        *)
(* starting again while the log folder persists.                            *)
(*                                                                          *)
(* A file of the folder is a record: idx is the N of its name, curr tells   *)
(* whether the name carries "_curr", born numbers the open(O_TRUNC) that    *)
(* gave it its content (so a lower born is an older log), hdr is the        *)
(* "1st Packet Length" its header holds (-1 before the header is written)  *)
(* and first the length of the first record written after it (-1: none).  *)
(* Record contents, the chip id, the sequence number and the time stamp    *)
(* are left out: nothing below depends on them.                            *)
(***************************************************************************)
EXTENDS Integers, FiniteSets

CONSTANTS
    MaxCount,      \* s_log_max_count (MtkBtFwLogFileMaxCount)
    MaxSize,       \* s_log_max_size, in bytes
    LengthBytes,   \* values of the event length byte data[1] (>= 1: filter_fw_log)
    MaxRecords,    \* log events handled in one behaviour
    MaxRestarts,   \* times the process dies and starts again
    Failures,      \* syscalls that may fail: "mkdir", "opendir", "rename", "remove", "open"
    CrashInCreate  \* whether the process may die between the syscalls of one handler

ASSUME /\ MaxCount \in Nat /\ MaxSize \in Nat /\ LengthBytes \subseteq 1..255
       /\ MaxRecords \in Nat /\ MaxRestarts \in Nat /\ CrashInCreate \in BOOLEAN
       /\ Failures \subseteq {"mkdir", "opendir", "rename", "remove", "open"}

FIRMWARE_LOG_BLOCK_SIZE == 8
FIRMWARE_LOG_FILE_INVALID_INDEX == -1
FIRMWARE_LOG_FILE_INIT_INDEX == 1
INVALID_FD == 0
\* An empty fw_log_curr_file_full_path.
NoPath == [idx |-> 0, curr |-> FALSE]

VARIABLES
    dir,      \* the files of the firmware_log/ folder
    folder,   \* whether the folder exists
    index,    \* fw_log_file_index
    path,     \* fw_log_curr_file_full_path, as [idx, curr]
    fd,       \* fw_log_fd: the born of the file it writes, or INVALID_FD
    size,     \* fw_log_curr_size
    rec,      \* log_record_len of the event being handled
    pc,       \* where the fw log thread is in event_fw_log_data_ready()
    after,    \* which create_fw_log_file() call of the handler is running
    running,  \* m_fw_logger_running
    opened,   \* files created so far (the next born)
    handled,  \* events handled so far
    restarts  \* process restarts so far

vars == <<dir, folder, index, path, fd, size, rec, pc, after, running, opened,
          handled, restarts>>

Init ==
    /\ dir = {}
    /\ folder = FALSE
    /\ index = FIRMWARE_LOG_FILE_INVALID_INDEX
    /\ path = NoPath
    /\ fd = INVALID_FD
    /\ size = 0
    /\ rec = 0
    /\ pc = "idle"
    /\ after = "first"
    /\ running = FALSE
    /\ opened = 0
    /\ handled = 0
    /\ restarts = 0

\* The files of the folder whose name is n.
Named(n) == {f \in dir : f.idx = n.idx /\ f.curr = n.curr}
Logging == {f \in dir : f.curr}

\* data_len = data[1] - 1, rounded up to a whole number of 8-byte blocks.
RecordLen(lengthByte) ==
    LET dataLen == lengthByte - 1
        tail == dataLen % FIRMWARE_LOG_BLOCK_SIZE
    IN  IF tail > 0 THEN dataLen + FIRMWARE_LOG_BLOCK_SIZE - tail ELSE dataLen

\* write() of a record to the file fw_log_fd refers to (even when that file
\* has since left the folder) and fw_log_curr_size += log_record_len.
WriteRecord(r) ==
    /\ dir' = {IF f.born = fd /\ f.first = -1 THEN [f EXCEPT !.first = r] ELSE f : f \in dir}
    /\ size' = size + r

-----------------------------------------------------------------------------
(* event_fw_log_data_ready(): one record dequeued.  With no file open the  *)
(* sequence number is reset and a file created; a record that would take  *)
(* the file past the max size closes it and creates the next one;         *)
(* otherwise the record is written.                                        *)
\* Mutant of DataReady: the size check leaves out the incoming record.
DataReadySizeOnly ==
    /\ running /\ pc = "idle" /\ handled < MaxRecords
    /\ \E b \in LengthBytes :
         LET r == RecordLen(b) IN
         /\ rec' = r
         /\ handled' = handled + 1
         /\ CASE fd = INVALID_FD ->
                   /\ pc' = "mkdir" /\ after' = "first"
                   /\ UNCHANGED <<dir, fd, size>>
              [] size > MaxSize ->
                   /\ pc' = "mkdir" /\ after' = "rotate" /\ fd' = INVALID_FD
                   /\ UNCHANGED <<dir, size>>
              [] OTHER ->
                   /\ WriteRecord(r)
                   /\ UNCHANGED <<pc, after, fd>>
    /\ UNCHANGED <<folder, index, path, running, opened, restarts>>

DataReady ==
    /\ running /\ pc = "idle" /\ handled < MaxRecords
    /\ \E b \in LengthBytes :
         LET r == RecordLen(b) IN
         /\ rec' = r
         /\ handled' = handled + 1
         /\ CASE fd = INVALID_FD ->
                   /\ pc' = "mkdir" /\ after' = "first"
                   /\ UNCHANGED <<dir, fd, size>>
              [] size + r > MaxSize ->
                   /\ pc' = "mkdir" /\ after' = "rotate" /\ fd' = INVALID_FD
                   /\ UNCHANGED <<dir, size>>
              [] OTHER ->
                   /\ WriteRecord(r)
                   /\ UNCHANGED <<pc, after, fd>>
    /\ UNCHANGED <<folder, index, path, running, opened, restarts>>

\* Back in the handler after create_fw_log_file(): fw_log_curr_size = 0;
\* after the first create the size check runs again, then the record is
\* written if a file is open.
Return ==
    /\ pc = "return"
    /\ IF after = "first" /\ rec > MaxSize
       THEN /\ pc' = "mkdir" /\ after' = "rotate" /\ fd' = INVALID_FD
            /\ size' = 0
            /\ UNCHANGED dir
       ELSE /\ pc' = "idle"
            /\ IF fd # INVALID_FD
               THEN /\ dir' = {IF f.born = fd /\ f.first = -1 THEN [f EXCEPT !.first = rec] ELSE f : f \in dir}
                    /\ size' = rec
               ELSE /\ size' = 0 /\ UNCHANGED dir
            /\ UNCHANGED <<after, fd>>
    /\ UNCHANGED <<folder, index, path, rec, running, opened, handled, restarts>>

-----------------------------------------------------------------------------
(* create_fw_log_file(), one step per syscall whose effect survives the   *)
(* process.  Every early return gives INVALID_FD back to the handler.      *)

\* The folder is created if missing; mkdir() failing returns INVALID_FD.
CreateMkdir ==
    /\ pc = "mkdir"
    /\ \/ /\ folder' = TRUE
          /\ pc' = "scan"
          /\ UNCHANGED fd
       \/ /\ ~folder /\ "mkdir" \in Failures
          /\ fd' = INVALID_FD
          /\ pc' = "return"
          /\ UNCHANGED folder
    /\ UNCHANGED <<dir, index, path, size, rec, after, running, opened, handled, restarts>>

\* With no index yet (a new process), readdir() is searched for a name with
\* "_curr"; the entries come in no fixed order and the first match wins.
\* Its index is read from the one character before "_curr", the last
\* decimal digit of N.
\* Mutant of CreateScan: the index is read one character too early, as if
\* it were one less.
CreateScanOffByOne ==
    /\ pc = "scan"
    /\ pc' = "rename"
    /\ IF index = FIRMWARE_LOG_FILE_INVALID_INDEX
       THEN \/ /\ Logging = {} \/ "opendir" \in Failures
               /\ UNCHANGED <<index, path>>
            \/ \E f \in Logging :
                 /\ index' = (f.idx % 10) - 1
                 /\ path' = [idx |-> f.idx, curr |-> TRUE]
       ELSE UNCHANGED <<index, path>>
    /\ UNCHANGED <<dir, folder, fd, size, rec, after, running, opened, handled, restarts>>

CreateScan ==
    /\ pc = "scan"
    /\ pc' = "rename"
    /\ IF index = FIRMWARE_LOG_FILE_INVALID_INDEX
       THEN \/ /\ Logging = {} \/ "opendir" \in Failures
               /\ UNCHANGED <<index, path>>
            \/ \E f \in Logging :
                 /\ index' = f.idx % 10
                 /\ path' = [idx |-> f.idx, curr |-> TRUE]
       ELSE UNCHANGED <<index, path>>
    /\ UNCHANGED <<dir, folder, fd, size, rec, after, running, opened, handled, restarts>>

\* rename(bt_fw_log_N_curr.picus, bt_fw_log_N.picus) of the remembered
\* path; rename() replaces a file of the new name.  A failure is logged
\* and ignored.
\* Mutant of CreateRename: the previous "_curr" file keeps its name.
CreateRenameSkipped ==
    /\ pc = "rename"
    /\ pc' = "remove"
    /\ UNCHANGED <<dir, folder, index, path, fd, size, rec, after, running, opened, handled, restarts>>

CreateRename ==
    /\ pc = "rename"
    /\ pc' = "remove"
    /\ LET plain == [idx |-> path.idx, curr |-> FALSE] IN
       IF path.curr /\ Named(path) # {}
       THEN \/ dir' = {IF f \in Named(path) THEN [f EXCEPT !.curr = FALSE] ELSE f :
                          f \in dir \ Named(plain)}
            \/ /\ "rename" \in Failures
               /\ UNCHANGED dir
       ELSE UNCHANGED dir
    /\ UNCHANGED <<folder, index, path, fd, size, rec, after, running, opened, handled, restarts>>

\* The next index: the first one for a fresh start, else one more,
\* wrapping to the first past s_log_max_count.
\* Mutant of NextIndex: no wrap.
NextIndexNoWrap(i) == IF i < FIRMWARE_LOG_FILE_INIT_INDEX THEN FIRMWARE_LOG_FILE_INIT_INDEX ELSE i + 1

NextIndex(i) ==
    IF i < FIRMWARE_LOG_FILE_INIT_INDEX THEN FIRMWARE_LOG_FILE_INIT_INDEX
    ELSE IF i + 1 > MaxCount THEN FIRMWARE_LOG_FILE_INIT_INDEX ELSE i + 1

\* The next index is taken and a file bt_fw_log_N.picus of that index is
\* removed; a failure is logged and ignored.
\* Mutant of CreateRemove: the remove() is left out.
CreateRemoveSkipped ==
    /\ pc = "remove"
    /\ pc' = "open"
    /\ index' = NextIndex(index)
    /\ path' = [idx |-> NextIndex(index), curr |-> FALSE]
    /\ UNCHANGED <<dir, folder, fd, size, rec, after, running, opened, handled, restarts>>

CreateRemove ==
    /\ pc = "remove"
    /\ pc' = "open"
    /\ LET i == NextIndex(index)
           plain == [idx |-> i, curr |-> FALSE]
       IN  /\ index' = i
           /\ path' = plain
           /\ \/ dir' = dir \ Named(plain)
              \/ /\ "remove" \in Failures /\ Named(plain) # {}
                 /\ UNCHANGED dir
    /\ UNCHANGED <<folder, fd, size, rec, after, running, opened, handled, restarts>>

\* open(bt_fw_log_N_curr.picus, O_WRONLY | O_CREAT | O_TRUNC).
CreateOpen ==
    /\ pc = "open"
    /\ path' = [idx |-> index, curr |-> TRUE]
    /\ \/ /\ dir' = (dir \ Named(path')) \cup
                    {[idx |-> index, curr |-> TRUE, born |-> opened + 1, hdr |-> -1, first |-> -1]}
          /\ fd' = opened + 1
          /\ opened' = opened + 1
          /\ pc' = "header"
       \/ /\ "open" \in Failures
          /\ fd' = INVALID_FD
          /\ pc' = "return"
          /\ UNCHANGED <<dir, opened>>
    /\ UNCHANGED <<folder, index, size, rec, after, running, handled, restarts>>

\* The 24-byte header; its "1st Packet Length" is the uint8_t parameter
\* first_packet_len, which the handler passes log_record_len.
CreateHeader ==
    /\ pc = "header"
    /\ dir' = {IF f.born = fd THEN [f EXCEPT !.hdr = rec % 256] ELSE f : f \in dir}
    /\ pc' = "return"
    /\ UNCHANGED <<folder, index, path, fd, size, rec, after, running, opened, handled, restarts>>

Create == CreateMkdir \/ CreateScan \/ CreateRename \/ CreateRemove \/ CreateOpen \/ CreateHeader

-----------------------------------------------------------------------------
(* The module manager and the process.                                     *)

\* start_up(): the queue, the thread and running; the statics of an
\* earlier run in the same process are kept.
StartUp ==
    /\ ~running /\ pc = "idle"
    /\ running' = TRUE
    /\ UNCHANGED <<dir, folder, index, path, fd, size, rec, pc, after, opened, handled, restarts>>

\* shut_down(): the thread is joined after the record it is handling, then
\* the file is closed and fw_log_fd reset; index and path are kept.
ShutDown ==
    /\ running /\ pc = "idle"
    /\ running' = FALSE
    /\ fd' = INVALID_FD
    /\ UNCHANGED <<dir, folder, index, path, size, rec, pc, after, opened, handled, restarts>>

\* The process dies and is started again: every static is back to its
\* initial value, the folder is what the file system kept.
Restart ==
    /\ restarts < MaxRestarts
    /\ pc = "idle" \/ CrashInCreate
    /\ restarts' = restarts + 1
    /\ index' = FIRMWARE_LOG_FILE_INVALID_INDEX
    /\ path' = NoPath
    /\ fd' = INVALID_FD
    /\ size' = 0
    /\ pc' = "idle"
    /\ running' = FALSE
    /\ UNCHANGED <<dir, folder, rec, after, opened, handled>>

Next == DataReady \/ Return \/ Create \/ StartUp \/ ShutDown \/ Restart

Spec == Init /\ [][Next]_vars

-----------------------------------------------------------------------------
(* Properties.                                                             *)

Names == [idx : 0..MaxCount, curr : BOOLEAN]
Lengths == {RecordLen(b) : b \in LengthBytes}
Files == [idx : 1..MaxCount, curr : BOOLEAN, born : 1..opened,
          hdr : {-1} \cup 0..255, first : {-1} \cup Lengths]

\* Every variable holds a value of its C type's range in the model; in
\* particular create_fw_log_file() only ever names files 1..max count.
TypeOK ==
    /\ dir \subseteq Files
    /\ folder \in BOOLEAN /\ running \in BOOLEAN
    /\ index \in {FIRMWARE_LOG_FILE_INVALID_INDEX} \cup 0..MaxCount
    /\ path \in Names
    /\ fd \in {INVALID_FD} \cup 1..opened
    /\ size \in Nat /\ rec \in Lengths \cup {0}
    /\ pc \in {"idle", "mkdir", "scan", "rename", "remove", "open", "header", "return"}
    /\ after \in {"first", "rotate"}

\* The files a step deletes or truncates: their content is gone from the
\* folder afterwards.
Lost == {f \in dir : \A g \in dir' : g.born # f.born}

\* Rotation (create_fw_log_file() removing bt_fw_log_N.picus, or opening
\* bt_fw_log_N_curr.picus with O_TRUNC) only ever destroys the oldest log
\* in the folder, across restarts of the process included.
RemovesOnlyOldest ==
    [][\A f \in Lost : \A g \in dir : f.born <= g.born]_vars

\* The "_curr" file that a restart resumes from is the newest log, and it
\* is the only one: every other file of the folder is older.
LoggingFileIsNewest ==
    \A f \in Logging : \A g \in dir \ {f} : ~g.curr /\ g.born < f.born

\* A file being written is never past the max size, unless it holds a
\* single record that alone exceeds it (event_fw_log_data_ready() rotates
\* before a record that would not fit).
SizeBound ==
    pc = "idle" /\ fd # INVALID_FD => size <= MaxSize \/ size = rec

\* The folder, seen as the logs it holds, each by the open() that began it.
Archive == INSTANCE FwLogArchive WITH logs <- {f.born : f \in dir}

\* create_fw_log_file() implements the rotation FwLogArchive describes:
\* every log it begins is the newest, only the oldest is ever lost, and
\* the folder never holds more than MtkBtFwLogFileMaxCount logs.
ArchiveSpec == Archive!Spec

\* The header's "1st Packet Length" is the length of the first record
\* written after it (create_fw_log_file() is passed log_record_len).
HeaderRecordsFirstLength ==
    \A f \in dir : f.hdr # -1 /\ f.first # -1 => f.hdr = f.first

=============================================================================
