---------------------------- MODULE FwLogArchive ----------------------------
(***************************************************************************)
(* What the firmware-log rotation of fw_logger.c promises, abstractly: the *)
(* firmware_log/ folder keeps a bounded set of logs, each named by when it *)
(* was begun.  A new log is always newer than every log kept, the only log *)
(* ever dropped is the oldest one, and at most MaxCount logs are kept      *)
(* (MtkBtFwLogFileMaxCount).  Writing into a log does not change the set.  *)
(***************************************************************************)
EXTENDS Naturals, FiniteSets

CONSTANT MaxCount

VARIABLE logs   \* the logs in the folder, each the number of the log begun

\* The oldest log kept.
Oldest == CHOOSE n \in logs : \A m \in logs : n <= m

Init == logs = {}

\* A log is begun: the new one is newer than all kept, and at most the
\* oldest is dropped to make room.
BeginLog ==
    /\ Cardinality(logs' \ logs) = 1
    /\ \A n \in logs' \ logs : \A m \in logs : m < n
    /\ logs \ logs' = {} \/ logs \ logs' = {Oldest}
    /\ Cardinality(logs') <= MaxCount

\* The oldest log is removed ahead of the next one.
DropOldest ==
    /\ logs # {}
    /\ logs' = logs \ {Oldest}

Next == BeginLog \/ DropOldest

Spec == Init /\ [][Next]_logs
=============================================================================
