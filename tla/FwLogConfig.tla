---------------------------- MODULE FwLogConfig ----------------------------
(***************************************************************************)
(* The firmware log configuration of fw_logger.c: init_fw_logger() runs    *)
(* check_fw_log_config() on the stack's init thread and starts the logger  *)
(* module if it returns true; deinit_fw_logger() shuts it down.           *)
(*                                                                         *)
(* check_fw_log_config() reads MtkBtFWLogOpen, sends vendor command C0     *)
(* (0xFC5D) and waits on cmd_response_future, which the HCI thread makes   *)
(* ready from fw_logger_hci_command_complete_cb() or                       *)
(* fw_logger_hci_command_status_cb().  If the controller or the host asks  *)
(* for the log it parses the C1/C2 hex rows (parse_fwlog_pairs()), sets    *)
(* s_log_max_size and s_log_max_count, and sends C1 (0xFCBE) and maybe C2  *)
(* (0xFC5F) with transmit_command_futured(), waiting for each.            *)
(*                                                                         *)
(* A config is a record: open is the MtkBtFWLogOpen string, c1 and c2 the  *)
(* number of bytes READ_STR_TO_ARRAY stores for C1 and for C2 with its     *)
(* C201.. rows (-1 when the key is missing), c1b4 whether the fifth C1     *)
(* byte is non-zero, mb and count MtkBtFwLogFileMaxSize/MaxCount.          *)
(***************************************************************************)
EXTENDS Integers, Sequences

CONSTANTS
    Configs,    \* the bt_stack.conf contents an init can read
    C0Replies,  \* the events the controller can answer C0 with
    MaxInits    \* init_fw_logger() calls in one behaviour

HCI_COMMAND_MAX_LEN == 255 + 1 + 2 + 1
DEFAULT_FIRMWARE_LOG_MAX_SZIE == 20
DEFAULT_FIRMWARE_LOG_MAX_COUNT == 5
HCI_SUCCESS == 0

\* A Command Complete for C1 or C2, accepted or rejected.
CxReplies == {[ev |-> "cc", status |-> s, enable |-> 0, mask |-> 0] : s \in {0, 1}}

NoReply == [ev |-> "none", status |-> 0, enable |-> 0, mask |-> 0]

VARIABLES
    pc,               \* where the init thread is: "idle", "c0_wait", "c1_wait", "c2_wait"
    cfg,              \* the config of the current init
    fut,              \* the future awaited: [st |-> "none"/"pending"/"ready", resp]
    outstanding,      \* the command the controller has not answered: "none", "C0", "C1", "C2"
    picus,            \* [enable, mask] read from the C0 reply
    sent,             \* commands sent in the current init: [op, len]
    smashed,          \* READ_STR_TO_ARRAY wrote past C1_data or C2_data
    running,          \* m_fw_logger_running
    s_log_max_size,   \* static uint32_t, in units of 2^20 bytes
    s_log_max_count,  \* static int
    inits             \* init_fw_logger() calls so far

vars == <<pc, cfg, fut, outstanding, picus, sent, smashed, running,
          s_log_max_size, s_log_max_count, inits>>

Init ==
    /\ pc = "idle"
    /\ cfg \in Configs
    /\ fut = [st |-> "none", resp |-> NoReply]
    /\ outstanding = "none"
    /\ picus = [enable |-> 0, mask |-> 0]
    /\ sent = <<>>
    /\ smashed = FALSE
    /\ running = FALSE
    /\ s_log_max_size = 0
    /\ s_log_max_count = DEFAULT_FIRMWARE_LOG_MAX_COUNT
    /\ inits = 0

Forced(c) == c.open = "force_enable"

\* fw_logger_make_hci_command() and transmit: the command the controller
\* will answer; the init thread then waits on a pending future.
Transmit(base, op, len) ==
    /\ sent' = Append(base, [op |-> op, len |-> len])
    /\ outstanding' = op
    /\ fut' = [st |-> "pending", resp |-> NoReply]

\* check_fw_log_config() has returned; init_fw_logger() starts the module
\* (start_up() sets m_fw_logger_running) when it returned true.
Return(result) ==
    /\ pc' = "idle"
    /\ running' = result

(***************************************************************************)
(* init_fw_logger() up to future_await(): the MtkBtFWLogOpen checks of    *)
(* lines 489-511, then C0 is made and transmitted.                        *)
(***************************************************************************)
InitFwLoggerFrom(c) ==
    /\ pc = "idle"
    /\ ~running
    /\ inits < MaxInits
    /\ inits' = inits + 1
    /\ cfg' = c
    /\ \/ /\ c.open \notin {"fw_control", "force_enable"}
          /\ Return(FALSE)
          /\ sent' = <<>>
          /\ UNCHANGED <<fut, outstanding>>
       \/ /\ c.open \in {"fw_control", "force_enable"}
          /\ Transmit(<<>>, "C0", 0)
          /\ pc' = "c0_wait"
          /\ UNCHANGED running
    /\ UNCHANGED <<picus, smashed, s_log_max_size, s_log_max_count>>

\* stack_config_get_interface()->get_all() returns one of Configs.
InitFwLogger == \E c \in Configs : InitFwLoggerFrom(c)

(***************************************************************************)
(* The HCI thread delivers the controller's answer to the outstanding     *)
(* command.  For C0, a Command Complete goes to                           *)
(* fw_logger_hci_command_complete_cb(), which readies the future with it; *)
(* a failed Command Status goes to fw_logger_hci_command_status_cb(),     *)
(* which readies it with NULL; a successful one is passed through.  C1     *)
(* and C2 are futured: their Command Complete readies the future.         *)
(***************************************************************************)
\* Mutant: the status callback logs the failure but readies nothing.
HciDeliverStatusIgnored ==
    /\ outstanding /= "none"
    /\ outstanding' = "none"
    /\ \E r \in (IF outstanding = "C0" THEN C0Replies ELSE CxReplies) :
         fut' = IF r.ev = "cc" THEN [st |-> "ready", resp |-> r] ELSE fut
    /\ UNCHANGED <<pc, cfg, picus, sent, smashed, running, s_log_max_size,
                   s_log_max_count, inits>>

HciDeliver ==
    /\ outstanding /= "none"
    /\ outstanding' = "none"
    /\ \E r \in (IF outstanding = "C0" THEN C0Replies ELSE CxReplies) :
         fut' = CASE r.ev = "cc" -> [st |-> "ready", resp |-> r]
                  [] r.status /= HCI_SUCCESS -> [st |-> "ready", resp |-> NoReply]
                  [] OTHER -> fut
    /\ UNCHANGED <<pc, cfg, picus, sent, smashed, running, s_log_max_size,
                   s_log_max_count, inits>>

(* process_command_complete_event_header() on the C0 reply, then lines     *)
(* 537-541: the mask byte is only read when the log is enabled.  A NULL   *)
(* response or a failed status leaves both at 0.                          *)
PicusFrom(r) ==
    IF r.ev = "cc" /\ r.status = HCI_SUCCESS
    THEN [enable |-> r.enable, mask |-> IF r.enable /= 0 THEN r.mask ELSE 0]
    ELSE [enable |-> 0, mask |-> 0]

(* C1[3] = index - 4 and C2[3] = index - 4, stored in a uint8_t.          *)
C1Length(c) == (c.c1 - 4) % 256
C2Length(c) == (c.c2 - 4) % 256

(* READ_STR_TO_ARRAY stores one byte per 3 characters with no bound: a    *)
(* string of more than HCI_COMMAND_MAX_LEN bytes writes past the array.   *)
(* C2 is only read once C1 was found.                                     *)
Overflows(c) ==
    c.c1 >= 0 /\ (c.c1 > HCI_COMMAND_MAX_LEN \/ c.c2 > HCI_COMMAND_MAX_LEN)

(* C1_data[4]: the fifth byte read, or whatever the stack held there.     *)
Byte4Values(c) == IF c.c1 >= 5 THEN {c.c1b4} ELSE {0, 1}

(* (uint32_t) size_megabytes * 1024 * 1024 in 32-bit arithmetic, counted  *)
(* in megabytes: the product modulo 2^32 is (mb modulo 2^12) * 2^20.       *)
\* Mutant: the product is not reduced to 32 bits.
SizeOfNoWrap(mb) == mb
SizeOf(mb) == mb % 2^12

\* Mutant: the limits are only read on the first init.
SetLimitsOnce(c) ==
    /\ s_log_max_size' = IF inits = 1 THEN SizeOf(c.mb) ELSE s_log_max_size
    /\ s_log_max_count' = IF inits = 1 THEN c.count ELSE s_log_max_count

SetLimits(c) ==
    /\ s_log_max_size' = SizeOf(c.mb)
    /\ s_log_max_count' = c.count

(***************************************************************************)
(* check_fw_log_config() after future_await() returns the C0 reply: lines *)
(* 525-578.  It returns false when neither the controller nor the host    *)
(* asks for the log, when C1 or C2 is missing, or when C1[4] is 0;        *)
(* otherwise it sets the limits and sends C1.                             *)
(***************************************************************************)
C0Done ==
    /\ pc = "c0_wait"
    /\ fut.st = "ready"
    /\ LET p == PicusFrom(fut.resp) IN
       /\ picus' = p
       /\ smashed' = (smashed \/ ((p.enable /= 0 \/ Forced(cfg)) /\ Overflows(cfg)))
       /\ \/ /\ p.enable = 0
             /\ ~Forced(cfg)
             /\ Return(FALSE)
             /\ UNCHANGED <<sent, outstanding, fut, s_log_max_size, s_log_max_count>>
          \/ /\ p.enable /= 0 \/ Forced(cfg)
             /\ cfg.c1 < 0 \/ cfg.c2 < 0
             /\ Return(FALSE)
             /\ UNCHANGED <<sent, outstanding, fut, s_log_max_size, s_log_max_count>>
          \/ /\ p.enable /= 0 \/ Forced(cfg)
             /\ cfg.c1 >= 0 /\ cfg.c2 >= 0
             /\ \E b4 \in Byte4Values(cfg) :
                  \/ /\ b4 = 0
                     /\ Return(FALSE)
                     /\ UNCHANGED <<sent, outstanding, fut, s_log_max_size, s_log_max_count>>
                  \/ /\ b4 /= 0
                     /\ SetLimits(cfg)
                     /\ Transmit(sent, "C1", C1Length(cfg))
                     /\ pc' = "c1_wait"
                     /\ UNCHANGED running
    /\ UNCHANGED <<cfg, inits>>

(***************************************************************************)
(* After the C1 reply (its status is not looked at): C2 is sent when the  *)
(* controller's mask has bit 0 set or the host forces the log; otherwise  *)
(* check_fw_log_config() returns true.                                    *)
(***************************************************************************)
C1Done ==
    /\ pc = "c1_wait"
    /\ fut.st = "ready"
    /\ \/ /\ picus.mask % 2 = 1 \/ Forced(cfg)
          /\ Transmit(sent, "C2", C2Length(cfg))
          /\ pc' = "c2_wait"
          /\ UNCHANGED running
       \/ /\ picus.mask % 2 = 0 /\ ~Forced(cfg)
          /\ Return(TRUE)
          /\ UNCHANGED <<sent, outstanding, fut>>
    /\ UNCHANGED <<cfg, picus, smashed, s_log_max_size, s_log_max_count, inits>>

(* After the C2 reply, whatever its status, check_fw_log_config()         *)
(* returns true.                                                          *)
C2Done ==
    /\ pc = "c2_wait"
    /\ fut.st = "ready"
    /\ Return(TRUE)
    /\ UNCHANGED <<cfg, fut, outstanding, picus, sent, smashed,
                   s_log_max_size, s_log_max_count, inits>>

(* deinit_fw_logger(): shuts the module down only if it is running.       *)
DeinitFwLogger ==
    /\ pc = "idle"
    /\ running
    /\ running' = FALSE
    /\ UNCHANGED <<pc, cfg, fut, outstanding, picus, sent, smashed,
                   s_log_max_size, s_log_max_count, inits>>

InitThread == C0Done \/ C1Done \/ C2Done

Next ==
    \/ InitFwLogger
    \/ HciDeliver
    \/ InitThread
    \/ DeinitFwLogger

(* The HCI thread delivers every answer the controller sends, and the     *)
(* init thread runs once its future is ready.                             *)
Spec == Init /\ [][Next]_vars /\ WF_vars(HciDeliver) /\ WF_vars(InitThread)

-----------------------------------------------------------------------------
Commands == [op : {"C0", "C1", "C2"}, len : 0..255]

TypeOK ==
    /\ pc \in {"idle", "c0_wait", "c1_wait", "c2_wait"}
    /\ cfg \in Configs
    /\ fut.st \in {"none", "pending", "ready"}
    /\ outstanding \in {"none", "C0", "C1", "C2"}
    /\ picus \in [enable : {0, 1}, mask : {0, 1}]
    /\ sent \in Seq(Commands)
    /\ smashed \in BOOLEAN
    /\ running \in BOOLEAN
    /\ s_log_max_size \in 0..(2^12 - 1)
    /\ s_log_max_count \in Int
    /\ inits \in 0..MaxInits

(* Each vendor command sent in an init carries, after its 4-byte header   *)
(* in the config row, exactly the bytes the config gave it: C0 none, C1   *)
(* and C2 the bytes READ_STR_TO_ARRAY stored minus 4 (C1[3], C2[3]).      *)
SentMatchesConfig ==
    \A i \in 1..Len(sent) :
        CASE sent[i].op = "C0" -> sent[i].len = 0
          [] sent[i].op = "C1" -> sent[i].len = cfg.c1 - 4
          [] OTHER -> sent[i].len = cfg.c2 - 4

(* While the logger runs, it rotates with the limits of the config of the *)
(* init that started it, not those of an earlier init.                    *)
RunsWithCurrentLimits ==
    running => /\ s_log_max_size = SizeOf(cfg.mb)
               /\ s_log_max_count = cfg.count

(* Every init_fw_logger() returns: each future the init thread waits on is *)
(* made ready, whatever the controller answers.                           *)
InitReturns == (pc /= "idle") ~> (pc = "idle")

(* s_log_max_size holds MtkBtFwLogFileMaxSize megabytes.                  *)
MaxSizeIsConfigured == running => s_log_max_size = cfg.mb
=============================================================================
