--------------------------- MODULE MCFwLogStack ---------------------------
(* bt_stack.conf and the override files for FwLogStack.                   *)
EXTENDS FwLogStack, TLC

LongPath == "/storage/emulated/0/bluetooth/bt_stack.conf.mine"

\* bt_stack.conf asks the controller whether to log.
MCBase == [open |-> "fw_control", c1 |-> 5, c1b4 |-> 1, c2 |-> 9, mb |-> 20, count |-> 5]

\* The presets force the log off, force it on with a bare C2 header and a
\* negative size, or clear C1[4]; a file on the sdcard forces the log with
\* C1 of only its header; the long path drops C2.
MCOverlay ==
    ("/etc/bluetooth/bt_stack.conf.sqc" :> [open |-> "force_disable"])
    @@ ("/etc/bluetooth/bt_stack.conf.debug" :>
          [open |-> "force_enable", c2 |-> 4, mb |-> -1, count |-> 3])
    @@ ("/etc/bluetooth/bt_stack.conf.usertrial" :> [c1b4 |-> 0])
    @@ ("/sdcard/bt_fw.conf" :>
          [open |-> "force_enable", c1 |-> 4, c1b4 |-> 0, mb |-> 2, count |-> 2])
    @@ (LongPath :> [c2 |-> -1])

MCConfigs == {MCBase} \cup {Merge(MCBase, MCOverlay[f]) : f \in DOMAIN MCOverlay}

\* The key absent, or naming the redirect file on the sdcard.
MCRedirValues == {"", "/sdcard/btsc"}
MCOvValues == {"", "bt_stack.conf.debug", "bt_stack.conf.usertrial",
               "/sdcard/bt_fw.conf", LongPath}
MCWritable == {"/sdcard/btsc", "/sdcard/bt_fw.conf", LongPath}
MCInstalled == {Preset}
\* 38 refuses bt_stack.conf.usertrial and truncates the long path, 39 fits
\* the prefixed usertrial name and its NUL exactly, 64 fits every path.
MCFpathLens == {38, 39, 64}

\* Command Complete: enabled with and without the C2 mask bit, disabled
\* with a mask byte; a failed Command Status.
MCC0Replies ==
    { [ev |-> "cc", status |-> 0, enable |-> 1, mask |-> 1],
      [ev |-> "cc", status |-> 0, enable |-> 1, mask |-> 0],
      [ev |-> "cc", status |-> 0, enable |-> 0, mask |-> 1],
      [ev |-> "cs", status |-> 1, enable |-> 0, mask |-> 0] }
(* Configs for FwLogConfig on its own (Spec), where the config rows      *)
(* themselves are the question.                                          *)
Cfg(open, c1, c1b4, c2, mb, count) ==
    [open |-> open, c1 |-> c1, c1b4 |-> c1b4, c2 |-> c2, mb |-> mb, count |-> count]

\* C1 with fewer bytes than its header; a C2 of 300 bytes over its rows.
MCShortConfigs ==
    { Cfg("force_enable", 3, 0, 9, 20, 5),
      Cfg("force_enable", 5, 1, 300, 20, 5) }

\* MtkBtFwLogFileMaxSize of 4096 megabytes.
MCBigConfigs == { Cfg("force_enable", 5, 1, 9, 4096, 5) }

\* FwLogConfig's Spec, the stack config left as SCInit made it.
ConfigOnlySpec ==
    /\ Init /\ SCInit /\ loaded = FALSE
    /\ [][Next /\ UNCHANGED <<scVars, loaded>>]_allVars
    /\ WF_allVars(HciStep) /\ WF_allVars(InitThreadStep)

\* Every answer to C0 of MCC0Replies, and a failed Command Complete.
MCAllC0Replies ==
    MCC0Replies \cup {[ev |-> "cc", status |-> 1, enable |-> 0, mask |-> 0]}
=============================================================================
