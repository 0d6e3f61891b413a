---------------------------- MODULE StackConfig ----------------------------
(***************************************************************************)
(* The MediaTek override of the Bluetooth stack configuration,            *)
(* parse_override_cfg() of mdroid_stack_config.c.  When the stack config  *)
(* module loads bt_stack.conf it calls parse_override_cfg(config), which: *)
(*   - copies the MtkStackConfigOverride value (a redirect file such as    *)
(*     /sdcard/btsc) with strlcpy();                                       *)
(*   - if that file opens, reads its OverrideConf key with config_new();   *)
(*     if it does not, takes bt_stack.conf.sqc when the build sets         *)
(*     MTK_STACK_CONFIG_DEFAULT_OVERRIDE, and otherwise gives up;          *)
(*   - resolves the three preset names under /etc/bluetooth/ (after a      *)
(*     length check on the strcat() into prefix_fpath1) and takes any      *)
(*     other value as a path;                                              *)
(*   - test-opens the result, closes it, and calls config_override(),      *)
(*     which opens it again and merges its keys into the config.           *)
(* Paths are strings and strlcpy() truncates them to the buffer, because  *)
(* lengths against MTK_STACK_CONFIG_FPATH_LEN are what the code checks.   *)
(* The config is a record of the keys the firmware logger reads; another  *)
(* process (the user, adb) may edit the writable files at any time, also  *)
(* between the test open and config_override().                          *)
(***************************************************************************)
EXTENDS Integers, Sequences

CONSTANTS
    Base,           \* the keys bt_stack.conf sets
    Overlay,        \* path -> the keys that file sets
    RedirValues,    \* values of MtkStackConfigOverride ("" when absent)
    OvValues,       \* values of OverrideConf in the redirect file ("" when absent)
    Writable,       \* paths other processes can create and remove
    Installed,      \* sets of files present under /etc/bluetooth/
    FpathLens,      \* MTK_STACK_CONFIG_FPATH_LEN of the builds
    DefaultBuilds   \* values of MTK_STACK_CONFIG_DEFAULT_OVERRIDE

\* config_new() of the redirect file fails: it is not a config file.
Unparsable == "<unparsable>"

PREFIX == "/etc/bluetooth/"
BTDefaultConfOverrideFile == "bt_stack.conf.sqc"
Preset == {"bt_stack.conf.sqc", "bt_stack.conf.debug", "bt_stack.conf.usertrial"}

VARIABLES
    fpathLen,         \* MTK_STACK_CONFIG_FPATH_LEN of this build
    defaultOverride,  \* MTK_STACK_CONFIG_DEFAULT_OVERRIDE of this build
    redir,            \* MtkStackConfigOverride in bt_stack.conf
    files,            \* the paths fopen() can open now
    ovconf,           \* OverrideConf in the redirect file, or Unparsable
    spc,              \* "idle", or "override" between the test open and config_override()
    target,           \* p_fpath while spc = "override"
    conf,             \* the stack config get_all() returns
    applied           \* the file the last load merged, or ""

scVars == <<fpathLen, defaultOverride, redir, files, ovconf, spc, target,
            conf, applied>>

SCInit ==
    /\ fpathLen \in FpathLens
    /\ defaultOverride \in DefaultBuilds
    /\ redir \in RedirValues
    /\ \E etc \in Installed, w \in SUBSET Writable :
         files = {PREFIX \o n : n \in etc} \cup w
    /\ ovconf \in OvValues \cup {Unparsable}
    /\ spc = "idle"
    /\ target = ""
    /\ conf = Base
    /\ applied = ""

\* strlcpy(dst, src, MTK_STACK_CONFIG_FPATH_LEN): at most len - 1 bytes.
strlcpy(s) == IF Len(s) <= fpathLen - 1 THEN s ELSE SubSeq(s, 1, fpathLen - 1)

\* config_override(config, path): the file's keys replace those of config.
Merge(c, ov) == [k \in DOMAIN c |-> IF k \in DOMAIN ov THEN ov[k] ELSE c[k]]

(* str_ovconf_fpath after lines 50-78: "" when nothing names an override; *)
(* "<none>" when the function has already returned false.                 *)
OvconfFpath ==
    LET redirPath == strlcpy(redir) IN
    CASE redirPath \in files ->
             IF ovconf = Unparsable THEN "" ELSE strlcpy(ovconf)
      [] defaultOverride -> strlcpy(BTDefaultConfOverrideFile)
      [] OTHER -> "<none>"

\* The length check of line 89 before strcat(prefix_fpath1, name).
PrefixFits(name) == Len(name) + Len(PREFIX) <= fpathLen - 1

(* p_fpath after lines 82-117, "" when the function returns without an   *)
(* override: a preset name is prefixed and any other value is a path,     *)
(* and either must pass the test fopen().                                 *)
FPath(name) ==
    IF name \in Preset
    THEN IF PrefixFits(name) /\ PREFIX \o name \in files THEN PREFIX \o name ELSE ""
    ELSE IF name \in files THEN name ELSE ""

(***************************************************************************)
(* The stack config module's init: config_new() of bt_stack.conf, then    *)
(* parse_override_cfg() up to its test fopen() of p_fpath.                *)
(***************************************************************************)
LoadStackConfig ==
    /\ spc = "idle"
    /\ LET name == OvconfFpath
           p == IF name \in {"", "<none>"} THEN "" ELSE FPath(name)
       IN /\ conf' = Base
          /\ applied' = ""
          /\ IF p = "" THEN UNCHANGED <<spc, target>>
             ELSE spc' = "override" /\ target' = p
    /\ UNCHANGED <<fpathLen, defaultOverride, redir, files, ovconf>>

(* config_override(config, p_fpath) opens the file again; a file removed  *)
(* since the test open makes it fail and the config stays as loaded.      *)
ConfigOverride ==
    /\ spc = "override"
    /\ IF target \in files
       THEN conf' = Merge(Base, Overlay[target]) /\ applied' = target
       ELSE UNCHANGED <<conf, applied>>
    /\ spc' = "idle"
    /\ target' = ""
    /\ UNCHANGED <<fpathLen, defaultOverride, redir, files, ovconf>>

(* Another process creates or removes one writable file, or rewrites the *)
(* OverrideConf line of the redirect file.                                *)
EditFiles ==
    /\ \/ \E f \in Writable :
            /\ files' = IF f \in files THEN files \ {f} ELSE files \cup {f}
            /\ UNCHANGED ovconf
       \/ \E v \in (OvValues \cup {Unparsable}) \ {ovconf} :
            /\ ovconf' = v
            /\ UNCHANGED files
    /\ UNCHANGED <<fpathLen, defaultOverride, redir, spc, target, conf,
                   applied>>

SCNext == LoadStackConfig \/ ConfigOverride \/ EditFiles

=============================================================================
