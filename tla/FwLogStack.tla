----------------------------- MODULE FwLogStack -----------------------------
(***************************************************************************)
(* The firmware log configuration composed with the stack configuration   *)
(* it reads.  Every Bluetooth enable loads bt_stack.conf and runs          *)
(* parse_override_cfg() (StackConfig) before init_fw_logger() calls        *)
(* check_fw_log_config(), which reads its keys from                        *)
(* stack_config_get_interface()->get_all() (FwLogConfig).  Other processes *)
(* edit the override files at any time, so two inits may read different   *)
(* configs, and a file may vanish between the test open and               *)
(* config_override().                                                      *)
(***************************************************************************)
EXTENDS FwLogConfig, StackConfig

VARIABLE loaded   \* the stack config was loaded since the last init_fw_logger()

allVars == <<vars, scVars, loaded>>

StackInit == Init /\ SCInit /\ loaded = FALSE

\* The stack config module's init, while Bluetooth is off.
StackStart ==
    /\ pc = "idle" /\ ~running /\ ~loaded
    /\ LoadStackConfig
    /\ loaded' = TRUE
    /\ UNCHANGED vars

OverrideStep == ConfigOverride /\ UNCHANGED <<vars, loaded>>

\* init_fw_logger() once the config is loaded and parse_override_cfg() has
\* returned: check_fw_log_config() reads the config get_all() returns.
FwInit ==
    /\ loaded /\ spc = "idle"
    /\ InitFwLoggerFrom(conf)
    /\ loaded' = FALSE
    /\ UNCHANGED scVars

HciStep == HciDeliver /\ UNCHANGED <<scVars, loaded>>
InitThreadStep == InitThread /\ UNCHANGED <<scVars, loaded>>
DeinitStep == DeinitFwLogger /\ UNCHANGED <<scVars, loaded>>
EditStep == EditFiles /\ UNCHANGED <<vars, loaded>>

StackNext ==
    \/ StackStart \/ OverrideStep \/ FwInit
    \/ HciStep \/ InitThreadStep \/ DeinitStep
    \/ EditStep

\* As in FwLogConfig, and parse_override_cfg() runs to its end.
StackSpec ==
    /\ StackInit /\ [][StackNext]_allVars
    /\ WF_allVars(HciStep) /\ WF_allVars(InitThreadStep) /\ WF_allVars(OverrideStep)
=============================================================================
