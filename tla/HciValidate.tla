----------------------------- MODULE HciValidate -----------------------------
(***************************************************************************)
(* The self-check of the schema tables in hci_data_dump.c (built with      *)
(* DBG_LOG_ENABLE): check_hci_unit_group() and                            *)
(* validate_const_data_format(), which hci_raw_data_ready() runs once      *)
(* before the first packet is decoded.  A check that fails only logs a     *)
(* FAIL line; here a failing check is a member of a set of failures.       *)
(***************************************************************************)
EXTENDS HciResolver

\* sizeof(uint32_t) and sizeof(uint16_t).
SIZEOF_UINT32 == 4
SIZEOF_UINT16 == 2

\* The three tests made of one descriptor, each the condition under which
\* a FAIL line is logged.
RepeatNotDec(param) ==
    param.repeat_param_num > 0 /\ param.display_type # INT_DEC
IntTooLongInclusive(param) ==
    param.display_type \in {INT_DEC, INT_HEX} /\ param.length >= SIZEOF_UINT32
IntTooLong(param) ==
    param.display_type \in {INT_DEC, INT_HEX} /\ param.length > SIZEOF_UINT32
TimeTooLong(param) ==
    param.display_type \in TIME_CLK1..TIME_CLK12 /\ param.length > SIZEOF_UINT16

ParamFails(param) ==
    RepeatNotDec(param) \/ IntTooLong(param) \/ TimeTooLong(param)

\* The descriptors the two inner loops visit: parameter_count entries of
\* the parameter list and return_parameter_count of the return list.
CheckedParams(unit) ==
    {ParamAt(unit.parameter, ii) : ii \in 1..unit.parameter_count}
    \cup {ParamAt(unit.return_parameter, ii) : ii \in 1..unit.return_parameter_count}

\* The FAIL lines logged for one entry.
UnitFailures(unit) == {q \in CheckedParams(unit) : ParamFails(q)}

\* check_hci_unit_group(): slots 0..group_len of the table.
check_hci_unit_group(table, group_len) ==
    UNION {{<<Slot(table, i).name, param.name>> :
              param \in UnitFailures(Slot(table, i))} :
           i \in 0..group_len}

\* validate_const_data_format(): the seven command groups, the events and
\* the LE meta subevents.
ValidatedGroups ==
    {[table |-> CmdGroups[g].table, num |-> CmdGroups[g].num] : g \in DOMAIN CmdGroups}
    \cup {[table |-> HCI_EVENTS, num |-> HCI_EVENT_NUMBER],
          [table |-> LE_META_EVENTS, num |-> HCI_LE_META_EVENT_SUBEVENT_NUMBER]}

validate_const_data_format ==
    UNION {check_hci_unit_group(grp.table, grp.num) : grp \in ValidatedGroups}
=============================================================================
