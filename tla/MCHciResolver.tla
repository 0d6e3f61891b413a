---------------------------- MODULE MCHciResolver ----------------------------
(***************************************************************************)
(* The resolver of hci_data_dump.c against every 16-bit opcode.  The      *)
(* decoder calls get_matched_hci_cmd_repr() once per command packet and   *)
(* once per Command Complete or Command Status event; the opcode of the   *)
(* next call is unrelated to the last one.  Here the opcodes are visited  *)
(* in turn, so that each reachable state is one lookup.                   *)
(***************************************************************************)
EXTENDS HciValidate

VARIABLE op

\* The named entries of the seven group tables and the vendor table.
GroupEntries ==
    UNION {{t[x] : x \in DOMAIN t} :
           t \in {CmdGroups[g].table : g \in DOMAIN CmdGroups} \cup {VENDOR_SPECIFIC_COMMAND}}
NamedEntries == {u \in GroupEntries : u.name # NULL}
RegisteredOpcodes == {u.opcode : u \in NamedEntries}

Init == op = 0
Next == op' = (op + 1) % 65536
Spec == Init /\ [][Next]_op

\* The resolver returns the entry registered under the opcode of the
\* command packet, and NULL (or an unnamed slot) for an unregistered
\* one; an unregistered vendor opcode gets the generic vendor entry.
ResolvesRegisteredOpcode ==
    LET r == GetMatchedHciCmdRepr(op) IN
    CASE op \in RegisteredOpcodes -> Named(r) /\ r.unit.opcode = op
      [] HCI_OGF(op) = HCI_CMD_GRP_VENDOR_SPECIFIC -> Named(r) /\ r.unit.opcode = \hFC00
      [] OTHER -> ~Named(r)

\* The tables pass the decoder's own self-check: check_hci_unit_group()
\* logs no FAIL line for the command slot of op, nor for the event and LE
\* meta subevent slots numbered op, so that, for every entry the decoder
\* can be handed, repeat counts are INT_DEC (read back with
\* strtol), INT_* fields fit the uint32_t of parse_parameter() and TIME_*
\* fields its uint16_t.
ValidationPasses ==
    /\ UnitFailures(GetMatchedHciCmdRepr(op).unit) = {}
    /\ op <= HCI_EVENT_NUMBER => UnitFailures(EventRepr(op)) = {}
    /\ op <= HCI_LE_META_EVENT_SUBEVENT_NUMBER => UnitFailures(LeMetaRepr(op)) = {}

\* Every entry the resolver can return declares as many parameters and
\* return parameters as it lists: parse_hci_instance() walks exactly
\* parameter_count descriptors of the list.
SchemaCountsMatch ==
    LET r == GetMatchedHciCmdRepr(op) IN
    Named(r) =>
        /\ r.unit.parameter_count = Len(r.unit.parameter)
        /\ r.unit.return_parameter_count = Len(r.unit.return_parameter)
=============================================================================
