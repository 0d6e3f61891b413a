----------------------------- MODULE HciResolver -----------------------------
(***************************************************************************)
(* The Opcode Resolver of hci_data_dump.c: get_matched_hci_cmd_repr() and  *)
(* the two event-table lookups of parse_hci_event().                       *)
(*                                                                         *)
(* A lookup returns a record [found, unit]: found = FALSE is the C NULL    *)
(* pointer.  A slot of a table that the source leaves zero-initialised is  *)
(* ZeroUnit, whose name is NULL.                                           *)
(***************************************************************************)
EXTENDS HciSchema

HCI_OGF(opcode) == opcode \div 1024
\* Mutant of HCI_OCF: a 9-bit command field mask.
HCI_OCF_NineBits(opcode) == opcode % 512
HCI_OCF(opcode) == opcode % 1024

Found(u) == [found |-> TRUE, unit |-> u]
NotFound == [found |-> FALSE, unit |-> ZeroUnit]

\* GET_CMD_AT(): NULL past the declared count, otherwise the slot.
GET_CMD_AT(table, num, index) ==
    IF index > num THEN NotFound ELSE Found(Slot(table, index))

\* The OGF groups and their tables (HCI_CMD_GRP_*).
CmdGroups ==
    (1 :> [table |-> HCI_LINK_CONTROL_COMMANDS, num |-> LING_CONTROL_NUM])
 @@ (2 :> [table |-> HCI_LINK_POLICY_COMMANDS, num |-> LINK_POLICY_NUM])
 @@ (3 :> [table |-> HCI_CONTROLLER_BASEBAND_COMMANDS, num |-> CONTROLLER_BASEBAND_NUM])
 @@ (4 :> [table |-> HCI_INFORMATIONAL_PARAMETERS, num |-> INFORMATIONAL_PARAMETERS_NUM])
 @@ (5 :> [table |-> HCI_STATUS_PARAMETERS, num |-> STATUS_PARAMETERS_NUM])
 @@ (6 :> [table |-> HCI_TESTING_COMMANDS, num |-> TESTING_NUM])
 @@ (8 :> [table |-> HCI_LE_CONTROLLER_COMMANDS, num |-> LE_CONTROLLER_NUM])

HCI_CMD_GRP_VENDOR_SPECIFIC == 63

\* get_matched_hci_cmd_repr(): the group table slot at the OCF; the vendor
\* group falls back to its single generic entry; other groups are NULL.
GetMatchedHciCmdRepr(opcode) ==
    LET ogf == HCI_OGF(opcode)
        ocf == HCI_OCF(opcode)
    IN  CASE ogf \in DOMAIN CmdGroups ->
                GET_CMD_AT(CmdGroups[ogf].table, CmdGroups[ogf].num, ocf)
          [] ogf = HCI_CMD_GRP_VENDOR_SPECIFIC ->
                LET v == GET_CMD_AT(VENDOR_SPECIFIC_COMMAND, VENDOR_SPECIFIC_COMMAND_NUM, ocf)
                IN  IF v.found THEN v ELSE Found(Slot(VENDOR_SPECIFIC_COMMAND, 0))
          [] OTHER -> NotFound

\* A lookup the decoders act on: a non-NULL pointer to a named entry.
Named(r) == r.found /\ r.unit.name # NULL

\* &HCI_EVENTS[eventcode], taken only after eventcode <= HCI_EVENT_NUMBER.
EventRepr(code) == Slot(HCI_EVENTS, code)

\* LE_META_EVENTS[subeventcode]: the array has
\* HCI_LE_META_EVENT_SUBEVENT_NUMBER + 1 entries and the index is not
\* checked against it.
LeMetaInTable(sub) == sub <= HCI_LE_META_EVENT_SUBEVENT_NUMBER
LeMetaRepr(sub) == Slot(LE_META_EVENTS, sub)

=============================================================================
