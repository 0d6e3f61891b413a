---------------------------- MODULE MCHciDecoder ----------------------------
(***************************************************************************)
(* Instances of HciDecoder for TLC.  The packets are chosen so that every *)
(* path of the decoders is taken: a zero-parameter command, an unresolved *)
(* opcode, Set_Event_Filter with every filter and condition type, a       *)
(* repeat group of BD_ADDR + Link_Key, Command Complete naming commands   *)
(* with and without return parameters, Command Status, Inquiry Result,    *)
(* an LE Advertising Report with its back-referenced Data length, an      *)
(* event code with no table entry, and one above HCI_EVENT_NUMBER.        *)
(***************************************************************************)
EXTENDS HciDecoder

Zeros(w) == [k \in 1..w |-> 0]

\* The contents a field of width w may hold: the fields the decoders read
\* back through strtol range over the given sets, every other field is
\* zero.
Contents(counts, dataLens, assocLens, opcodes, filters, statuses, d, w) ==
    CASE w = 0 -> {<<>>}
      [] d.repeat_param_num > 0 /\ w = 1 -> {<<n>> : n \in counts}
      [] d.name = "Length_Data" /\ w = 1 -> {<<n>> : n \in dataLens}
      [] d.name = "AMP_ASSOC_Remaining_Length" /\ w = 2 ->
            {<<n % 256, n \div 256>> : n \in assocLens}
      [] d.name = "Command_Opcode" /\ w = 2 ->
            {<<op % 256, op \div 256>> : op \in opcodes}
      [] d.name = "Filter_Type" /\ w = 1 -> {<<t>> : t \in filters}
      [] d.display_type = TEXT_REASON_STATUS_CODE /\ w = 1 -> {<<s>> : s \in statuses}
      [] OTHER -> {Zeros(w)}

(* The model checked for its properties: every path of the decoders.     *)
MCFieldContents(d, w) ==
    Contents({0, 1, 2}, {0, 2}, {20}, {\h0C03, \h0C11, \h1009, \h0000},
             {0, 1, 2, 3}, {0, \h41}, d, w)
MCCmdOpcodes == {\h0C03, \h0C05, \h0C11, \h140B, \h0000}
MCEventCodes == {\h02, \h0E, \h0F, \h1F, \h3E, 88}
MCPacketLengths == {0, 1, 4, 9}
MCSubeventCodes == {2, 13}
MCFilterConditions == {0, 1, 2, 3}

(* Single packets that show one defect each.                              *)
NoCmds == {}
NoEvents == {}
\* An LE Advertising Report carrying five reports.
SlotsContents(d, w) == Contents({5}, {0}, {}, {}, {}, {0}, d, w)
SlotsEvents == {\h3E}
SlotsLengths == {52}
SlotsSubevents == {2}
\* HCI_Set_Event_Filter for Connection Setup by BD_ADDR.
FilterContents(d, w) == Contents({}, {}, {}, {}, {2}, {}, d, w)
FilterCmds == {\h0C05}
FilterConds == {2}
FilterLengths == {1, 9}
\* HCI_Link_Key_Request_Reply whose Link_Key is cut short.
KeyCmds == {\h040B}
KeyLengths == {10}
\* HCI_Write_Remote_AMP_ASSOC with a 20-byte fragment.
AssocContents(d, w) == Contents({}, {}, {20}, {}, {}, {}, d, w)
AssocCmds == {\h140B}
AssocLengths == {25}
\* An LE Extended Advertising Report (sub-event 0x0D).
Bt5Subevents == {\h0D}
Bt5Lengths == {1}
\* An event code with no HCI_EVENTS entry.
GapEvents == {\h1F}
GapLengths == {0}
=============================================================================
