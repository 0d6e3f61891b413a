------------------------------ MODULE HciSchema ------------------------------
(***************************************************************************)
(* The Schema Registry of the HCI decoder (hci/hci_data_dump.c): the      *)
(* compiled-in tables that describe every known HCI command, event and LE  *)
(* meta sub-event as an ordered list of parameter descriptors.  The tables *)
(* are constant data; the decoder only reads them.  Each table is a        *)
(* function from the populated slot index to its entry; a slot the C       *)
(* designated initialiser leaves out is zero-filled (NULL name, no         *)
(* parameters), which Slot() reproduces.                                   *)
(*                                                                         *)
(* Indices of descriptor lists are 1-based here; the C arrays are 0-based. *)
(***************************************************************************)
EXTENDS Integers, Sequences, TLC

\* HCI_PARAM_DISPLAY_TYPE.  0 is the display type of a zero-filled
\* descriptor, which no case of parse_parameter() names.
INT_HEX == 1
INT_DEC == 2
INT_HANDLE == 3
SEQ_HEX == 4
SEQ_CHAR == 5
TIME_CLK1 == 6
TIME_CLK2 == 7
TIME_CLK5 == 8
TIME_CLK12 == 9
TEXT_REASON_STATUS_CODE == 10
TEXT_BD_ADDR == 11
TEXT_SPECIAL_DISPLAY_PARAM == 12
DisplayTypes == 0..12

\* A NULL name.  printf("%s", NULL) in bionic renders "(null)".
NULL == "(null)"

INT_MAX == 2147483647

\* index_of_special_display_param: HCI configuration parameters (0..42)
\* and the renderers numbered from 100.
SCAN_ENABLE == 1
INQUIRY_SCAN_TYPE == 4
INQUIRY_MODE == 5
PAGE_SCAN_TYPE == 11
VOICE_SETTING == 12
PIN_TYPE == 13
AUTHENTICATION_ENABLE == 16
HOLD_MODE_ACTIVITY == 17
LINK_POLICY_SETTING == 18
SYNCHRONOUS_FLOW_CONTROL_ENABLE == 22
ERRONEOUS_DATA_REPORTING == 25
LOCATION_DOMAIN_AWARE == 29
LOCATION_DOMAIN_OPTIONS == 31
LOCATION_OPTIONS == 32
FLOW_CONTROL_MODE == 33
LE_SUPPORTED_HOST == 34
SECURE_CONNECTIONS_HOST_SUPPORT == 39
PAGE_SCAN_REPETITION_MODE == 100
LAP_IAC == 101
PACKET_TYPE_ACL == 102
PACKET_TYPE_SCO == 103
SIMPLE_PAIRING_MODE == 104
SIMPLE_PAIRING_DEBUG_MODE == 105
FEC_REQUIRED == 106
RSSI == 107
DELETE_ALL_FLAG == 108
LE_META_EVENT_ADVERTISING_REPORT_EVENT_TYPE == 200
LE_META_EVENT_ADVERTISING_REPORT_ADDRESS_TYPE == 201
ADVERTISING_TYPE == 202
ADVERTISING_ENABLE == 203
LE_SCAN_TYPE == 204
LE_SCAN_ENABLE == 205
FILTER_DUPLICATES == 206
ADDRESS_TYPE == 207
OWN_ADDRESS_TYPE == 208
PEER_IDENTITY_ADDRESS_TYPE == 209
PEER_ADDRESS_TYPE == 210
SECURITY_KEY_TYPE == 301
SECURITY_PASSKEY_TYPE == 302

\* HCI_PARAMETER_REPR: a negative length is a back-reference to the value
\* length slots earlier; INT_MAX means "the rest of the packet".
P(nm, len, rpn, type, special) ==
    [name |-> nm, length |-> len, repeat_param_num |-> rpn,
     display_type |-> type, special |-> special]

\* HCI_UNIT_REPR: the counts are stored apart from the initialiser lists,
\* so the two can disagree.
U(nm, opcode, pc, params, rc, returns) ==
    [name |-> nm, opcode |-> opcode,
     parameter_count |-> pc, parameter |-> params,
     return_parameter_count |-> rc, return_parameter |-> returns]

ZeroParam == P(NULL, 0, 0, 0, 0)
ZeroUnit == U(NULL, 0, 0, <<>>, 0, <<>>)

\* The size of HCI_UNIT_REPR.parameter[] and of HCI_INSTANCE.value[].
MAX_HCI_PARAM_NUM == 30

\* parameter[i] of an entry: the array is zero-filled past its initialiser.
ParamAt(list, i) == IF i \in DOMAIN list THEN list[i] ELSE ZeroParam

\* table[index] of a designated-initialiser array.
Slot(table, index) == IF index \in DOMAIN table THEN table[index] ELSE ZeroUnit

\* The last valid index of each table (the arrays are declared NUM + 1).
LING_CONTROL_NUM == 69
LINK_POLICY_NUM == 17
CONTROLLER_BASEBAND_NUM == 129
INFORMATIONAL_PARAMETERS_NUM == 11
STATUS_PARAMETERS_NUM == 13
TESTING_NUM == 10
LE_CONTROLLER_NUM == 47
VENDOR_SPECIFIC_COMMAND_NUM == 0
HCI_EVENT_NUMBER == 87
HCI_LE_META_EVENT_SUBEVENT_NUMBER == 11

\* EVENT_STATUS_TEXT[] has the entries 0x00..0x40.
EVENT_STATUS_TEXT_COUNT == 65

\* HCI_LINK_CONTROL_COMMANDS[], lines 194-1561: the populated slots, index :> entry.
HCI_LINK_CONTROL_COMMANDS ==
     (\h0001 :> U("HCI_Inquiry", \h0401,
        3, << P("LAP", 3, 0, TEXT_SPECIAL_DISPLAY_PARAM, LAP_IAC),
           P("Inquiry_Length", 1, 0, TIME_CLK12, 0),
           P("Num_Responses", 1, 0, INT_DEC, 0) >>,
        0, <<>>))
  @@ (\h0002 :> U("HCI_Inquiry_Cancel", \h0402,
        0, <<>>,
        1, << P("Status", 1, 0, TEXT_REASON_STATUS_CODE, 0) >>))
  @@ (\h0003 :> U("HCI_Periodic_Inquiry_Mode", \h0403,
        5, << P("Max_Period_Length", 2, 0, TIME_CLK12, 0),
           P("Min_Period_Length", 2, 0, TIME_CLK12, 0),
           P("LAP", 3, 0, TEXT_SPECIAL_DISPLAY_PARAM, LAP_IAC),
           P("Inquiry_Length", 1, 0, TIME_CLK12, 0),
           P("Num_Responses", 1, 0, INT_DEC, 0) >>,
        1, << P("Status", 1, 0, TEXT_REASON_STATUS_CODE, 0) >>))
  @@ (\h0004 :> U("HCI_Exit_Periodic_Inquiry_Mode", \h0404,
        0, <<>>,
        1, << P("Status", 1, 0, TEXT_REASON_STATUS_CODE, 0) >>))
  @@ (\h0005 :> U("HCI_Create_Connection", \h0405,
        6, << P("BD_ADDR", 6, 0, TEXT_BD_ADDR, 0),
           P("Packet_Type", 2, 0, TEXT_SPECIAL_DISPLAY_PARAM, PACKET_TYPE_ACL),
           P("Page_Scan_Repetition_Mode", 1, 0, TEXT_SPECIAL_DISPLAY_PARAM, PAGE_SCAN_REPETITION_MODE),
           P("Reserved", 1, 0, INT_HEX, 0),
           P("Clock_Offset", 2, 0, INT_HEX, 0),
           P("Allow_Role_Switch", 1, 0, INT_HEX, 0) >>,
        0, <<>>))
  @@ (\h0006 :> U("HCI_Disconnect", \h0406,
        2, << P("Connection_Handle", 2, 0, INT_HANDLE, 0),
           P("Reason", 1, 0, TEXT_REASON_STATUS_CODE, 0) >>,
        0, <<>>))
  @@ (\h0008 :> U("HCI_Create_Connection_Cancel", \h0408,
        1, << P("BD_ADDR", 6, 0, TEXT_BD_ADDR, 0) >>,
        2, << P("Status", 1, 0, TEXT_REASON_STATUS_CODE, 0),
           P("BD_ADDR", 6, 0, TEXT_BD_ADDR, 0) >>))
  @@ (\h0009 :> U("HCI_Accept_Connection_Request", \h0409,
        2, << P("BD_ADDR", 6, 0, TEXT_BD_ADDR, 0),
           P("Role", 1, 0, INT_HEX, 0) >>,
        0, <<>>))
  @@ (\h000A :> U("HCI_Reject_Connection_Request", \h040A,
        2, << P("BD_ADDR", 6, 0, TEXT_BD_ADDR, 0),
           P("Reason", 1, 0, TEXT_REASON_STATUS_CODE, 0) >>,
        0, <<>>))
  @@ (\h000B :> U("HCI_Link_Key_Request_Reply", \h040B,
        2, << P("BD_ADDR", 6, 0, TEXT_BD_ADDR, 0),
           P("Link_Key", 16, 0, TEXT_SPECIAL_DISPLAY_PARAM, SECURITY_KEY_TYPE) >>,
        2, << P("Status", 1, 0, TEXT_REASON_STATUS_CODE, 0),
           P("BD_ADDR", 6, 0, TEXT_BD_ADDR, 0) >>))
  @@ (\h000C :> U("HCI_Link_Key_Request_Negative_Reply", \h040C,
        1, << P("BD_ADDR", 6, 0, TEXT_BD_ADDR, 0) >>,
        2, << P("Status", 1, 0, TEXT_REASON_STATUS_CODE, 0),
           P("BD_ADDR", 6, 0, TEXT_BD_ADDR, 0) >>))
  @@ (\h000D :> U("HCI_PIN_Code_Request_Reply", \h040D,
        3, << P("BD_ADDR", 6, 0, TEXT_BD_ADDR, 0),
           P("PIN_Code_Length", 1, 0, INT_DEC, 0),
           P("PIN_Code", 16, 0, TEXT_SPECIAL_DISPLAY_PARAM, SECURITY_KEY_TYPE) >>,
        2, << P("Status", 1, 0, TEXT_REASON_STATUS_CODE, 0),
           P("BD_ADDR", 6, 0, TEXT_BD_ADDR, 0) >>))
  @@ (\h000E :> U("HCI_PIN_Code_Request_Negative_Reply", \h040E,
        1, << P("BD_ADDR", 6, 0, TEXT_BD_ADDR, 0) >>,
        2, << P("Status", 1, 0, TEXT_REASON_STATUS_CODE, 0),
           P("BD_ADDR", 6, 0, TEXT_BD_ADDR, 0) >>))
  @@ (\h000F :> U("HCI_Change_Connection_Packet_Type", \h040F,
        2, << P("Connection_Handle", 2, 0, INT_HANDLE, 0),
           P("Packet_Type", 2, 0, TEXT_SPECIAL_DISPLAY_PARAM, PACKET_TYPE_ACL) >>,
        0, <<>>))
  @@ (\h0011 :> U("HCI_Authentication_Requested", \h0411,
        1, << P("Connection_Handle", 2, 0, INT_HANDLE, 0) >>,
        0, <<>>))
  @@ (\h0013 :> U("HCI_Set_Connection_Encryption", \h0413,
        2, << P("Connection_Handle", 2, 0, INT_HANDLE, 0),
           P("Encryption_Enable", 1, 0, INT_HEX, 0) >>,
        0, <<>>))
  @@ (\h0015 :> U("HCI_Change_Connection_Link_Key", \h0415,
        1, << P("Connection_Handle", 2, 0, INT_HANDLE, 0) >>,
        0, <<>>))
  @@ (\h0017 :> U("HCI_Master_Link_Key", \h0417,
        1, << P("Key_Flag", 1, 0, INT_HEX, 0) >>,
        0, <<>>))
  @@ (\h0019 :> U("HCI_Remote_Name_Request", \h0419,
        4, << P("BD_ADDR", 6, 0, TEXT_BD_ADDR, 0),
           P("Page_Scan_Repetition_Mode", 1, 0, TEXT_SPECIAL_DISPLAY_PARAM, PAGE_SCAN_REPETITION_MODE),
           P("Reserved", 1, 0, INT_HEX, 0),
           P("Clock_Offset", 2, 0, INT_HEX, 0) >>,
        0, <<>>))
  @@ (\h001A :> U("HCI_Remote_Name_Request_Cancel", \h041A,
        1, << P("BD_ADDR", 6, 0, TEXT_BD_ADDR, 0) >>,
        2, << P("Status", 1, 0, TEXT_REASON_STATUS_CODE, 0),
           P("BD_ADDR", 6, 0, TEXT_BD_ADDR, 0) >>))
  @@ (\h001B :> U("HCI_Read_Remote_Supported_Features", \h041B,
        1, << P("Connection_Handle", 2, 0, INT_HANDLE, 0) >>,
        0, <<>>))
  @@ (\h001C :> U("HCI_Read_Remote_Extended_Features", \h041C,
        2, << P("Connection_Handle", 2, 0, INT_HANDLE, 0),
           P("Page Number", 1, 0, INT_DEC, 0) >>,
        0, <<>>))
  @@ (\h001D :> U("HCI_Read_Remote_Version_Information", \h041D,
        1, << P("Connection_Handle", 2, 0, INT_HANDLE, 0) >>,
        0, <<>>))
  @@ (\h001F :> U("HCI_Read_Clock_Offset", \h041F,
        1, << P("Connection_Handle", 2, 0, INT_HANDLE, 0) >>,
        0, <<>>))
  @@ (\h0020 :> U("HCI_Read_LMP_Handle", \h0420,
        1, << P("Connection_Handle", 2, 0, INT_HANDLE, 0) >>,
        0, <<>>))
  @@ (\h0028 :> U("HCI_Setup_Synchronous_Connection", \h0428,
        7, << P("Connection_Handle", 2, 0, INT_HANDLE, 0),
           P("Transmit_Bandwidth", 4, 0, INT_HEX, 0),
           P("Receive_Bandwidth", 4, 0, INT_HEX, 0),
           P("Max_Latency", 2, 0, INT_HEX, 0),
           P("Voice_Setting", 2, 0, TEXT_SPECIAL_DISPLAY_PARAM, VOICE_SETTING),
           P("Retransmission_Effort", 1, 0, INT_HEX, 0),
           P("Packet_Type", 2, 0, TEXT_SPECIAL_DISPLAY_PARAM, PACKET_TYPE_SCO) >>,
        0, <<>>))
  @@ (\h0029 :> U("HCI_Accept_Synchronous_Connection_Request", \h0429,
        7, << P("BD_ADDR", 6, 0, TEXT_BD_ADDR, 0),
           P("Transmit_Bandwidth", 4, 0, INT_HEX, 0),
           P("Receive_Bandwidth", 4, 0, INT_HEX, 0),
           P("Max_Latency", 2, 0, INT_HEX, 0),
           P("Voice_Setting", 2, 0, TEXT_SPECIAL_DISPLAY_PARAM, VOICE_SETTING),
           P("Retransmission_Effort", 1, 0, INT_HEX, 0),
           P("Packet_Type", 2, 0, TEXT_SPECIAL_DISPLAY_PARAM, PACKET_TYPE_SCO) >>,
        0, <<>>))
  @@ (\h002A :> U("HCI_Reject_Synchronous_Connection_Request", \h042A,
        2, << P("BD_ADDR", 6, 0, TEXT_BD_ADDR, 0),
           P("Reason", 1, 0, TEXT_REASON_STATUS_CODE, 0) >>,
        0, <<>>))
  @@ (\h002B :> U("HCI_IO_Capability_Request_Reply", \h042B,
        4, << P("BD_ADDR", 6, 0, TEXT_BD_ADDR, 0),
           P("IO_Capability", 1, 0, INT_HEX, 0),
           P("OOB_Data_Present", 1, 0, INT_HEX, 0),
           P("Authentication_Requirements", 1, 0, INT_HEX, 0) >>,
        2, << P("Status", 1, 0, TEXT_REASON_STATUS_CODE, 0),
           P("BD_ADDR", 6, 0, TEXT_BD_ADDR, 0) >>))
  @@ (\h002C :> U("HCI_User_Confirmation_Request_Reply", \h042C,
        1, << P("BD_ADDR", 6, 0, TEXT_BD_ADDR, 0) >>,
        2, << P("Status", 1, 0, TEXT_REASON_STATUS_CODE, 0),
           P("BD_ADDR", 6, 0, TEXT_BD_ADDR, 0) >>))
  @@ (\h002D :> U("HCI_User_Confirmation_Request_Negative_Reply", \h042D,
        1, << P("BD_ADDR", 6, 0, TEXT_BD_ADDR, 0) >>,
        2, << P("Status", 1, 0, TEXT_REASON_STATUS_CODE, 0),
           P("BD_ADDR", 6, 0, TEXT_BD_ADDR, 0) >>))
  @@ (\h002E :> U("HCI_User_Passkey_Request_Reply", \h042E,
        2, << P("BD_ADDR", 6, 0, TEXT_BD_ADDR, 0),
           P("Numeric_Value", 4, 0, INT_HEX, 0) >>,
        2, << P("Status", 1, 0, TEXT_REASON_STATUS_CODE, 0),
           P("BD_ADDR", 6, 0, TEXT_BD_ADDR, 0) >>))
  @@ (\h002F :> U("HCI_User_Passkey_Request_Negative_Reply", \h042F,
        1, << P("BD_ADDR", 6, 0, TEXT_BD_ADDR, 0) >>,
        2, << P("Status", 1, 0, TEXT_REASON_STATUS_CODE, 0),
           P("BD_ADDR", 6, 0, TEXT_BD_ADDR, 0) >>))
  @@ (\h0030 :> U("HCI_Remote_OOB_Data_Request_Reply", \h0430,
        3, << P("BD_ADDR", 6, 0, TEXT_BD_ADDR, 0),
           P("C", 16, 0, SEQ_HEX, 0),
           P("R", 16, 0, SEQ_HEX, 0) >>,
        2, << P("Status", 1, 0, TEXT_REASON_STATUS_CODE, 0),
           P("BD_ADDR", 6, 0, TEXT_BD_ADDR, 0) >>))
  @@ (\h0033 :> U("HCI_Remote_OOB_Data_Request_Negative_Reply", \h0433,
        1, << P("BD_ADDR", 6, 0, TEXT_BD_ADDR, 0) >>,
        2, << P("Status", 1, 0, TEXT_REASON_STATUS_CODE, 0),
           P("BD_ADDR", 6, 0, TEXT_BD_ADDR, 0) >>))
  @@ (\h0034 :> U("HCI_IO_Capability_Request_Negative_Reply", \h0434,
        1, << P("BD_ADDR", 6, 0, TEXT_BD_ADDR, 0),
           P("Reason", 1, 0, TEXT_REASON_STATUS_CODE, 0) >>,
        2, << P("Status", 1, 0, TEXT_REASON_STATUS_CODE, 0),
           P("BD_ADDR", 6, 0, TEXT_BD_ADDR, 0) >>))
  @@ (\h0035 :> U("HCI_Create_Physical_Link", \h0435,
        4, << P("Physical_Link_Handle", 1, 0, INT_HEX, 0),
           P("Dedicated_AMP_Key_Length", 1, 0, INT_DEC, 0),
           P("Dedicated_AMP_Key_Type", 1, 0, INT_HEX, 0),
           P("Dedicated_AMP_Key", -2, 0, SEQ_HEX, 0) >>,
        0, <<>>))
  @@ (\h0036 :> U("HCI_Accept_Physical_Link", \h0436,
        4, << P("Physical_Link_Handle", 1, 0, INT_HEX, 0),
           P("Dedicated_AMP_Key_Length", 1, 0, INT_DEC, 0),
           P("Dedicated_AMP_Key_Type", 1, 0, INT_HEX, 0),
           P("Dedicated_AMP_Key", -2, 0, SEQ_HEX, 0) >>,
        0, <<>>))
  @@ (\h0037 :> U("HCI_Disconnect_Physical_Link", \h0437,
        2, << P("Physical_Link_Handle", 1, 0, INT_HEX, 0),
           P("Reason", 1, 0, TEXT_REASON_STATUS_CODE, 0) >>,
        0, <<>>))
  @@ (\h0038 :> U("HCI_Create_Logical_Link", \h0438,
        3, << P("Physical_Link_Handle", 1, 0, INT_HEX, 0),
           P("Tx_Flow_Spec", 16, 0, SEQ_HEX, 0),
           P("Rx_Flow_Spec", 16, 0, SEQ_HEX, 0) >>,
        0, <<>>))
  @@ (\h0039 :> U("HCI_Accept_Logical_Link", \h0439,
        3, << P("Physical_Link_Handle", 1, 0, INT_HEX, 0),
           P("Tx_Flow_Spec", 16, 0, SEQ_HEX, 0),
           P("Rx_Flow_Spec", 16, 0, SEQ_HEX, 0) >>,
        0, <<>>))
  @@ (\h003A :> U("HCI_Disconnect_Logical_Link", \h043A,
        1, << P("Logical_Link_Handle", 2, 0, INT_HEX, 0) >>,
        0, <<>>))
  @@ (\h003B :> U("HCI_Logical_Link_Cancel", \h043B,
        2, << P("Physical_Link_Handle", 1, 0, INT_HEX, 0),
           P("Tx_Flow_Spec_ID", 1, 0, INT_HEX, 0) >>,
        3, << P("Status", 1, 0, TEXT_REASON_STATUS_CODE, 0),
           P("Physical_Link_Handle", 1, 0, INT_HEX, 0),
           P("Tx_Flow_Spec_ID", 1, 0, INT_HEX, 0) >>))
  @@ (\h003C :> U("HCI_Flow_Spec_Modify", \h043C,
        3, << P("Handle", 2, 0, INT_HEX, 0),
           P("Tx_Flow_Spec", 16, 0, SEQ_HEX, 0),
           P("Rx_Flow_Spec", 16, 0, SEQ_HEX, 0) >>,
        0, <<>>))
  @@ (\h003D :> U("HCI_Enhanced_Setup_Synchronous_Connection", \h043D,
        24, << P("Connection_Handle", 2, 0, INT_HANDLE, 0),
           P("Transmit_Bandwidth", 4, 0, INT_HEX, 0),
           P("Receive_Bandwidth", 4, 0, INT_HEX, 0),
           P("Transmit_Coding_Format", 5, 0, SEQ_HEX, 0),
           P("Receive_Coding_Format", 5, 0, SEQ_HEX, 0),
           P("Transmit_Codec_Frame_Size", 2, 0, INT_HEX, 0),
           P("Receive_Codec_Frame_Size", 2, 0, INT_HEX, 0),
           P("Input_Bandwidth", 4, 0, INT_HEX, 0),
           P("Output_Bandwidth", 4, 0, INT_HEX, 0),
           P("Input_Coding_Format", 5, 0, SEQ_HEX, 0),
           P("Output_Coding_Format", 5, 0, SEQ_HEX, 0),
           P("Input_Coded_Data_Size", 2, 0, INT_DEC, 0),
           P("Output_Coded_Data_Size", 2, 0, INT_DEC, 0),
           P("Input_PCM_Data_Format", 1, 0, INT_HEX, 0),
           P("Output_PCM_Data_Format", 1, 0, INT_HEX, 0),
           P("Input_PCM_Sample_Payload_MSB_Position", 1, 0, INT_HEX, 0),
           P("Output_PCM_Sample_Payload_MSB_Position", 1, 0, INT_HEX, 0),
           P("InputData_Path", 1, 0, INT_HEX, 0),
           P("Output_Data_Path", 1, 0, INT_HEX, 0),
           P("Input_Transport_Unit_Size", 1, 0, INT_DEC, 0),
           P("Output_Transport_Unit_Size", 1, 0, INT_DEC, 0),
           P("Max_Latency", 2, 0, INT_HEX, 0),
           P("Packet_Type", 2, 0, TEXT_SPECIAL_DISPLAY_PARAM, PACKET_TYPE_SCO),
           P("Retransmission_Effort", 1, 0, INT_HEX, 0) >>,
        0, <<>>))
  @@ (\h003E :> U("HCI_Enhanced_Accept_Synchronous_Connection_Request", \h043E,
        24, << P("BD_ADDR", 6, 0, TEXT_BD_ADDR, 0),
           P("Transmit_Bandwidth", 4, 0, INT_HEX, 0),
           P("Receive_Bandwidth", 4, 0, INT_HEX, 0),
           P("Transmit_Coding_Format", 5, 0, SEQ_HEX, 0),
           P("Receive_Coding_Format", 5, 0, SEQ_HEX, 0),
           P("Transmit_Codec_Frame_Size", 2, 0, INT_DEC, 0),
           P("Receive_Codec_Frame_Size", 2, 0, INT_DEC, 0),
           P("Input_Bandwidth", 4, 0, INT_HEX, 0),
           P("Output_Bandwidth", 4, 0, INT_HEX, 0),
           P("Input_Coding_Format", 5, 0, SEQ_HEX, 0),
           P("Output_Coding_Format", 5, 0, SEQ_HEX, 0),
           P("Input_Coded_Data_Size", 2, 0, INT_DEC, 0),
           P("Output_Coded_Data_Size", 2, 0, INT_DEC, 0),
           P("Input_PCM_Data_Format", 1, 0, INT_HEX, 0),
           P("Output_PCM_Data_Format", 1, 0, INT_HEX, 0),
           P("Input_PCM_Sample_Payload_MSB_Position", 1, 0, INT_HEX, 0),
           P("Output_PCM_Sample_Payload_MSB_Position", 1, 0, INT_HEX, 0),
           P("InputData_Path", 1, 0, INT_HEX, 0),
           P("Output_Data_Path", 1, 0, INT_HEX, 0),
           P("Input_Transport_Unit_Size", 1, 0, INT_DEC, 0),
           P("Output_Transport_Unit_Size", 1, 0, INT_DEC, 0),
           P("Max_Latency", 2, 0, INT_HEX, 0),
           P("Packet_Type", 2, 0, TEXT_SPECIAL_DISPLAY_PARAM, PACKET_TYPE_SCO),
           P("Retransmission_Effort", 1, 0, INT_HEX, 0) >>,
        0, <<>>))
  @@ (\h003F :> U("HCI_Truncated_Page", \h043F,
        3, << P("BD_ADDR", 6, 0, TEXT_BD_ADDR, 0),
           P("Page_Scan_Repetition_Mode", 1, 0, TEXT_SPECIAL_DISPLAY_PARAM, PAGE_SCAN_REPETITION_MODE),
           P("Clock_Offset", 2, 0, SEQ_HEX, 0) >>,
        0, <<>>))
  @@ (\h0040 :> U("HCI_Truncated_Page_Cancel", \h0440,
        1, << P("BD_ADDR", 6, 0, TEXT_BD_ADDR, 0) >>,
        2, << P("Status", 1, 0, TEXT_REASON_STATUS_CODE, 0),
           P("BD_ADDR", 6, 0, TEXT_BD_ADDR, 0) >>))
  @@ (\h0041 :> U("HCI_Set_Connectionless_Slave_Broadcast", \h0441,
        7, << P("Enable", 1, 0, INT_HEX, 0),
           P("LT_ADDR", 1, 0, INT_HEX, 0),
           P("LPO_Allowed", 1, 0, INT_HEX, 0),
           P("Packet_Type", 2, 0, TEXT_SPECIAL_DISPLAY_PARAM, PACKET_TYPE_ACL),
           P("Interval_Min", 2, 0, INT_HEX, 0),
           P("Interval_Max", 2, 0, INT_HEX, 0),
           P("CSB_supervisionTO", 2, 0, INT_HEX, 0) >>,
        3, << P("Status", 1, 0, TEXT_REASON_STATUS_CODE, 0),
           P("LT_ADDR", 1, 0, INT_HEX, 0),
           P("Interval", 2, 0, INT_HEX, 0) >>))
  @@ (\h0042 :> U("HCI_Set_Connectionless_Slave_Broadcast_Receive", \h0442,
        12, << P("Enable", 1, 0, INT_HEX, 0),
           P("BD_ADDR", 6, 0, TEXT_BD_ADDR, 0),
           P("LT_ADDR", 1, 0, INT_HEX, 0),
           P("Interval", 2, 0, INT_HEX, 0),
           P("Clock_Offset", 4, 0, INT_HEX, 0),
           P("Next_Connectionless_Slave_Broadcast_Clock", 4, 0, INT_HEX, 0),
           P("CSB_supervisionTO", 2, 0, INT_HEX, 0),
           P("Remote_Timing_Accuracy", 1, 0, INT_HEX, 0),
           P("Skip", 1, 0, INT_HEX, 0),
           P("Packet_Type", 2, 0, TEXT_SPECIAL_DISPLAY_PARAM, PACKET_TYPE_ACL),
           P("AFH_Channel_Map", 10, 0, SEQ_HEX, 0) >>,
        3, << P("Status", 1, 0, TEXT_REASON_STATUS_CODE, 0),
           P("BD_ADDR", 6, 0, TEXT_BD_ADDR, 0),
           P("LT_ADDR", 1, 0, INT_HEX, 0) >>))
  @@ (\h0043 :> U("HCI_Start_Synchronization_Train", \h0443,
        0, <<>>,
        0, <<>>))
  @@ (\h0044 :> U("HCI_ Receive_Synchronization_Train", \h0444,
        4, << P("BD_ADDR", 6, 0, TEXT_BD_ADDR, 0),
           P("synchronization_scanTO", 2, 0, INT_HEX, 0),
           P("Sync_Scan_Window", 2, 0, INT_HEX, 0),
           P("Sync_Scan_Interval", 2, 0, INT_HEX, 0) >>,
        0, <<>>))
  @@ (\h0045 :> U("HCI_Remote_OOB_Extended_Data_Request_Reply", \h0445,
        5, << P("BD_ADDR", 6, 0, TEXT_BD_ADDR, 0),
           P("C_192", 16, 0, SEQ_HEX, 0),
           P("R_192", 16, 0, SEQ_HEX, 0),
           P("C_256", 16, 0, SEQ_HEX, 0),
           P("R_256", 16, 0, SEQ_HEX, 0) >>,
        2, << P("Status", 1, 0, TEXT_REASON_STATUS_CODE, 0),
           P("BD_ADDR", 6, 0, TEXT_BD_ADDR, 0) >>))

\* HCI_LINK_POLICY_COMMANDS[], lines 1564-1884: the populated slots, index :> entry.
HCI_LINK_POLICY_COMMANDS ==
     (\h0001 :> U("HCI_Hold_Mode", \h0801,
        3, << P("Connection_Handle", 2, 0, INT_HANDLE, 0),
           P("Hold_Mode_Max_Interval", 2, 0, INT_HEX, 0),
           P("Hold_Mode_Min_Interval", 2, 0, INT_HEX, 0) >>,
        0, <<>>))
  @@ (\h0003 :> U("HCI_Sniff_Mode", \h0803,
        5, << P("Connection_Handle", 2, 0, INT_HANDLE, 0),
           P("Sniff_Max_Interval", 2, 0, TIME_CLK1, 0),
           P("Sniff_Min_Interval", 2, 0, TIME_CLK1, 0),
           P("Sniff_Attempt", 2, 0, TIME_CLK2, 0),
           P("Sniff_Timeout", 2, 0, TIME_CLK2, 0) >>,
        0, <<>>))
  @@ (\h0004 :> U("HCI_Exit_Sniff_Mode", \h0804,
        1, << P("Connection_Handle", 2, 0, INT_HANDLE, 0) >>,
        0, <<>>))
  @@ (\h0005 :> U("HCI_Park_State", \h0805,
        0, <<>>,
        0, <<>>))
  @@ (\h0006 :> U("HCI_Exit_Park_State", \h0806,
        0, <<>>,
        0, <<>>))
  @@ (\h0007 :> U("HCI_QoS_Setup", \h0807,
        7, << P("Connection_Handle", 2, 0, INT_HANDLE, 0),
           P("Flags", 1, 0, INT_HEX, 0),
           P("Service_Type", 1, 0, INT_HEX, 0),
           P("Token_Rate", 4, 0, INT_HEX, 0),
           P("Peak_Bandwidth", 4, 0, INT_HEX, 0),
           P("Latency", 4, 0, INT_HEX, 0),
           P("Delay_Variation", 4, 0, INT_HEX, 0) >>,
        0, <<>>))
  @@ (\h0009 :> U("HCI_Role_Discovery", \h0809,
        1, << P("Connection_Handle", 2, 0, INT_HANDLE, 0) >>,
        3, << P("Status", 1, 0, TEXT_REASON_STATUS_CODE, 0),
           P("Connection_Handle", 2, 0, INT_HANDLE, 0),
           P("Current_Role", 1, 0, INT_HEX, 0) >>))
  @@ (\h000B :> U("HCI_Switch_Role", \h080B,
        2, << P("BD_ADDR", 6, 0, TEXT_BD_ADDR, 0),
           P("Role", 1, 0, INT_HEX, 0) >>,
        0, <<>>))
  @@ (\h000C :> U("HCI_Read_Link_Policy_Settings", \h080C,
        1, << P("Connection_Handle", 2, 0, INT_HANDLE, 0) >>,
        3, << P("Status", 1, 0, TEXT_REASON_STATUS_CODE, 0),
           P("Connection_Handle", 2, 0, INT_HANDLE, 0),
           P("Link_Policy_Settings", 2, 0, TEXT_SPECIAL_DISPLAY_PARAM, LINK_POLICY_SETTING) >>))
  @@ (\h000D :> U("HCI_Write_Link_Policy_Settings", \h080D,
        2, << P("Connection_Handle", 2, 0, INT_HANDLE, 0),
           P("Link_Policy_Settings", 2, 0, TEXT_SPECIAL_DISPLAY_PARAM, LINK_POLICY_SETTING) >>,
        2, << P("Status", 1, 0, TEXT_REASON_STATUS_CODE, 0),
           P("Connection_Handle", 2, 0, INT_HANDLE, 0) >>))
  @@ (\h000E :> U("HCI_Read_Default_Link_Policy_Settings", \h080E,
        0, <<>>,
        2, << P("Status", 1, 0, TEXT_REASON_STATUS_CODE, 0),
           P("Default_Link_Policy_Settings", 2, 0, TEXT_SPECIAL_DISPLAY_PARAM, LINK_POLICY_SETTING) >>))
  @@ (\h000F :> U("HCI_Write_Default_Link_Policy_Settings", \h080F,
        1, << P("Default_Link_Policy_Settings", 2, 0, TEXT_SPECIAL_DISPLAY_PARAM, LINK_POLICY_SETTING) >>,
        1, << P("Status", 1, 0, TEXT_REASON_STATUS_CODE, 0) >>))
  @@ (\h0010 :> U("HCI_Flow_Specification", \h0810,
        8, << P("Connection_Handle", 2, 0, INT_HANDLE, 0),
           P("Flags", 1, 0, INT_HEX, 0),
           P("Flow_direction", 1, 0, INT_HEX, 0),
           P("Service_Type", 1, 0, INT_HEX, 0),
           P("Token Rate", 4, 0, INT_HEX, 0),
           P("Token Bucket Size", 4, 0, INT_DEC, 0),
           P("Peak_Bandwidth", 4, 0, INT_HEX, 0),
           P("Access Latency", 4, 0, INT_HEX, 0) >>,
        0, <<>>))
  @@ (\h0011 :> U("HCI_Sniff_Subrating", \h0811,
        4, << P("Connection_Handle", 2, 0, INT_HANDLE, 0),
           P("Maximum_Latency", 2, 0, INT_HEX, 0),
           P("Minimum_Remote_Timeout", 2, 0, INT_HEX, 0),
           P("Minimum_Local_Timeout", 2, 0, INT_HEX, 0) >>,
        2, << P("Status", 1, 0, TEXT_REASON_STATUS_CODE, 0),
           P("Connection_Handle", 2, 0, INT_HANDLE, 0) >>))

\* HCI_CONTROLLER_BASEBAND_COMMANDS[], lines 1887-4092: the populated slots, index :> entry.
HCI_CONTROLLER_BASEBAND_COMMANDS ==
     (\h0001 :> U("HCI_Set_Event_Mask", \h0C01,
        1, << P("Event_Mask", 8, 0, SEQ_HEX, 0) >>,
        1, << P("Status", 1, 0, TEXT_REASON_STATUS_CODE, 0) >>))
  @@ (\h0003 :> U("HCI_Reset", \h0C03,
        0, <<>>,
        1, << P("Status", 1, 0, TEXT_REASON_STATUS_CODE, 0) >>))
  @@ (\h0005 :> U("HCI_Set_Event_Filter", \h0C05,
        1, << P("Filter_Type", 1, 0, INT_HEX, 0) >>,
        1, << P("Status", 1, 0, TEXT_REASON_STATUS_CODE, 0) >>))
  @@ (\h0008 :> U("HCI_Flush", \h0C08,
        1, << P("Connection_Handle", 2, 0, INT_HANDLE, 0) >>,
        2, << P("Status", 1, 0, TEXT_REASON_STATUS_CODE, 0),
           P("Connection_Handle", 2, 0, INT_HANDLE, 0) >>))
  @@ (\h0009 :> U("HCI_Read_PIN_Type", \h0C09,
        0, <<>>,
        2, << P("Status", 1, 0, TEXT_REASON_STATUS_CODE, 0),
           P("PIN_Type", 1, 0, TEXT_SPECIAL_DISPLAY_PARAM, PIN_TYPE) >>))
  @@ (\h000A :> U("HCI_Write_PIN_Type", \h0C0A,
        1, << P("PIN_Type", 1, 0, TEXT_SPECIAL_DISPLAY_PARAM, PIN_TYPE) >>,
        1, << P("Status", 1, 0, TEXT_REASON_STATUS_CODE, 0) >>))
  @@ (\h000B :> U("HCI_Create_New_Unit_Key", \h0C0B,
        0, <<>>,
        1, << P("Status", 1, 0, TEXT_REASON_STATUS_CODE, 0) >>))
  @@ (\h000D :> U("HCI_Read_Stored_Link_Key", \h0C0D,
        2, << P("BD_ADDR", 6, 0, TEXT_BD_ADDR, 0),
           P("Read_All_Flag", 1, 0, INT_HEX, 0) >>,
        3, << P("Status", 1, 0, TEXT_REASON_STATUS_CODE, 0),
           P("Max_Num_Keys", 2, 0, INT_DEC, 0),
           P("Max_Keys_Read", 2, 0, INT_HEX, 0) >>))
  @@ (\h0011 :> U("HCI_Write_Stored_Link_Key", \h0C11,
        3, << P("Num_Keys_To_Write", 1, 2, INT_DEC, 0),
           P("BD_ADDR", 6, 0, TEXT_BD_ADDR, 0),
           P("Link_Key", 16, 0, TEXT_SPECIAL_DISPLAY_PARAM, SECURITY_KEY_TYPE) >>,
        2, << P("Status", 1, 0, TEXT_REASON_STATUS_CODE, 0),
           P("Num_Keys_Written", 1, 0, INT_DEC, 0) >>))
  @@ (\h0012 :> U("HCI_Delete_Stored_Link_Key", \h0C12,
        2, << P("BD_ADDR", 6, 0, TEXT_BD_ADDR, 0),
           P("Delete_All_Flag", 1, 0, TEXT_SPECIAL_DISPLAY_PARAM, DELETE_ALL_FLAG) >>,
        2, << P("Status", 1, 0, TEXT_REASON_STATUS_CODE, 0),
           P("Num_Keys_Deleted", 2, 0, INT_DEC, 0) >>))
  @@ (\h0013 :> U("HCI_Write_Local_Name", \h0C13,
        1, << P("Local_Name", 248, 0, SEQ_CHAR, 0) >>,
        1, << P("Status", 1, 0, TEXT_REASON_STATUS_CODE, 0) >>))
  @@ (\h0014 :> U("HCI_Read_Local_Name", \h0C14,
        0, <<>>,
        2, << P("Status", 1, 0, TEXT_REASON_STATUS_CODE, 0),
           P("Local_Name", 248, 0, SEQ_CHAR, 0) >>))
  @@ (\h0015 :> U("HCI_Read_Connection_Accept_Timeout", \h0C15,
        0, <<>>,
        2, << P("Status", 1, 0, TEXT_REASON_STATUS_CODE, 0),
           P("Conn_Accept_Timeout", 2, 0, TIME_CLK1, 0) >>))
  @@ (\h0016 :> U("HCI_Write_Connection_Accept_Timeout", \h0C16,
        1, << P("Conn_Accept_Timeout", 2, 0, TIME_CLK1, 0) >>,
        1, << P("Status", 1, 0, TEXT_REASON_STATUS_CODE, 0) >>))
  @@ (\h0017 :> U("HCI_Read_Page_Timeout", \h0C17,
        0, <<>>,
        0, << P("Status", 1, 0, TEXT_REASON_STATUS_CODE, 0),
           P("Page_Timeout", 2, 0, TIME_CLK1, 0) >>))
  @@ (\h0018 :> U("HCI_Write_Page_Timeout", \h0C18,
        1, << P("Page_Timeout", 2, 0, TIME_CLK1, 0) >>,
        1, << P("Status", 1, 0, TEXT_REASON_STATUS_CODE, 0) >>))
  @@ (\h0019 :> U("HCI_Read_Scan_Enable", \h0C19,
        0, <<>>,
        2, << P("Status", 1, 0, TEXT_REASON_STATUS_CODE, 0),
           P("Scan_Enable", 1, 0, TEXT_SPECIAL_DISPLAY_PARAM, SCAN_ENABLE) >>))
  @@ (\h001A :> U("HCI_Write_Scan_Enable", \h0C1A,
        1, << P("Scan_Enable", 1, 0, TEXT_SPECIAL_DISPLAY_PARAM, SCAN_ENABLE) >>,
        1, << P("Status", 1, 0, TEXT_REASON_STATUS_CODE, 0) >>))
  @@ (\h001B :> U("HCI_Read_Page_Scan_Activity", \h0C1B,
        0, <<>>,
        3, << P("Status", 1, 0, TEXT_REASON_STATUS_CODE, 0),
           P("Page_Scan_Interval", 2, 0, TIME_CLK1, 0),
           P("Page_Scan_Window", 2, 0, TIME_CLK1, 0) >>))
  @@ (\h001C :> U("HCI_Write_Page_Scan_Activity", \h0C1C,
        2, << P("Page_Scan_Interval", 2, 0, TIME_CLK1, 0),
           P("Page_Scan_Window", 2, 0, TIME_CLK1, 0) >>,
        1, << P("Status", 1, 0, TEXT_REASON_STATUS_CODE, 0) >>))
  @@ (\h001D :> U("HCI_Read_Inquiry_Scan_Activity", \h0C1D,
        0, <<>>,
        3, << P("Status", 1, 0, TEXT_REASON_STATUS_CODE, 0),
           P("Inquiry_Scan_Interval", 2, 0, TIME_CLK1, 0),
           P("Inquiry_Scan_Window", 2, 0, TIME_CLK1, 0) >>))
  @@ (\h001E :> U("HCI_Write_Inquiry_Scan_Activity", \h0C1E,
        2, << P("Inquiry_Scan_Interval", 2, 0, TIME_CLK1, 0),
           P("Inquiry_Scan_Window", 2, 0, TIME_CLK1, 0) >>,
        1, << P("Status", 1, 0, TEXT_REASON_STATUS_CODE, 0) >>))
  @@ (\h001F :> U("HCI_Read_Authentication_Enable", \h0C1F,
        0, <<>>,
        2, << P("Status", 1, 0, TEXT_REASON_STATUS_CODE, 0),
           P("Authentication_Enable", 1, 0, TEXT_SPECIAL_DISPLAY_PARAM, AUTHENTICATION_ENABLE) >>))
  @@ (\h0020 :> U("HCI_Write_Authentication_Enable", \h0C20,
        1, << P("Authentication_Enable", 1, 0, TEXT_SPECIAL_DISPLAY_PARAM, AUTHENTICATION_ENABLE) >>,
        1, << P("Status", 1, 0, TEXT_REASON_STATUS_CODE, 0) >>))
  @@ (\h0023 :> U("HCI_Read_Class_of_Device", \h0C23,
        0, <<>>,
        2, << P("Status", 1, 0, TEXT_REASON_STATUS_CODE, 0),
           P("Class_of_Device", 3, 0, INT_HEX, 0) >>))
  @@ (\h0024 :> U("HCI_Write_Class_of_Device", \h0C24,
        1, << P("Class_of_Device", 3, 0, INT_HEX, 0) >>,
        1, << P("Status", 1, 0, TEXT_REASON_STATUS_CODE, 0) >>))
  @@ (\h0025 :> U("HCI_Read_Voice_Setting", \h0C25,
        0, <<>>,
        2, << P("Status", 1, 0, TEXT_REASON_STATUS_CODE, 0),
           P("Voice_Setting", 2, 0, TEXT_SPECIAL_DISPLAY_PARAM, VOICE_SETTING) >>))
  @@ (\h0026 :> U("HCI_Write_Voice_Setting", \h0C26,
        1, << P("Voice_Setting", 2, 0, TEXT_SPECIAL_DISPLAY_PARAM, VOICE_SETTING) >>,
        1, << P("Status", 1, 0, TEXT_REASON_STATUS_CODE, 0) >>))
  @@ (\h0027 :> U("HCI_Read_Automatic_Flush_Timeout", \h0C27,
        1, << P("Connection_Handle", 2, 0, INT_HANDLE, 0) >>,
        3, << P("Status", 1, 0, TEXT_REASON_STATUS_CODE, 0),
           P("Connection_Handle", 2, 0, INT_HANDLE, 0),
           P("Flush_Timeout", 2, 0, TIME_CLK1, 0) >>))
  @@ (\h0028 :> U("HCI_Write_Automatic_Flush_Timeout", \h0C28,
        2, << P("Connection_Handle", 2, 0, INT_HANDLE, 0),
           P("Flush_Timeout", 2, 0, TIME_CLK1, 0) >>,
        2, << P("Status", 1, 0, TEXT_REASON_STATUS_CODE, 0),
           P("Connection_Handle", 2, 0, INT_HANDLE, 0) >>))
  @@ (\h0029 :> U("HCI_Read_Num_Broadcast_Retransmissions", \h0C29,
        0, <<>>,
        2, << P("Status", 1, 0, TEXT_REASON_STATUS_CODE, 0),
           P("Num_Broadcast_Retransmissions", 1, 0, INT_DEC, 0) >>))
  @@ (\h002A :> U("HCI_Write_Num_Broadcast_Retransmissions", \h0C2A,
        1, << P("Num_Broadcast_Retransmissions", 1, 0, INT_DEC, 0) >>,
        1, << P("Status", 1, 0, TEXT_REASON_STATUS_CODE, 0) >>))
  @@ (\h002B :> U("HCI_Read_Hold_Mode_Activity", \h0C2B,
        0, <<>>,
        2, << P("Status", 1, 0, TEXT_REASON_STATUS_CODE, 0),
           P("Hold_Mode_Activity", 1, 0, TEXT_SPECIAL_DISPLAY_PARAM, HOLD_MODE_ACTIVITY) >>))
  @@ (\h002C :> U("HCI_Write_Hold_Mode_Activity", \h0C2C,
        1, << P("Hold_Mode_Activity", 1, 0, TEXT_SPECIAL_DISPLAY_PARAM, HOLD_MODE_ACTIVITY) >>,
        1, << P("Status", 1, 0, TEXT_REASON_STATUS_CODE, 0) >>))
  @@ (\h002D :> U("HCI_Read_Transmit_Power_Level", \h0C2D,
        2, << P("Connection_Handle", 2, 0, INT_HANDLE, 0),
           P("Type", 1, 0, INT_HEX, 0) >>,
        3, << P("Status", 1, 0, TEXT_REASON_STATUS_CODE, 0),
           P("Connection_Handle", 2, 0, INT_HANDLE, 0),
           P("Transmit_Power_Level", 1, 0, INT_HEX, 0) >>))
  @@ (\h002E :> U("HCI_Read_Synchronous_Flow_Control_Enable", \h0C2E,
        0, <<>>,
        2, << P("Status", 1, 0, TEXT_REASON_STATUS_CODE, 0),
           P("Synchronous_Flow_Control_Enable", 1, 0, TEXT_SPECIAL_DISPLAY_PARAM, SYNCHRONOUS_FLOW_CONTROL_ENABLE) >>))
  @@ (\h002F :> U("HCI_Write_Synchronous_Flow_Control_Enable", \h0C2F,
        1, << P("Synchronous_Flow_Control_Enable", 1, 0, TEXT_SPECIAL_DISPLAY_PARAM, SYNCHRONOUS_FLOW_CONTROL_ENABLE) >>,
        1, << P("Status", 1, 0, TEXT_REASON_STATUS_CODE, 0) >>))
  @@ (\h0031 :> U("HCI_Set_Controller_To_Host_Flow_Control", \h0C31,
        1, << P("Flow_Control_Enable", 1, 0, INT_HEX, 0) >>,
        1, << P("Status", 1, 0, TEXT_REASON_STATUS_CODE, 0) >>))
  @@ (\h0033 :> U("HCI_Host_Buffer_Size", \h0C33,
        4, << P("Host_ACL_Data_Packet_Length", 2, 0, INT_DEC, 0),
           P("Host_Synchronous_Data_Packet_Length", 1, 0, INT_DEC, 0),
           P("Host_Total_Num_ACL_Data_Packets", 2, 0, INT_DEC, 0),
           P("Host_Total_Num_Synchronous_Data_Packets", 2, 0, INT_DEC, 0) >>,
        1, << P("Status", 1, 0, TEXT_REASON_STATUS_CODE, 0) >>))
  @@ (\h0035 :> U("HCI_Host_Number_Of_Completed_Packets", \h0C35,
        3, << P("Number_Of_Handles", 1, 2, INT_DEC, 0),
           P("Connection_Handle", 2, 0, INT_HANDLE, 0),
           P("Host_Num_Of_Complete_Packets", 2, 0, INT_DEC, 0) >>,
        0, <<>>))
  @@ (\h0036 :> U("HCI_Read_Link_Supervision_Timeout", \h0C36,
        1, << P("Connection_Handle", 2, 0, INT_HANDLE, 0) >>,
        3, << P("Status", 1, 0, TEXT_REASON_STATUS_CODE, 0),
           P("Connection_Handle", 2, 0, INT_HANDLE, 0),
           P("Link_Supervision_Timeout", 2, 0, TIME_CLK1, 0) >>))
  @@ (\h0037 :> U("HCI_Write_Link_Supervision_Timeout", \h0C37,
        2, << P("Connection_Handle", 2, 0, INT_HANDLE, 0),
           P("Link_Supervision_Timeout", 2, 0, TIME_CLK1, 0) >>,
        2, << P("Status", 1, 0, TEXT_REASON_STATUS_CODE, 0),
           P("Connection_Handle", 2, 0, INT_HANDLE, 0) >>))
  @@ (\h0038 :> U("HCI_Read_Number_Of_Supported_IAC", \h0C38,
        0, <<>>,
        2, << P("Status", 1, 0, TEXT_REASON_STATUS_CODE, 0),
           P("Num_Support_IAC", 1, 0, INT_DEC, 0) >>))
  @@ (\h0039 :> U("HCI_Read_Current_IAC_LAP", \h0C39,
        0, <<>>,
        3, << P("Status", 1, 0, TEXT_REASON_STATUS_CODE, 0),
           P("Num_Current_IAC", 1, 1, INT_DEC, 0),
           P("IAC_LAP", 3, 0, TEXT_SPECIAL_DISPLAY_PARAM, LAP_IAC) >>))
  @@ (\h003A :> U("HCI_Write_Current_IAC_LAP", \h0C3A,
        2, << P("Num_Current_IAC", 1, 1, INT_DEC, 0),
           P("IAC_LAP", 3, 0, TEXT_SPECIAL_DISPLAY_PARAM, LAP_IAC) >>,
        1, << P("Status", 1, 0, TEXT_REASON_STATUS_CODE, 0) >>))
  @@ (\h003F :> U("Set_AFH_Host_Channel_Classification", \h0C3F,
        1, << P("AFH_Host_Channel_Classification", 10, 0, SEQ_HEX, 0) >>,
        1, << P("Status", 1, 0, TEXT_REASON_STATUS_CODE, 0) >>))
  @@ (\h0042 :> U("HCI_Read_Inquiry_Scan_Type", \h0C42,
        0, <<>>,
        2, << P("Status", 1, 0, TEXT_REASON_STATUS_CODE, 0),
           P("Inquiry_Scan_Type", 1, 0, TEXT_SPECIAL_DISPLAY_PARAM, INQUIRY_SCAN_TYPE) >>))
  @@ (\h0043 :> U("HCI_Write_Inquiry_Scan_Type", \h0C43,
        1, << P("Inquiry_Scan_Type", 1, 0, TEXT_SPECIAL_DISPLAY_PARAM, INQUIRY_SCAN_TYPE) >>,
        1, << P("Status", 1, 0, TEXT_REASON_STATUS_CODE, 0) >>))
  @@ (\h0044 :> U("HCI_Read_Inquiry_Mode", \h0C44,
        0, <<>>,
        2, << P("Status", 1, 0, TEXT_REASON_STATUS_CODE, 0),
           P("Inquiry_Mode", 1, 0, TEXT_SPECIAL_DISPLAY_PARAM, INQUIRY_MODE) >>))
  @@ (\h0045 :> U("HCI_Write_Inquiry_Mode", \h0C45,
        1, << P("Inquiry_Mode", 1, 0, TEXT_SPECIAL_DISPLAY_PARAM, INQUIRY_MODE) >>,
        1, << P("Status", 1, 0, TEXT_REASON_STATUS_CODE, 0) >>))
  @@ (\h0046 :> U("HCI_Read_Page_Scan_Type", \h0C46,
        0, <<>>,
        2, << P("Status", 1, 0, TEXT_REASON_STATUS_CODE, 0),
           P("Page_Scan_Type", 1, 0, TEXT_SPECIAL_DISPLAY_PARAM, PAGE_SCAN_TYPE) >>))
  @@ (\h0047 :> U("HCI_Write_Page_Scan_Type", \h0C47,
        1, << P("Page_Scan_Type", 1, 0, TEXT_SPECIAL_DISPLAY_PARAM, PAGE_SCAN_TYPE) >>,
        1, << P("Status", 1, 0, TEXT_REASON_STATUS_CODE, 0) >>))
  @@ (\h0048 :> U("Read_AFH_Channel_Assessment_Mode", \h0C48,
        0, <<>>,
        2, << P("Status", 1, 0, TEXT_REASON_STATUS_CODE, 0),
           P("AFH_Channel_Assessment_Mode", 1, 0, INT_HEX, 0) >>))
  @@ (\h0049 :> U("Write_AFH_Channel_Assessment_Mode", \h0C49,
        1, << P("AFH_Channel_Assessment_Mode", 1, 0, INT_HEX, 0) >>,
        1, << P("Status", 1, 0, TEXT_REASON_STATUS_CODE, 0) >>))
  @@ (\h0051 :> U("HCI_Read_Extended_Inquiry_Response", \h0C51,
        0, <<>>,
        3, << P("Status", 1, 0, TEXT_REASON_STATUS_CODE, 0),
           P("FEC_Required", 1, 0, TEXT_SPECIAL_DISPLAY_PARAM, FEC_REQUIRED),
           P("Extended_Inquiry_Response", 240, 0, SEQ_HEX, 0) >>))
  @@ (\h0052 :> U("HCI_Write_Extended_Inquiry_Response", \h0C52,
        2, << P("FEC_Required", 1, 0, TEXT_SPECIAL_DISPLAY_PARAM, FEC_REQUIRED),
           P("Extended_Inquiry_Response", 240, 0, SEQ_HEX, 0) >>,
        1, << P("Status", 1, 0, TEXT_REASON_STATUS_CODE, 0) >>))
  @@ (\h0053 :> U("HCI_Refresh_Encryption_Key", \h0C53,
        1, << P("Connection_Handle", 2, 0, INT_HANDLE, 0) >>,
        0, <<>>))
  @@ (\h0055 :> U("HCI_Read_Simple_Pairing_Mode", \h0C55,
        0, <<>>,
        2, << P("Status", 1, 0, TEXT_REASON_STATUS_CODE, 0),
           P("Simple_Pairing_Mode", 1, 0, TEXT_SPECIAL_DISPLAY_PARAM, SIMPLE_PAIRING_MODE) >>))
  @@ (\h0056 :> U("HCI_Write_Simple_Pairing_Mode", \h0C56,
        1, << P("Simple_Pairing_Mode", 1, 0, TEXT_SPECIAL_DISPLAY_PARAM, SIMPLE_PAIRING_MODE) >>,
        1, << P("Status", 1, 0, TEXT_REASON_STATUS_CODE, 0) >>))
  @@ (\h0057 :> U("HCI_Read_Local_OOB_Data", \h0C57,
        0, <<>>,
        3, << P("Status", 1, 0, TEXT_REASON_STATUS_CODE, 0),
           P("C", 16, 0, SEQ_HEX, 0),
           P("R", 16, 0, SEQ_HEX, 0) >>))
  @@ (\h0058 :> U("HCI_Read_Inquiry_Response_Transmit_Power_Level", \h0C58,
        0, <<>>,
        2, << P("Status", 1, 0, TEXT_REASON_STATUS_CODE, 0),
           P("TX_Power", 1, 0, INT_HEX, 0) >>))
  @@ (\h0059 :> U("HCI_Write_Inquiry_Transmit_Power_Level", \h0C59,
        1, << P("TX_Power", 1, 0, INT_HEX, 0) >>,
        1, << P("Status", 1, 0, TEXT_REASON_STATUS_CODE, 0) >>))
  @@ (\h005A :> U("HCI_Read_Default_Erroneous_Data_Reporting", \h0C5A,
        0, <<>>,
        2, << P("Status", 1, 0, TEXT_REASON_STATUS_CODE, 0),
           P("Erroneous_Data_Reporting", 1, 0, TEXT_SPECIAL_DISPLAY_PARAM, ERRONEOUS_DATA_REPORTING) >>))
  @@ (\h005B :> U("HCI_Write_Default_Erroneous_Data_Reporting", \h0C5B,
        1, << P("Erroneous_Data_Reporting", 1, 0, TEXT_SPECIAL_DISPLAY_PARAM, ERRONEOUS_DATA_REPORTING) >>,
        1, << P("Status", 1, 0, TEXT_REASON_STATUS_CODE, 0) >>))
  @@ (\h005F :> U("HCI_Enhanced_Flush", \h0C5F,
        2, << P("Connection_Handle", 2, 0, INT_HANDLE, 0),
           P("Packet_Type", 1, 0, INT_HEX, 0) >>,
        0, <<>>))
  @@ (\h0060 :> U("HCI_Send_Keypress_Notification", \h0C60,
        2, << P("BD_ADDR", 6, 0, TEXT_BD_ADDR, 0),
           P("Notification_Type", 1, 0, INT_HEX, 0) >>,
        2, << P("Status", 1, 0, TEXT_REASON_STATUS_CODE, 0),
           P("BD_ADDR", 6, 0, TEXT_BD_ADDR, 0) >>))
  @@ (\h0061 :> U("HCI_Read_Logical_Link_Accept_Timeout", \h0C61,
        0, <<>>,
        2, << P("Status", 1, 0, TEXT_REASON_STATUS_CODE, 0),
           P("Logical_Link_Accept_Timeout", 2, 0, TIME_CLK1, 0) >>))
  @@ (\h0062 :> U("HCI_Write_Logical_Link_Accept_Timeout", \h0C62,
        1, << P("Logical_Link_Accept_Timeout", 2, 0, TIME_CLK1, 0) >>,
        1, << P("Status", 1, 0, TEXT_REASON_STATUS_CODE, 0) >>))
  @@ (\h0063 :> U("HCI_Set_Event_Mask_Page_2", \h0C63,
        1, << P("Event_Mask_Page_2", 8, 0, SEQ_HEX, 0) >>,
        1, << P("Status", 1, 0, TEXT_REASON_STATUS_CODE, 0) >>))
  @@ (\h0064 :> U("HCI_Read_Location_Data", \h0C64,
        0, <<>>,
        5, << P("Status", 1, 0, TEXT_REASON_STATUS_CODE, 0),
           P("Location_Domain_Aware", 1, 0, TEXT_SPECIAL_DISPLAY_PARAM, LOCATION_DOMAIN_AWARE),
           P("Location_Domain", 2, 0, INT_HEX, 0),
           P("Location_Domain_Options", 1, 0, TEXT_SPECIAL_DISPLAY_PARAM, LOCATION_DOMAIN_OPTIONS),
           P("Location_Options", 1, 0, TEXT_SPECIAL_DISPLAY_PARAM, LOCATION_OPTIONS) >>))
  @@ (\h0065 :> U("HCI_Write_Location_Data", \h0C65,
        4, << P("Location_Domain_Aware", 1, 0, TEXT_SPECIAL_DISPLAY_PARAM, LOCATION_DOMAIN_AWARE),
           P("Location_Domain", 2, 0, INT_HEX, 0),
           P("Location_Domain_Options", 1, 0, TEXT_SPECIAL_DISPLAY_PARAM, LOCATION_DOMAIN_OPTIONS),
           P("Location_Options", 1, 0, TEXT_SPECIAL_DISPLAY_PARAM, LOCATION_OPTIONS) >>,
        1, << P("Status", 1, 0, TEXT_REASON_STATUS_CODE, 0) >>))
  @@ (\h0066 :> U("HCI_Read_Flow_Control_Mode", \h0C66,
        0, <<>>,
        2, << P("Status", 1, 0, TEXT_REASON_STATUS_CODE, 0),
           P("Flow_Control_Mode", 1, 0, TEXT_SPECIAL_DISPLAY_PARAM, FLOW_CONTROL_MODE) >>))
  @@ (\h0067 :> U("HCI_Write_Flow_Control_Mode", \h0C67,
        1, << P("Flow_Control_Mode", 1, 0, TEXT_SPECIAL_DISPLAY_PARAM, FLOW_CONTROL_MODE) >>,
        1, << P("Status", 1, 0, TEXT_REASON_STATUS_CODE, 0) >>))
  @@ (\h0068 :> U("HCI_Read_Enhance_Transmit_Power_Level", \h0C68,
        2, << P("Connection_Handle", 2, 0, INT_HANDLE, 0),
           P("Type", 1, 0, INT_HEX, 0) >>,
        5, << P("Status", 1, 0, TEXT_REASON_STATUS_CODE, 0),
           P("Connection_Handle", 2, 0, INT_HANDLE, 0),
           P("Transmit_Power_Level_GFSK", 1, 0, INT_HEX, 0),
           P("Transmit_Power_Level_DQPSK", 1, 0, INT_HEX, 0),
           P("Transmit_Power_Level_8DPSK", 1, 0, INT_HEX, 0) >>))
  @@ (\h0069 :> U("HCI_Read_Best_Effort_Flush_Timeout", \h0C69,
        1, << P("Logical_Link_Handle", 2, 0, INT_HEX, 0) >>,
        2, << P("Status", 1, 0, TEXT_REASON_STATUS_CODE, 0),
           P("Best_Effort_Flush_Timeout", 4, 0, INT_HEX, 0) >>))
  @@ (\h006A :> U("HCI_Write_Best_Effort_Flush_Timeout", \h0C6A,
        2, << P("Logical_Link_Handle", 2, 0, INT_HEX, 0),
           P("Best_Effort_Flush_Timeout", 4, 0, INT_HEX, 0) >>,
        1, << P("Status", 1, 0, TEXT_REASON_STATUS_CODE, 0) >>))
  @@ (\h006B :> U("HCI_Short_Range_Mode", \h0C6B,
        2, << P("Physical_Link_Handle", 1, 0, INT_HEX, 0),
           P("Short_Range_Mode", 1, 0, INT_HEX, 0) >>,
        0, <<>>))
  @@ (\h006C :> U("HCI_Read_LE_Host_Support", \h0C6C,
        0, <<>>,
        3, << P("Status", 1, 0, TEXT_REASON_STATUS_CODE, 0),
           P("LE_Supported_Host", 1, 0, TEXT_SPECIAL_DISPLAY_PARAM, LE_SUPPORTED_HOST),
           P("Simultaneous_LE_Host", 1, 0, INT_HEX, 0) >>))
  @@ (\h006D :> U("HCI_Write_LE_Host_Support", \h0C6D,
        2, << P("LE_Supported_Host", 1, 0, TEXT_SPECIAL_DISPLAY_PARAM, LE_SUPPORTED_HOST),
           P("Simultaneous_LE_Host", 1, 0, INT_HEX, 0) >>,
        1, << P("Status", 1, 0, TEXT_REASON_STATUS_CODE, 0) >>))
  @@ (\h006E :> U("HCI_Set_MWS_Channel_Parameters", \h0C6E,
        6, << P("MWS_Channel_Enable", 1, 0, INT_HEX, 0),
           P("MWS_RX_Center_Frequency", 2, 0, INT_HEX, 0),
           P("MWS_TX_Center_Frequency", 2, 0, INT_HEX, 0),
           P("MWS_RX_Channel_Bandwidth", 2, 0, INT_HEX, 0),
           P("MWS_TX_Channel_Bandwidth", 2, 0, INT_HEX, 0),
           P("MWS_Channel_Type", 1, 0, INT_HEX, 0) >>,
        1, << P("Status", 1, 0, TEXT_REASON_STATUS_CODE, 0) >>))
  @@ (\h006F :> U("HCI_Set_External_Frame_Configuration", \h0C6F,
        6, << P("Ext_Frame_Duration", 1, 0, INT_HEX, 0),
           P("Ext_Frame_Sync_Assert_Offset", 2, 0, INT_HEX, 0),
           P("Ext_Frame_Sync_Assert_Jitter", 2, 0, INT_HEX, 0),
           P("Ext_Num_Periods", 1, 1, INT_DEC, 0),
           P("Period_Duration", 2, 0, INT_HEX, 0),
           P("Period_Type", 1, 0, INT_HEX, 0) >>,
        1, << P("Status", 1, 0, TEXT_REASON_STATUS_CODE, 0) >>))
  @@ (\h0070 :> U("HCI_Set_MWS_Signaling", \h0C70,
        15, << P("MWS_RX_Assert_Offset", 2, 0, INT_HEX, 0),
           P("MWS_RX_Assert_Jitter", 2, 0, INT_HEX, 0),
           P("MWS_RX_Deassert_Offset", 2, 0, INT_HEX, 0),
           P("MWS_RX_Deassert_Jitter", 2, 0, INT_HEX, 0),
           P("MWS_TX_Assert_Offset", 2, 0, INT_HEX, 0),
           P("MWS_TX_Assert_Jitter", 2, 0, INT_HEX, 0),
           P("MWS_TX_Deassert_Offset", 2, 0, INT_HEX, 0),
           P("MWS_TX_Deassert_Jitter", 2, 0, INT_HEX, 0),
           P("MWS_Pattern_Assert_Offset", 2, 0, INT_HEX, 0),
           P("MWS_Pattern_Assert_Jitter", 2, 0, INT_HEX, 0),
           P("MWS_Inactivity_Duration_Assert_Offset", 2, 0, INT_HEX, 0),
           P("MWS_Inactivity_Duration_Assert_Jitter", 2, 0, INT_HEX, 0),
           P("MWS_Scan_Frequency_Assert_Offset", 2, 0, INT_HEX, 0),
           P("MWS_Scan_Frequency_Assert_Jitter", 2, 0, INT_HEX, 0),
           P("MWS_Priority_Assert_Offset_Requeset", 2, 0, INT_HEX, 0) >>,
        17, << P("Status", 1, 0, TEXT_REASON_STATUS_CODE, 0),
           P("Bluetooth_RX_Priority_Assert_Offset", 2, 0, INT_HEX, 0),
           P("Bluetooth_RX_Priority_Assert_Jitter", 2, 0, INT_HEX, 0),
           P("Bluetooth_RX_Priority_Deassert_Offset", 2, 0, INT_HEX, 0),
           P("Bluetooth_RX_Priority_Deassert_Jitter", 2, 0, INT_HEX, 0),
           P("802_RX_Priority_Assert_Offset", 2, 0, INT_HEX, 0),
           P("802_RX_Priority_Assert_Jitter", 2, 0, INT_HEX, 0),
           P("802_RX_Priority_Deassert_Offset", 2, 0, INT_HEX, 0),
           P("802_RX_Priority_Deassert_Jitter", 2, 0, INT_HEX, 0),
           P("Bluetooth_TX_Priority_Assert_Offset", 2, 0, INT_HEX, 0),
           P("Bluetooth_TX_Priority_Assert_Jitter", 2, 0, INT_HEX, 0),
           P("Bluetooth_TX_Priority_Deassert_Offset", 2, 0, INT_HEX, 0),
           P("Bluetooth_TX_Priority_Deassert_Jitter", 2, 0, INT_HEX, 0),
           P("802_TX_Priority_Assert_Offset", 2, 0, INT_HEX, 0),
           P("802_TX_Priority_Assert_Jitter", 2, 0, INT_HEX, 0),
           P("802_TX_Priority_Deassert_Offset", 2, 0, INT_HEX, 0),
           P("802_TX_Priority_Deassert_Jitter", 2, 0, INT_HEX, 0) >>))
  @@ (\h0071 :> U("HCI_Set_MWS_Transport_Layer", \h0C71,
        3, << P("Transport_Layer", 1, 0, INT_HEX, 0),
           P("To_MWS_Baud_Rate", 4, 0, INT_HEX, 0),
           P("From_MWS_Baud_Rate", 4, 0, INT_HEX, 0) >>,
        1, << P("Status", 1, 0, TEXT_REASON_STATUS_CODE, 0) >>))
  @@ (\h0072 :> U("HCI_Set_MWS_Scan_Frequency_Table", \h0C72,
        3, << P("Num_Scan_Frequencies", 1, 2, INT_DEC, 0),
           P("Scan_Frequency_Low", 2, 0, INT_HEX, 0),
           P("Scan_Frequency_High", 2, 0, INT_HEX, 0) >>,
        1, << P("Status", 1, 0, TEXT_REASON_STATUS_CODE, 0) >>))
  @@ (\h0073 :> U("HCI_Set_MWS_PATTERN_Configuration", \h0C73,
        4, << P("MWS_PATTERN_Index", 1, 0, INT_HEX, 0),
           P("MWS_PATTERN_NumIntervals", 1, 2, INT_DEC, 0),
           P("MWS_PATTERN_IntervalDuration", 2, 0, INT_HEX, 0),
           P("MWS_PATTERN_IntervalType", 1, 0, INT_HEX, 0) >>,
        1, << P("Status", 1, 0, TEXT_REASON_STATUS_CODE, 0) >>))
  @@ (\h0074 :> U("HCI_Set_Reserved_LT_ADDR", \h0C74,
        1, << P("LT_ADDR", 1, 0, INT_HEX, 0) >>,
        2, << P("Status", 1, 0, TEXT_REASON_STATUS_CODE, 0),
           P("LT_ADDR", 1, 0, INT_HEX, 0) >>))
  @@ (\h0075 :> U("HCI_Delete_Reserved_LT_ADDR", \h0C75,
        1, << P("LT_ADDR", 1, 0, INT_HEX, 0) >>,
        2, << P("Status", 1, 0, TEXT_REASON_STATUS_CODE, 0),
           P("LT_ADDR", 1, 0, INT_HEX, 0) >>))
  @@ (\h0076 :> U("HCI_Set_Connectionless_Slave_Broadcast_Data", \h0C76,
        4, << P("LT_ADDR", 1, 0, INT_HEX, 0),
           P("Fragment", 1, 0, INT_HEX, 0),
           P("Data_Length", 1, 0, INT_DEC, 0),
           P("Data", -1, 0, SEQ_HEX, 0) >>,
        2, << P("Status", 1, 0, TEXT_REASON_STATUS_CODE, 0),
           P("LT_ADDR", 1, 0, INT_HEX, 0) >>))
  @@ (\h0077 :> U("HCI_Read_Synchronization_Train_Parameters", \h0C77,
        0, <<>>,
        4, << P("Status", 1, 0, TEXT_REASON_STATUS_CODE, 0),
           P("Sync_Train_Interval", 2, 0, INT_HEX, 0),
           P("synchronization_trainTO", 4, 0, INT_HEX, 0),
           P("Service_Data", 1, 0, INT_HEX, 0) >>))
  @@ (\h0078 :> U("HCI_Write_Synchronization_Train_Parameters", \h0C78,
        4, << P("Interval_Min", 2, 0, INT_HEX, 0),
           P("Interval_Max", 2, 0, INT_HEX, 0),
           P("synchronization_trainTO", 4, 0, INT_HEX, 0),
           P("Service_Data", 1, 0, INT_HEX, 0) >>,
        2, << P("Status", 1, 0, TEXT_REASON_STATUS_CODE, 0),
           P("Sync_Train_Interval", 2, 0, INT_HEX, 0) >>))
  @@ (\h0079 :> U("HCI_Read_Secure_Connections_Host_Support", \h0C79,
        0, <<>>,
        2, << P("Status", 1, 0, TEXT_REASON_STATUS_CODE, 0),
           P("Secure_Connections_Host_Support", 1, 0, TEXT_SPECIAL_DISPLAY_PARAM, SECURE_CONNECTIONS_HOST_SUPPORT) >>))
  @@ (\h007A :> U("HCI_Write_Secure_Connections_Host_Support", \h0C7A,
        1, << P("Secure_Connections_Host_Support", 1, 0, TEXT_SPECIAL_DISPLAY_PARAM, SECURE_CONNECTIONS_HOST_SUPPORT) >>,
        1, << P("Status", 1, 0, TEXT_REASON_STATUS_CODE, 0) >>))
  @@ (\h007B :> U("HCI_Read_Authenticated_Payload_Timeout", \h0C7B,
        1, << P("Connection_Handle", 2, 0, INT_HANDLE, 0) >>,
        3, << P("Status", 1, 0, TEXT_REASON_STATUS_CODE, 0),
           P("Connection_Handle", 2, 0, INT_HANDLE, 0),
           P("Authenticated_Payload_Timeout", 2, 0, TIME_CLK5, 0) >>))
  @@ (\h007C :> U("HCI_Write_Authenticated_Payload_Timeout", \h0C7C,
        2, << P("Connection_Handle", 2, 0, INT_HANDLE, 0),
           P("Authenticated_Payload_Timeout", 2, 0, TIME_CLK5, 0) >>,
        2, << P("Status", 1, 0, TEXT_REASON_STATUS_CODE, 0),
           P("Connection_Handle", 2, 0, INT_HANDLE, 0) >>))
  @@ (\h007D :> U("HCI_Read_Local_OOB_Extended_Data", \h0C7D,
        0, <<>>,
        5, << P("Status", 1, 0, TEXT_REASON_STATUS_CODE, 0),
           P("C_192", 16, 0, SEQ_HEX, 0),
           P("R_192", 16, 0, SEQ_HEX, 0),
           P("C_256", 16, 0, SEQ_HEX, 0),
           P("R_256", 16, 0, SEQ_HEX, 0) >>))
  @@ (\h007E :> U("HCI_Read_Extended_Page_Timeout", \h0C7E,
        0, <<>>,
        2, << P("Status", 1, 0, TEXT_REASON_STATUS_CODE, 0),
           P("Extended_Page_Timeout", 2, 0, TIME_CLK1, 0) >>))
  @@ (\h007F :> U("HCI_Write_Extended_Page_Timeout", \h0C7F,
        1, << P("Extended_Page_Timeout", 2, 0, TIME_CLK1, 0) >>,
        1, << P("Status", 1, 0, TEXT_REASON_STATUS_CODE, 0) >>))
  @@ (\h0080 :> U("HCI_Read_Extended_Inquiry_Length", \h0C80,
        0, <<>>,
        2, << P("Status", 1, 0, TEXT_REASON_STATUS_CODE, 0),
           P("Extended_Inquiry_Length", 2, 0, TIME_CLK1, 0) >>))
  @@ (\h0081 :> U("HCI_Write_Extended_Inquiry_Length", \h0C81,
        1, << P("Extended_Inquiry_Length", 2, 0, TIME_CLK1, 0) >>,
        1, << P("Status", 1, 0, TEXT_REASON_STATUS_CODE, 0) >>))

\* HCI_INFORMATIONAL_PARAMETERS[], lines 4095-4288: the populated slots, index :> entry.
HCI_INFORMATIONAL_PARAMETERS ==
     (\h0001 :> U("HCI_Read_Local_Version_Information", \h1001,
        0, <<>>,
        6, << P("Status", 1, 0, TEXT_REASON_STATUS_CODE, 0),
           P("HCI_Version", 1, 0, INT_HEX, 0),
           P("HCI_Revision", 2, 0, INT_HEX, 0),
           P("LMP/PAL_Version", 1, 0, INT_HEX, 0),
           P("Manufacturer_Name", 2, 0, INT_HEX, 0),
           P("LMP/PAL_Subversion", 2, 0, INT_HEX, 0) >>))
  @@ (\h0002 :> U("HCI_Read_Local_Supported_Commands", \h1002,
        0, <<>>,
        2, << P("Status", 1, 0, TEXT_REASON_STATUS_CODE, 0),
           P("Supported_Commands", 64, 0, SEQ_HEX, 0) >>))
  @@ (\h0003 :> U("HCI_Read_Local_Supported_Features", \h1003,
        0, <<>>,
        2, << P("Status", 1, 0, TEXT_REASON_STATUS_CODE, 0),
           P("LMP_Features", 8, 0, SEQ_HEX, 0) >>))
  @@ (\h0004 :> U("HCI_Read_Local_Extended_Features", \h1004,
        1, << P("Page_Number", 1, 0, INT_DEC, 0) >>,
        4, << P("Status", 1, 0, TEXT_REASON_STATUS_CODE, 0),
           P("Page_Number", 1, 0, INT_DEC, 0),
           P("Maximum_Page_Number", 1, 0, INT_DEC, 0),
           P("Extended_LMP_Features", 8, 0, SEQ_HEX, 0) >>))
  @@ (\h0005 :> U("HCI_Read_Buffer_Size", \h1005,
        0, <<>>,
        5, << P("Status", 1, 0, TEXT_REASON_STATUS_CODE, 0),
           P("HC_ACL_Data_Packet_Length", 2, 0, INT_DEC, 0),
           P("HC_Synchronous_Data_Length", 1, 0, INT_DEC, 0),
           P("HC_Total_Num_ACL_Data_Packets", 2, 0, INT_DEC, 0),
           P("HC_Total_Num_Synchronous_Data_Packets", 2, 0, INT_DEC, 0) >>))
  @@ (\h0009 :> U("HCI_Read_BD_ADDR", \h1009,
        0, <<>>,
        2, << P("Status", 1, 0, TEXT_REASON_STATUS_CODE, 0),
           P("BD_ADDR", 6, 0, TEXT_BD_ADDR, 0) >>))
  @@ (\h000A :> U("HCI_Read_Data_Block_Size", \h100A,
        0, <<>>,
        4, << P("Status", 1, 0, TEXT_REASON_STATUS_CODE, 0),
           P("Max_ACL_Data_Packet_Length", 2, 0, INT_DEC, 0),
           P("Data_Block_Length", 2, 0, INT_DEC, 0),
           P("Total_Num_Data_Blocks", 2, 0, INT_DEC, 0) >>))
  @@ (\h000B :> U("HCI_Read_Local_Supported_Codecs", \h100B,
        0, <<>>,
        5, << P("Status", 1, 0, TEXT_REASON_STATUS_CODE, 0),
           P("Number_of_Supported_Codecs", 1, 1, INT_DEC, 0),
           P("Supported_Codecs", 1, 0, INT_HEX, 0),
           P("Number_of_Supported_Vendor_Specific_Codecs", 1, 1, INT_DEC, 0),
           P("Vendor_Specific_Codecs", 4, 0, INT_HEX, 0) >>))

\* HCI_STATUS_PARAMETERS[], lines 4291-4675: the populated slots, index :> entry.
HCI_STATUS_PARAMETERS ==
     (\h0001 :> U("HCI_Read_Failed_Contact_Counter", \h1401,
        1, << P("Handle", 2, 0, INT_HEX, 0) >>,
        3, << P("Status", 1, 0, TEXT_REASON_STATUS_CODE, 0),
           P("Handle", 2, 0, INT_HEX, 0),
           P("Failed_Contact_Counter", 2, 0, INT_DEC, 0) >>))
  @@ (\h0002 :> U("HCI_Reset_Failed_Contact_Counter", \h1402,
        1, << P("Handle", 2, 0, INT_HEX, 0) >>,
        2, << P("Status", 1, 0, TEXT_REASON_STATUS_CODE, 0),
           P("Handle", 2, 0, INT_HEX, 0) >>))
  @@ (\h0003 :> U("HCI_Read_Link_Quality", \h1403,
        1, << P("Handle", 2, 0, INT_HEX, 0) >>,
        3, << P("Status", 1, 0, TEXT_REASON_STATUS_CODE, 0),
           P("Handle", 2, 0, INT_HEX, 0),
           P("Link_Quality", 1, 0, INT_HEX, 0) >>))
  @@ (\h0005 :> U("HCI_Read_RSSI", \h1405,
        1, << P("Handle", 2, 0, INT_HEX, 0) >>,
        3, << P("Status", 1, 0, TEXT_REASON_STATUS_CODE, 0),
           P("Handle", 2, 0, INT_HEX, 0),
           P("RSSI", 1, 0, TEXT_SPECIAL_DISPLAY_PARAM, RSSI) >>))
  @@ (\h0006 :> U("HCI_Read_AFH_Channel_Map", \h1406,
        1, << P("Connection_Handle", 2, 0, INT_HANDLE, 0) >>,
        4, << P("Status", 1, 0, TEXT_REASON_STATUS_CODE, 0),
           P("Connection_Handle", 2, 0, INT_HANDLE, 0),
           P("AFH_Mode", 1, 0, INT_HEX, 0),
           P("AFH_Channel_Map", 10, 0, SEQ_HEX, 0) >>))
  @@ (\h0007 :> U("HCI_Read_Clock", \h1407,
        2, << P("Connection_Handle", 2, 0, INT_HANDLE, 0),
           P("Which_Clock", 1, 0, INT_HEX, 0) >>,
        2, << P("Status", 1, 0, TEXT_REASON_STATUS_CODE, 0),
           P("Connection_Handle", 2, 0, INT_HANDLE, 0),
           P("Clock", 4, 0, INT_HEX, 0),
           P("Accuracy", 2, 0, INT_HEX, 0) >>))
  @@ (\h0008 :> U("HCI_Read_Encryption_Key_Size", \h1408,
        1, << P("Connection_Handle", 2, 0, INT_HANDLE, 0) >>,
        3, << P("Status", 1, 0, TEXT_REASON_STATUS_CODE, 0),
           P("Connection_Handle", 2, 0, INT_HANDLE, 0),
           P("Key_Size", 1, 0, INT_DEC, 0) >>))
  @@ (\h0009 :> U("HCI_Read_Local_AMP_Info", \h1409,
        0, <<>>,
        11, << P("Status", 1, 0, TEXT_REASON_STATUS_CODE, 0),
           P("AMP_Status", 1, 0, INT_HEX, 0),
           P("Total_Bandwidth", 4, 0, INT_HEX, 0),
           P("Max_Guaranteed_Bandwidth", 4, 0, INT_HEX, 0),
           P("Min_Latency", 4, 0, INT_HEX, 0),
           P("Max_PDU_Size", 2, 0, INT_DEC, 0),
           P("Controller_Type", 1, 0, INT_HEX, 0),
           P("PAL_Capablities", 2, 0, INT_HEX, 0),
           P("Max_AMP_ASSOC_Length", 2, 0, INT_DEC, 0),
           P("Max_Flush_Timeout", 4, 0, INT_HEX, 0),
           P("Best_Effort_Flush_Timeout", 4, 0, INT_HEX, 0) >>))
  @@ (\h000A :> U("HCI_Read_Local_AMP_ASSOC", \h140A,
        3, << P("Physical_Link_Handle", 1, 0, INT_HEX, 0),
           P("Length_So_Far", 2, 0, INT_HEX, 0),
           P("AMP_ASSOC_Length", 2, 0, INT_DEC, 0) >>,
        4, << P("Status", 1, 0, TEXT_REASON_STATUS_CODE, 0),
           P("Physical_Link_Handle", 1, 0, INT_HEX, 0),
           P("AMP_ASSOC_Remaining_Length", 2, 0, INT_DEC, 0),
           P("AMP_ASSOC_fragment", INT_MAX, 0, SEQ_HEX, 0) >>))
  @@ (\h000B :> U("HCI_Write_Remote_AMP_ASSOC", \h140B,
        4, << P("Physical_Link_Handle", 1, 0, INT_HEX, 0),
           P("Length_So_Far", 2, 0, INT_HEX, 0),
           P("AMP_ASSOC_Remaining_Length", 2, 0, INT_DEC, 0),
           P("AMP_ASSOC_fragment", -1, 0, INT_HEX, 0) >>,
        2, << P("Status", 1, 0, TEXT_REASON_STATUS_CODE, 0),
           P("Physical_Link_Handle", 1, 0, INT_HEX, 0) >>))
  @@ (\h000C :> U("HCI_Get_MWS_Transport_Layer_Configuration", \h140C,
        0, <<>>,
        6, << P("Status", 1, 0, TEXT_REASON_STATUS_CODE, 0),
           P("Num_Transports", 1, 2, INT_DEC, 0),
           P("Transport_Layer", 1, 0, INT_HEX, 0),
           P("Num_Baud_Rates", 1, 2, INT_DEC, 0),
           P("To_MWS_Baud_Rate", 1, 0, INT_HEX, 0),
           P("From_MWS_Baud_Rate", 1, 0, INT_HEX, 0) >>))
  @@ (\h000D :> U("HCI_Set_Triggered_Clock_Capture", \h140D,
        5, << P("Connection_Handle", 2, 0, INT_HANDLE, 0),
           P("Enable", 1, 0, INT_HEX, 0),
           P("Which_Clock", 1, 0, INT_HEX, 0),
           P("LPO_Allowed", 1, 0, INT_HEX, 0),
           P("Num_Clock_Captures_To_Filter", 1, 0, INT_DEC, 0) >>,
        1, << P("Status", 1, 0, TEXT_REASON_STATUS_CODE, 0) >>))

\* HCI_TESTING_COMMANDS[], lines 4678-4826: the populated slots, index :> entry.
HCI_TESTING_COMMANDS ==
     (\h0001 :> U("HCI_Read_Loopback_Mode", \h1801,
        0, <<>>,
        2, << P("Status", 1, 0, TEXT_REASON_STATUS_CODE, 0),
           P("Loopback_Mode", 1, 0, INT_HEX, 0) >>))
  @@ (\h0002 :> U("HCI_Write_Loopback_Mode", \h1802,
        1, << P("Loopback_Mode", 1, 0, INT_HEX, 0) >>,
        1, << P("Status", 1, 0, TEXT_REASON_STATUS_CODE, 0) >>))
  @@ (\h0003 :> U("HCI_Enable_Device_Under_Test_Mode", \h1803,
        0, <<>>,
        1, << P("Status", 1, 0, TEXT_REASON_STATUS_CODE, 0) >>))
  @@ (\h0004 :> U("HCI_Write_Simple_Pairing_Debug_Mode", \h1804,
        1, << P("Simple_Pairing_Debug_Mode", 1, 0, TEXT_SPECIAL_DISPLAY_PARAM, SIMPLE_PAIRING_DEBUG_MODE) >>,
        1, << P("Status", 1, 0, TEXT_REASON_STATUS_CODE, 0) >>))
  @@ (\h0007 :> U("HCI_Enable_AMP_Receiver_Reports", \h1807,
        2, << P("Enable", 1, 0, INT_HEX, 0),
           P("Interval", 1, 0, INT_HEX, 0) >>,
        1, << P("Status", 1, 0, TEXT_REASON_STATUS_CODE, 0) >>))
  @@ (\h0008 :> U("HCI_AMP_Test_End", \h1808,
        0, <<>>,
        1, << P("Status", 1, 0, TEXT_REASON_STATUS_CODE, 0) >>))
  @@ (\h0009 :> U("HCI_AMP_Test", \h1809,
        1, << P("Test_Parameters", 1, 0, INT_HEX, 0) >>,
        1, << P("Status", 1, 0, TEXT_REASON_STATUS_CODE, 0) >>))
  @@ (\h000A :> U("HCI_Write_Secure_Connections_Test_Mode", \h180A,
        3, << P("Connection_Handle", 2, 0, INT_HANDLE, 0),
           P("DM1_ACL-U_Mode", 1, 0, INT_HEX, 0),
           P("eSCO_Loopback_Mode", 1, 0, INT_HEX, 0) >>,
        2, << P("Status", 1, 0, TEXT_REASON_STATUS_CODE, 0),
           P("Connection_Handle", 2, 0, INT_HANDLE, 0) >>))

\* HCI_LE_CONTROLLER_COMMANDS[], lines 4829-5898: the populated slots, index :> entry.
HCI_LE_CONTROLLER_COMMANDS ==
     (\h0001 :> U("HCI_LE_Set_Event_Mask", \h2001,
        1, << P("LE_Event_Mask", 8, 0, SEQ_HEX, 0) >>,
        1, << P("Status", 1, 0, TEXT_REASON_STATUS_CODE, 0) >>))
  @@ (\h0002 :> U("HCI_LE_Read_Buffer_Size", \h2002,
        0, <<>>,
        3, << P("Status", 1, 0, TEXT_REASON_STATUS_CODE, 0),
           P("HC_LE_ACL_Data_Packet_Length", 2, 0, INT_DEC, 0),
           P("HC_Total_Num_LE_ACL_Data_Packets", 1, 0, INT_DEC, 0) >>))
  @@ (\h0003 :> U("HCI_LE_Read_Local_Supported_Features", \h2003,
        0, <<>>,
        2, << P("Status", 1, 0, TEXT_REASON_STATUS_CODE, 0),
           P("LE_Features", 8, 0, SEQ_HEX, 0) >>))
  @@ (\h0005 :> U("HCI_LE_Set_Random_Address", \h2005,
        1, << P("Random_Address", 6, 0, TEXT_BD_ADDR, 0) >>,
        1, << P("Status", 1, 0, TEXT_REASON_STATUS_CODE, 0) >>))
  @@ (\h0006 :> U("HCI_LE_Set_Advertising_Parameters", \h2006,
        8, << P("Advertising_Interval_Min", 2, 0, TIME_CLK1, 0),
           P("Advertising_Interval_Max", 2, 0, TIME_CLK1, 0),
           P("Advertising_Type", 1, 0, TEXT_SPECIAL_DISPLAY_PARAM, ADVERTISING_TYPE),
           P("Own_Address_Type", 1, 0, TEXT_SPECIAL_DISPLAY_PARAM, OWN_ADDRESS_TYPE),
           P("Peer_Address_Type", 1, 0, TEXT_SPECIAL_DISPLAY_PARAM, PEER_ADDRESS_TYPE),
           P("Peer_Address", 6, 0, SEQ_HEX, 0),
           P("Advertising_Channel_Map", 1, 0, INT_HEX, 0),
           P("Advertising_Filter_Policy", 1, 0, INT_HEX, 0) >>,
        1, << P("Status", 1, 0, TEXT_REASON_STATUS_CODE, 0) >>))
  @@ (\h0007 :> U("HCI_LE_Read_Advertising_Channel_Tx_Power", \h2007,
        0, <<>>,
        2, << P("Status", 1, 0, TEXT_REASON_STATUS_CODE, 0),
           P("Transmit_Power_Level", 1, 0, INT_HEX, 0) >>))
  @@ (\h0008 :> U("HCI_LE_Set_Advertising_Data", \h2008,
        2, << P("Advertising_Data_Length", 1, 0, INT_DEC, 0),
           P("Advertising_Data", 31, 0, SEQ_HEX, 0) >>,
        1, << P("Status", 1, 0, TEXT_REASON_STATUS_CODE, 0) >>))
  @@ (\h0009 :> U("HCI_LE_Set_Scan_Response_Data", \h2009,
        2, << P("Scan_Response_Data_Length", 1, 0, INT_DEC, 0),
           P("Scan_Response_Data", 31, 0, SEQ_HEX, 0) >>,
        1, << P("Status", 1, 0, TEXT_REASON_STATUS_CODE, 0) >>))
  @@ (\h000A :> U("HCI_LE_Set_Advertise_Enable", \h200A,
        1, << P("Advertising_Enable", 1, 0, TEXT_SPECIAL_DISPLAY_PARAM, ADVERTISING_ENABLE) >>,
        1, << P("Status", 1, 0, TEXT_REASON_STATUS_CODE, 0) >>))
  @@ (\h000B :> U("HCI_LE_Set_Scan_Parameters", \h200B,
        5, << P("LE_Scan_Type", 1, 0, TEXT_SPECIAL_DISPLAY_PARAM, LE_SCAN_TYPE),
           P("LE_Scan_Interval", 2, 0, TIME_CLK1, 0),
           P("LE_Scan_Window", 2, 0, TIME_CLK1, 0),
           P("Own_Address_Type", 1, 0, TEXT_SPECIAL_DISPLAY_PARAM, OWN_ADDRESS_TYPE),
           P("Scanning_Filter_Policy", 1, 0, INT_HEX, 0) >>,
        1, << P("Status", 1, 0, TEXT_REASON_STATUS_CODE, 0) >>))
  @@ (\h000C :> U("HCI_LE_Set_Scan_Enable", \h200C,
        2, << P("LE_Scan_Enable", 1, 0, TEXT_SPECIAL_DISPLAY_PARAM, LE_SCAN_ENABLE),
           P("Filter_Duplicates", 1, 0, TEXT_SPECIAL_DISPLAY_PARAM, FILTER_DUPLICATES) >>,
        1, << P("Status", 1, 0, TEXT_REASON_STATUS_CODE, 0) >>))
  @@ (\h000D :> U("HCI_LE_Create_Connection", \h200D,
        12, << P("LE_Scan_Interval", 2, 0, TIME_CLK1, 0),
           P("LE_Scan_Window", 2, 0, TIME_CLK1, 0),
           P("Initiator_Filter_Policy", 1, 0, INT_HEX, 0),
           P("Peer_Address_Type", 1, 0, TEXT_SPECIAL_DISPLAY_PARAM, PEER_ADDRESS_TYPE),
           P("Peer_address", 6, 0, TEXT_BD_ADDR, 0),
           P("Own_Address_Type", 1, 0, TEXT_SPECIAL_DISPLAY_PARAM, OWN_ADDRESS_TYPE),
           P("Conn_Interval_Min", 2, 0, TIME_CLK2, 0),
           P("Conn_Interval_Max", 2, 0, TIME_CLK2, 0),
           P("Conn_Latency", 2, 0, INT_HEX, 0),
           P("Supervision_Timeout", 2, 0, TIME_CLK5, 0),
           P("Minimum_CE_Length", 2, 0, TIME_CLK1, 0),
           P("Maximum_CE_Length", 2, 0, TIME_CLK1, 0) >>,
        0, <<>>))
  @@ (\h000E :> U("HCI_LE_Create_Connection_Cancel", \h200E,
        0, <<>>,
        1, << P("Status", 1, 0, TEXT_REASON_STATUS_CODE, 0) >>))
  @@ (\h000F :> U("HCI_LE_Read_White_List_Size", \h200F,
        0, <<>>,
        2, << P("Status", 1, 0, TEXT_REASON_STATUS_CODE, 0),
           P("White_List_Size", 1, 0, INT_DEC, 0) >>))
  @@ (\h0010 :> U("HCI_LE_Clear_White_List", \h2010,
        0, <<>>,
        1, << P("Status", 1, 0, TEXT_REASON_STATUS_CODE, 0) >>))
  @@ (\h0011 :> U("HCI_LE_Add_Device_To_White_List", \h2011,
        2, << P("Address_Type", 1, 0, TEXT_SPECIAL_DISPLAY_PARAM, ADDRESS_TYPE),
           P("Address", 6, 0, TEXT_BD_ADDR, 0) >>,
        1, << P("Status", 1, 0, TEXT_REASON_STATUS_CODE, 0) >>))
  @@ (\h0012 :> U("HCI_LE_Remove_Device_From_White_List", \h2012,
        2, << P("Address_Type", 1, 0, TEXT_SPECIAL_DISPLAY_PARAM, ADDRESS_TYPE),
           P("Address", 6, 0, TEXT_BD_ADDR, 0) >>,
        1, << P("Status", 1, 0, TEXT_REASON_STATUS_CODE, 0) >>))
  @@ (\h0013 :> U("HCI_LE_Connection_Update", \h2013,
        7, << P("Connection_Handle", 2, 0, INT_HANDLE, 0),
           P("Conn_Interval_Min", 2, 0, TIME_CLK2, 0),
           P("Conn_Interval_Max", 2, 0, TIME_CLK2, 0),
           P("Conn_Latency", 2, 0, INT_HEX, 0),
           P("Supervision_Timeout", 2, 0, TIME_CLK5, 0),
           P("Minimum_CE_Length", 2, 0, TIME_CLK1, 0),
           P("Maximum_CE_Length", 2, 0, TIME_CLK1, 0) >>,
        0, <<>>))
  @@ (\h0014 :> U("HCI_LE_Set_Host_Channel_Classification", \h2014,
        1, << P("Channel_Map", 5, 0, SEQ_HEX, 0) >>,
        1, << P("Status", 1, 0, TEXT_REASON_STATUS_CODE, 0) >>))
  @@ (\h0015 :> U("HCI_LE_Read_Channel_Map", \h2015,
        1, << P("Connection_Handle", 2, 0, INT_HANDLE, 0) >>,
        3, << P("Status", 1, 0, TEXT_REASON_STATUS_CODE, 0),
           P("Connection_Handle", 2, 0, INT_HANDLE, 0),
           P("Channel_Map", 5, 0, SEQ_HEX, 0) >>))
  @@ (\h0016 :> U("HCI_LE_Read_Remote_Used_Features", \h2016,
        1, << P("Connection_Handle", 2, 0, INT_HANDLE, 0) >>,
        0, <<>>))
  @@ (\h0017 :> U("HCI_LE_Encrypt", \h2017,
        2, << P("Key", 16, 0, TEXT_SPECIAL_DISPLAY_PARAM, SECURITY_KEY_TYPE),
           P("Plaintext_Data", 16, 0, TEXT_SPECIAL_DISPLAY_PARAM, SECURITY_KEY_TYPE) >>,
        2, << P("Status", 1, 0, TEXT_REASON_STATUS_CODE, 0),
           P("Encrypted_Data", 16, 0, SEQ_HEX, 0) >>))
  @@ (\h0018 :> U("HCI_LE_Rand", \h2018,
        0, <<>>,
        2, << P("Status", 1, 0, TEXT_REASON_STATUS_CODE, 0),
           P("Random_Number", 8, 0, SEQ_HEX, 0) >>))
  @@ (\h0019 :> U("HCI_LE_Start_Encryption", \h2019,
        4, << P("Connection_Handle", 2, 0, INT_HANDLE, 0),
           P("Random_Number", 8, 0, SEQ_HEX, 0),
           P("Encrypted_Diversifier", 2, 0, INT_HEX, 0),
           P("Long_Term_Key", 16, 0, TEXT_SPECIAL_DISPLAY_PARAM, SECURITY_KEY_TYPE) >>,
        0, <<>>))
  @@ (\h001A :> U("HCI_LE_Long_Term_Key_Request_Reply", \h201A,
        2, << P("Connection_Handle", 2, 0, INT_HANDLE, 0),
           P("Long_Term_Key", 16, 0, TEXT_SPECIAL_DISPLAY_PARAM, SECURITY_KEY_TYPE) >>,
        2, << P("Status", 1, 0, TEXT_REASON_STATUS_CODE, 0),
           P("Connection_Handle", 2, 0, INT_HANDLE, 0) >>))
  @@ (\h001B :> U("HCI_LE_Long_Term_Key_Request_Negative_Reply", \h201B,
        1, << P("Connection_Handle", 2, 0, INT_HANDLE, 0) >>,
        2, << P("Status", 1, 0, TEXT_REASON_STATUS_CODE, 0),
           P("Connection_Handle", 2, 0, INT_HANDLE, 0) >>))
  @@ (\h001C :> U("HCI_LE_Read_Supported_States", \h201C,
        0, <<>>,
        2, << P("Status", 1, 0, TEXT_REASON_STATUS_CODE, 0),
           P("LE_States", 8, 0, SEQ_HEX, 0) >>))
  @@ (\h001D :> U("HCI_LE_Receiver_Test", \h201D,
        1, << P("RX_Channel", 1, 0, INT_HEX, 0) >>,
        1, << P("Status", 1, 0, TEXT_REASON_STATUS_CODE, 0) >>))
  @@ (\h001E :> U("HCI_LE_Transmitter_Test", \h201E,
        3, << P("TX_Channel", 1, 0, INT_HEX, 0),
           P("Length_Of_Test_Data", 1, 0, INT_DEC, 0),
           P("Packet_Payload", 1, 0, INT_HEX, 0) >>,
        1, << P("Status", 1, 0, TEXT_REASON_STATUS_CODE, 0) >>))
  @@ (\h001F :> U("HCI_LE_Test_End", \h201F,
        0, <<>>,
        2, << P("Status", 1, 0, TEXT_REASON_STATUS_CODE, 0),
           P("Number_Of_Packets", 2, 0, INT_DEC, 0) >>))
  @@ (\h0020 :> U("LE_Remote_Connection_Parameter_Request_Reply", \h2020,
        7, << P("Connection_Handle", 2, 0, INT_HANDLE, 0),
           P("Interval_Min", 2, 0, TIME_CLK2, 0),
           P("Interval_Max", 2, 0, TIME_CLK2, 0),
           P("Latency", 2, 0, INT_HEX, 0),
           P("Timeout", 2, 0, TIME_CLK5, 0),
           P("Minimum_CE_Length", 2, 0, TIME_CLK1, 0),
           P("Maximum_CE_Length", 2, 0, TIME_CLK1, 0) >>,
        2, << P("Status", 1, 0, TEXT_REASON_STATUS_CODE, 0),
           P("Connection_Handle", 2, 0, INT_HANDLE, 0) >>))
  @@ (\h0021 :> U("LE_Remote_Connection_Parameter_Request_Negative_Reply", \h2021,
        2, << P("Connection_Handle", 2, 0, INT_HANDLE, 0),
           P("Reason", 1, 0, TEXT_REASON_STATUS_CODE, 0) >>,
        2, << P("Status", 1, 0, TEXT_REASON_STATUS_CODE, 0),
           P("Connection_Handle", 2, 0, INT_HANDLE, 0) >>))
  @@ (\h0022 :> U("HCI_LE_Set_Data_Length", \h2022,
        3, << P("Connection_Handle", 2, 0, INT_HANDLE, 0),
           P("TxOctets", 2, 0, INT_HEX, 0),
           P("TxTime", 2, 0, INT_HEX, 0) >>,
        2, << P("Status", 1, 0, TEXT_REASON_STATUS_CODE, 0),
           P("Connection_Handle", 2, 0, INT_HANDLE, 0) >>))
  @@ (\h0023 :> U("HCI_LE_Read_Suggested_Default_Data_Length", \h2023,
        0, <<>>,
        3, << P("Status", 1, 0, TEXT_REASON_STATUS_CODE, 0),
           P("SuggestedMaxTxOctets", 2, 0, INT_HEX, 0),
           P("SuggestedMaxTxTime", 2, 0, INT_HEX, 0) >>))
  @@ (\h0024 :> U("HCI_LE_Write_Suggested_Default_Data_Length", \h2024,
        2, << P("SuggestedMaxTxOctets", 2, 0, INT_HEX, 0),
           P("SuggestedMaxTxTime", 2, 0, INT_HEX, 0) >>,
        1, << P("Status", 1, 0, TEXT_REASON_STATUS_CODE, 0) >>))
  @@ (\h0025 :> U("HCI_LE_Read_Local_P-256_Public_Key", \h2025,
        0, <<>>,
        0, <<>>))
  @@ (\h0026 :> U("HCI_LE_Generate_DHKey", \h2026,
        1, << P("Remote_P-256_Public_Key", 64, 0, SEQ_HEX, 0) >>,
        0, <<>>))
  @@ (\h0027 :> U("HCI_LE_Add_Device_To_Resolving_List", \h2027,
        4, << P("Peer_Identity_Address_Type", 1, 0, TEXT_SPECIAL_DISPLAY_PARAM, PEER_IDENTITY_ADDRESS_TYPE),
           P("Peer_Identity_Address", 6, 0, TEXT_BD_ADDR, 0),
           P("Peer_IRK", 16, 0, SEQ_HEX, 0),
           P("Local_IRK", 16, 0, SEQ_HEX, 0) >>,
        1, << P("Status", 1, 0, TEXT_REASON_STATUS_CODE, 0) >>))
  @@ (\h0028 :> U("HCI_LE_Remove_Device_From_Resolving_List", \h2028,
        2, << P("Peer_Identity_Address_Type", 1, 0, TEXT_SPECIAL_DISPLAY_PARAM, PEER_IDENTITY_ADDRESS_TYPE),
           P("Peer_Identity_Address", 6, 0, TEXT_BD_ADDR, 0) >>,
        1, << P("Status", 1, 0, TEXT_REASON_STATUS_CODE, 0) >>))
  @@ (\h0029 :> U("HCI_LE_Clear_Resolving_List", \h2029,
        0, <<>>,
        1, << P("Status", 1, 0, TEXT_REASON_STATUS_CODE, 0) >>))
  @@ (\h002A :> U("HCI_LE_Read_Resolving_List_Size", \h202A,
        0, <<>>,
        2, << P("Status", 1, 0, TEXT_REASON_STATUS_CODE, 0),
           P("Resolving_List_Size", 1, 0, INT_DEC, 0) >>))
  @@ (\h002B :> U("HCI_LE_Read_Peer_Resolvable_Address", \h202B,
        2, << P("Peer_Identity_Address_Type", 1, 0, TEXT_SPECIAL_DISPLAY_PARAM, PEER_IDENTITY_ADDRESS_TYPE),
           P("Peer_Identity_Address", 6, 0, TEXT_BD_ADDR, 0) >>,
        2, << P("Status", 1, 0, TEXT_REASON_STATUS_CODE, 0),
           P("Peer_Resolvable_Address", 6, 0, TEXT_BD_ADDR, 0) >>))
  @@ (\h002C :> U("HCI_LE_Read_Local_Resolvable_Address", \h202C,
        2, << P("Peer_Identity_Address_Type", 1, 0, TEXT_SPECIAL_DISPLAY_PARAM, PEER_IDENTITY_ADDRESS_TYPE),
           P("Peer_Identity_Address", 6, 0, SEQ_HEX, 0) >>,
        2, << P("Status", 1, 0, TEXT_REASON_STATUS_CODE, 0),
           P("Local_Resolvable_Address", 6, 0, TEXT_BD_ADDR, 0) >>))
  @@ (\h002D :> U("HCI_LE_Set_Address_Resolution_Enable", \h202D,
        1, << P("Address_Resolution_Enable", 1, 0, INT_HEX, 0) >>,
        1, << P("Status", 1, 0, TEXT_REASON_STATUS_CODE, 0) >>))
  @@ (\h002E :> U("HCI_LE_Set_Resolvable_Private_Address_Timeout", \h202E,
        1, << P("RPA_Timeout", 2, 0, INT_HEX, 0) >>,
        1, << P("Status", 1, 0, TEXT_REASON_STATUS_CODE, 0) >>))
  @@ (\h002F :> U("HCI_LE_Read_Maximum_Data_Length", \h202F,
        0, <<>>,
        5, << P("Status", 1, 0, TEXT_REASON_STATUS_CODE, 0),
           P("supportedMaxTxOctets", 2, 0, INT_HEX, 0),
           P("supportedMaxTxTime", 2, 0, INT_HEX, 0),
           P("supportedMaxRxOctets", 2, 0, INT_HEX, 0),
           P("supportedMaxRxTime", 2, 0, INT_HEX, 0) >>))

\* VENDOR_SPECIFIC_COMMAND[], lines 5901-5910: the populated slots, index :> entry.
VENDOR_SPECIFIC_COMMAND ==
     (\h0000 :> U("Vendor Specific Command", \hFC00,
        0, <<>>,
        0, <<>>))

\* HCI_EVENTS[], lines 5913-7349: the populated slots, index :> entry.
HCI_EVENTS ==
     (\h0001 :> U("Inquiry Complete", \h01,
        1, << P("status", 1, 0, INT_HEX, 0) >>,
        0, <<>>))
  @@ (\h0002 :> U("Inquiry Result", \h02,
        7, << P("Num_Responses", 1, 6, INT_DEC, 0),
           P("BD_ADDR", 6, 0, TEXT_BD_ADDR, 0),
           P("Page_Scan_Repetition_Mode", 1, 0, TEXT_SPECIAL_DISPLAY_PARAM, PAGE_SCAN_REPETITION_MODE),
           P("Reserved1", 1, 0, INT_HEX, 0),
           P("Reserved2", 1, 0, INT_HEX, 0),
           P("Class_of_Device", 3, 0, INT_HEX, 0),
           P("Clock_Offset", 2, 0, INT_HEX, 0) >>,
        0, <<>>))
  @@ (\h0003 :> U("Connection Complete", \h03,
        5, << P("Status", 1, 0, TEXT_REASON_STATUS_CODE, 0),
           P("Connection_Handle", 2, 0, INT_HANDLE, 0),
           P("BD_ADDR", 6, 0, TEXT_BD_ADDR, 0),
           P("Link_Type", 1, 0, INT_HEX, 0),
           P("Encryption_Enabled", 1, 0, INT_HEX, 0) >>,
        0, <<>>))
  @@ (\h0004 :> U("Connection Request", \h04,
        3, << P("BD_ADDR", 6, 0, TEXT_BD_ADDR, 0),
           P("Class_of_Device", 3, 0, INT_HEX, 0),
           P("Link_Type", 1, 0, INT_HEX, 0) >>,
        0, <<>>))
  @@ (\h0005 :> U("Disconnection Complete", \h05,
        3, << P("Status", 1, 0, TEXT_REASON_STATUS_CODE, 0),
           P("Connection_Handle", 2, 0, INT_HANDLE, 0),
           P("Reason", 1, 0, TEXT_REASON_STATUS_CODE, 0) >>,
        0, <<>>))
  @@ (\h0006 :> U("Authentication Complete", \h06,
        2, << P("Status", 1, 0, TEXT_REASON_STATUS_CODE, 0),
           P("Connection_Handle", 2, 0, INT_HANDLE, 0) >>,
        0, <<>>))
  @@ (\h0007 :> U("Remote Name Request Complete", \h07,
        3, << P("Status", 1, 0, TEXT_REASON_STATUS_CODE, 0),
           P("BD_ADDR", 6, 0, TEXT_BD_ADDR, 0),
           P("Remote_Name", 248, 0, SEQ_CHAR, 0) >>,
        0, <<>>))
  @@ (\h0008 :> U("Encryption Change", \h08,
        3, << P("Status", 1, 0, TEXT_REASON_STATUS_CODE, 0),
           P("Connection_Handle", 2, 0, INT_HANDLE, 0),
           P("Encryption_Enabled", 1, 0, INT_HEX, 0) >>,
        0, <<>>))
  @@ (\h0009 :> U("Change Connection Link Key Complete", \h09,
        2, << P("Status", 1, 0, TEXT_REASON_STATUS_CODE, 0),
           P("Connection_Handle", 2, 0, INT_HANDLE, 0) >>,
        0, <<>>))
  @@ (\h000A :> U("Master Link Key Complete", \h0A,
        3, << P("Status", 1, 0, TEXT_REASON_STATUS_CODE, 0),
           P("Connection_Handle", 2, 0, INT_HANDLE, 0),
           P("Key_Flag", 1, 0, INT_HEX, 0) >>,
        0, <<>>))
  @@ (\h000B :> U("Read Remote Supported Features Complete", \h0B,
        3, << P("Status", 1, 0, TEXT_REASON_STATUS_CODE, 0),
           P("Connection_Handle", 2, 0, INT_HANDLE, 0),
           P("Key_Flag", 8, 0, SEQ_HEX, 0) >>,
        0, <<>>))
  @@ (\h000C :> U("Read Remote Version Information Complete", \h0C,
        5, << P("Status", 1, 0, TEXT_REASON_STATUS_CODE, 0),
           P("Connection_Handle", 2, 0, INT_HANDLE, 0),
           P("Version", 1, 0, INT_HEX, 0),
           P("Manufacturer_Name", 2, 0, INT_HEX, 0),
           P("Subversion", 2, 0, INT_HEX, 0) >>,
        0, <<>>))
  @@ (\h000D :> U("QoS Setup Complete", \h0D,
        8, << P("Status", 1, 0, TEXT_REASON_STATUS_CODE, 0),
           P("Connection_Handle", 2, 0, INT_HANDLE, 0),
           P("Flags", 1, 0, INT_HEX, 0),
           P("Service_Type", 1, 0, INT_HEX, 0),
           P("Token_Rate", 4, 0, INT_HEX, 0),
           P("Peak_Bandwidth", 4, 0, INT_HEX, 0),
           P("Latency", 4, 0, INT_HEX, 0),
           P("Delay_Variation", 4, 0, INT_HEX, 0) >>,
        0, <<>>))
  @@ (\h000E :> U("Command Complete", \h0E,
        2, << P("Num_HCI_Command_Packets", 1, 0, INT_DEC, 0),
           P("Command_Opcode", 2, 0, INT_HEX, 0) >>,
        0, <<>>))
  @@ (\h000F :> U("Command Status", \h0F,
        3, << P("Status", 1, 0, TEXT_REASON_STATUS_CODE, 0),
           P("Num_HCI_Command_Packets", 1, 0, INT_DEC, 0),
           P("Command_Opcode", 2, 0, INT_HEX, 0) >>,
        0, <<>>))
  @@ (\h0010 :> U("Hardware Error", \h10,
        1, << P("Hardware_Code", 1, 0, INT_HEX, 0) >>,
        0, <<>>))
  @@ (\h0011 :> U("Flush Occurred", \h11,
        1, << P("Handle", 2, 0, INT_HEX, 0) >>,
        0, <<>>))
  @@ (\h0012 :> U("Role Change", \h12,
        3, << P("Status", 1, 0, TEXT_REASON_STATUS_CODE, 0),
           P("BD_ADDR", 6, 0, TEXT_BD_ADDR, 0),
           P("New_Role", 1, 0, INT_HEX, 0) >>,
        0, <<>>))
  @@ (\h0013 :> U("Number Of Completed Packets", \h13,
        3, << P("Number_of_Handles", 1, 2, INT_DEC, 0),
           P("Connection_Handle", 2, 0, INT_HANDLE, 0),
           P("HC_Num_Of_Completed_Packet", 2, 0, INT_DEC, 0) >>,
        0, <<>>))
  @@ (\h0014 :> U("Mode Change", \h14,
        4, << P("Status", 1, 0, TEXT_REASON_STATUS_CODE, 0),
           P("Connection_Handle", 2, 0, INT_HANDLE, 0),
           P("Current_Mode", 1, 0, INT_HEX, 0),
           P("Interval", 2, 0, TIME_CLK1, 0) >>,
        0, <<>>))
  @@ (\h0015 :> U("Return Link Keys", \h15,
        3, << P("Num_Keys", 1, 2, INT_DEC, 0),
           P("BD_ADDR", 6, 0, TEXT_BD_ADDR, 0),
           P("Link_Key", 16, 0, TEXT_SPECIAL_DISPLAY_PARAM, SECURITY_KEY_TYPE) >>,
        0, <<>>))
  @@ (\h0016 :> U("PIN Code Request", \h16,
        1, << P("BD_ADDR", 6, 0, TEXT_BD_ADDR, 0) >>,
        0, <<>>))
  @@ (\h0017 :> U("Link Key Request", \h17,
        1, << P("BD_ADDR", 6, 0, TEXT_BD_ADDR, 0) >>,
        0, <<>>))
  @@ (\h0018 :> U("Link Key Notification", \h18,
        3, << P("BD_ADDR", 6, 0, TEXT_BD_ADDR, 0),
           P("Link_Key", 16, 0, TEXT_SPECIAL_DISPLAY_PARAM, SECURITY_KEY_TYPE),
           P("Key_Type", 1, 0, INT_HEX, 0) >>,
        0, <<>>))
  @@ (\h0019 :> U("Loopback Command", \h19,
        0, <<>>,
        0, <<>>))
  @@ (\h001A :> U("Data Buffer Overflow", \h1A,
        1, << P("Link_Type", 1, 0, INT_HEX, 0) >>,
        0, <<>>))
  @@ (\h001B :> U("Max Slots Change", \h1B,
        2, << P("Connection_Handle", 2, 0, INT_HANDLE, 0),
           P("LMP_Max_Slots", 1, 0, INT_DEC, 0) >>,
        0, <<>>))
  @@ (\h001C :> U("Read Clock Offset Complete", \h1C,
        3, << P("Status", 1, 0, TEXT_REASON_STATUS_CODE, 0),
           P("Connection_Handle", 2, 0, INT_HANDLE, 0),
           P("Clock_Offset", 2, 0, INT_HEX, 0) >>,
        0, <<>>))
  @@ (\h001D :> U("Connection Packet Type Changed", \h1D,
        3, << P("Status", 1, 0, TEXT_REASON_STATUS_CODE, 0),
           P("Connection_Handle", 2, 0, INT_HANDLE, 0),
           P("Packet_Type", 2, 0, TEXT_SPECIAL_DISPLAY_PARAM, PACKET_TYPE_ACL) >>,
        0, <<>>))
  @@ (\h001E :> U("QoS Violation", \h1E,
        1, << P("Handle", 2, 0, INT_HEX, 0) >>,
        0, <<>>))
  @@ (\h0020 :> U("Page Scan Repetition Mode Change", \h20,
        2, << P("BD_ADDR", 6, 0, TEXT_BD_ADDR, 0),
           P("Page_Scan_Repetition_Mode", 1, 0, TEXT_SPECIAL_DISPLAY_PARAM, PAGE_SCAN_REPETITION_MODE) >>,
        0, <<>>))
  @@ (\h0021 :> U("Flow Specification Complete", \h21,
        9, << P("Status", 1, 0, TEXT_REASON_STATUS_CODE, 0),
           P("Connection_Handle", 2, 0, INT_HANDLE, 0),
           P("Flags", 1, 0, INT_HEX, 0),
           P("Flow_direction", 1, 0, INT_HEX, 0),
           P("Service_Type", 1, 0, INT_HEX, 0),
           P("Token_Rate", 4, 0, INT_HEX, 0),
           P("Token_Bucket_Size", 4, 0, INT_DEC, 0),
           P("Peak_Bandwidth", 4, 0, INT_HEX, 0),
           P("Access_Lantency", 4, 0, INT_HEX, 0) >>,
        0, <<>>))
  @@ (\h0022 :> U("Inquiry Result with RSSI", \h22,
        7, << P("Num_responses", 1, 6, INT_DEC, 0),
           P("BD_ADDR", 6, 0, TEXT_BD_ADDR, 0),
           P("Page_Scan_Repetition_Mode", 1, 0, TEXT_SPECIAL_DISPLAY_PARAM, PAGE_SCAN_REPETITION_MODE),
           P("Reserved", 1, 0, INT_HEX, 0),
           P("Class_Of_Device", 3, 0, INT_HEX, 0),
           P("Clock_Offset", 2, 0, INT_HEX, 0),
           P("RSSI", 1, 0, TEXT_SPECIAL_DISPLAY_PARAM, RSSI) >>,
        0, <<>>))
  @@ (\h0023 :> U("Read Remote Extended Features Complete", \h23,
        5, << P("Status", 1, 0, TEXT_REASON_STATUS_CODE, 0),
           P("Connection_Handle", 2, 0, INT_HANDLE, 0),
           P("Page_Number", 1, 0, INT_DEC, 0),
           P("Maximum_Page_Number", 1, 0, INT_DEC, 0),
           P("Extended_LMP_Features", 8, 0, SEQ_HEX, 0) >>,
        0, <<>>))
  @@ (\h002C :> U("Synchronous Connection Complete", \h2C,
        9, << P("Status", 1, 0, TEXT_REASON_STATUS_CODE, 0),
           P("Connection_Handle", 2, 0, INT_HANDLE, 0),
           P("BD_ADDR", 6, 0, TEXT_BD_ADDR, 0),
           P("Link_Type", 1, 0, INT_HEX, 0),
           P("Transmission_Interval", 1, 0, INT_DEC, 0),
           P("Retransmission_Window", 1, 0, INT_DEC, 0),
           P("Rx_Packet_Length", 2, 0, INT_DEC, 0),
           P("Tx_Packet_Length", 2, 0, INT_DEC, 0),
           P("Air_Mode", 1, 0, INT_HEX, 0) >>,
        0, <<>>))
  @@ (\h002D :> U("Synchronous Connection Changed", \h2D,
        6, << P("Status", 1, 0, TEXT_REASON_STATUS_CODE, 0),
           P("Connection_Handle", 2, 0, INT_HANDLE, 0),
           P("Transmission_Interval", 1, 0, INT_DEC, 0),
           P("Retransmission_Window", 1, 0, INT_DEC, 0),
           P("Rx_Packet_Length", 2, 0, INT_DEC, 0),
           P("Tx_Packet_Length", 2, 0, INT_DEC, 0) >>,
        0, <<>>))
  @@ (\h002E :> U("Sniff Subrating", \h2E,
        6, << P("Status", 1, 0, TEXT_REASON_STATUS_CODE, 0),
           P("Connection_Handle", 2, 0, INT_HANDLE, 0),
           P("Maximum_Transmit_Latency", 2, 0, TIME_CLK1, 0),
           P("Maximum_Receive_Latency", 2, 0, TIME_CLK1, 0),
           P("Minimum_Remote_Timeout", 2, 0, TIME_CLK1, 0),
           P("Minimum_Local_Timeout", 2, 0, TIME_CLK1, 0) >>,
        0, <<>>))
  @@ (\h002F :> U("Extended Inquiry Result", \h2F,
        8, << P("Num_Responses", 1, 0, INT_DEC, 0),
           P("BD_ADDR", 6, 0, TEXT_BD_ADDR, 0),
           P("Page_Scan_Repetition_Mode", 1, 0, TEXT_SPECIAL_DISPLAY_PARAM, PAGE_SCAN_REPETITION_MODE),
           P("Reserved", 1, 0, INT_HEX, 0),
           P("Class_Of_Device", 3, 0, INT_HEX, 0),
           P("Clock_Offset", 2, 0, INT_HEX, 0),
           P("RSSI", 1, 0, TEXT_SPECIAL_DISPLAY_PARAM, RSSI),
           P("Extended_Inquiry_Response", 240, 0, SEQ_HEX, 0) >>,
        0, <<>>))
  @@ (\h0030 :> U("Encryption Key Refresh Complete", \h30,
        2, << P("Status", 1, 0, TEXT_REASON_STATUS_CODE, 0),
           P("Connection_Handle", 2, 0, INT_HANDLE, 0) >>,
        0, <<>>))
  @@ (\h0031 :> U("IO Capability Request", \h31,
        1, << P("BD_ADDR", 6, 0, TEXT_BD_ADDR, 0) >>,
        0, <<>>))
  @@ (\h0032 :> U("IO Capability Response", \h32,
        4, << P("BD_ADDR", 6, 0, TEXT_BD_ADDR, 0),
           P("IO_Capability", 1, 0, INT_HEX, 0),
           P("OOB_Data_Present", 1, 0, INT_HEX, 0),
           P("Authenticatioin_requirements", 1, 0, INT_HEX, 0) >>,
        0, <<>>))
  @@ (\h0033 :> U("User Confirmation Request", \h33,
        2, << P("BD_ADDR", 6, 0, TEXT_BD_ADDR, 0),
           P("Numeric_Value", 4, 0, INT_HEX, 0) >>,
        0, <<>>))
  @@ (\h0034 :> U("User Passkey Request", \h34,
        1, << P("BD_ADDR", 6, 0, TEXT_BD_ADDR, 0) >>,
        0, <<>>))
  @@ (\h0035 :> U("Remote OOB Data Request", \h35,
        1, << P("BD_ADDR", 6, 0, TEXT_BD_ADDR, 0) >>,
        0, <<>>))
  @@ (\h0036 :> U("Simple Pairing Complete", \h36,
        2, << P("Status", 1, 0, TEXT_REASON_STATUS_CODE, 0),
           P("BD_ADDR", 6, 0, TEXT_BD_ADDR, 0) >>,
        0, <<>>))
  @@ (\h0038 :> U("Link Supervision Timeout Changed", \h38,
        2, << P("Connection_Handle", 2, 0, INT_HANDLE, 0),
           P("Link_Supervision_Timeout", 2, 0, INT_HEX, 0) >>,
        0, <<>>))
  @@ (\h0039 :> U("Enhanced Flush Complete", \h39,
        1, << P("Handle", 2, 0, INT_HEX, 0) >>,
        0, <<>>))
  @@ (\h003B :> U("User Passkey Notification", \h3B,
        2, << P("BD_ADDR", 6, 0, TEXT_BD_ADDR, 0),
           P("Passkey", 4, 0, TEXT_SPECIAL_DISPLAY_PARAM, SECURITY_PASSKEY_TYPE) >>,
        0, <<>>))
  @@ (\h003C :> U("Keypress Notification", \h3C,
        2, << P("BD_ADDR", 6, 0, TEXT_BD_ADDR, 0),
           P("Notification_Type", 1, 0, INT_HEX, 0) >>,
        0, <<>>))
  @@ (\h003D :> U("Remote Host Supported Features Notification", \h3D,
        2, << P("BD_ADDR", 6, 0, TEXT_BD_ADDR, 0),
           P("Host_Supported_Features", 8, 0, SEQ_HEX, 0) >>,
        0, <<>>))
  @@ (\h003E :> U("LE Meta Event", \h3E,
        0, <<>>,
        0, <<>>))
  @@ (\h0040 :> U("Physical Link Complete", \h40,
        2, << P("Status", 1, 0, TEXT_REASON_STATUS_CODE, 0),
           P("Physical_Link_Handle", 1, 0, INT_HEX, 0) >>,
        0, <<>>))
  @@ (\h0041 :> U("Channel Selected", \h41,
        1, << P("Physical_Link_Handle", 1, 0, INT_HEX, 0) >>,
        0, <<>>))
  @@ (\h0042 :> U("Disconnection Physical Link Complete", \h42,
        3, << P("Status", 1, 0, TEXT_REASON_STATUS_CODE, 0),
           P("Physical_Link_Handle", 1, 0, INT_HEX, 0),
           P("Reason", 1, 0, TEXT_REASON_STATUS_CODE, 0) >>,
        0, <<>>))
  @@ (\h0043 :> U("Physical Link Loss Early Warning", \h43,
        2, << P("Physical_Link_Handle", 1, 0, INT_HEX, 0),
           P("Link_Loss_Reason", 1, 0, INT_HEX, 0) >>,
        0, <<>>))
  @@ (\h0044 :> U("Physical Link Recovery", \h44,
        1, << P("Physical_Link_Handle", 1, 0, INT_HEX, 0) >>,
        0, <<>>))
  @@ (\h0045 :> U("Logical Link Complete", \h45,
        4, << P("Status", 1, 0, TEXT_REASON_STATUS_CODE, 0),
           P("Logical_Link_Handle", 2, 0, INT_HEX, 0),
           P("Physical_Link_Handle", 1, 0, INT_HEX, 0),
           P("Tx_Flow_Spec_ID", 1, 0, INT_HEX, 0) >>,
        0, <<>>))
  @@ (\h0046 :> U("Disconnection Logical Link Complete", \h46,
        3, << P("Status", 1, 0, TEXT_REASON_STATUS_CODE, 0),
           P("Logical_Link_Handle", 2, 0, INT_HEX, 0),
           P("Reason", 1, 0, TEXT_REASON_STATUS_CODE, 0) >>,
        0, <<>>))
  @@ (\h0047 :> U("Flow Spec Modify Complete", \h47,
        2, << P("Status", 1, 0, TEXT_REASON_STATUS_CODE, 0),
           P("Handle", 2, 0, INT_HEX, 0) >>,
        0, <<>>))
  @@ (\h0048 :> U("Number Of Completed Data Blocks", \h48,
        5, << P("Total_Num_Data_Blocks", 2, 0, INT_DEC, 0),
           P("Number_Of_Handles", 1, 3, INT_DEC, 0),
           P("Handle", 2, 0, INT_HEX, 0),
           P("Num_Of_Completed_Pakcets", 2, 0, INT_DEC, 0),
           P("Num_Of_Completed_Blocks", 2, 0, INT_DEC, 0) >>,
        0, <<>>))
  @@ (\h0049 :> U("AMP Start Test", \h49,
        2, << P("Status", 1, 0, TEXT_REASON_STATUS_CODE, 0),
           P("Test Scenario", 1, 0, INT_HEX, 0) >>,
        0, <<>>))
  @@ (\h004A :> U("AMP Test End", \h4A,
        2, << P("Status", 1, 0, TEXT_REASON_STATUS_CODE, 0),
           P("Test Scenario", 1, 0, INT_HEX, 0) >>,
        0, <<>>))
  @@ (\h004B :> U("AMP Receiver Report", \h4B,
        7, << P("Controller_Type", 1, 0, INT_HEX, 0),
           P("Reason", 1, 0, INT_HEX, 0),
           P("Event_type", 4, 0, INT_HEX, 0),
           P("Number_Of_Frames", 2, 0, INT_DEC, 0),
           P("Number_Of_Error_Frames", 2, 0, INT_DEC, 0),
           P("Number_Of_Bits", 4, 0, INT_DEC, 0),
           P("Number_Of_Error_Bits", 4, 0, INT_DEC, 0) >>,
        0, <<>>))
  @@ (\h004C :> U("Short_Range_Mode_Change_Complete", \h4C,
        3, << P("Status", 1, 0, TEXT_REASON_STATUS_CODE, 0),
           P("Physical_Link_Handle", 1, 0, INT_HEX, 0),
           P("Short_Range_Mode_State", 1, 0, INT_HEX, 0) >>,
        0, <<>>))
  @@ (\h004D :> U("AMP_Status_Change", \h4D,
        2, << P("Status", 1, 0, TEXT_REASON_STATUS_CODE, 0),
           P("AMP_Status", 1, 0, INT_HEX, 0) >>,
        0, <<>>))
  @@ (\h004E :> U("Triggered Clock Capture", \h4E,
        4, << P("Connection_Handle", 2, 0, INT_HANDLE, 0),
           P("Which_Clock", 1, 0, INT_HEX, 0),
           P("Clock", 4, 0, INT_HEX, 0),
           P("Slot_Offset", 2, 0, INT_HEX, 0) >>,
        0, <<>>))
  @@ (\h004F :> U("Synchronization Train Complete", \h4F,
        1, << P("Status", 1, 0, TEXT_REASON_STATUS_CODE, 0) >>,
        0, <<>>))
  @@ (\h0050 :> U("Synchronization Train Received", \h50,
        8, << P("Status", 1, 0, TEXT_REASON_STATUS_CODE, 0),
           P("BD_ADDR", 6, 0, TEXT_BD_ADDR, 0),
           P("Clock_Offset", 4, 0, INT_HEX, 0),
           P("AFH_Channel_Map", 10, 0, SEQ_HEX, 0),
           P("LT_ADDR", 1, 0, INT_HEX, 0),
           P("Next_Broadcast_Instant", 4, 0, INT_HEX, 0),
           P("Connectionless_Slave_Broadcast_Interval", 2, 0, INT_HEX, 0),
           P("Service_Data", 1, 0, INT_HEX, 0) >>,
        0, <<>>))
  @@ (\h0051 :> U("Connectionless Slave Broadcast Receive", \h51,
        8, << P("BD_ADDR", 6, 0, TEXT_BD_ADDR, 0),
           P("LT_ADDR", 1, 0, INT_HEX, 0),
           P("CLK", 4, 0, INT_HEX, 0),
           P("Offset", 4, 0, INT_HEX, 0),
           P("Receive_Status", 1, 0, INT_HEX, 0),
           P("Fragment", 1, 0, INT_HEX, 0),
           P("Data_Length", 1, 0, INT_DEC, 0),
           P("Data", -1, 0, SEQ_HEX, 0) >>,
        0, <<>>))
  @@ (\h0052 :> U("Connectionless Slave Broadcast Timeout", \h52,
        2, << P("BD_ADDR", 6, 0, TEXT_BD_ADDR, 0),
           P("LT_ADDR", 1, 0, INT_HEX, 0) >>,
        0, <<>>))
  @@ (\h0053 :> U("Truncated Page Complete", \h53,
        2, << P("Status", 1, 0, TEXT_REASON_STATUS_CODE, 0),
           P("BD_ADDR", 6, 0, TEXT_BD_ADDR, 0) >>,
        0, <<>>))
  @@ (\h0054 :> U("Slave Page Response Timeout", \h54,
        0, <<>>,
        0, <<>>))
  @@ (\h0055 :> U("Connectionless Slave Broadcast Channel Map Change", \h55,
        1, << P("Channel_Map", 10, 0, SEQ_HEX, 0) >>,
        0, <<>>))
  @@ (\h0056 :> U("Inquiry Response Notification", \h56,
        2, << P("LAP", 3, 0, TEXT_SPECIAL_DISPLAY_PARAM, LAP_IAC),
           P("RSSI", 1, 0, TEXT_SPECIAL_DISPLAY_PARAM, RSSI) >>,
        0, <<>>))
  @@ (\h0057 :> U("Authenticated Payload Timeout Expired", \h57,
        1, << P("Connection_Handle", 2, 0, INT_HANDLE, 0) >>,
        0, <<>>))

\* LE_META_EVENTS[], lines 7352-7676: the populated slots, index :> entry.
LE_META_EVENTS ==
     (\h0001 :> U("LE Connection Complete", \h01,
        9, << P("Status", 1, 0, TEXT_REASON_STATUS_CODE, 0),
           P("Connection_Handle", 2, 0, INT_HANDLE, 0),
           P("Role", 1, 0, INT_HEX, 0),
           P("Peer_Address_Type", 1, 0, TEXT_SPECIAL_DISPLAY_PARAM, PEER_ADDRESS_TYPE),
           P("Peer_Address", 6, 0, TEXT_BD_ADDR, 0),
           P("Conn_Interval", 2, 0, TIME_CLK2, 0),
           P("Conn_Latency", 2, 0, INT_HEX, 0),
           P("Supervision_Timeout", 2, 0, TIME_CLK5, 0),
           P("Master_Clock_Accuracy", 1, 0, INT_HEX, 0) >>,
        0, <<>>))
  @@ (\h0002 :> U("LE Advertising Report", \h02,
        7, << P("Num_Reports", 1, 6, INT_DEC, 0),
           P("Event_Type", 1, 0, TEXT_SPECIAL_DISPLAY_PARAM, LE_META_EVENT_ADVERTISING_REPORT_EVENT_TYPE),
           P("Address_Type", 1, 0, TEXT_SPECIAL_DISPLAY_PARAM, LE_META_EVENT_ADVERTISING_REPORT_ADDRESS_TYPE),
           P("Address", 6, 0, TEXT_BD_ADDR, 0),
           P("Length_Data", 1, 0, INT_DEC, 0),
           P("Data", -1, 0, SEQ_HEX, 0),
           P("RSSI", 1, 0, TEXT_SPECIAL_DISPLAY_PARAM, RSSI) >>,
        0, <<>>))
  @@ (\h0003 :> U("LE Connection Update Complete", \h03,
        5, << P("Status", 1, 0, TEXT_REASON_STATUS_CODE, 0),
           P("Connection_Handle", 2, 0, INT_HANDLE, 0),
           P("Conn_Interval", 2, 0, TIME_CLK2, 0),
           P("Conn_Latency", 2, 0, INT_HEX, 0),
           P("Supervision_Timeout", 2, 0, TIME_CLK5, 0) >>,
        0, <<>>))
  @@ (\h0004 :> U("LE Read Remote Used Features Complete", \h04,
        3, << P("Status", 1, 0, TEXT_REASON_STATUS_CODE, 0),
           P("Connection_Handle", 2, 0, INT_HANDLE, 0),
           P("LE_Features", 8, 0, SEQ_HEX, 0) >>,
        0, <<>>))
  @@ (\h0005 :> U("LE Long Term Key Request", \h05,
        3, << P("Connection_Handle", 2, 0, INT_HANDLE, 0),
           P("Random_Number", 8, 0, SEQ_HEX, 0),
           P("Encrypted_Diversifier", 2, 0, INT_HEX, 0) >>,
        0, <<>>))
  @@ (\h0006 :> U("LE Remote Connection Parameter Request", \h06,
        5, << P("Connection_Handle", 2, 0, INT_HANDLE, 0),
           P("Interval_Min", 2, 0, TIME_CLK2, 0),
           P("Interval_Max", 2, 0, TIME_CLK2, 0),
           P("Latency", 2, 0, INT_HEX, 0),
           P("Timeout", 2, 0, TIME_CLK5, 0) >>,
        0, <<>>))
  @@ (\h0007 :> U("LE Data Length Changes", \h07,
        5, << P("Connection_Handle", 2, 0, INT_HANDLE, 0),
           P("MaxTxOctets", 2, 0, INT_HEX, 0),
           P("MaxTxTime", 2, 0, INT_HEX, 0),
           P("MaxRxOctets", 2, 0, INT_HEX, 0),
           P("MaxRxTime", 2, 0, INT_HEX, 0) >>,
        0, <<>>))
  @@ (\h0008 :> U("LE Read Local P-256 Public Key Complete", \h08,
        2, << P("Status", 1, 0, TEXT_REASON_STATUS_CODE, 0),
           P("Local_P-256_Public_Key", 64, 0, SEQ_HEX, 0) >>,
        0, <<>>))
  @@ (\h0009 :> U("LE Generate DHKey Complete", \h09,
        2, << P("Status", 1, 0, TEXT_REASON_STATUS_CODE, 0),
           P("DHKey", 32, 0, SEQ_HEX, 0) >>,
        0, <<>>))
  @@ (\h000A :> U("LE Enhanced Connection Complete", \h0A,
        11, << P("Status", 1, 0, TEXT_REASON_STATUS_CODE, 0),
           P("Connection_Handle", 2, 0, INT_HANDLE, 0),
           P("Role", 1, 0, INT_HEX, 0),
           P("Peer_Address_Type", 1, 0, TEXT_SPECIAL_DISPLAY_PARAM, PEER_ADDRESS_TYPE),
           P("Peer_Address", 6, 0, TEXT_BD_ADDR, 0),
           P("Local_Resolvable_Private_Address", 6, 0, TEXT_BD_ADDR, 0),
           P("Peer_Resolvable_Private_Address", 6, 0, TEXT_BD_ADDR, 0),
           P("Conn_Interval", 2, 0, TIME_CLK2, 0),
           P("Conn_Latency", 2, 0, INT_HEX, 0),
           P("Supervision_Timeout", 2, 0, TIME_CLK5, 0),
           P("Master_Clock_Accuracy", 1, 0, INT_HEX, 0) >>,
        0, <<>>))
  @@ (\h000B :> U("LE Direct Advertising Report", \h0B,
        7, << P("Num_Reports", 1, 6, INT_DEC, 0),
           P("Event_Type", 1, 0, TEXT_SPECIAL_DISPLAY_PARAM, LE_META_EVENT_ADVERTISING_REPORT_EVENT_TYPE),
           P("Address_Type", 1, 0, TEXT_SPECIAL_DISPLAY_PARAM, LE_META_EVENT_ADVERTISING_REPORT_ADDRESS_TYPE),
           P("Address", 6, 0, TEXT_BD_ADDR, 0),
           P("Direct_Address_Type", 1, 0, INT_HEX, 0),
           P("Direct_Address", 6, 0, TEXT_BD_ADDR, 0),
           P("RSSI", 1, 0, TEXT_SPECIAL_DISPLAY_PARAM, RSSI) >>,
        0, <<>>))

=============================================================================
