------------------------------ MODULE HciField ------------------------------
(***************************************************************************)
(* The Field Interpreter of hci_data_dump.c: parse_parameter() and the    *)
(* special renderers of parse_special_displayed_parameters(), as pure      *)
(* operators.                                                              *)
(*                                                                         *)
(* A rendered value is abstracted to what the rest of the decoder can tell *)
(* apart: its kind (which printf format produced it), whether it carries   *)
(* "(truncated)", and num, the number strtol(value, NULL, 0) returns for   *)
(* it.  The decoder reads rendered values back through strtol for repeat   *)
(* counts, back-referenced lengths, the Set_Event_Filter type and the      *)
(* opcode of Command Complete/Status, so that conversion is modelled       *)
(* character by character for the formats whose text begins with digits. *)
(***************************************************************************)
EXTENDS HciSchema

\* The special renderers that always hide their input.
SecurityIds == {SECURITY_KEY_TYPE, SECURITY_PASSKEY_TYPE}

\* Cases of parse_special_displayed_parameters() that only break.
UnrenderedIds == {2, 3, 6, 7, 8, 9, 19, 20, 21, 23, 24, 26, 27, 28,
                  35, 36, 37, 38, 40, 41, 42}

\* Cases that render every value.
RenderedIds == {INQUIRY_SCAN_TYPE, INQUIRY_MODE, 10, PAGE_SCAN_TYPE,
                VOICE_SETTING, 14, 15, AUTHENTICATION_ENABLE,
                HOLD_MODE_ACTIVITY, LINK_POLICY_SETTING,
                SYNCHRONOUS_FLOW_CONTROL_ENABLE, ERRONEOUS_DATA_REPORTING,
                LOCATION_DOMAIN_AWARE, 30, LOCATION_DOMAIN_OPTIONS,
                LOCATION_OPTIONS, FLOW_CONTROL_MODE, LE_SUPPORTED_HOST,
                SECURE_CONNECTIONS_HOST_SUPPORT, PAGE_SCAN_REPETITION_MODE,
                LAP_IAC, PACKET_TYPE_ACL, PACKET_TYPE_SCO, SIMPLE_PAIRING_MODE,
                SIMPLE_PAIRING_DEBUG_MODE, FEC_REQUIRED, RSSI, DELETE_ALL_FLAG,
                LE_META_EVENT_ADVERTISING_REPORT_EVENT_TYPE,
                LE_META_EVENT_ADVERTISING_REPORT_ADDRESS_TYPE,
                ADVERTISING_TYPE, ADVERTISING_ENABLE, LE_SCAN_TYPE,
                LE_SCAN_ENABLE, FILTER_DUPLICATES, ADDRESS_TYPE,
                OWN_ADDRESS_TYPE, PEER_IDENTITY_ADDRESS_TYPE,
                PEER_ADDRESS_TYPE} \cup SecurityIds

\* parse_special_displayed_parameters() returns true.  Every renderer
\* reads the first byte of the value (the low byte of the little-endian
\* uint32 it was loaded into, or the first byte of a longer field).
Handled(id, firstByte) ==
    \/ id \in RenderedIds
    \/ id = SCAN_ENABLE /\ firstByte <= 3
    \/ id = PIN_TYPE /\ firstByte <= 1

-----------------------------------------------------------------------------
(* strtol(s, NULL, 0) over a string given as character codes.             *)

IsSpace(c) == c = 32 \/ c \in 9..13

DigitVal(c) ==
    CASE c \in 48..57  -> c - 48
      [] c \in 97..102 -> c - 87
      [] c \in 65..70  -> c - 55
      [] OTHER         -> 36

RECURSIVE Accumulate(_, _, _)
Accumulate(cs, base, acc) ==
    IF cs # <<>> /\ DigitVal(Head(cs)) < base
    THEN Accumulate(Tail(cs), base, acc * base + DigitVal(Head(cs)))
    ELSE acc

RECURSIVE SkipSpace(_)
SkipSpace(cs) == IF cs # <<>> /\ IsSpace(Head(cs)) THEN SkipSpace(Tail(cs)) ELSE cs

\* Base 0: "0x" selects hex, a leading "0" octal, anything else decimal.
UnsignedStrtol(s) ==
    IF Len(s) >= 3 /\ s[1] = 48 /\ s[2] \in {88, 120} /\ DigitVal(s[3]) < 16
    THEN Accumulate(SubSeq(s, 3, Len(s)), 16, 0)
    ELSE IF s # <<>> /\ s[1] = 48 THEN Accumulate(s, 8, 0)
    ELSE Accumulate(s, 10, 0)

Strtol(cs) ==
    LET s == SkipSpace(cs) IN
    IF s # <<>> /\ Head(s) = 45 THEN 0 - UnsignedStrtol(Tail(s))
    ELSE IF s # <<>> /\ Head(s) = 43 THEN UnsignedStrtol(Tail(s))
    ELSE UnsignedStrtol(s)

\* The characters sprintf("%02x ", b) writes.
HexChar(d) == IF d < 10 THEN 48 + d ELSE 87 + d
HexByteText(b) == << HexChar(b \div 16), HexChar(b % 16), 32 >>

\* STREAM_TO_UINT8/16/24/32: little-endian, as HCI is on the wire.
RECURSIVE LittleEndian(_)
LittleEndian(bytes) ==
    IF bytes = <<>> THEN 0 ELSE Head(bytes) + 256 * LittleEndian(Tail(bytes))

-----------------------------------------------------------------------------
(* A rendered value.  kind names the format:                              *)
(*   "hex" 0x%0Nx, "dec" %u, "seqhex" %02x per byte, "chars" %c per byte, *)
(*   "addr" 0x%02x-%02x-..., "hidden" the redaction text, "text" any     *)
(*   text that starts with "(0x" or a name (strtol reads nothing).        *)
Value(kind, num, trunc) == [kind |-> kind, num |-> num, trunc |-> trunc]

SeqHexValue(bytes, trunc) ==
    Value("seqhex", IF bytes = <<>> THEN 0 ELSE Strtol(HexByteText(bytes[1])), trunc)

\* The width of a descriptor: a negative length re-reads the value that
\* many slots back (instance->value[value_index + length]) with strtol.
ParamLength(d, vals) ==
    IF d.length < 0 THEN vals[Len(vals) + 1 + d.length].v.num ELSE d.length

\* The width actually consumed and the display type used: a field longer
\* than what is left is cut to the rest and shown as SEQ_HEX, marked
\* "(truncated)" unless its length is INT_MAX.
Clamp(d, vals, lft) ==
    LET len == ParamLength(d, vals) IN
    IF len > lft
    THEN [width |-> lft, type |-> SEQ_HEX, trunc |-> len # INT_MAX]
    ELSE [width |-> len, type |-> d.display_type, trunc |-> FALSE]

\* The switch of parse_parameter() over the display type, given the bytes
\* of the field (Len(bytes) = the clamped width).  fail is an assert()
\* that does not hold; adv is how far the data pointer moves.
Render(type, special, bytes, trunc) ==
    LET w == Len(bytes) IN
    CASE type \in {INT_HEX, INT_DEC} ->
            [v |-> Value(IF type = INT_HEX THEN "hex" ELSE "dec", LittleEndian(bytes), FALSE),
             fail |-> w \notin 1..4, adv |-> w]
      [] type = INT_HANDLE ->
            [v |-> Value("text", 0, FALSE), fail |-> w # 2, adv |-> w]
      [] type \in {TIME_CLK1, TIME_CLK2, TIME_CLK5, TIME_CLK12} ->
            [v |-> Value("text", 0, FALSE), fail |-> w \notin 1..2, adv |-> w]
      [] type = SEQ_CHAR ->
            [v |-> Value("chars", Strtol(bytes), trunc), fail |-> FALSE, adv |-> w]
      [] type = TEXT_REASON_STATUS_CODE ->
            [v |-> Value("text", 0, FALSE), fail |-> FALSE, adv |-> 1]
      [] type = TEXT_BD_ADDR ->
            [v |-> Value("addr", bytes[6], FALSE), fail |-> FALSE, adv |-> 6]
      [] type = TEXT_SPECIAL_DISPLAY_PARAM /\ Handled(special, bytes[1]) ->
            [v |-> Value(IF special \in SecurityIds THEN "hidden" ELSE "text", 0, FALSE),
             fail |-> FALSE, adv |-> w]
      [] OTHER ->
            [v |-> SeqHexValue(bytes, trunc), fail |-> FALSE, adv |-> w]

\* EVENT_STATUS_TEXT[param_value] is read past its end.
StatusOutOfTable(type, bytes) ==
    type = TEXT_REASON_STATUS_CODE /\ bytes # <<>> /\ bytes[1] >= EVENT_STATUS_TEXT_COUNT

=============================================================================
