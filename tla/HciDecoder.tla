----------------------------- MODULE HciDecoder -----------------------------
(***************************************************************************)
(* The Instance Walker and the command and event decoders of              *)
(* hci_data_dump.c (parse_hci_instance, parse_hci_command,                *)
(* parse_hci_event) as one state machine run by the dump thread, one      *)
(* packet at a time.  Every call of parse_parameter() is one step, so the *)
(* state between steps is the C state between two calls: the values      *)
(* decoded so far, left_len, and how far the data pointer has moved.      *)
(*                                                                         *)
(* The bytes of a field are chosen when the field is read, from           *)
(* FieldContents(descriptor, width).  Each byte of a packet is read once,  *)
(* so this is the same as choosing the packet first.                      *)
(***************************************************************************)
EXTENDS HciField, HciResolver

CONSTANTS
    CmdOpcodes,        \* opcodes of the command packets that arrive
    EventCodes,        \* event codes of the event packets that arrive
    PacketLengths,     \* values of the parameter length byte
    SubeventCodes,     \* first parameter byte of an LE Meta event
    FilterConditions,  \* condition type byte of Set_Event_Filter
    FieldContents(_, _) \* the byte sequences a field of a width may hold

VARIABLES
    phase,   \* where the dump thread is in decoding the current packet
    pkt,     \* header of the current (or last) packet
    name,    \* hci_command.name / hci_event.name
    walk,    \* loop state of the running parse_hci_instance()
    values,  \* hci_object->value[0 .. value_index-1]
    left,    \* left_len
    pos,     \* bytes the data pointer has moved past the parameter area
    ub       \* an array was indexed past its end while decoding this packet

vars == <<phase, pkt, name, walk, values, left, pos, ub>>

Phases == {"idle", "walk", "filter", "complete", "status", "lemeta", "emit", "crashed"}

\* Mutant of Slotted: repeat tags counted from 0 instead of 1.
SlottedZeroBased(d, seqNum, indent, v) ==
    [name |-> d.name, seq |-> seqNum - 1, indent |-> indent, v |-> v,
     secret |-> d.display_type = TEXT_SPECIAL_DISPLAY_PARAM /\ d.special \in SecurityIds]

\* A value slot; secret marks a field the schema asks to redact.
Slotted(d, seqNum, indent, v) ==
    [name |-> d.name, seq |-> seqNum, indent |-> indent, v |-> v,
     secret |-> d.display_type = TEXT_SPECIAL_DISPLAY_PARAM /\ d.special \in SecurityIds]

Extra(fname, indent, kind) ==
    [name |-> fname, seq |-> 0, indent |-> indent, v |-> Value(kind, 0, FALSE), secret |-> FALSE]

\* strtol(hci_object->value[j].value, NULL, 0), 0-based j; a slot never
\* written is all zero and reads as 0.
ValueNumAt(j) == IF j + 1 <= Len(values) THEN values[j + 1].v.num ELSE 0

\* A fresh call of parse_hci_instance() and what the caller does after it.
StartWalk(list, count, indent, after) ==
    [list |-> list, cnt |-> count, indent |-> indent, i |-> 0,
     rep |-> 0, k |-> 0, rpn |-> 0, reps |-> 0, next |-> after]

NoWalk == StartWalk(<<>>, 0, 0, "idle")

Init ==
    /\ phase = "idle"
    /\ pkt = [type |-> "none", code |-> 0, len |-> 0]
    /\ name = NULL
    /\ walk = NoWalk
    /\ values = <<>>
    /\ left = 0
    /\ pos = 0
    /\ ub = FALSE

-----------------------------------------------------------------------------
(* parse_hci_command() up to the walk: opcode, length, lookup.  An opcode *)
(* with no named entry is dropped without output.                         *)
ReceiveCommand ==
    /\ phase = "idle"
    /\ \E op \in CmdOpcodes, len \in PacketLengths :
         LET r == GetMatchedHciCmdRepr(op) IN
         /\ pkt' = [type |-> "cmd", code |-> op, len |-> len]
         /\ IF Named(r)
            THEN /\ phase' = "walk"
                 /\ name' = r.unit.name
                 /\ walk' = StartWalk(r.unit.parameter, r.unit.parameter_count, 1,
                                      IF r.unit.opcode = \h0C05 THEN "filter" ELSE "emit")
                 /\ left' = len
            ELSE UNCHANGED <<phase, name, walk, left>>
    /\ values' = <<>>
    /\ pos' = 0
    /\ ub' = FALSE

\* parse_hci_event() up to the walk.  Codes above HCI_EVENT_NUMBER are
\* dropped; every other code is decoded, named or not.
ReceiveEvent ==
    /\ phase = "idle"
    /\ \E code \in EventCodes, len \in PacketLengths :
         LET e == EventRepr(code) IN
         /\ pkt' = [type |-> "evt", code |-> code, len |-> len]
         /\ IF code <= HCI_EVENT_NUMBER
            THEN /\ phase' = "walk"
                 /\ name' = e.name
                 /\ walk' = StartWalk(e.parameter, e.parameter_count, 1,
                                      CASE code = \h0E -> "complete"
                                        [] code = \h0F -> "status"
                                        [] code = \h3E -> "lemeta"
                                        [] OTHER -> "emit")
                 /\ left' = len
            ELSE UNCHANGED <<phase, name, walk, left>>
    /\ values' = <<>>
    /\ pos' = 0
    /\ ub' = FALSE

-----------------------------------------------------------------------------
\* Loop of parse_hci_instance(), top level: descriptor i, then either the
\* next descriptor or, for a repeat count, its group repeated n times.
AfterTop(d, n) ==
    IF d.repeat_param_num > 0 /\ n > 0
    THEN [walk EXCEPT !.rep = 1, !.k = 1, !.rpn = d.repeat_param_num, !.reps = n]
    ELSE [walk EXCEPT !.i = walk.i + 1 + (IF d.repeat_param_num > 0
                                         THEN d.repeat_param_num ELSE 0)]

\* Inner loops: descriptor i + k of repetition rep; after the last one
\* the outer loop skips the group (i += repeat_param_num).
\* Mutant of AfterRep: the repeat loop runs once more (repeat <= count).
AfterRepExtra ==
    CASE walk.k < walk.rpn     -> [walk EXCEPT !.k = walk.k + 1]
      [] walk.rep <= walk.reps -> [walk EXCEPT !.rep = walk.rep + 1, !.k = 1]
      [] OTHER -> [walk EXCEPT !.i = walk.i + 1 + walk.rpn, !.rep = 0, !.k = 0]

AfterRep ==
    CASE walk.k < walk.rpn    -> [walk EXCEPT !.k = walk.k + 1]
      [] walk.rep < walk.reps -> [walk EXCEPT !.rep = walk.rep + 1, !.k = 1]
      [] OTHER -> [walk EXCEPT !.i = walk.i + 1 + walk.rpn, !.rep = 0, !.k = 0]

(* parse_parameter() for descriptor d with sequence tag seqNum, followed  *)
(* by the bookkeeping of the loop that called it (loop = "top" or "rep"),*)
(* which AfterTop reads n = strtol of the value for.  An assert() that     *)
(* fails aborts the process.                                               *)
ParseParameter(d, seqNum, loop) ==
    LET c == Clamp(d, values, left) IN
    \E bytes \in FieldContents(d, c.width) :
       LET r == Render(c.type, d.special, bytes, c.trunc) IN
       \/ /\ r.fail
          /\ phase' = "crashed"
          /\ UNCHANGED <<walk, values, left, pos, ub>>
       \/ /\ ~r.fail
          /\ values' = Append(values, Slotted(d, seqNum, walk.indent, r.v))
          /\ left' = left - c.width
          /\ pos' = pos + r.adv
          /\ ub' = (ub \/ StatusOutOfTable(c.type, bytes))
          /\ walk' = IF loop = "top" THEN AfterTop(d, r.v.num) ELSE AfterRep
          /\ UNCHANGED phase

ParseTop ==
    /\ phase = "walk"
    /\ walk.rep = 0
    /\ walk.i < walk.cnt /\ left >= 0
    /\ LET d == ParamAt(walk.list, walk.i + 1) IN
       ParseParameter(d, 0, "top")
    /\ UNCHANGED <<pkt, name>>

ParseRep ==
    /\ phase = "walk"
    /\ walk.rep > 0
    /\ left >= 0
    /\ ParseParameter(ParamAt(walk.list, walk.i + walk.k + 1), walk.rep, "rep")
    /\ UNCHANGED <<pkt, name>>

\* The loop condition fails: parse_hci_instance() returns to its caller.
EndWalk ==
    /\ phase = "walk"
    /\ \/ walk.rep = 0 /\ walk.i >= walk.cnt
       \/ left < 0
    /\ phase' = walk.next
    /\ walk' = NoWalk
    /\ UNCHANGED <<pkt, name, values, left, pos, ub>>

-----------------------------------------------------------------------------
(* The HCI_Set_Event_Filter branch of parse_hci_command().  The filter    *)
(* type is strtol of the last value; for types 1 and 2 a condition byte   *)
(* and the fields of that condition follow, read with no check of         *)
(* left_len.  Class of device values are not told apart (read as 0).      *)
ConditionTypeName(ft) ==
    IF ft = 1 THEN "Inquiry_Result_Filter_Condition_Type"
              ELSE "Connection_Setup_Filter_Condition_Type"

ClassOfDevice == << Extra("Class_of_Device", 1, "hex"), Extra("Class_of_Device_Mask", 1, "hex") >>
AutoAccept == << Extra("Auto_Accept_Flag", 1, "text") >>
\* After a BD_ADDR condition the flag's slot keeps its zeroed name and indent.
UnnamedAutoAccept == << Extra(NULL, 0, "text") >>
FilterAddr == << Extra("BD_ADDR", 1, "addr") >>

\* The values appended after the condition value, and the bytes they take.
ConditionFields(ft, c) ==
    CASE ft = 1 /\ c = 1 -> [f |-> ClassOfDevice, bytes |-> 6]
      [] ft = 1 /\ c = 2 -> [f |-> FilterAddr, bytes |-> 6]
      [] ft = 2 /\ c = 0 -> [f |-> AutoAccept, bytes |-> 1]
      [] ft = 2 /\ c = 1 -> [f |-> ClassOfDevice \o AutoAccept, bytes |-> 7]
      [] ft = 2 /\ c = 2 -> [f |-> FilterAddr \o UnnamedAutoAccept, bytes |-> 7]
      [] OTHER -> [f |-> <<>>, bytes |-> 0]

SetEventFilter ==
    /\ phase = "filter"
    /\ LET ft == ValueNumAt(Len(values) - 1) % 256
           \* the filter type is rewritten as "(0x%02x) ..." text
           typed == [values EXCEPT ![Len(values)].v = Value("text", 0, FALSE)]
       IN  \/ /\ ft \in {1, 2}
              /\ \E c \in FilterConditions :
                   LET more == ConditionFields(ft, c) IN
                   /\ values' = Append(typed, Extra(ConditionTypeName(ft), 1, "text")) \o more.f
                   /\ left' = left - 1 - more.bytes
                   /\ pos' = pos + 1 + more.bytes
           \/ /\ ft \notin {1, 2}
              /\ values' = typed
              /\ UNCHANGED <<left, pos>>
    /\ phase' = "emit"
    /\ UNCHANGED <<pkt, name, walk, ub>>

-----------------------------------------------------------------------------
(* The special cases of parse_hci_event().                                *)

\* Command Complete: value[1] is the opcode; a named command has it
\* rewritten as "name(0x....)" and its return parameters walked at
\* indent 2 under a "Return Parameter" header.
CommandComplete ==
    /\ phase = "complete"
    /\ LET r == GetMatchedHciCmdRepr(ValueNumAt(1) % 65536)
           named == [values EXCEPT ![2].v = Value("text", 0, FALSE)]
       IN  \/ /\ ~Named(r)
              /\ phase' = "emit"
              /\ UNCHANGED <<values, walk>>
           \/ /\ Named(r) /\ r.unit.return_parameter_count # 0
              /\ values' = Append(named, Extra("Return Parameter", 1, "text"))
              /\ walk' = StartWalk(r.unit.return_parameter,
                                   r.unit.return_parameter_count, 2, "emit")
              /\ phase' = "walk"
           \/ /\ Named(r) /\ r.unit.return_parameter_count = 0
              /\ values' = named
              /\ phase' = "emit"
              /\ UNCHANGED walk
    /\ UNCHANGED <<pkt, name, left, pos, ub>>

\* Command Status: value[2] is the opcode, rewritten when named.
CommandStatus ==
    /\ phase = "status"
    /\ LET r == GetMatchedHciCmdRepr(ValueNumAt(2) % 65536) IN
       values' = IF Named(r) THEN [values EXCEPT ![3].v = Value("text", 0, FALSE)]
                             ELSE values
    /\ phase' = "emit"
    /\ UNCHANGED <<pkt, name, walk, left, pos, ub>>

\* LE Meta: the sub-event byte is read whatever left_len is, the
\* sub-event table is indexed with it unchecked, and the sub-event's
\* parameters are walked.  An index past the table copies whatever
\* follows it: the copy may fault, or yield a descriptor list that is
\* not walked (the model takes no parameters for it).
\* Mutant of LEMeta: the sub-event byte is read without left_len--.
LEMetaNoDecrement ==
    /\ phase = "lemeta"
    /\ \E sub \in SubeventCodes :
         LET e == LeMetaRepr(sub)
             appended == /\ values' = Append(values, Extra("Subevent_Code", 1, "text"))
                         /\ left' = left
                         /\ pos' = pos + 1
                         /\ phase' = "walk"
         IN  \/ /\ LeMetaInTable(sub)
                /\ appended
                /\ walk' = StartWalk(e.parameter, e.parameter_count, 1, "emit")
                /\ UNCHANGED ub
             \/ /\ ~LeMetaInTable(sub)
                /\ ub' = TRUE
                /\ \/ /\ phase' = "crashed"
                      /\ UNCHANGED <<values, left, pos, walk>>
                   \/ /\ appended
                      /\ walk' = StartWalk(<<>>, 0, 1, "emit")
    /\ UNCHANGED <<pkt, name>>

LEMeta ==
    /\ phase = "lemeta"
    /\ \E sub \in SubeventCodes :
         LET e == LeMetaRepr(sub)
             appended == /\ values' = Append(values, Extra("Subevent_Code", 1, "text"))
                         /\ left' = left - 1
                         /\ pos' = pos + 1
                         /\ phase' = "walk"
         IN  \/ /\ LeMetaInTable(sub)
                /\ appended
                /\ walk' = StartWalk(e.parameter, e.parameter_count, 1, "emit")
                /\ UNCHANGED ub
             \/ /\ ~LeMetaInTable(sub)
                /\ ub' = TRUE
                /\ \/ /\ phase' = "crashed"
                      /\ UNCHANGED <<values, left, pos, walk>>
                   \/ /\ appended
                      /\ walk' = StartWalk(<<>>, 0, 1, "emit")
    /\ UNCHANGED <<pkt, name>>

-----------------------------------------------------------------------------
(* The print step shared by both decoders, then the thread returns to     *)
(* hci_raw_data_ready() for the next packet.                              *)

\* One line when nothing was decoded and nothing is left over.
OneLine == values = <<>> /\ left = 0
\* The bytes dumped as "Raw Data".
RawBytes == IF left > 0 THEN left ELSE 0

Emit ==
    /\ phase = "emit"
    /\ phase' = "idle"
    /\ UNCHANGED <<pkt, name, walk, values, left, pos, ub>>

Decode ==
    \/ ParseTop \/ ParseRep \/ EndWalk
    \/ SetEventFilter \/ CommandComplete \/ CommandStatus \/ LEMeta
    \/ Emit

Next == ReceiveCommand \/ ReceiveEvent \/ Decode

\* Only safety properties are checked over the decoder, so no fairness.
Spec == Init /\ [][Next]_vars

-----------------------------------------------------------------------------
(* Properties.                                                             *)

Kinds == {"hex", "dec", "seqhex", "chars", "addr", "hidden", "text"}

TypeOK ==
    /\ phase \in Phases
    /\ pkt.type \in {"none", "cmd", "evt"} /\ pkt.len \in Nat
    /\ walk.i \in Nat /\ walk.rep \in Nat /\ walk.k \in Nat /\ walk.cnt \in Nat
    /\ walk.next \in Phases
    /\ left \in Int /\ pos \in Nat /\ ub \in BOOLEAN
    /\ \A j \in 1..Len(values) :
         /\ values[j].seq \in Nat /\ values[j].indent \in 0..2
         /\ values[j].v.kind \in Kinds /\ values[j].v.trunc \in BOOLEAN
         /\ values[j].secret \in BOOLEAN

\* The slot of the count a tagged value belongs to: the last untagged one.
CountSlot(j) ==
    LET cs == {c \in 1..j - 1 : values[c].seq = 0}
    IN  IF cs = {} THEN 0 ELSE CHOOSE c \in cs : \A x \in cs : x <= c

\* parse_hci_instance() tags the members of a repeat group with 1, 2, ...
\* up to the repeat count it read back with strtol from the value that
\* precedes the group: a tag starts at 1 right after its count, never
\* falls, grows by at most one, and never exceeds the count.
RepeatTagsFollowCount ==
    \A j \in 1..Len(values) : values[j].seq > 0 =>
        LET c == CountSlot(j) IN
        /\ c > 0
        /\ values[j].seq <= values[c].v.num
        /\ values[j].seq - values[j - 1].seq \in (IF j - 1 = c THEN {1} ELSE {0, 1})

\* The data pointer and left_len are advanced separately by
\* parse_parameter(), the Set_Event_Filter branch and the LE Meta branch;
\* the bytes the pointer has passed and the bytes left_len still counts
\* always add up to the packet's parameter length, so "Raw Data" dumps
\* exactly the bytes no field consumed.
ByteAccounting == phase # "idle" => pos + left = pkt.len

\* value[] has MAX_HCI_PARAM_NUM slots: parse_parameter() writes
\* value[value_index] with no check, so the values of one packet must
\* never outnumber them.
ValueSlotsBound == Len(values) <= MAX_HCI_PARAM_NUM

\* No decoder reads a byte past the parameter length of its packet.
NoReadPastPacket == pos <= pkt.len

\* A Link_Key or passkey field (SECURITY_KEY_TYPE, SECURITY_PASSKEY_TYPE)
\* is never printed: its value is always the redaction text.
SecretsRedacted ==
    \A j \in 1..Len(values) : values[j].secret => values[j].v.kind = "hidden"

\* No assert() of parse_parameter() fails, so decoding never aborts.
NoAssertAbort == phase # "crashed"

\* EVENT_STATUS_TEXT and LE_META_EVENTS are only indexed inside their
\* bounds.
TableReadsInBounds == ~ub

\* Every field printed has a name.
PrintedFieldsNamed == phase = "emit" => \A j \in 1..Len(values) : values[j].name # NULL

\* An event code with no entry in HCI_EVENTS is skipped without output.
UnknownEventsSilent == phase = "emit" => name # NULL

=============================================================================
