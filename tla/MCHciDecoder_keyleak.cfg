CONSTANTS
    CmdOpcodes <- KeyCmds
    EventCodes <- NoEvents
    PacketLengths <- KeyLengths
    SubeventCodes <- Bt5Subevents
    FilterConditions <- FilterConds
    FieldContents <- MCFieldContents
SPECIFICATION Spec
CHECK_DEADLOCK FALSE
INVARIANT SecretsRedacted
