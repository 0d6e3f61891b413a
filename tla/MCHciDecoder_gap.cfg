CONSTANTS
    CmdOpcodes <- NoCmds
    EventCodes <- GapEvents
    PacketLengths <- GapLengths
    SubeventCodes <- Bt5Subevents
    FilterConditions <- FilterConds
    FieldContents <- MCFieldContents
SPECIFICATION Spec
CHECK_DEADLOCK FALSE
INVARIANT UnknownEventsSilent
