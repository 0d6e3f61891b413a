CONSTANTS
    CmdOpcodes <- FilterCmds
    EventCodes <- NoEvents
    PacketLengths <- FilterLengths
    SubeventCodes <- Bt5Subevents
    FilterConditions <- FilterConds
    FieldContents <- FilterContents
SPECIFICATION Spec
CHECK_DEADLOCK FALSE
INVARIANT NoReadPastPacket
