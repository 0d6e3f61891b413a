CONSTANTS
    CmdOpcodes <- AssocCmds
    EventCodes <- NoEvents
    PacketLengths <- AssocLengths
    SubeventCodes <- Bt5Subevents
    FilterConditions <- FilterConds
    FieldContents <- AssocContents
SPECIFICATION Spec
CHECK_DEADLOCK FALSE
INVARIANT NoAssertAbort
