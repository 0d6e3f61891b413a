CONSTANTS
    CmdOpcodes <- NoCmds
    EventCodes <- SlotsEvents
    PacketLengths <- Bt5Lengths
    SubeventCodes <- Bt5Subevents
    FilterConditions <- FilterConds
    FieldContents <- MCFieldContents
SPECIFICATION Spec
CHECK_DEADLOCK FALSE
INVARIANT TableReadsInBounds
