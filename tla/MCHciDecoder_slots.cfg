CONSTANTS
    CmdOpcodes <- NoCmds
    EventCodes <- SlotsEvents
    PacketLengths <- SlotsLengths
    SubeventCodes <- SlotsSubevents
    FilterConditions <- FilterConds
    FieldContents <- SlotsContents
SPECIFICATION Spec
CHECK_DEADLOCK FALSE
INVARIANT ValueSlotsBound
