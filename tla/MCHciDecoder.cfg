CONSTANTS
    CmdOpcodes <- MCCmdOpcodes
    EventCodes <- MCEventCodes
    PacketLengths <- MCPacketLengths
    SubeventCodes <- MCSubeventCodes
    FilterConditions <- MCFilterConditions
    FieldContents <- MCFieldContents
SPECIFICATION Spec
\* abort() on a failed assert stops the process: a crashed state has no successor.
CHECK_DEADLOCK FALSE
INVARIANTS
    TypeOK
    RepeatTagsFollowCount
    ByteAccounting
