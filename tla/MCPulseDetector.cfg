\* Duration (= MAX_FRAMECOUNT) scaled from 1024 to 4 frames: buffers of 0..4
\* frames with any pattern of high samples, over 5 calls.
CONSTANTS
    Duration = 4
    MaxCalls = 5
    Formats <- MCFormats
    ChannelCounts <- MCChannelCounts
SPECIFICATION Spec
\* The callers stop after MaxCalls buffers.
CHECK_DEADLOCK FALSE
INVARIANTS TypeOK KeepCountIsElapsed LateSkipsAtMostOne
PROPERTIES DetectionsSpaced
