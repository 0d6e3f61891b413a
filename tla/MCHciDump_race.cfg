CONSTANTS
    p1 = p1
    p2 = p2
    Producers <- MCProducers
    MaxPackets <- MCMaxPackets
    MaxStarts <- MCMaxStarts
    ConfigEnabled <- MCConfigEnabled
SPECIFICATION Spec
\* The bounded model stops once its starts and packets are used up, and
\* after a producer has aborted the process.
CHECK_DEADLOCK FALSE
INVARIANT NoDeadQueueUse
