----------------------------- MODULE MCHciDump -----------------------------
EXTENDS HciDump

CONSTANTS p1, p2

\* The thread that sends commands and the thread that reads events.
MCProducers == {p1, p2}
\* One packet to decode in each of two sessions, and one spare.
MCMaxPackets == 3
\* A start, a stop and a restart.
MCMaxStarts == 2
MCConfigEnabled == {TRUE, FALSE}
=============================================================================
