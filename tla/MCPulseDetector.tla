--------------------------- MODULE MCPulseDetector ---------------------------
(* Constants for PulseDetector: AUDIO_FORMAT_DEFAULT (0) and a PCM format, *)
(* and channel counts 0, 1, 2 and one above MAX_CHANNEL.                   *)
EXTENDS PulseDetector

MCFormats == {0, 1}

MCChannelCounts == {0, 1, 2, 3}
=============================================================================
