--------------------------- MODULE PulseDetector ----------------------------
(***************************************************************************)
(* The latency pulse detector of audio_utils/pulse.c (built with           *)
(* MTK_LATENCY_DETECT_PULSE).  detectPulse() is called for every buffer a  *)
(* stage of the audio path handles; detectPulse_() scans channel 0 of the  *)
(* buffer for a sample at or above pulseLevel and logs it as a pulse,      *)
(* unless a pulse was logged less than `duration` frames ago.              *)
(*                                                                         *)
(* The per-tag statics keepCount[] and keepCountAll[] are the state.  Tags *)
(* index disjoint elements of the two arrays and never interact, so the    *)
(* model follows one tag.  A buffer is abstracted to its length and the    *)
(* set of frames whose channel-0 sample is at or above pulseLevel.         *)
(* `duration` and MAX_FRAMECOUNT are both 1024 in the code; the model      *)
(* scales both to the same constant Duration.                              *)
(*                                                                         *)
(* The ghost variables lastPulse, skippedLate and maxSkippedLate record,   *)
(* by the reference definition of a debounce, what the code is meant to    *)
(* compute: the frame of the last logged pulse and the high samples that   *)
(* came after the quiet window closed and still were not logged.          *)
(***************************************************************************)
EXTENDS Integers, FiniteSets

CONSTANTS
    Duration,       \* `duration` = MAX_FRAMECOUNT, scaled down
    Formats,        \* audio_format_t values passed in (0 = AUDIO_FORMAT_DEFAULT)
    ChannelCounts,  \* `channels` values passed in
    MaxCalls        \* bound on the number of detectPulse() calls

ASSUME Duration \in Nat \ {0} /\ MaxCalls \in Nat

MAX_CHANNEL == 2
MAX_FRAMECOUNT == Duration

NoPulse == -1

VARIABLES
    keepCount,       \* keepCount[TagNum]: frames since the last logged pulse, 0 = none yet
    keepCountAll,    \* keepCountAll[TagNum]: frames seen so far
    calls,           \* detectPulse() calls made (bounded by MaxCalls)
    lastPulse,       \* ghost: frame number of the last logged pulse
    skippedLate,     \* ghost: late high samples not logged since the last pulse
    maxSkippedLate   \* ghost: the largest skippedLate reached

vars == <<keepCount, keepCountAll, calls, lastPulse, skippedLate, maxSkippedLate>>

(* The guards of detectPulse().  `!format&AUDIO_FORMAT_PCM_16_BIT` parses  *)
(* as `(!format) & ...`; the three PCM formats all have bit 0 set, so the  *)
(* format test rejects only format 0.                                      *)
FormatRejected(format) == format = 0

Accepted(format, channels, desiredFrames) ==
    /\ ~FormatRejected(format)
    /\ channels <= MAX_CHANNEL
    /\ desiredFrames <= MAX_FRAMECOUNT

(* The frames whose sample ptr[i*channels] is read as high: with channels  *)
(* = 0 every frame reads ptr[0].                                           *)
ReadHigh(high, channels, n) ==
    IF channels = 0 THEN IF 0 \in high THEN 0..(n - 1) ELSE {} ELSE high

(* The first loop still holding off pulses: *pKeepCount nonzero and below *)
(* duration.                                                               *)
QuietShort(kc) == kc /= 0 /\ kc < Duration - 1
Quiet(kc) == kc /= 0 /\ kc < Duration

(* The value stored at a logged pulse: desiredFrames - i.                  *)
RearmSwapped(n, i) == i - n
Rearm(n, i) == n - i

(* The first loop of detectPulse_(): i, j, tempCount and *pKeepCount as it *)
(* leaves the loop, at i = n or at the break.                              *)
RECURSIVE ScanNoCount(_, _, _, _, _, _)
ScanNoCount(high, n, i, j, temp, kc) ==
    IF i >= n THEN [i |-> i, kc |-> kc, temp |-> temp]
    ELSE IF i \in high /\ Quiet(kc) THEN ScanNoCount(high, n, i + 1, i, temp, kc)
    ELSE IF i \in high THEN [i |-> i, kc |-> Rearm(n, i), temp |-> temp]
    ELSE ScanNoCount(high, n, i + 1, j, temp, kc)

RECURSIVE Scan(_, _, _, _, _, _)
Scan(high, n, i, j, temp, kc) ==
    IF i >= n THEN [i |-> i, kc |-> kc, temp |-> temp]
    ELSE IF i \in high /\ Quiet(kc)
         THEN Scan(high, n, i + 1, i, temp + i - j, kc + i - j)
    ELSE IF i \in high THEN [i |-> i, kc |-> Rearm(n, i), temp |-> temp]
    ELSE Scan(high, n, i + 1, j, temp, kc)

(* After the sum loop: a buffer with no pulse logged adds the frames the   *)
(* first loop did not already add.                                         *)
SettleNoTemp(r, n) == IF r.i = n /\ r.kc /= 0 THEN r.kc + n ELSE r.kc
Settle(r, n) ==
    IF r.i = n /\ r.kc /= 0 THEN r.kc + n - r.temp ELSE r.kc

(* Reference: the high samples before frame `upto` at which the quiet     *)
(* window had already closed, i.e. duration frames had passed since the   *)
(* last logged pulse.                                                      *)
LateSkipped(high, upto) ==
    {i \in high : i < upto /\ lastPulse /= NoPulse
                           /\ keepCountAll + i - lastPulse >= Duration}

Init ==
    /\ keepCount = 0
    /\ keepCountAll = 0
    /\ calls = 0
    /\ lastPulse = NoPulse
    /\ skippedLate = 0
    /\ maxSkippedLate = 0

(* detectPulse() returning at one of its guards.                           *)
RejectCall ==
    /\ calls < MaxCalls
    /\ \E format \in Formats, channels \in ChannelCounts, n \in 0..(MAX_FRAMECOUNT + 1) :
         ~Accepted(format, channels, n)
    /\ calls' = calls + 1
    /\ UNCHANGED <<keepCount, keepCountAll, lastPulse, skippedLate, maxSkippedLate>>

(* detectPulse() passing its guards, copying the buffer, and running       *)
(* detectPulse_() on it.  desiredFrames = 0 returns at the first line of   *)
(* detectPulse_().                                                         *)
DetectPulse(format, channels, n, high) ==
    LET seen == ReadHigh(high, channels, n)
        r    == Scan(seen, n, 0, 0, 0, keepCount)
        late == Cardinality(LateSkipped(seen, r.i)) + skippedLate
    IN /\ calls < MaxCalls
       /\ Accepted(format, channels, n)
       /\ calls' = calls + 1
       /\ IF n = 0
          THEN UNCHANGED <<keepCount, keepCountAll, lastPulse, skippedLate, maxSkippedLate>>
          ELSE /\ keepCount' = Settle(r, n)
               /\ keepCountAll' = keepCountAll + n
               /\ lastPulse' = IF r.i < n THEN keepCountAll + r.i ELSE lastPulse
               /\ skippedLate' = IF r.i < n THEN 0 ELSE late
               /\ maxSkippedLate' = IF late > maxSkippedLate THEN late ELSE maxSkippedLate

Next ==
    \/ RejectCall
    \/ \E format \in Formats, channels \in ChannelCounts,
          n \in 0..MAX_FRAMECOUNT, high \in SUBSET (0..(MAX_FRAMECOUNT - 1)) :
         /\ high \subseteq 0..(n - 1)
         /\ DetectPulse(format, channels, n, high)

Spec == Init /\ [][Next]_vars

-----------------------------------------------------------------------------
(* Properties *)

TypeOK ==
    /\ keepCount \in Nat
    /\ keepCountAll \in Nat
    /\ calls \in 0..MaxCalls
    /\ lastPulse \in {NoPulse} \cup Nat
    /\ skippedLate \in Nat /\ maxSkippedLate \in Nat

(* keepCount is the number of frames since the last logged pulse: the     *)
(* increments of the first loop (i - j per high sample) and the one after  *)
(* it (desiredFrames - tempCount) together add exactly desiredFrames.      *)
KeepCountIsElapsed ==
    keepCount = IF lastPulse = NoPulse THEN 0 ELSE keepCountAll - lastPulse

(* Two logged pulses are at least `duration` frames apart: the quiet test  *)
(* of line 89 never lets a pulse through inside the window.               *)
DetectionsSpaced ==
    [][lastPulse' /= lastPulse /\ lastPulse /= NoPulse
         => lastPulse' - lastPulse >= Duration]_vars

(* The quiet test reads *pKeepCount as it stood at the previous high      *)
(* sample (or at the start of the buffer), so a pulse can be held back     *)
(* past the window; the next high sample is then logged.  At most one     *)
(* high sample after the window closes goes unlogged.                      *)
LateSkipsAtMostOne == maxSkippedLate <= 1

(* Every high sample after the window closes is logged.                    *)
PulseNotMissed == maxSkippedLate = 0
=============================================================================
