--------------------------- MODULE OutputTimeline ---------------------------
(***************************************************************************)
(* OutputTimelineRing (src/hal/OpenA8DJUSB.m): a ring of frames, each       *)
(* tagged with its number on the host's timeline.  The HAL's I/O thread     *)
(* writes, the USB queue reads; both hold the ring's mutex for a whole call,*)
(* so a call is one operator from ring to ring.  A sample is abstracted to  *)
(* the I/O cycle that wrote it.                                             *)
(***************************************************************************)
EXTENDS Integers, FiniteSets

CONSTANTS
    Capacity,         \* kRingFrames (32768)
    StartLatency,     \* kOutputStartLatencyFrames (3072)
    RestartLatency,   \* kOutputRestartLatencyFrames (1536)
    TargetLatency,    \* kOutputTargetLatencyFrames (3072)
    HighWater         \* kOutputElasticHighWaterFrames (9216)

ASSUME TimelineConstants ==
    /\ Capacity \in Nat /\ StartLatency \in Nat /\ RestartLatency \in Nat \ {0}
    /\ TargetLatency \in Nat /\ HighWater \in Nat
    /\ RestartLatency <= StartLatency
    /\ TargetLatency < HighWater /\ HighWater < Capacity

NoSample == [frame |-> 0, cycle |-> 0]      \* frameNumbers[i] = INT64_MIN
Blank == [i \in 0 .. Capacity - 1 |-> NoSample]

\* OutputTimelineClear
Cleared == [written |-> FALSE, read |-> 0, max |-> 0, slot |-> Blank]

\* OutputTimelineResetLocked
ResetAt(start, preroll) ==
    [written |-> TRUE, read |-> start - preroll, max |-> start - 1, slot |-> Blank]

SlotOf(frame) == frame % Capacity
Holds(t, frame) == t.slot[SlotOf(frame)].cycle # 0 /\ t.slot[SlotOf(frame)].frame = frame

(***************************************************************************)
(* OutputTimelineWrite                                                     *)
(***************************************************************************)
\* A write without a valid sample time continues the last one.
StartWithoutTime(t) == IF t.written THEN t.max + 1 ELSE StartLatency

\* The write lies behind the reader, or jumps far ahead of it.
OutOfReach(t, start, last) ==
    \/ last < t.read
    \/ start # t.max + 1 /\ start - t.read > Capacity \div 2
Positioned(t, start, last) ==
    IF ~t.written THEN ResetAt(start, StartLatency)
    ELSE IF OutOfReach(t, start, last) THEN ResetAt(start, RestartLatency)
    ELSE t

\* The frames of the cycle that the reader has not passed, the last one to a slot.
Larger(m, n) == IF m > n THEN m ELSE n
Stored(t, cycle, start, last) ==
    LET timely == Larger(start, t.read) .. last IN
    [t EXCEPT
        !.slot = [i \in 0 .. Capacity - 1 |->
                    IF \E f \in timely : SlotOf(f) = i
                    THEN [frame |-> CHOOSE f \in timely :
                                        /\ SlotOf(f) = i
                                        /\ \A g \in timely : SlotOf(g) = i => g <= f,
                          cycle |-> cycle]
                    ELSE @[i]],
        !.max = Larger(@, last)]

\* Defect used to test the properties: a ring that is one frame too full is let be.
TrimmedLate(t) ==
    IF t.max - t.read > Capacity
    THEN [t EXCEPT !.read = Larger(@, t.max - TargetLatency)] ELSE t

\* A reader that is a whole ring behind is moved up to the target latency.
Trimmed(t) ==
    IF t.max - t.read >= Capacity
    THEN [t EXCEPT !.read = Larger(@, t.max - TargetLatency)] ELSE t

Write(t, cycle, start, last) == Trimmed(Stored(Positioned(t, start, last), cycle, start, last))

(***************************************************************************)
(* OutputTimelineReadFrames                                                *)
(***************************************************************************)
\* The reader is moved up when too much has been written ahead of it.
CaughtUp(t) ==
    IF t.max - t.read > HighWater
    THEN [t EXCEPT !.read = Larger(@, t.max - TargetLatency)] ELSE t
SampleOf(t) == IF Holds(t, t.read) THEN t.slot[SlotOf(t.read)] ELSE NoSample
Advanced(t) == IF t.written THEN [CaughtUp(t) EXCEPT !.read = @ + 1] ELSE t
Taken(t) == IF t.written THEN SampleOf(CaughtUp(t)) ELSE NoSample

\* The ring after i frames have been read.
After(t, count) ==
    LET ring[i \in 0 .. count] == IF i = 0 THEN t ELSE Advanced(ring[i - 1]) IN ring
Samples(t, count) == [i \in 1 .. count |-> Taken(After(t, count)[i - 1])]
ReadFrames(t, count) == After(t, count)[count]
=============================================================================
