----------------------------- MODULE MacPlayback ----------------------------
(***************************************************************************)
(* The playback path of the macOS engine (src/hal/OpenA8DJUSB.m), as built  *)
(* by default: the HAL's I/O thread writes a cycle into the output timeline *)
(* or, when the cycle is silent, closes the playback gate and resets the    *)
(* pipeline; the engine's queue fills a transfer from the timeline, through *)
(* a prefetch buffer and a frame that is sent byte by byte.  The timeline   *)
(* has a mutex and the gate is atomic.  What lies between them, the         *)
(* prefetch cursors and the byte in the frame, is reset by the one thread   *)
(* and used by the other with no lock.                                      *)
(***************************************************************************)
EXTENDS OutputTimeline

CONSTANTS
    Prefetch,         \* kOutputPrefetchFrames (128)
    FrameBytes,       \* kChannelsPerStream * kBytesPerSample (6)
    StartByte,        \* OPENA8DJ_OUTPUT_START_BYTE (4)
    TransferFrames,   \* the frames of one playback transfer
    IoFrames,         \* the frame counts of a cycle
    MaxLoudCycles,    \* bound on the cycles that are not silent
    MaxFrame          \* bound on the frame numbers of the timeline

ASSUME PlaybackConstants ==
    /\ {Prefetch, FrameBytes, TransferFrames} \subseteq Nat \ {0}
    /\ StartByte \in 1 .. FrameBytes - 1
    /\ IoFrames \subseteq 1 .. Capacity
    /\ MaxLoudCycles \in Nat /\ MaxFrame \in Nat

VARIABLES
    gate,       \* _idlePlaybackGateActive
    timeline,   \* _outputTimeline
    prefetch,   \* _outputPrefetch, with its flags
    index,      \* _outputPrefetchIndex
    count,      \* _outputPrefetchCount
    byte,       \* _outputByteInFrame
    loaded,     \* _outputFrameLoaded
    writer,     \* how far the I/O thread has come in writeOutput
    stores,     \* the stores its reset has left to make
    filler,     \* how far the queue has come in fillPlaybackBytes
    left,       \* the bytes the transfer has still room for
    cycle,      \* history: the number of cycles that were not silent
    openers,    \* history: the cycles that began a new timeline
    fence,      \* history: no cycle up to this one outlives the last reset
    played,     \* history: the last sample that was taken from the prefetch buffer
    overlap,    \* history: a store of this reset was made during a fill
    torn        \* history: a store of the last reset was made during a fill

pipeline == <<prefetch, index, count, byte, loaded>>
queueVars == <<filler, left, played>>
history == <<cycle, openers, fence>>
resetVars == <<stores, overlap, torn>>
playbackVars == <<gate, timeline, pipeline, writer, resetVars, queueVars, history>>

NoTime == -1
Stores == {"byte", "loaded", "index", "count"}

PlaybackInit ==
    /\ gate = TRUE
    /\ timeline = Cleared
    /\ prefetch = [i \in 1 .. Prefetch |-> NoSample]
    /\ index = 0 /\ count = 0
    /\ byte = StartByte /\ loaded = FALSE
    /\ writer = "idle" /\ stores = {}
    /\ filler = "idle" /\ left = 0
    /\ cycle = 0 /\ openers = {} /\ fence = 0 /\ played = NoSample
    /\ overlap = FALSE /\ torn = FALSE

(***************************************************************************)
(* The I/O thread: writeOutput and softResetPlaybackPipeline...            *)
(***************************************************************************)
\* A silent cycle.  With a hold of no frames the first one closes the gate, and only the
\* one that finds it open resets the pipeline.
SilentCycle ==
    /\ writer = "idle"
    /\ ~gate
    /\ gate' = TRUE
    /\ writer' = "clear"
    /\ fence' = cycle
    /\ UNCHANGED <<timeline, pipeline, resetVars, queueVars, cycle, openers>>

\* Defect used to test the properties: the reset leaves what is in the prefetch buffer.
StoresWithoutCount == Stores \ {"count"}

ResetStores == Stores

ClearTimeline ==
    /\ writer = "clear"
    /\ timeline' = Cleared
    /\ writer' = "reset"
    /\ stores' = ResetStores
    /\ overlap' = FALSE
    /\ UNCHANGED <<gate, pipeline, torn, queueVars, history>>

\* Defect used to test the properties: the reset goes back to the first byte of a frame.
FirstByte == 0
ResetByte == StartByte

\* The plain stores of the reset, which the compiler may order as it likes.  One that is
\* made during a fill races with it: the queue may go on with a value it has already read
\* and write that back, so the store may be lost.
StoreValue(s) ==
    \/ /\ byte' = IF s = "byte" THEN ResetByte ELSE byte
       /\ loaded' = IF s = "loaded" THEN FALSE ELSE loaded
       /\ index' = IF s = "index" THEN 0 ELSE index
       /\ count' = IF s = "count" THEN 0 ELSE count
    \/ /\ filler # "idle"
       /\ UNCHANGED <<byte, loaded, index, count>>
ResetStore(s) ==
    LET last == stores = {s} IN
    /\ writer = "reset"
    /\ s \in stores
    /\ StoreValue(s)
    /\ stores' = stores \ {s}
    /\ writer' = IF last THEN "idle" ELSE "reset"
    /\ overlap' = (overlap \/ filler # "idle")
    /\ torn' = IF last THEN overlap' ELSE torn \/ overlap'
    /\ UNCHANGED <<gate, timeline, prefetch, queueVars, history>>

\* A cycle with a signal opens the gate first ...
LoudCycle ==
    /\ writer = "idle"
    /\ cycle < MaxLoudCycles
    /\ gate' = FALSE
    /\ cycle' = cycle + 1
    /\ writer' = "write"
    /\ UNCHANGED <<timeline, pipeline, resetVars, queueVars, openers, fence>>

\* ... and then writes its frames, at the sample time of the cycle or after the last ones.
StartFrame(time) == IF time = NoTime THEN StartWithoutTime(timeline) ELSE time
WriteCycle(time, frames) ==
    LET start == StartFrame(time)
        last == start + frames - 1
    IN  /\ writer = "write"
        /\ last <= MaxFrame
        /\ timeline' = Write(timeline, cycle, start, last)
        /\ openers' = IF Positioned(timeline, start, last) = timeline
                      THEN openers ELSE openers \cup {cycle}
        /\ writer' = "idle"
        /\ UNCHANGED <<gate, pipeline, resetVars, queueVars, cycle, fence>>

(***************************************************************************)
(* The engine's queue: queuePlaybackWithRequests and fillPlaybackBytes     *)
(***************************************************************************)
\* A transfer is as long as the captured packets it answers: whole frames.
BeginFill ==
    /\ filler = "idle"
    /\ ~gate
    /\ timeline.read <= MaxFrame
    /\ filler' = "next"
    /\ left' = TransferFrames * FrameBytes
    /\ UNCHANGED <<gate, timeline, pipeline, writer, resetVars, played, history>>

NeedsFrame == ~loaded \/ byte = 0

\* refillOutputPrefetch: the index, the frames, and at last their count.
BeginRefill ==
    /\ filler = "next" /\ NeedsFrame /\ index >= count
    /\ index' = 0
    /\ filler' = "read"
    /\ UNCHANGED <<gate, timeline, prefetch, count, byte, loaded, writer, resetVars, left,
                   played, history>>
ReadTimeline ==
    /\ filler = "read"
    /\ prefetch' = Samples(timeline, Prefetch)
    /\ timeline' = ReadFrames(timeline, Prefetch)
    /\ filler' = "count"
    /\ UNCHANGED <<gate, index, count, byte, loaded, writer, resetVars, left, played, history>>
EndRefill ==
    /\ filler = "count"
    /\ count' = Prefetch
    /\ filler' = "take"
    /\ UNCHANGED <<gate, timeline, prefetch, index, byte, loaded, writer, resetVars, left,
                   played, history>>

SkipRefill ==
    /\ filler = "next" /\ NeedsFrame /\ index < count
    /\ filler' = "take"
    /\ UNCHANGED <<gate, timeline, pipeline, writer, resetVars, left, played, history>>

\* loadNextOutputFrame: the next frame of the buffer, or silence.
TakeFrame ==
    /\ filler = "take"
    /\ IF index < count
       THEN /\ index' = index + 1
            /\ played' = IF prefetch[index + 1] = NoSample THEN played ELSE prefetch[index + 1]
       ELSE UNCHANGED <<index, played>>
    /\ loaded' = TRUE
    /\ filler' = "emit"
    /\ UNCHANGED <<gate, timeline, prefetch, count, byte, writer, resetVars, left, history>>

EmitByte ==
    /\ filler = "emit" \/ (filler = "next" /\ ~NeedsFrame)
    /\ byte' = (byte + 1) % FrameBytes
    /\ left' = left - 1
    /\ filler' = IF left = 1 THEN "idle" ELSE "next"
    /\ UNCHANGED <<gate, timeline, prefetch, index, count, loaded, writer, resetVars, played,
                   history>>

\* The start of a stream clears the pipeline, but not the gate, before any transfer is queued; the
\* host has no I/O cycle running.
StartStream ==
    /\ writer = "idle" /\ filler = "idle"
    /\ timeline' = Cleared
    /\ byte' = StartByte /\ loaded' = FALSE
    /\ index' = 0 /\ count' = 0
    /\ fence' = cycle
    /\ torn' = FALSE
    /\ UNCHANGED <<gate, prefetch, writer, stores, overlap, queueVars, cycle, openers>>

PlaybackNext ==
    \/ SilentCycle \/ ClearTimeline \/ \E s \in Stores : ResetStore(s)
    \/ LoudCycle
    \/ \E time \in 0 .. MaxFrame \cup {NoTime}, frames \in IoFrames : WriteCycle(time, frames)
    \/ BeginFill \/ BeginRefill \/ ReadTimeline \/ EndRefill \/ SkipRefill \/ TakeFrame \/ EmitByte
    \/ StartStream

PlaybackSpec == PlaybackInit /\ [][PlaybackNext]_playbackVars

(***************************************************************************)
(* Properties                                                              *)
(***************************************************************************)
\* A ring of Capacity frames, tagged with their numbers, reads like a tape without an end:
\* no write destroys a sample that the reader has still to come to, and no read takes one
\* frame for another that has the same place in the ring.
Tape == INSTANCE OutputTape WITH
    Cycles <- 1 .. MaxLoudCycles, Times <- 0 .. MaxFrame,
    Longest <- CHOOSE n \in IoFrames : \A m \in IoFrames : m <= n,
    Batch <- Prefetch,
    MaxLead <- StartLatency, MaxAhead <- Capacity - 1, ReadAhead <- HighWater,
    Jump <- Capacity \div 2,
    begun <- timeline.written,
    tape <- {s \in {timeline.slot[i] : i \in 0 .. Capacity - 1} :
                s # NoSample /\ s.frame >= timeline.read},
    head <- timeline.read,
    given <- prefetch
ImplementsTape == Tape!Spec

\* What is played is new and in order: a sample taken for a transfer comes after the one
\* taken before it, and from a cycle after the last reset, whatever the threads did in
\* between.  Only a reset that has met a fill may leave old samples in the prefetch buffer.
Resetting == writer \in {"clear", "reset"}
Era(c) == Cardinality({o \in openers : o <= c})
Later(s, t) ==
    \/ t = NoSample
    \/ Era(s.cycle) > Era(t.cycle)
    \/ Era(s.cycle) = Era(t.cycle) /\ s.frame > t.frame
FreshInOrder ==
    TakeFrame /\ index < count /\ prefetch[index + 1] # NoSample /\ ~torn /\ ~Resetting =>
        /\ Later(prefetch[index + 1], played)
        /\ prefetch[index + 1].cycle > fence
PlayedFreshInOrder == [][FreshInOrder]_playbackVars

\* A transfer starts at the same byte of a frame as the first one did, so that the samples
\* keep their place between the check bytes; again a reset that has met a fill may lose it,
\* and a later one brings it back.
PhaseKept == ~torn => (byte + left) % FrameBytes = StartByte
=============================================================================
