----------------------------- MODULE HalIoCycle -----------------------------
(***************************************************************************)
(* The IO cycle of the CoreAudio plug-in over HalDevice: the host's IO      *)
(* thread writes the output streams of one cycle after the other into one   *)
(* buffer, which goes to the engine as a whole.  The IO thread takes no     *)
(* mutex.  The buffer is handed on at the end of the operation when every   *)
(* expected stream is in it, else at the start of the next cycle, else by   *)
(* the stop of the last client.                                             *)
(*                                                                         *)
(* The host (external) numbers the cycles of an IO session from 1, stops    *)
(* its IO thread between two cycles before it stops the last client, and    *)
(* may change the expected streams at any moment.                           *)
(***************************************************************************)
EXTENDS HalDevice, Sequences, SequencesExt

CONSTANTS
    Streams,    \* the output streams
    MaxCycles,  \* bound on the IO cycles, over all sessions
    MaxUsages   \* bound on the changes of the stream usage

ASSUME CycleConstants ==
    IsFiniteSet(Streams) /\ Streams # {} /\ {MaxCycles, MaxUsages} \subseteq Nat

VARIABLES
    io,         \* the IO thread: where it is, its cycle counter, the streams still to write
    buffer,     \* gOutputCycle*: counter, mask; the cycles whose samples are in it
    expected,   \* gExpectedOutputStreamMask
    usages,     \* how often it has changed
    written,    \* the buffers handed to the engine, each as the set of its <<cycle, stream>>
    finished    \* the cycles the IO thread has ended

cycleVars == <<io, buffer, expected, usages, written, finished>>
vars == <<halVars, cycleVars>>

EmptyBuffer == [counter |-> 0, ready |-> FALSE, holds |-> {}]
NoCycle == [pc |-> "idle", counter |-> 0, cycle |-> 0, todo |-> {}]

Init ==
    /\ HalInit
    /\ io = NoCycle
    /\ buffer = EmptyBuffer
    /\ expected = Streams
    /\ usages = 0
    /\ written = <<>>
    /\ finished = {}

Touched(b) == b.holds # {}
MaskOf(b) == {sample[2] : sample \in b.holds}

Flushed(b) ==
    IF Touched(b) /\ b.ready THEN [buffer |-> EmptyBuffer, written |-> Append(written, b.holds)]
    ELSE [buffer |-> b, written |-> written]

\* Defect used to test the properties: the buffer is reused when its cycle has not been handed on.
EnsuredOverwriting(b, counter) ==
    IF ~b.ready \/ b.counter # counter
    THEN [buffer |-> [counter |-> counter, ready |-> TRUE, holds |-> {}], written |-> written]
    ELSE [buffer |-> b, written |-> written]

\* EnsureOutputCycle
Ensured(b, counter) ==
    LET handed == IF Touched(b) /\ b.counter # 0 /\ b.counter # counter
                  THEN Flushed(b) ELSE [buffer |-> b, written |-> written]
    IN IF ~handed.buffer.ready \/ handed.buffer.counter # counter
       THEN [handed EXCEPT !.buffer = [counter |-> counter, ready |-> TRUE, holds |-> {}]]
       ELSE handed

\* An empty mask stands for all streams.
ExpectedMask == IF expected = {} THEN Streams ELSE expected
HasExpectedStreams(b) == ExpectedMask \subseteq MaskOf(b)

Apply(r) == buffer' = r.buffer /\ written' = r.written

\* BeginIOOperation; the host then writes the streams its clients use in this cycle.
BeginWriteMix ==
    /\ io.pc = "idle" /\ running > 0 /\ io.cycle < MaxCycles
    /\ Apply(Ensured(buffer, io.counter + 1))
    /\ \E used \in SUBSET Streams :
           io' = [pc |-> "mix", counter |-> io.counter + 1, cycle |-> io.cycle + 1, todo |-> used]
    /\ UNCHANGED <<halVars, expected, usages, finished>>

\* DoIOOperation, one stream after the other.
WriteMix(s) ==
    /\ io.pc = "mix" /\ s \in io.todo
    /\ LET ensured == Ensured(buffer, io.counter)
       IN Apply([ensured EXCEPT !.buffer.holds = @ \cup {<<io.cycle, s>>}])
    /\ io' = [io EXCEPT !.todo = @ \ {s}]
    /\ UNCHANGED <<halVars, expected, usages, finished>>

\* EndIOOperation
EndWriteMix ==
    /\ io.pc = "mix" /\ io.todo = {}
    /\ Apply(IF HasExpectedStreams(buffer) \/ buffer.counter = 0
             THEN Flushed(buffer) ELSE [buffer |-> buffer, written |-> written])
    /\ io' = [io EXCEPT !.pc = "idle"]
    /\ finished' = IF \E w \in Range(written) \cup {buffer.holds} : \E s \in Streams : <<io.cycle, s>> \in w
                   THEN finished \cup {io.cycle} ELSE finished
    /\ UNCHANGED <<halVars, expected, usages>>

\* SetStreamUsageMask publishes the mask of one IOProc as that of the device: the last
\* writer wins, and the streams another IOProc uses are not added to it.
SetStreamUsage ==
    /\ usages < MaxUsages
    /\ usages' = usages + 1
    /\ expected' \in SUBSET Streams
    /\ UNCHANGED <<halVars, io, buffer, written, finished>>

(***************************************************************************)
(* The steps of HalDevice that hand the buffer on.                          *)
(***************************************************************************)
HostStoppedIo == running' = 0 => io.pc = "idle"

\* The counter of the next IO session starts again.
StopSession ==
    IF running' = 0 THEN Apply(Flushed(buffer)) /\ io' = [io EXCEPT !.counter = 0]
                    ELSE UNCHANGED <<buffer, written, io>>

StopOrRemove ==
    /\ \E c \in Clients :
           \/ StopIO(c) /\ HostStoppedIo /\ StopSession
           \/ /\ RemoveDeviceClient(c) /\ HostStoppedIo
              /\ IF clients[c].depth > 0 THEN StopSession ELSE UNCHANGED <<buffer, written, io>>
    /\ UNCHANGED <<expected, usages, finished>>

DelayedFlush ==
    /\ \E t \in threads.sleeping :
           /\ DelayedClose(t)
           /\ IF StillWanted(t) THEN Apply(Flushed(buffer)) ELSE UNCHANGED <<buffer, written>>
    /\ UNCHANGED <<io, expected, usages, finished>>

DeviceSteps ==
    /\ \/ StartStop
       \/ \E t \in threads.sleeping : PreopenBegins(t)
       \/ PreopenReturns
       \/ Configure
    /\ UNCHANGED cycleVars

IoSteps == BeginWriteMix \/ (\E s \in Streams : WriteMix(s)) \/ EndWriteMix

Next == DeviceSteps \/ StopOrRemove \/ DelayedFlush \/ IoSteps \/ SetStreamUsage

Spec == Init /\ [][Next]_vars

\* A sleeping thread wakes, and a call of the engine returns.
Fairness ==
    /\ WF_vars(DelayedFlush)
    /\ WF_vars(StartIOReturns /\ UNCHANGED cycleVars)
    /\ WF_vars(PreopenReturns /\ UNCHANGED cycleVars)
    /\ WF_vars(PerformRate /\ UNCHANGED cycleVars)
    /\ WF_vars(PerformUsbRate /\ UNCHANGED cycleVars)

FairSpec == Spec /\ Fairness

(***************************************************************************)
(* Properties                                                              *)
(***************************************************************************)
TypeOK ==
    /\ HalTypeOK
    /\ io.pc \in {"idle", "mix"} /\ io.cycle \in 0 .. MaxCycles /\ io.todo \subseteq Streams
    /\ buffer.holds \subseteq (1 .. MaxCycles) \X Streams
    /\ expected \subseteq Streams
    /\ Len(written) <= MaxCycles

\* The count of running clients is the sum of what each has started and not stopped, over
\* removals of clients that never stopped; and as long as it is not zero the engine
\* streams, whatever thread of an earlier stop wakes up, unless the engine itself refused
\* a change of rate (gRunningClients and the generation check of DelayedCloseThread).
StreamsForItsClients ==
    /\ TypeOK
    /\ running = MapThenSumSet(LAMBDA c : clients[c].depth, Clients)
    /\ running > 0 /\ ~refused => engine.streaming

\* The engine never streams for a client at another rate than the one the device reports
\* (StartIO passes gSampleRate on; PerformDeviceConfigurationChange changes it first and
\* tells the engine afterwards, if anyone runs).
RateAgrees ==
    running > 0 /\ engine.streaming /\ config.pc # "usb" => engine.rate = clock.rate

\* What one seed of the zero time stamp says, it says about one timeline: no change of
\* the rate, the buffer size or the anchor keeps the seed, and a seed never comes back.
SeedNamesTimeline ==
    [][/\ clock'.seed >= clock.seed
       /\ <<clock'.rate, clock'.frames, clock'.anchor>> # <<clock.rate, clock.frames, clock.anchor>>
          => clock'.seed > clock.seed]_vars

\* Each buffer handed to the engine holds samples of one cycle; the cycles are handed on
\* in order, none twice and none skipped, whatever streams are expected when; a cycle
\* that ended is on its way, or is the one still buffered.
CyclesWrittenOnce ==
    LET cycleOf(w) == {sample[1] : sample \in w}
    IN /\ \A w \in Range(written) \cup {buffer.holds} : Cardinality(cycleOf(w)) <= 1
       /\ \A i, j \in DOMAIN written : i < j =>
              \A a \in cycleOf(written[i]), b \in cycleOf(written[j]) : a < b
       /\ finished \subseteq UNION {cycleOf(w) : w \in Range(written) \cup {buffer.holds}}

\* When the last client is gone the engine does not stream for ever: it stops with the
\* client, or the thread of that stop closes it, or somebody starts again.
AbandonedStreamStops ==
    (running = 0 /\ engine.streaming) ~> (running > 0 \/ ~engine.streaming)

=============================================================================
