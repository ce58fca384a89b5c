-------------------------- MODULE WindowsAcxStreams --------------------------
(***************************************************************************)
(* The ACX streams of the Windows driver (windows/driver/OpenA8DJUsb.c) over *)
(* its persistent isochronous engine: the callbacks of several streams,     *)
(* which ACX serialises by stream only; the process work item, which reads   *)
(* and writes the packets of the active streams, keeps references to them in *)
(* the output slots, and notifies the client; the stream work item that      *)
(* starts the engine; the purge and the stop work item.                      *)
(*                                                                         *)
(* The engine is the abstraction of WindowsIsoEngine that the streams see:  *)
(* a purge takes every request off the bus in one step and always restarts   *)
(* the targets, a completion always finds its work item, and a failure may   *)
(* or may not be one too many.  The device stays present.  A transfer        *)
(* carries one frame of each stream.                                        *)
(***************************************************************************)
EXTENDS Naturals, FiniteSets

CONSTANTS
    RenderStreams, CaptureStreams,  \* the streams, at most one of each circuit
    Slots,          \* the capture slots of the engine, each with its output slot
    PacketFrames,   \* RtPacketSize / RtBlockAlign
    MaxPrepares,    \* bound on the AllocateRtPackets and PrepareHardware callbacks
    MaxRuns,        \* bound on the Run callbacks
    MaxTransfers,   \* bound on the captures that bring data
    MaxFaults       \* bound on the calls and transfers that fail and the waits that time out

ASSUME StreamConstants ==
    /\ IsFiniteSet(RenderStreams) /\ IsFiniteSet(CaptureStreams)
    /\ RenderStreams \cap CaptureStreams = {}
    /\ IsFiniteSet(Slots) /\ Slots # {}
    /\ PacketFrames \in Nat \ {0}
    /\ {MaxPrepares, MaxRuns, MaxTransfers, MaxFaults} \subseteq Nat

VARIABLES
    dev,     \* the words of the device context
    xfer,    \* the slots: capture and output states, and the stream references of the outputs
    active,  \* ActiveRenderStreams and ActiveCaptureStreams
    stream,  \* the stream contexts, with the history field `loaded'
    host,    \* what ACX has called: the state of a stream, and where its callback is
    proc,    \* the process work item
    work,    \* the stream work item
    purge,   \* the holder of IsoPurgeLock and its purge
    bound    \* history: prepares, runs, transfers and faults so far

vars == <<dev, xfer, active, stream, host, proc, work, purge, bound>>

Streams == RenderStreams \cup CaptureStreams
NoPurge == [by |-> "none", step |-> "none"]
Idle == [pc |-> "idle", slot |-> CHOOSE i \in Slots : TRUE, hand |-> {}, notes |-> {}]
FreshStream ==
    [epoch |-> 0, live |-> FALSE, packets |-> FALSE, refs |-> 0,
     position |-> 0, current |-> 0, progress |-> 0, pending |-> {}, loaded |-> 0]

Init ==
    /\ dev = [engine |-> "Stopped", stopRequested |-> TRUE, workerActive |-> FALSE,
              configured |-> FALSE, draining |-> FALSE,
              stopPending |-> FALSE, stopActive |-> FALSE]
    /\ xfer = [capture |-> [i \in Slots |-> "idle"], output |-> [i \in Slots |-> "idle"],
               refs |-> [i \in Slots |-> {}]]
    /\ active = {}
    /\ stream = [s \in Streams |-> FreshStream]
    /\ host = [s \in Streams |-> [state |-> "created", call |-> "none"]]
    /\ proc = Idle
    /\ work = [queued |-> FALSE, pc |-> "idle"]
    /\ purge = NoPurge
    /\ bound = [prepares |-> 0, runs |-> 0, transfers |-> 0, faults |-> 0]

(***************************************************************************)
(* The stream context                                                      *)
(***************************************************************************)
\* ResetRtPacketEpoch: positions, packets and the pending notification start again.
ResetEpoch(r, live) ==
    [FreshStream EXCEPT !.epoch = r.epoch + 1, !.live = live,
                        !.packets = r.packets, !.refs = r.refs]

\* Defect used to test the properties: the epoch of the frames is not compared.
AdvancedInAnyEpoch(r, epoch) ==
    LET total == r.progress + 1
    IN IF ~r.live THEN r
       ELSE [r EXCEPT !.position = @ + 1, !.progress = total % PacketFrames,
                      !.current = @ + total \div PacketFrames,
                      !.pending = IF total < PacketFrames THEN @
                                  ELSE {[packet |-> r.current, epoch |-> epoch]}]

\* AdvanceRtFrames: one frame that was loaded or written in an epoch is counted, and the
\* packet that it completes is to be notified.
Advanced(r, epoch) ==
    LET total == r.progress + 1
    IN IF ~r.live \/ r.epoch # epoch THEN r
       ELSE [r EXCEPT !.position = @ + 1, !.progress = total % PacketFrames,
                      !.current = @ + total \div PacketFrames,
                      !.pending = IF total < PacketFrames THEN @
                                  ELSE {[packet |-> r.current, epoch |-> epoch]}]

\* AcquireActiveStream and ReleaseActiveStream.  A hand holds references and the epoch of each.
Hold(s) == [stream |-> s, epoch |-> stream[s].epoch]
Held(hand) == {h.stream : h \in hand}
Acquired(set) ==
    [s \in Streams |-> IF s \in set THEN [stream[s] EXCEPT !.refs = @ + 1, !.loaded = @ + 1]
                       ELSE stream[s]]
EpochIn(hand, s) == (CHOOSE h \in hand : h.stream = s).epoch

\* Defect used to test the properties: the streams of a failed transfer keep their references.
ReleasedIfSent(hand, succeeded) ==
    [s \in Streams |->
        IF s \in Held(hand) /\ succeeded
        THEN [Advanced(stream[s], EpochIn(hand, s)) EXCEPT !.refs = @ - 1]
        ELSE stream[s]]

\* ReleaseOutputSlotRenderStreams, and the end of a delivery to the capture streams.
Released(hand, succeeded) ==
    [s \in Streams |->
        IF s \notin Held(hand) THEN stream[s]
        ELSE [(IF succeeded THEN Advanced(stream[s], EpochIn(hand, s)) ELSE stream[s])
                 EXCEPT !.refs = @ - 1]]

(***************************************************************************)
(* The device context                                                      *)
(***************************************************************************)
Completed(x) ==
    \E i \in Slots : x.capture[i] \in {"data", "empty", "failed"}
                  \/ x.output[i] \in {"done", "failed"}
AllIdle(x) == \A i \in Slots : x.capture[i] = "idle" /\ x.output[i] = "idle"

MaySubmit(d) == d.engine = "Running" /\ ~d.stopRequested

FatalStop(d) ==
    [d EXCEPT !.stopRequested = TRUE, !.engine = "Stopping", !.stopPending = TRUE]

MarkStopped(d) == [d EXCEPT !.configured = FALSE, !.workerActive = FALSE]

\* TrySignalPersistentIsoDrained, by a caller that leaves the device in state d.
TrySignalDrained(d, x) ==
    IF AllIdle(x) /\ d.engine = "Stopped" /\ ~d.stopPending /\ ~d.stopActive /\ ~d.draining
    THEN MarkStopped(d) ELSE d

MayFail == bound.faults < MaxFaults
Count(field, isOne) == bound' = [bound EXCEPT ![field] = @ + (IF isOne THEN 1 ELSE 0)]

(***************************************************************************)
(* The callbacks of a stream.  ACX serialises them by stream; a stream that *)
(* failed to pause may be released all the same when its client goes away.  *)
(***************************************************************************)
At(s, call) == host[s].call = call
Call(s, call) == host' = [host EXCEPT ![s].call = call]
Ready(s, state) == host[s] = [state |-> state, call |-> "none"]
Return(s, state) == host' = [host EXCEPT ![s] = [state |-> state, call |-> "none"]]
OnlyHost == UNCHANGED <<xfer, proc, work>>

AllocateRtPackets(s) ==
    /\ Ready(s, "created") /\ bound.prepares < MaxPrepares
    /\ stream' = [stream EXCEPT ![s] = ResetEpoch([@ EXCEPT !.packets = TRUE], TRUE)]
    /\ Return(s, "allocated")
    /\ Count("prepares", TRUE)
    /\ OnlyHost /\ UNCHANGED <<dev, active, purge>>

PrepareHardware(s) ==
    /\ Ready(s, "allocated") /\ bound.prepares < MaxPrepares
    /\ stream' = [stream EXCEPT ![s] = ResetEpoch(@, TRUE)]
    /\ Return(s, "prepared")
    /\ Count("prepares", TRUE)
    /\ OnlyHost /\ UNCHANGED <<dev, active, purge>>

ReleaseHardware(s) ==
    /\ Ready(s, "prepared")
    /\ stream' = [stream EXCEPT ![s] = ResetEpoch(@, FALSE)]
    /\ Return(s, "allocated")
    /\ OnlyHost /\ UNCHANGED <<dev, active, purge, bound>>

\* Run holds IsoPurgeLock from its first check to its return.
RunConfigure(s) ==
    /\ Ready(s, "prepared") /\ stream[s].packets /\ purge.by = "none"
    /\ bound.runs < MaxRuns
    /\ dev' = [dev EXCEPT !.configured = TRUE]
    /\ purge' = [by |-> s, step |-> "run"]
    /\ Call(s, "claim")
    /\ Count("runs", TRUE)
    /\ OnlyHost /\ UNCHANGED <<active, stream>>

\* The device does not take the parameters: Run returns the status.
RunFails(s) ==
    /\ Ready(s, "prepared") /\ purge.by = "none" /\ ~dev.configured
    /\ bound.runs < MaxRuns /\ MayFail
    /\ bound' = [bound EXCEPT !.runs = @ + 1, !.faults = @ + 1]
    /\ OnlyHost /\ UNCHANGED <<dev, active, stream, host, purge>>

\* The stream becomes active, the stop request is withdrawn and the worker is claimed.  These
\* are three interlocked operations; nobody reads two of the words that they change.
RunClaim(s) ==
    /\ At(s, "claim")
    /\ active' = active \cup {s}
    /\ dev' = [dev EXCEPT !.stopRequested = FALSE, !.workerActive = TRUE]
    /\ work' = [work EXCEPT !.queued = @ \/ ~dev.workerActive]
    /\ purge' = NoPurge
    /\ Return(s, "running")
    /\ UNCHANGED <<xfer, stream, proc, bound>>

\* ClearActiveStream and HasActiveAcxStreams; the stop request comes after them.
Leave(s, from, ifNone, ifSome) ==
    /\ Ready(s, from)
    /\ active' = active \ {s}
    /\ Call(s, IF active \ {s} = {} THEN ifNone ELSE ifSome)
    /\ OnlyHost /\ UNCHANGED <<dev, stream, purge, bound>>

RequestStop(s, from, to) ==
    /\ At(s, from)
    /\ dev' = [dev EXCEPT !.stopRequested = TRUE]
    /\ Call(s, to)
    /\ OnlyHost /\ UNCHANGED <<active, stream, purge, bound>>

WorkerIdle(s) == stream[s].refs = 0
PauseReturns(s) ==
    /\ At(s, "pauseWait") /\ WorkerIdle(s)
    /\ Return(s, "prepared")
    /\ OnlyHost /\ UNCHANGED <<dev, active, stream, purge, bound>>

\* The two seconds pass while a transfer that holds the stream stays on the bus; they are
\* taken to be enough for the process work item to finish with a stream.
PauseTimesOut(s) ==
    /\ At(s, "pauseWait") /\ MayFail
    /\ s \notin Held(proc.hand)
    /\ \E i \in Slots : xfer.output[i] = "bus" /\ s \in Held(xfer.refs[i])
    /\ Return(s, "prepared")
    /\ Count("faults", TRUE)
    /\ OnlyHost /\ UNCHANGED <<dev, active, stream, purge>>

Pause(s) ==
    \/ Leave(s, "running", "pauseRequest", "pauseWait")
    \/ RequestStop(s, "pauseRequest", "pauseWait")
    \/ PauseReturns(s) \/ PauseTimesOut(s)

FreePurge(s) ==
    /\ At(s, "freePurge") /\ purge.by = "none"
    /\ purge' = [by |-> s, step |-> "enter"]
    /\ Call(s, "freePurging")
    /\ OnlyHost /\ UNCHANGED <<dev, active, stream, bound>>

FreeFlush(s) ==
    /\ At(s, "freeFlush") /\ work = [queued |-> FALSE, pc |-> "idle"]
    /\ Call(s, "freeWait")
    /\ OnlyHost /\ UNCHANGED <<dev, active, stream, purge, bound>>

\* Defect used to test the properties: the packets go without the rundown.
FreeWithoutRundown(s) == TRUE

\* ExWaitForRundownProtectionRelease; nobody acquires a stream that is not active.
RundownComplete(s) == stream[s].refs = 0
FreePackets(s) ==
    /\ At(s, "freeWait") /\ RundownComplete(s)
    /\ stream' = [stream EXCEPT ![s].packets = FALSE]
    /\ Return(s, "created")
    /\ OnlyHost /\ UNCHANGED <<dev, active, purge, bound>>

FreeRtPackets(s) ==
    \/ Leave(s, "allocated", "freeRequest", "freeWait")
    \/ RequestStop(s, "freeRequest", "freePurge")
    \/ FreePurge(s) \/ FreeFlush(s) \/ FreePackets(s)

(***************************************************************************)
(* The purge, the stop work item and the stream work item                  *)
(***************************************************************************)
TransportLockFree == proc.pc \in {"idle", "notify"}
OnlyDevice == UNCHANGED <<active, stream, proc, bound>>

PurgeTargets ==
    /\ purge.step = "enter" /\ TransportLockFree
    /\ dev' = [dev EXCEPT !.engine = "Stopping", !.draining = TRUE]
    /\ xfer' = [xfer EXCEPT
         !.capture = [i \in Slots |-> IF @[i] = "bus" THEN "failed" ELSE @[i]],
         !.output = [i \in Slots |-> IF @[i] = "bus" THEN "failed" ELSE @[i]]]
    /\ purge' = [purge EXCEPT !.step = "flush"]
    /\ OnlyDevice /\ UNCHANGED <<host, work>>

PurgePublish ==
    /\ purge.step = "flush" /\ proc.pc = "idle" /\ ~Completed(xfer)
    /\ dev' = TrySignalDrained([dev EXCEPT !.engine = "Stopped", !.draining = FALSE], xfer)
    /\ purge' = NoPurge
    /\ host' = [s \in Streams |-> IF At(s, "freePurging") THEN [host[s] EXCEPT !.call = "freeFlush"]
                                  ELSE host[s]]
    /\ work' = IF purge.by = "work" THEN [work EXCEPT !.pc = "mark"] ELSE work
    /\ OnlyDevice /\ UNCHANGED xfer

StopPurge ==
    /\ dev.stopPending /\ ~dev.stopActive /\ purge.by = "none"
    /\ dev' = [dev EXCEPT !.stopActive = TRUE]
    /\ purge' = [by |-> "stop", step |-> "enter"]
    /\ OnlyDevice /\ UNCHANGED <<xfer, host, work>>

StopEnds ==
    /\ dev.stopActive /\ purge.by # "stop" /\ TransportLockFree
    /\ dev' = TrySignalDrained([dev EXCEPT !.stopPending = FALSE, !.stopActive = FALSE], xfer)
    /\ OnlyDevice /\ UNCHANGED <<xfer, host, work, purge>>

StreamWork ==
    /\ work.queued /\ work.pc = "idle"
    /\ IF dev.configured
       THEN work' = [queued |-> FALSE, pc |-> "start"] /\ UNCHANGED dev
       ELSE work' = [queued |-> FALSE, pc |-> "idle"] /\ dev' = MarkStopped(dev)
    /\ OnlyDevice /\ UNCHANGED <<xfer, host, purge>>

CanStart ==
    dev.engine = "Stopped" /\ proc.pc = "idle" /\ AllIdle(xfer)
    /\ ~dev.stopPending /\ ~dev.stopActive

\* StartPersistentIsoEngine: the captures are submitted; or it is refused, the frame query
\* fails, or a stop has been requested again and the submission is cancelled.
StartEngine ==
    /\ work.pc = "start" /\ TransportLockFree
    /\ \/ /\ CanStart /\ ~dev.stopRequested
          /\ dev' = [dev EXCEPT !.engine = "Running"]
          /\ xfer' = [xfer EXCEPT !.capture = [i \in Slots |-> "bus"]]
          /\ work' = [work EXCEPT !.pc = "idle"]
          /\ UNCHANGED bound
       \/ /\ CanStart /\ dev.stopRequested
          /\ dev' = FatalStop(dev)
          /\ work' = [work EXCEPT !.pc = "request"]
          /\ UNCHANGED <<xfer, bound>>
       \/ /\ ~CanStart \/ MayFail
          /\ Count("faults", CanStart)
          /\ work' = [work EXCEPT !.pc = "request"]
          /\ UNCHANGED <<dev, xfer>>
    /\ UNCHANGED <<active, stream, proc, host, purge>>

WorkRequestsStop ==
    /\ work.pc = "request"
    /\ dev' = [dev EXCEPT !.stopRequested = TRUE]
    /\ work' = [work EXCEPT !.pc = "purge"]
    /\ OnlyDevice /\ UNCHANGED <<xfer, host, purge>>
WorkPurges ==
    /\ work.pc = "purge" /\ purge.by = "none"
    /\ purge' = [by |-> "work", step |-> "enter"]
    /\ work' = [work EXCEPT !.pc = "purging"]
    /\ OnlyDevice /\ UNCHANGED <<dev, xfer, host>>
WorkMarks ==
    /\ work.pc = "mark"
    /\ dev' = MarkStopped(dev)
    /\ work' = [work EXCEPT !.pc = "idle"]
    /\ OnlyDevice /\ UNCHANGED <<xfer, host, purge>>

(***************************************************************************)
(* The bus and the process work item                                       *)
(***************************************************************************)
OnlyProc == UNCHANGED <<active, host, work, purge>>
Goto(pc) == proc' = [Idle EXCEPT !.pc = pc]

CaptureCompletes(i) ==
    /\ xfer.capture[i] = "bus"
    /\ \/ /\ bound.transfers < MaxTransfers
          /\ xfer' = [xfer EXCEPT !.capture[i] = "data"] /\ Count("transfers", TRUE)
       \/ xfer' = [xfer EXCEPT !.capture[i] = "empty"] /\ UNCHANGED bound
       \/ MayFail /\ xfer' = [xfer EXCEPT !.capture[i] = "failed"] /\ Count("faults", TRUE)
    /\ OnlyProc /\ UNCHANGED <<dev, stream, proc>>

OutputCompletes(i) ==
    /\ xfer.output[i] = "bus"
    /\ \/ xfer' = [xfer EXCEPT !.output[i] = "done"] /\ UNCHANGED bound
       \/ MayFail /\ xfer' = [xfer EXCEPT !.output[i] = "failed"] /\ Count("faults", TRUE)
    /\ OnlyProc /\ UNCHANGED <<dev, stream, proc>>

\* A failed transfer of a running engine may be one too many.
Judged(failed) == {dev} \cup (IF failed /\ MaySubmit(dev) THEN {FatalStop(dev)} ELSE {})

ProcessOutput(i) ==
    /\ proc.pc \in {"idle", "output"} /\ xfer.output[i] \in {"done", "failed"}
    /\ dev' \in Judged(xfer.output[i] = "failed")
    /\ stream' = Released(xfer.refs[i], xfer.output[i] = "done")
    /\ xfer' = [xfer EXCEPT !.output[i] = "idle", !.refs[i] = {}]
    /\ Goto("output")
    /\ OnlyProc /\ UNCHANGED bound

\* The captures of a pass come after its outputs.
AtCaptures ==
    \/ proc.pc = "capture"
    \/ /\ proc.pc \in {"idle", "output"}
       /\ \A i \in Slots : xfer.output[i] \notin {"done", "failed"}

Resubmitted(i, d) == [xfer EXCEPT !.capture[i] = IF MaySubmit(d) THEN "bus" ELSE "idle"]

\* A capture waits for its output slot.  The packets of the active capture streams are written
\* while the stream is held.
ProcessCapture(i) ==
    /\ AtCaptures /\ xfer.output[i] = "idle"
    /\ \/ /\ xfer.capture[i] = "data"
          /\ LET set == active \cap CaptureStreams
             IN /\ stream' = Acquired(set)
                /\ proc' = [Idle EXCEPT !.pc = "deliver", !.slot = i,
                                        !.hand = {Hold(s) : s \in set}]
          /\ UNCHANGED <<dev, xfer>>
       \/ /\ xfer.capture[i] \in {"empty", "failed"}
          /\ dev' \in Judged(xfer.capture[i] = "failed")
          /\ xfer' = Resubmitted(i, dev')
          /\ Goto("capture")
          /\ UNCHANGED stream
    /\ OnlyProc /\ UNCHANGED bound

Deliver ==
    /\ proc.pc = "deliver"
    /\ stream' = Released(proc.hand, TRUE)
    /\ IF MaySubmit(dev)
       THEN /\ proc' = [proc EXCEPT !.pc = "fill", !.hand = {}]
            /\ UNCHANGED xfer
       ELSE /\ xfer' = [xfer EXCEPT !.capture[proc.slot] = "idle"]
            /\ Goto("capture")
    /\ OnlyProc /\ UNCHANGED <<dev, bound>>

\* FillMode2FromActiveRtRenders: acquire and load, then read the epochs.
Fill ==
    /\ proc.pc = "fill"
    /\ LET set == active \cap RenderStreams
       IN /\ stream' = Acquired(set)
          /\ proc' = [proc EXCEPT !.pc = "submit", !.hand = {Hold(s) : s \in set}]
    /\ OnlyProc /\ UNCHANGED <<dev, xfer, bound>>

\* The epochs are read at the end; a submission that is cancelled or refused stops the engine.
SubmitOutput ==
    /\ proc.pc = "submit"
    /\ LET refs == {Hold(s) : s \in Held(proc.hand)}
       IN \/ /\ MaySubmit(dev)
             /\ xfer' = [xfer EXCEPT !.output[proc.slot] = "bus", !.refs[proc.slot] = refs]
             /\ proc' = [proc EXCEPT !.pc = "resubmit", !.hand = {}]
             /\ UNCHANGED <<dev, stream, bound>>
          \/ /\ ~MaySubmit(dev) \/ MayFail
             /\ Count("faults", MaySubmit(dev))
             /\ stream' = Released(refs, FALSE)
             /\ dev' = FatalStop(dev)
             /\ xfer' = [xfer EXCEPT !.capture[proc.slot] = "idle"]
             /\ Goto("capture")
    /\ OnlyProc

ResubmitCapture ==
    /\ proc.pc = "resubmit"
    /\ xfer' = Resubmitted(proc.slot, dev)
    /\ Goto("capture")
    /\ OnlyProc /\ UNCHANGED <<dev, stream, bound>>

\* The transport lock is released and the notifications of the active streams are flushed.
\* FlushRtPacketNotification takes a notification under the lock of its stream, and notifies
\* outside it while it holds the stream.
Takes(s) == {n \in stream[s].pending : stream[s].live /\ n.epoch = stream[s].epoch}
Flush ==
    /\ AtCaptures /\ proc.pc # "idle"
    /\ \A i \in Slots : xfer.capture[i] \in {"idle", "bus"} \/ xfer.output[i] # "idle"
    /\ stream' = [s \in Streams |-> IF s \in active
                    THEN [stream[s] EXCEPT !.refs = @ + 1, !.pending = {}] ELSE stream[s]]
    /\ proc' = [Idle EXCEPT !.pc = "notify", !.hand = {Hold(s) : s \in active},
                  !.notes = UNION {{[stream |-> s, packet |-> n.packet, epoch |-> n.epoch] :
                                       n \in Takes(s)} : s \in active}]
    /\ OnlyProc /\ UNCHANGED <<dev, xfer, bound>>

Notify(s) ==
    /\ proc.pc = "notify" /\ s \in Held(proc.hand)
    /\ stream' = [stream EXCEPT ![s].refs = @ - 1]
    /\ proc' = [proc EXCEPT !.hand = {h \in @ : h.stream # s},
                            !.notes = {n \in @ : n.stream # s}]
    /\ OnlyProc /\ UNCHANGED <<dev, xfer, bound>>

\* The pass is over; another one begins if a transfer has completed.
ProcessFinishes ==
    /\ proc.pc = "notify" /\ proc.hand = {}
    /\ dev' = IF Completed(xfer) THEN dev ELSE TrySignalDrained(dev, xfer)
    /\ proc' = Idle
    /\ OnlyProc /\ UNCHANGED <<xfer, stream, bound>>

(***************************************************************************)
(* The specification                                                       *)
(***************************************************************************)
Callback(s) ==
    \/ AllocateRtPackets(s) \/ PrepareHardware(s) \/ ReleaseHardware(s)
    \/ RunConfigure(s) \/ RunFails(s) \/ RunClaim(s)
    \/ Pause(s) \/ FreeRtPackets(s)
ProcessStep ==
    \/ Deliver \/ Fill \/ SubmitOutput \/ ResubmitCapture \/ Flush \/ ProcessFinishes
    \/ \E i \in Slots : ProcessOutput(i) \/ ProcessCapture(i)
    \/ \E s \in Streams : Notify(s)
PurgeStep == PurgeTargets \/ PurgePublish
WorkStep == StreamWork \/ StartEngine \/ WorkRequestsStop \/ WorkPurges \/ WorkMarks
BusStep == \E i \in Slots : CaptureCompletes(i) \/ OutputCompletes(i)

Next ==
    \/ \E s \in Streams : Callback(s)
    \/ ProcessStep \/ PurgeStep \/ StopPurge \/ StopEnds \/ WorkStep \/ BusStep

Spec == Init /\ [][Next]_vars

(***************************************************************************)
(* Properties                                                              *)
(***************************************************************************)
TypeOK ==
    /\ dev.engine \in {"Stopped", "Running", "Stopping"}
    /\ active \subseteq Streams
    /\ \A s \in Streams : stream[s].refs \in Nat /\ stream[s].current \in Nat
    /\ purge.by \in Streams \cup {"none", "stop", "work"}
    /\ \A i \in Slots : xfer.refs[i] \subseteq [stream : Streams, epoch : Nat]

\* The packets of a stream stay allocated while anyone may touch them: an active stream, a
\* work item that fills, delivers or notifies, an output slot with a reference.  Otherwise
\* FreeRtPackets frees memory under the work item.
PacketsHeld ==
    /\ TypeOK
    /\ \A s \in active \cup Held(proc.hand) \cup UNION {Held(xfer.refs[i]) : i \in Slots} :
          stream[s].packets

\* Nothing of an old epoch reaches a new one: the presentation position never exceeds the
\* frames that were loaded or written since the stream was last reset, so that a transfer
\* that outlived a Pause moves no later position; and the packet that the client is told of
\* was completed since then, and the stream was not released in the meantime.
EpochsKeptApart ==
    /\ \A s \in Streams : stream[s].position <= stream[s].loaded
    /\ \A n \in proc.notes :
          stream[n.stream].live /\ n.epoch = stream[n.stream].epoch
                                /\ n.packet < stream[n.stream].current

\* Every reference is accounted for: the process work item has it in hand, or an output slot
\* that is in flight or completed holds it.  A reference that a failed, cancelled or purged
\* transfer leaves behind would keep FreeRtPackets in its rundown for ever.
ReferencesAccounted ==
    /\ \A s \in Streams :
          stream[s].refs = Cardinality({i \in Slots : s \in Held(xfer.refs[i])})
                              + (IF s \in Held(proc.hand) THEN 1 ELSE 0)
    /\ \A i \in Slots : xfer.output[i] = "idle" => xfer.refs[i] = {}

\* Nothing is under way.
Quiet ==
    /\ purge = NoPurge /\ proc.pc = "idle" /\ ~Completed(xfer)
    /\ work = [queued |-> FALSE, pc |-> "idle"]
    /\ ~dev.stopPending /\ ~dev.stopActive
    /\ \A s \in Streams : At(s, "none")

\* A stream whose Run succeeded, and that was not paused, is served when nothing is under way
\* and nothing has failed.
RunIsServed ==
    (Quiet /\ bound.faults = 0 /\ \E s \in Streams : host[s].state = "running") =>
        /\ MaySubmit(dev)
        /\ \E i \in Slots : xfer.capture[i] = "bus"
=============================================================================
