-------------------------- MODULE UsbEngineLifecycle ------------------------
(***************************************************************************)
(* OpenA8DJUSBEngine (hal/OpenA8DJUSB.m), as the Makefile builds it by      *)
(* default: playback paced by capture, one transfer of lead per completion, *)
(* no prepared runtime.  Two threads meet here.  The callers of start, stop *)
(* and close hold gEngineMutex, so there is one of them; the serial queue   *)
(* `_queue' runs the worker, the completion handlers, the delayed retries   *)
(* and the sentinels by which stop waits for the queue.  They share atomic  *)
(* flags and two counters of transfers in flight.                           *)
(*                                                                         *)
(* Time is a choice: a bounded wait may end by its deadline at any moment,  *)
(* and a transfer may complete, or be aborted, at any moment.               *)
(***************************************************************************)
EXTENDS Integers, Sequences, FiniteSets, FiniteSetsExt

CONSTANTS
    CaptureDepth,   \* kCaptureQueueDepth
    Lead,           \* kCapturePacedOutputLead, clamped to kPlaybackQueueMax
    PlaybackMax,    \* kPlaybackQueueMax
    CounterSize,    \* the counters are unsigned: they wrap at this value
    MaxSessions,    \* bound on the streams started
    MaxStops,       \* bound on the calls of stop and close
    MaxFailures     \* bound on the submissions IOUSBHost refuses and the transfers nobody can get

ASSUME EngineConstants ==
    /\ {CaptureDepth, MaxSessions, MaxStops} \subseteq Nat \ {0}
    /\ Lead \in 2 .. PlaybackMax /\ PlaybackMax \in Nat /\ MaxFailures \in Nat
    /\ CounterSize \in Nat
    /\ CounterSize > PlaybackMax + 1
\* The sessions of a run do not fill a counter of 32 bits, even if none of them drains.
ASSUME CaptureCounterHolds == MaxSessions * CaptureDepth < CounterSize

VARIABLES
    flag,       \* _streaming, _running, _retirementUnsafe
    api,        \* where the API call is; whether it is close(); what stop last returned
    inFlight,   \* _captureTransfersInFlight, _playbackTransfersInFlight
    pipe,       \* the transfers IOUSBHost holds
    queue,      \* the blocks waiting on _queue
    task,       \* the block that is running
    retries,    \* dispatch_after timers that have not fired
    used        \* how much of each bound is spent; and, history, how many captures this session
                \* lost because no transfer could be had

vars == <<flag, api, inFlight, pipe, queue, task, retries, used>>

Directions == {"capture", "playback"}
NoTask == [kind |-> "none", pc |-> "end", left |-> 0]
Block(kind, pc, left) == [kind |-> kind, pc |-> pc, left |-> left]

\* Defect used to test the properties: the worker is only to fill the playback queue.
IdleWorker == Block("worker", "worker-loop", 0)

Worker == Block("worker", "worker-loop", CaptureDepth)
Retry == Block("retry", "capture-entry", 0)
Completion(d) == IF d = "capture" THEN Block("capture", "release", 0)
                                  ELSE Block("playback", "load", 0)
\* Each call of stop waits for a semaphore of its own, named by the number of the call.
Sentinel(call) == Block("sentinel", "signal", call)

Init ==
    /\ flag = [streaming |-> FALSE, running |-> FALSE, unsafe |-> FALSE]
    /\ api = [pc |-> "idle", closing |-> FALSE, stopped |-> "never"]
    /\ inFlight = [d \in Directions |-> 0]
    /\ pipe = [d \in Directions |-> 0]
    /\ queue = <<>>
    /\ task = NoTask
    /\ retries = 0
    /\ used = [sessions |-> 0, stops |-> 0, failures |-> 0, starved |-> 0]

Goto(pc) == api' = [api EXCEPT !.pc = pc]
More(d) == [inFlight EXCEPT ![d] = (@ + 1) % CounterSize]
Less(d) == [inFlight EXCEPT ![d] = (@ - 1) % CounterSize]

(***************************************************************************)
(* ensureOpen and start                                                    *)
(***************************************************************************)
\* An engine that runs is open; one that does not is opened, unless a session has not drained.
CanOpen == flag.running \/ ~flag.unsafe

EnsureOpen ==
    /\ api.pc = "idle" /\ CanOpen
    /\ flag' = [flag EXCEPT !.running = TRUE]
    /\ UNCHANGED <<api, inFlight, pipe, queue, task, retries, used>>

\* start clears the rings and the playback counter, but not the capture counter,
ResetForStart ==
    /\ api.pc = "idle" /\ ~flag.streaming /\ CanOpen
    /\ used.sessions < MaxSessions
    /\ used' = [used EXCEPT !.sessions = @ + 1, !.starved = 0]
    /\ flag' = [flag EXCEPT !.running = TRUE]
    /\ inFlight' = [inFlight EXCEPT !["playback"] = 0]
    /\ Goto("reset")
    /\ UNCHANGED <<pipe, queue, task, retries>>
\* publishes the session,
PublishStart ==
    /\ api.pc = "reset"
    /\ flag' = [flag EXCEPT !.streaming = TRUE]
    /\ api' = [api EXCEPT !.pc = "published", !.stopped = "never"]
    /\ UNCHANGED <<inFlight, pipe, queue, task, retries, used>>
\* and queues its worker.
DispatchWorker ==
    /\ api.pc = "published"
    /\ queue' = Append(queue, Worker)
    /\ Goto("idle")
    /\ UNCHANGED <<flag, inFlight, pipe, task, retries, used>>

(***************************************************************************)
(* stop and close                                                          *)
(***************************************************************************)
StopReturns(answer) == api' = [api EXCEPT !.pc = "idle", !.closing = FALSE, !.stopped = answer]

\* stop waits for what is in flight even when the stream has stopped already.
Stop(closing) ==
    /\ api.pc = "idle"
    /\ used.stops < MaxStops
    /\ used' = [used EXCEPT !.stops = @ + 1]
    /\ flag' = [flag EXCEPT !.streaming = FALSE]
    /\ IF flag.streaming THEN api' = [api EXCEPT !.pc = "abort", !.closing = closing]
       ELSE IF flag.unsafe THEN StopReturns("no")
       ELSE api' = [api EXCEPT !.pc = "playback-drains", !.closing = closing]
    /\ UNCHANGED <<inFlight, pipe, queue, task, retries>>

\* Aborting the pipes makes transfers complete, which they may do at any time here.
AbortAndDispatch ==
    /\ api.pc = "abort"
    /\ queue' = Append(queue, Sentinel(used.stops))
    /\ Goto("queue-retires")
    /\ UNCHANGED <<flag, inFlight, pipe, task, retries, used>>

\* Defect used to test the properties: only playback is waited for.
CaptureIgnored == TRUE

\* waitForTransfersToDrain loads the playback counter, then the capture counter.
CaptureDrained == inFlight["capture"] = 0
LoadPlayback ==
    /\ api.pc = "playback-drains"
    /\ inFlight["playback"] = 0
    /\ Goto("capture-drains")
    /\ UNCHANGED <<flag, inFlight, pipe, queue, task, retries, used>>
StopDrained ==
    /\ api.pc = "capture-drains"
    /\ CaptureDrained
    /\ IF api.closing THEN api' = [api EXCEPT !.pc = "close", !.stopped = "yes"]
                      ELSE StopReturns("yes")
    /\ UNCHANGED <<flag, inFlight, pipe, queue, task, retries, used>>
LoadAgain ==
    /\ api.pc = "capture-drains" /\ ~CaptureDrained
    /\ Goto("playback-drains")
    /\ UNCHANGED <<flag, inFlight, pipe, queue, task, retries, used>>
\* waitForQueueRetirement or waitForTransfersToDrain runs out: the session is retained.
StopTimesOut ==
    /\ api.pc \in {"queue-retires", "playback-drains", "capture-drains"}
    /\ flag' = [flag EXCEPT !.unsafe = TRUE]
    /\ StopReturns("no")
    /\ UNCHANGED <<inFlight, pipe, queue, task, retries, used>>

\* close, after stop: the IPC and EP1 queues must retire too, then the device is released.
CloseRefused ==
    /\ api.pc = "close"
    /\ flag' = [flag EXCEPT !.running = FALSE, !.unsafe = TRUE]
    /\ StopReturns("yes")
    /\ UNCHANGED <<inFlight, pipe, queue, task, retries, used>>
CloseUsb ==
    /\ api.pc = "close"
    /\ flag' = [flag EXCEPT !.running = FALSE]
    /\ Goto("closed")
    /\ UNCHANGED <<inFlight, pipe, queue, task, retries, used>>

\* The EP1 read loop retires the command channel when its deadline passes.
Ep1Deadline ==
    /\ flag.running /\ api.pc # "closed"
    /\ flag' = [flag EXCEPT !.running = FALSE]
    /\ UNCHANGED <<api, inFlight, pipe, queue, task, retries, used>>

(***************************************************************************)
(* The queue: one block at a time                                          *)
(***************************************************************************)
Jump(pc) == task' = [task EXCEPT !.pc = pc]
Finish == task' = NoTask
OnlyTask == UNCHANGED <<flag, api, inFlight, pipe, queue, retries, used>>

Dequeue ==
    /\ task = NoTask /\ queue # <<>>
    /\ api.pc # "closed"
    /\ task' = Head(queue)
    /\ queue' = Tail(queue)
    /\ UNCHANGED <<flag, api, inFlight, pipe, retries, used>>

\* A sentinel answers the call of stop that sent it, if that call still waits.
Signal ==
    /\ task.pc = "signal"
    /\ Finish
    /\ IF api.pc = "queue-retires" /\ task.left = used.stops THEN Goto("playback-drains")
       ELSE UNCHANGED api
    /\ UNCHANGED <<flag, inFlight, pipe, queue, retries, used>>

\* queueInitialCaptureTransfers: one capture transfer per round.
RoundLeft == task.left > 0
WorkerLoop ==
    /\ task.pc = "worker-loop"
    /\ IF RoundLeft /\ flag.streaming
       THEN task' = [task EXCEPT !.pc = "capture-entry", !.left = @ - 1]
       ELSE Finish
    /\ OnlyTask

\* Where queueCaptureTransfer returns to: the worker, or the end of the capture handler.
Return(t) == CASE t.kind = "worker"  -> [t EXCEPT !.pc = "worker-loop"]
               [] t.kind = "capture" -> [t EXCEPT !.pc = "pacing"]
               [] OTHER              -> NoTask

\* queueCaptureTransfer, from its check of _streaming to the submission.
CaptureEntry ==
    /\ task.pc = "capture-entry"
    /\ task' = IF flag.streaming THEN [task EXCEPT !.pc = "capture-reserve"] ELSE Return(task)
    /\ OnlyTask
\* checkoutTransferFromPool has none: the pool is exhausted and no other can be allocated, or
\* none may be.  The capture is counted as failed and is not tried again.
CaptureStarved ==
    /\ task.pc = "capture-entry" /\ flag.streaming
    /\ used.failures < MaxFailures
    /\ used' = [used EXCEPT !.failures = @ + 1, !.starved = @ + 1]
    /\ task' = Return(task)
    /\ UNCHANGED <<flag, api, inFlight, pipe, queue, retries>>
Reserve(d, entry, submit) ==
    /\ task.pc = entry
    /\ inFlight' = More(d)
    /\ Jump(submit)
    /\ UNCHANGED <<flag, api, pipe, queue, retries, used>>
CaptureSubmitted ==
    /\ task.pc = "capture-submit"
    /\ pipe' = [pipe EXCEPT !["capture"] = @ + 1]
    /\ task' = Return(task)
    /\ UNCHANGED <<flag, api, inFlight, queue, retries, used>>

\* Defect used to test the properties: a refused submission stays counted.
KeepCount(d) == inFlight

Unreserved(d) == Less(d)
SpendFailure == /\ used.failures < MaxFailures
                /\ used' = [used EXCEPT !.failures = @ + 1]
CaptureRefused ==
    /\ task.pc = "capture-submit" /\ SpendFailure
    /\ inFlight' = Unreserved("capture")
    /\ Jump("capture-failed")
    /\ UNCHANGED <<flag, api, pipe, queue, retries>>

\* Defect used to test the properties: a refused capture is not tried again.
RetryDropped == UNCHANGED retries

RetryLater == retries' = IF flag.streaming THEN retries + 1 ELSE retries
CaptureFailed ==
    /\ task.pc = "capture-failed"
    /\ RetryLater
    /\ task' = Return(task)
    /\ UNCHANGED <<flag, api, inFlight, pipe, queue, used>>
RetryFires ==
    /\ retries > 0 /\ api.pc # "closed"
    /\ retries' = retries - 1
    /\ queue' = Append(queue, Retry)
    /\ UNCHANGED <<flag, api, inFlight, pipe, task, used>>

\* handleCaptureTransfer: count the transfer out, queue the next one, then pace playback.
\* Its own check of _streaming, just before that of queueCaptureTransfer, has the same end.
CaptureRelease ==
    /\ task.pc = "release"
    /\ inFlight' = Less("capture")
    /\ Jump("capture-entry")
    /\ UNCHANGED <<flag, api, pipe, queue, retries, used>>
\* Only a transfer that carried data asks for playback.
Pacing ==
    /\ task.pc = "pacing"
    /\ \/ Finish
       \/ /\ flag.streaming
          /\ task' = [task EXCEPT !.pc = "playback-loop", !.left = Lead]
    /\ OnlyTask

\* Playback is queued up to its lead, by queuePlaybackWithRequests: it checks _streaming
\* and kPlaybackQueueMax once more, and its refusal ends the loop like the loop's own check.
AtLead == inFlight["playback"] >= Lead
PlaybackWanted ==
    task.left > 0 /\ flag.streaming /\ ~AtLead /\ inFlight["playback"] < PlaybackMax
PlaybackLoop ==
    /\ task.pc = "playback-loop"
    /\ IF PlaybackWanted
       THEN task' = [task EXCEPT !.pc = "playback-reserve", !.left = @ - 1]
       ELSE Finish
    /\ OnlyTask
\* Nor is there a transfer for it: the loop ends.
PlaybackStarved ==
    /\ task.pc = "playback-loop" /\ PlaybackWanted /\ SpendFailure
    /\ Finish
    /\ UNCHANGED <<flag, api, inFlight, pipe, queue, retries>>
PlaybackSubmitted ==
    /\ task.pc = "playback-submit"
    /\ pipe' = [pipe EXCEPT !["playback"] = @ + 1]
    /\ Jump("playback-loop")
    /\ UNCHANGED <<flag, api, inFlight, queue, retries, used>>
PlaybackRefused ==
    /\ task.pc = "playback-submit" /\ SpendFailure
    /\ inFlight' = Unreserved("playback")
    /\ Finish
    /\ UNCHANGED <<flag, api, pipe, queue, retries>>

\* handlePlaybackTransfer: the counter is loaded, and decremented if it was positive.
PlaybackLoad ==
    /\ task.pc = "load"
    /\ IF inFlight["playback"] > 0 THEN Jump("subtract") ELSE Finish
    /\ OnlyTask
PlaybackSubtract ==
    /\ task.pc = "subtract"
    /\ inFlight' = Less("playback")
    /\ Finish
    /\ UNCHANGED <<flag, api, pipe, queue, retries, used>>

\* IOUSBHost completes the transfers of a pipe in order, on _queue.
Complete(d) ==
    /\ pipe[d] > 0 /\ api.pc # "closed"
    /\ pipe' = [pipe EXCEPT ![d] = @ - 1]
    /\ queue' = Append(queue, Completion(d))
    /\ UNCHANGED <<flag, api, inFlight, task, retries, used>>

(***************************************************************************)
(* The specification                                                       *)
(***************************************************************************)
ApiStep == PublishStart \/ DispatchWorker \/ AbortAndDispatch \/ LoadPlayback \/ StopDrained
           \/ LoadAgain \/ StopTimesOut \/ CloseRefused \/ CloseUsb
TaskStep ==
    \/ Signal \/ WorkerLoop \/ CaptureEntry \/ CaptureStarved
    \/ Reserve("capture", "capture-reserve", "capture-submit")
    \/ Reserve("playback", "playback-reserve", "playback-submit")
    \/ CaptureSubmitted \/ CaptureRefused \/ CaptureFailed
    \/ CaptureRelease \/ Pacing
    \/ PlaybackLoop \/ PlaybackStarved \/ PlaybackSubmitted \/ PlaybackRefused
    \/ PlaybackLoad \/ PlaybackSubtract

Next ==
    \/ EnsureOpen \/ ResetForStart \/ \E closing \in BOOLEAN : Stop(closing)
    \/ ApiStep \/ Ep1Deadline
    \/ Dequeue \/ TaskStep \/ RetryFires
    \/ \E d \in Directions : Complete(d)

Spec == Init /\ [][Next]_vars

\* Threads that are ready run and timers fire; nobody has to call anything.
FairSpec == Spec /\ WF_vars(ApiStep) /\ WF_vars(Dequeue) /\ WF_vars(TaskStep)
                 /\ WF_vars(RetryFires)

(***************************************************************************)
(* Properties                                                              *)
(***************************************************************************)
OfKind(q, kind) == {i \in DOMAIN q : q[i].kind = kind}
Waiting(kind) == Cardinality(OfKind(queue, kind))
Running(pcs) == IF task.pc \in pcs THEN 1 ELSE 0

\* The transfers a counter should count: submitted, and not yet counted out.
CaptureAlive == pipe["capture"] + Waiting("capture") + Running({"capture-submit", "release"})
PlaybackAlive == pipe["playback"] + Waiting("playback")
                 + Running({"playback-submit", "load", "subtract"})

TypeOK ==
    /\ flag \in [streaming : BOOLEAN, running : BOOLEAN, unsafe : BOOLEAN]
    /\ api.closing \in BOOLEAN /\ api.stopped \in {"never", "yes", "no"}
    /\ inFlight \in [Directions -> 0 .. CounterSize - 1]
    /\ pipe \in [Directions -> Nat] /\ retries \in Nat
    /\ task.kind \in {"none", "worker", "retry", "sentinel"} \cup Directions
    /\ task.left \in Nat

\* The capture counter is exact through every start, stop, failure and timeout; the
\* playback counter, which start() resets, is exact as long as every session drained.
CountersExact ==
    /\ TypeOK
    /\ inFlight["capture"] = CaptureAlive
    /\ ~flag.unsafe => inFlight["playback"] = PlaybackAlive

\* When stop has said yes, or the device is released, no capture transfer is left and no
\* block is about to submit one; and no playback transfer either, if every session drained.
StoppedIsDrained ==
    api.stopped = "yes" =>
        /\ CaptureAlive = 0
        /\ Running({"capture-reserve", "playback-reserve"}) = 0
        /\ flag.unsafe \/ PlaybackAlive = 0

\* The counts that stop() waits for are those of the transfers, and a stop that believed them
\* leaves none.
TransfersAccounted == CountersExact /\ StoppedIsDrained

\* The captures a stream lives on: in flight, being requeued, to be retried, or still to
\* be queued by a worker.
Rounds(q) == MapThenSumSet(LAMBDA i : q[i].left, OfKind(q, "worker"))
WorkersLeft == Rounds(queue) + (IF task.kind = "worker" THEN task.left ELSE 0)
                             + (IF api.pc = "published" THEN CaptureDepth ELSE 0)
Chains == CaptureAlive + retries + Waiting("retry") + WorkersLeft
          + Running({"capture-entry", "capture-reserve", "capture-failed"})

\* A refused submission never costs a stream a capture, nor does what earlier sessions left
\* behind: as many as its depth are in flight or on their way, but for those that found no
\* transfer, which the code gives up for the rest of the session.  And its captures never put
\* more playback in flight than the lead, unless an earlier session did not drain.
DepthSustained ==
    /\ flag.streaming => Chains + used.starved >= CaptureDepth
    /\ ~flag.unsafe => PlaybackAlive <= Lead

\* A stream that is not stopped gets captures onto the bus, as long as one of them has found
\* transfers throughout: a stream that gave all of them up stays silent until it is stopped.
CaptureFlows ==
    flag.streaming ~>
        pipe["capture"] > 0 \/ ~flag.streaming \/ used.starved >= CaptureDepth
=============================================================================
