-------------------------- MODULE DriverKitDevice ---------------------------
(***************************************************************************)
(* The DriverKit driver (driverkit/): AudioDriverSkeleton, the binding that *)
(* the AudioDriverKit callbacks go through, and the bridge of the extension *)
(* that calls it.  A stream either queues its slots with the planner and    *)
(* submits the batches to a request pool, completing the oldest request     *)
(* when usb_request_completion_depth are live, or drives a                  *)
(* PersistentUsbTransport, one completion per direction and period.         *)
(*                                                                         *)
(* Left out: the audio frames and the five memory descriptors, whose layout *)
(* is valid for every valid configuration.  The extension passes one        *)
(* configuration, the tools others; here a caller picks any.                *)
(***************************************************************************)
EXTENDS UsbSubmitPlanner

CONSTANTS
    DriverConfigs,                 \* the configurations a caller may pick
    MaxCompletions, MaxFailures,   \* bounds of the persistent transport
    MaxStreams,                    \* bound on the streams of a behaviour
    MaxQueued                      \* bound on the slots queued for capture in a stream

VARIABLES
    driver,     \* AudioDriverSkeleton and AudioDeviceRuntimeBinding
    streams     \* history: the streams started

P == INSTANCE PersistentUsbTransport WITH transport <- driver.persistent

(***************************************************************************)
(* AudioStreamConfig, less what both modes treat alike.  `batch' is         *)
(* usb_slots_per_submit, `slots' usb_request_slots, `depth' the completion  *)
(* depth; `capture' and `playback' are the initial slots of a direction in  *)
(* the first mode and its queue depth in the second.                        *)
(***************************************************************************)
\* validate_stream_config
ConfigValid(c) ==
    /\ c.batch > 0
    /\ c.slots \in 1 .. MaxSlots
    /\ c.depth \in 1 .. c.slots
    /\ c.persistent => c.capture > 0 /\ c.playback > 0 /\ c.capture + c.playback <= c.slots

NoConfig == [persistent |-> FALSE, retain |-> FALSE, batch |-> 1, slots |-> 1, depth |-> 1,
             capture |-> 0, playback |-> 0]
NewDriver == [state |-> "Created", configured |-> FALSE, config |-> NoConfig,
              streaming |-> FALSE, bound |-> FALSE, published |-> FALSE,
              planner |-> NewPlanner, pool |-> NewPool, fifo |-> <<>>, submitted |-> 0,
              stamp |-> Zero, persistent |-> P!NewTransport, failures |-> 0]

Init == driver = NewDriver /\ streams = 0

(***************************************************************************)
(* From slots to requests.  `failures' counts submissions, completions and  *)
(* drains that failed; a loop of the code ends when it moves.               *)
(***************************************************************************)
Fail(d) == [d EXCEPT !.failures = @ + 1]

\* complete_oldest_usb_request
OldestCompleted(d) ==
    LET h == Head(d.fifo)
        e == [d EXCEPT !.pool = PoolComplete(@, h), !.fifo = Tail(@)]
    IN  IF d.fifo = <<>> THEN d ELSE IF Accepts(d.pool, h) THEN e ELSE Fail(e)

\* submit_usb_descriptor
Submitted(d, descriptor) ==
    LET s == PoolSubmit(d.pool, descriptor)
        e == [d EXCEPT !.pool = s.pool, !.fifo = Append(@, s.handle)]
    IN  IF Len(d.fifo) >= MaxSlots THEN Fail(d)
        ELSE IF s.handle = NoHandle THEN Fail([d EXCEPT !.pool = s.pool])
        ELSE IF Len(e.fifo) >= d.config.depth THEN OldestCompleted(e)
        ELSE e

\* Apply Op to the elements of seq until one fails.
UntilFailure(Op(_, _), d, seq) ==
    FoldLeft(LAMBDA e, x : IF e.failures > d.failures THEN e ELSE Op(e, x), d, seq)

\* What was listed has been submitted.
ListSubmitted(d) == [d EXCEPT !.planner = IF d.config.retain THEN @ ELSE Cleared(@),
                              !.submitted = IF d.config.retain THEN Len(d.planner.listed) ELSE 0]

\* drain_new_usb_submit_descriptors
NewSubmitted(d) ==
    LET new == SubSeq(d.planner.listed, d.submitted + 1, Len(d.planner.listed))
        e == UntilFailure(Submitted, d, new)
    IN  IF d.submitted > Len(d.planner.listed) THEN Fail(d)
        ELSE IF e.failures > d.failures THEN e
        ELSE ListSubmitted(e)

\* queue_usb_slot, with next_usb_timestamp
SlotQueued(d, dir) ==
    NewSubmitted([d EXCEPT !.stamp[dir] = @ + 1,
                           !.planner = PlannedNext(@, dir, d.stamp[dir] + 1)])

\* finish_usb_submit_binding
Finished(d) ==
    LET e == NewSubmitted([d EXCEPT !.planner = FinishedPlan(@)]) IN
    IF d.config.persistent
    THEN [d EXCEPT !.persistent = IF @.started THEN P!Stopped(@) ELSE @]
    ELSE IF e.failures > d.failures THEN Fail(e) ELSE e

(***************************************************************************)
(* start_stream() and stop_stream()                                        *)
(***************************************************************************)
\* Defect used to test the properties: the timestamps go on from the last stream.
StampsKept(d) == d.stamp

\* The timestamps start with the stream.
FreshStamps(d) == Zero

\* What start_usb_submit_binding undoes when the first slots cannot be queued.
BindingUndone(d) ==
    LET e == Finished(d) IN
    [e EXCEPT !.planner = StoppedPlanner(@), !.pool = PoolStop(@), !.streaming = FALSE]

\* start_usb_submit_binding and queue_initial_usb_slots
InitialSlots(c) == [i \in 1 .. c.capture |-> "capture"] \o [i \in 1 .. c.playback |-> "playback"]
PlannedStream(d) ==
    LET fresh == [d EXCEPT !.stamp = FreshStamps(d), !.submitted = 0, !.fifo = <<>>,
                           !.pool = PoolStart(@, d.config.slots),
                           !.planner = StartedPlanner(d.config.batch),
                           !.streaming = TRUE]
        queued == UntilFailure(SlotQueued, fresh, InitialSlots(d.config))
    IN  IF queued.failures > d.failures THEN BindingUndone(queued) ELSE queued

\* start_persistent_usb_transport_binding
PersistentStream(d) ==
    LET started == P!StartedTransport([capture |-> d.config.capture, slots |-> d.config.slots,
                                       playback |-> d.config.playback])
        primed == P!Primed(started)
    IN  IF primed.primed THEN [d EXCEPT !.persistent = primed, !.streaming = TRUE]
        ELSE [d EXCEPT !.persistent = P!Stopped(primed)]

CanStart(d) == d.state = "Started" /\ d.configured /\ ~d.streaming
StreamStarted(d) ==
    IF ~CanStart(d) THEN d
    ELSE IF d.config.persistent THEN PersistentStream(d) ELSE PlannedStream(d)

\* Defect used to test the properties: the pool is stopped without cancelling.
RequestsForgotten(d) == [d EXCEPT !.pool = PoolStop(@), !.fifo = <<>>]

\* cancel_usb_requests, and stop() of the pool
RequestsCancelled(d) == [d EXCEPT !.pool = PoolStop(PoolCancelAll(@)), !.fifo = <<>>]

\* stop_stream()
StreamStopped(d) ==
    LET e == Finished(d) IN
    [(IF d.config.persistent THEN e
      ELSE [RequestsCancelled(e) EXCEPT !.planner = StoppedPlanner(@)])
     EXCEPT !.streaming = FALSE]

(***************************************************************************)
(* The callbacks of the extension                                          *)
(***************************************************************************)
Start ==
    /\ driver.state # "Started"
    /\ driver' = [driver EXCEPT !.state = "Started"]
    /\ UNCHANGED streams

\* configure_device() and request_configuration_change(): the binding gives up its memory
\* before it asks, also when the stream runs and the answer is no.
Reconfigured(d, c) ==
    LET unbound == [d EXCEPT !.bound = FALSE, !.published = FALSE] IN
    IF d.state = "Started" /\ ~d.streaming /\ ConfigValid(c)
    THEN [unbound EXCEPT !.config = c, !.configured = TRUE, !.bound = TRUE]
    ELSE unbound
StartDevice(c) ==
    /\ driver' = Reconfigured(driver, c)
    /\ UNCHANGED streams

\* Busy while the stream runs.
PerformDeviceConfigurationChange(c) ==
    /\ ~driver.streaming
    /\ driver' = Reconfigured(driver, c)
    /\ UNCHANGED streams

\* start_io() of a device that has just been configured, or was before; a stream that has
\* started publishes its first timestamp.
IoStarted(d) ==
    LET started == StreamStarted([d EXCEPT !.published = FALSE]) IN
    IF d.bound THEN [started EXCEPT !.published = started.streaming] ELSE d

\* StartIO configures the device first when its memory is not bound.
StartIO ==
    /\ streams < MaxStreams
    /\ ~driver.streaming
    /\ \/ driver.bound /\ driver' = IoStarted(driver)
       \/ ~driver.bound /\ \E c \in DriverConfigs : driver' = IoStarted(Reconfigured(driver, c))
    /\ streams' = IF driver'.streaming THEN streams + 1 ELSE streams

\* stop_io(), for StopIO and StopDevice
IoStopped(d) ==
    LET e == IF d.streaming THEN StreamStopped(d) ELSE d IN [e EXCEPT !.published = FALSE]
StopIO ==
    /\ driver' = IoStopped(driver)
    /\ UNCHANGED streams

\* Stop: shutdown_driver() stops the stream, then the driver.
Stop ==
    LET e == [IoStopped(driver) EXCEPT !.bound = FALSE] IN
    /\ driver' = IF e.state = "Started"
                 THEN [e EXCEPT !.state = "Stopped", !.configured = FALSE, !.config = NoConfig]
                 ELSE e
    /\ UNCHANGED streams

(***************************************************************************)
(* complete_backend_period(), with k slots of frames in each direction      *)
(***************************************************************************)
\* queue_usb_slots_for_period
PlannedPeriod(d, k) ==
    LET slots == [i \in 1 .. 2 * k |-> IF i % 2 = 1 THEN "capture" ELSE "playback"] IN
    IF d.planner.started THEN UntilFailure(SlotQueued, d, slots) ELSE d

\* complete_persistent_usb_transport_period: playback is not completed if capture fails.
BothCompleted(t) ==
    LET u == P!NextCompleted(t, "capture") IN
    IF P!Errors(u) > P!Errors(t) THEN u ELSE P!NextCompleted(u, "playback")
PersistentPeriod(d, k) ==
    IF d.persistent.started /\ k = d.config.batch
    THEN [d EXCEPT !.persistent = BothCompleted(@)] ELSE d

CompletePeriod(k) ==
    /\ driver.streaming
    /\ driver' = IF driver.config.persistent THEN PersistentPeriod(driver, k)
                 ELSE PlannedPeriod(driver, k)
    /\ IF driver.config.persistent
       THEN LET count == driver'.persistent.count
            IN  count.completions + count.failures <= MaxCompletions
       ELSE driver'.planner.count.slots["capture"] <= MaxQueued
    /\ UNCHANGED streams

\* finish_usb_submit_binding(), which the tools call while the stream runs.
FinishBinding ==
    /\ driver.streaming
    /\ driver' = Finished(driver)
    /\ UNCHANGED streams

Next ==
    \/ Start
    \/ Stop
    \/ \E c \in DriverConfigs : \/ StartDevice(c)
                          \/ PerformDeviceConfigurationChange(c)
    \/ StartIO
    \/ StopIO
    \/ \E k \in 1 .. 2 : CompletePeriod(k)
    \/ FinishBinding

Spec == Init /\ [][Next]_<<driver, streams>>

(***************************************************************************)
(* Properties                                                              *)
(***************************************************************************)
\* The requests in flight are those of the pool, fewer than the completion depth; a stream
\* that has stopped, in whatever way, leaves nothing live; and only the machinery of the
\* stream's own mode is running.
RequestsOwned ==
    /\ P!QueuesOwnThePool
    /\ FifoIsLive(driver.pool, driver.fifo) \/ ~driver.pool.started
    /\ Len(driver.fifo) < driver.config.depth
    /\ driver.streaming => (driver.pool.started <=> ~driver.config.persistent)
    /\ driver.persistent.started => driver.streaming /\ driver.config.persistent
    /\ ~driver.pool.started => driver.fifo = <<>> /\ Busy(driver.pool) = {}

\* While no batch was dropped every slot was submitted once, in order, with the timestamp
\* that goes with its place in the stream, or still waits in its batch; batches are only
\* dropped, and then counted, when the list of a retaining stream is full.
Lossless(d) == d.planner.count.overflows = 0
SlotsSubmittedOnce ==
    /\ driver.failures = 0
    /\ driver.streaming /\ ~driver.config.persistent =>
        IF Lossless(driver)
        THEN /\ EverySlotOnce(driver.planner, driver.pool)
             /\ Consecutive(driver.planner, driver.pool, driver.fifo)
             /\ \A h \in {driver.fifo[i] : i \in DOMAIN driver.fifo} :
                    driver.pool.desc[h.slot].stamp = driver.pool.desc[h.slot].first + 1
             /\ driver.submitted = Len(driver.planner.listed)
        ELSE driver.config.retain /\ Len(driver.planner.listed) = MaxDescriptors

\* The two directions of a stream advance together: every period queues as many slots for
\* the one as for the other, or completes one request of each.
DirectionsInStep ==
    driver.streaming =>
        IF driver.config.persistent
        THEN P!DepthsDivideRing => driver.persistent.dir["capture"].expected
                                   = driver.persistent.dir["playback"].expected
        ELSE driver.planner.count.slots["capture"] - driver.config.capture
             = driver.planner.count.slots["playback"] - driver.config.playback
=============================================================================
