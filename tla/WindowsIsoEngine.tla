-------------------------- MODULE WindowsIsoEngine --------------------------
(***************************************************************************)
(* The persistent isochronous engine of the Windows driver                  *)
(* (windows/driver/OpenA8DJUsb.c): capture and output slots whose requests  *)
(* circulate between the USB targets, their completion routines and the     *)
(* process work item; the stop work item that follows a fatal error; the    *)
(* purge that drains the engine; the PnP callbacks that destroy and restore *)
(* it.  The other callers (the ACX callbacks, the stream work item, the     *)
(* IOCTLs) may start the engine, ask it to stop and purge it at any time.   *)
(*                                                                         *)
(* A section that holds IsoTransportLock and reads nothing another thread   *)
(* writes is one step; an interlocked operation outside the lock is a step  *)
(* of its own.  Submission sequence numbers are kept as `order': the slots  *)
(* of a direction that were submitted and not yet processed, oldest first.  *)
(***************************************************************************)
EXTENDS Integers, Sequences, FiniteSets

CONSTANTS
    SlotCount,      \* OPENA8DJ_ISO_ENGINE_SLOT_COUNT
    RetryLimit,     \* OPENA8DJ_STREAM_TRANSIENT_RETRY_LIMIT (3)
    Workers,        \* the framework threads that may run the process work item
    MaxStarts,      \* bound on the starts of the engine
    MaxPrepares,    \* bound on the PrepareHardware callbacks
    MaxFaults,      \* bound on the USB and framework calls that fail
    MaxOvertaken    \* bound on the submissions that overtake a completion routine

ASSUME EngineConstants ==
    /\ SlotCount \in Nat \ {0}
    /\ RetryLimit \in Nat
    /\ IsFiniteSet(Workers) /\ Workers # {}
    /\ MaxStarts \in Nat /\ MaxPrepares \in Nat \ {0} /\ MaxFaults \in Nat
    /\ MaxOvertaken \in Nat
\* The lock is also held by nobody or by a purge.
ASSUME LockHolders == {"none", "purge"} \cap Workers = {}

VARIABLES
    ctx,        \* the device context: engine words, slots (with the history field sentIn,
                \* the generation that sent the request), counters, work item flags
    bus,        \* the requests that the USB targets hold
    routines,   \* the number of completion routines that run, by slot
    lock,       \* the holder of IsoTransportLock
    workers,    \* the threads in the process work item
    purge,      \* the purge that holds IsoPurgeLock
    threads,    \* the stop work item and the PnP callbacks
    bound,      \* history: starts, prepares and faults so far
    overtaken   \* history: submissions of a slot that its completion routine had not retired

vars == <<ctx, bus, routines, lock, workers, purge, threads, bound, overtaken>>

Directions == {"capture", "output"}
Slots == 1 .. SlotCount
Requests == Directions \X Slots
Purgers == {"stop", "pnp", "other"}
NoWork == [pc |-> "idle", slot |-> 0]
NoPurge == [by |-> "none", step |-> "none", restart |-> FALSE]

FreshSlot ==
    [state |-> "Idle", inFlight |-> FALSE, needsReuse |-> FALSE, gen |-> 0,
     failures |-> 0, outcome |-> "data", sentIn |-> 0]
FreshSlots == [d \in Directions |-> [i \in Slots |-> FreshSlot]]

\* The slots after an allocation that reached the first n of them, capture before output.
Allocated(n) ==
    [d \in Directions |-> [i \in Slots |->
        IF 2 * i - (IF d = "capture" THEN 1 ELSE 0) <= n THEN FreshSlot
        ELSE [FreshSlot EXCEPT !.state = "Uninitialized"]]]

Init ==
    /\ ctx = [state |-> "Stopped", running |-> FALSE, gen |-> 0,
              healthy |-> TRUE, healthyGen |-> 0, draining |-> FALSE,
              slots |-> FreshSlots, order |-> [d \in Directions |-> <<>>],
              outstanding |-> [d \in Directions |-> 0],
              pending |-> FALSE, active |-> FALSE, queued |-> FALSE,
              stopPending |-> FALSE, stopActive |-> FALSE,
              prepared |-> TRUE, stopping |-> FALSE, stopRequested |-> TRUE]
    /\ bus = {}
    /\ routines = [r \in Requests |-> 0]
    /\ lock = "none"
    /\ workers = [w \in Workers |-> NoWork]
    /\ purge = NoPurge
    /\ threads = [stop |-> "idle", pnp |-> "present"]
    /\ bound = [starts |-> 0, prepares |-> 1, faults |-> 0]
    /\ overtaken = 0

(***************************************************************************)
(* Helpers on the device context                                           *)
(***************************************************************************)
Stopping(c) == c.stopRequested \/ c.stopping
ExpectedTeardown(c) == Stopping(c) \/ ~c.prepared \/ c.state = "Stopping"

MaySubmit(c, slot) ==
    /\ c.running /\ c.state = "Running"
    /\ c.prepared /\ ~Stopping(c)
    /\ slot.gen = c.gen

SlotsIdle(c) ==
    \A r \in Requests : c.slots[r[1]][r[2]].state = "Idle" /\ ~c.slots[r[1]][r[2]].inFlight

\* An idle slot keeps no outcome.
WithState(c, d, i, s) ==
    [c EXCEPT !.slots[d][i] =
        IF s = "Idle" THEN [@ EXCEPT !.state = s, !.outcome = "data", !.sentIn = 0]
        ELSE [@ EXCEPT !.state = s]]
PairIdle(c, i) == WithState(WithState(c, "output", i, "Idle"), "capture", i, "Idle")

Drained(c) ==
    /\ \A d \in Directions : c.outstanding[d] = 0
    /\ ~c.pending /\ ~c.active
    /\ ~c.stopPending /\ ~c.stopActive /\ ~c.draining
    /\ c.state = "Stopped"
    /\ SlotsIdle(c)

QueueProcess(c) == [c EXCEPT !.pending = TRUE, !.queued = @ \/ ~c.active]

\* Defects used to test the properties: the failing engine does not ask for its purge, or
\* calls itself stopped at once.
FatalStopWithoutWork(c) ==
    [c EXCEPT !.stopRequested = TRUE, !.state = "Stopping", !.running = FALSE,
              !.gen = IF c.running THEN @ + 1 ELSE @]
FatalStopAtOnce(c) ==
    [c EXCEPT !.stopRequested = TRUE, !.state = "Stopped", !.running = FALSE,
              !.gen = IF c.running THEN @ + 1 ELSE @, !.stopPending = TRUE]

FatalStop(c) ==
    [c EXCEPT !.stopRequested = TRUE, !.state = "Stopping", !.running = FALSE,
              !.gen = IF c.running THEN @ + 1 ELSE @, !.stopPending = TRUE]

FatalIf(condition, c) == IF condition THEN FatalStop(c) ELSE c

\* A failure of a slot is counted, and stops the engine at the limit.
Strike(c, d, i) ==
    FatalIf(c.slots[d][i].failures >= RetryLimit, [c EXCEPT !.slots[d][i].failures = @ + 1])

(***************************************************************************)
(* SubmitPersistentIsoSlot.  A result is what the framework calls return:   *)
(* the request is not reusable, cannot be formatted, is refused by the      *)
(* target, or is sent.                                                      *)
(***************************************************************************)
SubmitResults(c, d, i) ==
    IF ~MaySubmit(c, c.slots[d][i]) THEN {"cancelled"}
    ELSE {"sent"} \cup
         (IF bound.faults = MaxFaults THEN {}
          ELSE {"unformatted", "refused"} \cup
               (IF c.slots[d][i].needsReuse THEN {"unusable"} ELSE {}))

Sent(slot, gen) ==
    [slot EXCEPT !.state = "Submitted", !.needsReuse = FALSE, !.inFlight = TRUE,
                 !.outcome = "data", !.sentIn = gen]

Submitted(c, d, i, result) ==
    CASE result \in {"cancelled", "unusable", "unformatted"} ->
           [WithState(c, d, i, "Idle") EXCEPT
                     !.slots[d][i].needsReuse =
                         IF result = "cancelled" THEN @ ELSE result = "unformatted"]
      [] result = "refused" ->
           QueueProcess([c EXCEPT
               !.slots[d][i] = [@ EXCEPT !.state = "Completed", !.needsReuse = TRUE,
                                         !.inFlight = FALSE, !.outcome = "error"],
               !.order[d] = Append(@, i)])
      [] result = "sent" ->
           [c EXCEPT
               !.slots[d][i] = Sent(@, c.gen),
               !.order[d] = Append(@, i),
               !.outstanding[d] = @ + 1]

\* What a submission does to the bus and to the history variables.
SendTo(d, i, result) ==
    /\ bus' = IF result = "sent" THEN bus \cup {<<d, i>>} ELSE bus
    /\ IF result \in {"sent", "refused"} /\ routines[<<d, i>>] > 0
       THEN overtaken < MaxOvertaken /\ overtaken' = overtaken + 1
       ELSE UNCHANGED overtaken
Faulted(isFault) == bound' = [bound EXCEPT !.faults = @ + (IF isFault THEN 1 ELSE 0)]
IsFault(result) == result \in {"unusable", "unformatted", "refused", "unprepared", "lost"}
MayFail == bound.faults < MaxFaults

(***************************************************************************)
(* EvtPersistentIsoComplete.  The USB target hands a request back and the   *)
(* completion routine publishes Completed and NeedsReuse.  From then on the *)
(* process work item may see the slot, while the routine still has to       *)
(* retire the request (InFlight and the counter) and to queue the work.     *)
(* These are one step: a work item that runs in between finds its slot      *)
(* anyway, and an item that becomes inactive in between is queued twice     *)
(* rather than once.                                                        *)
(***************************************************************************)
Outcomes(d) ==
    (IF MayFail \/ lock = "purge" THEN {"error"} ELSE {}) \cup
    {"data"} \cup (IF d = "capture" THEN {"empty"} ELSE {})

Answered(slot, outcome) ==
    [slot EXCEPT !.outcome = outcome, !.needsReuse = TRUE,
                 !.state = IF @ = "Submitted" THEN "Completed" ELSE @]

Complete(d, i, outcome) ==
    /\ <<d, i>> \in bus
    /\ outcome \in Outcomes(d)
    /\ bus' = bus \ {<<d, i>>}
    /\ ctx' = [ctx EXCEPT !.slots[d][i] = Answered(@, outcome)]
    /\ routines' = [routines EXCEPT ![<<d, i>>] = @ + 1]
    /\ Faulted(outcome = "error" /\ lock # "purge")
    /\ UNCHANGED <<lock, workers, purge, threads, overtaken>>

\* Defect used to test the properties: the slot stays in flight.
RetiredInFlight(c, d, i) ==
    IF c.slots[d][i].inFlight THEN [c EXCEPT !.outstanding[d] = @ - 1] ELSE c

Retired(c, d, i) ==
    IF c.slots[d][i].inFlight
    THEN [c EXCEPT !.slots[d][i].inFlight = FALSE, !.outstanding[d] = @ - 1]
    ELSE c

RetireRequest(d, i) ==
    /\ routines[<<d, i>>] > 0
    /\ ctx' = QueueProcess(Retired(ctx, d, i))
    /\ routines' = [routines EXCEPT ![<<d, i>>] = @ - 1]
    /\ UNCHANGED <<bus, lock, workers, purge, threads, bound, overtaken>>

(***************************************************************************)
(* The process work item                                                   *)
(***************************************************************************)
Worker(w, pc, slot) == workers' = [workers EXCEPT ![w] = [pc |-> pc, slot |-> slot]]
At(w, pc) == workers[w].pc = pc
OnlyContext == UNCHANGED <<bus, routines, purge, threads, bound, overtaken>>

Dispatch(w) ==
    /\ At(w, "idle") /\ ctx.queued
    /\ ctx' = [ctx EXCEPT !.queued = FALSE, !.active = TRUE]
    /\ Worker(w, IF ctx.active THEN "idle" ELSE "clear", 0)
    /\ OnlyContext /\ UNCHANGED lock

ClearPending(w) ==
    /\ At(w, "clear")
    /\ ctx' = [ctx EXCEPT !.pending = FALSE]
    /\ Worker(w, "lock", 0)
    /\ OnlyContext /\ UNCHANGED lock

AcquireTransport(w) ==
    /\ At(w, "lock") /\ lock = "none"
    /\ lock' = w
    /\ Worker(w, "output", 0)
    /\ OnlyContext /\ UNCHANGED ctx

\* FindCompletedPersistentIsoSlot: the oldest submission of the direction has completed and,
\* for a capture, the paired output slot is free.
Found(c, d) ==
    /\ c.order[d] # <<>>
    /\ LET i == Head(c.order[d])
       IN /\ c.slots[d][i].state = "Completed"
          /\ d = "capture" => c.slots["output"][i].state = "Idle"

Judged(c, d, i) ==
    IF c.slots[d][i].outcome # "error" THEN [c EXCEPT !.slots[d][i].failures = 0]
    ELSE IF ExpectedTeardown(c) THEN c ELSE Strike(c, d, i)

\* An output slot is released whatever its outcome.
ProcessOutput(w) ==
    /\ At(w, "output")
    /\ IF Found(ctx, "output")
       THEN LET i == Head(ctx.order["output"])
            IN /\ ctx' = WithState(Judged([ctx EXCEPT !.order["output"] = Tail(@)],
                                          "output", i), "output", i, "Idle")
               /\ UNCHANGED workers
       ELSE /\ Worker(w, "capture", 0)
            /\ UNCHANGED ctx
    /\ OnlyContext /\ UNCHANGED lock

\* A capture slot takes its output slot along.  Its data may be malformed, or the last of too
\* many empty captures.
ProcessCapture(w) ==
    /\ At(w, "capture") /\ Found(ctx, "capture")
    /\ LET i == Head(ctx.order["capture"])
           outcome == ctx.slots["capture"][i].outcome
           taken == WithState(WithState([ctx EXCEPT !.order["capture"] = Tail(@)],
                                        "capture", i, "Processing"),
                              "output", i, "Processing")
           judged == Judged(taken, "capture", i)
       IN \/ /\ outcome # "error" /\ MayFail
             /\ \/ ctx' = FatalIf(~Stopping(ctx), PairIdle(taken, i))
                \/ /\ outcome = "empty"
                   /\ ctx' = FatalStop(PairIdle(taken, i))
             /\ Faulted(TRUE)
             /\ UNCHANGED workers
          \/ /\ ~MaySubmit(judged, judged.slots["capture"][i])
             /\ ctx' = PairIdle(judged, i)
             /\ UNCHANGED <<workers, bound>>
          \/ /\ MaySubmit(judged, judged.slots["capture"][i])
             /\ IF outcome = "data"
                THEN /\ ctx' = judged
                     /\ Worker(w, "sendOutput", i)
                ELSE /\ ctx' = WithState(judged, "output", i, "Idle")
                     /\ Worker(w, "resubmit", i)
             /\ UNCHANGED bound
    /\ UNCHANGED <<bus, routines, lock, purge, threads, overtaken>>

\* A failure to prepare or to submit the paired output stops the engine.
SendOutput(w) ==
    /\ At(w, "sendOutput")
    /\ LET i == workers[w].slot
       IN \E result \in SubmitResults(ctx, "output", i) \cup
                        (IF MayFail THEN {"unprepared"} ELSE {}) :
            /\ IF result = "sent"
               THEN /\ ctx' = Submitted(ctx, "output", i, result)
                    /\ Worker(w, "resubmit", i)
               ELSE /\ ctx' = FatalStop(PairIdle(
                          IF result = "unprepared" THEN ctx
                          ELSE Submitted(ctx, "output", i, result), i))
                    /\ Worker(w, "capture", 0)
            /\ SendTo("output", i, result)
            /\ Faulted(IsFault(result))
    /\ UNCHANGED <<routines, lock, purge, threads>>

Resubmit(w) ==
    /\ At(w, "resubmit")
    /\ LET i == workers[w].slot
       IN \E result \in SubmitResults(ctx, "capture", i) \cup
                        (IF MayFail THEN {"unprepared"} ELSE {}) :
            /\ ctx' =
                 IF result = "unprepared"
                 THEN FatalStop(WithState(ctx, "capture", i, "Idle"))
                 ELSE LET c == Submitted(ctx, "capture", i, result)
                      IN IF result \in {"sent", "cancelled"} THEN c
                         ELSE Strike(c, "capture", i)
            /\ SendTo("capture", i, result)
            /\ Faulted(IsFault(result))
    /\ Worker(w, "capture", 0)
    /\ UNCHANGED <<routines, lock, purge, threads>>

ReleaseTransport(w) ==
    /\ At(w, "capture") /\ ~Found(ctx, "capture")
    /\ lock' = "none"
    /\ Worker(w, IF ctx.pending THEN "clear" ELSE "finish", 0)
    /\ OnlyContext /\ UNCHANGED ctx

FinishProcess(w) ==
    /\ At(w, "finish") /\ lock = "none"
    /\ ctx' = [ctx EXCEPT !.active = FALSE]
    /\ Worker(w, "recheck", 0)
    /\ OnlyContext /\ UNCHANGED lock

\* Defect used to test the properties: work that came after the last look is left alone.
LeavePending(c) == c

\* The work that a routine published after the last look, while the item still was active.
RequeuePending(c) == [c EXCEPT !.queued = @ \/ c.pending]
RecheckPending(w) ==
    /\ At(w, "recheck")
    /\ ctx' = RequeuePending(ctx)
    /\ Worker(w, "idle", 0)
    /\ OnlyContext /\ UNCHANGED lock

(***************************************************************************)
(* PurgeIsoTargets, by a caller that takes IsoPurgeLock                     *)
(***************************************************************************)
Thread(t, pc) == threads' = [threads EXCEPT ![t] = pc]
OnlyThreads == UNCHANGED <<bus, routines, lock, workers, purge, bound, overtaken>>
OnlyPurge == UNCHANGED <<bus, routines, workers, threads, bound, overtaken>>

\* A purge that would restart the targets is refused once the device is stopping.
PurgeRefused(c) == c.stopping \/ ~c.prepared
PurgeBy(t, restart) == purge' = [by |-> t, step |-> "enter", restart |-> restart]

\* Every other caller asks for a stop before it purges.
PurgeByCaller ==
    /\ purge.by = "none" /\ ctx.stopRequested
    /\ IF PurgeRefused(ctx)
       THEN /\ ctx' = [ctx EXCEPT !.healthy = FALSE]
            /\ UNCHANGED purge
       ELSE /\ PurgeBy("other", TRUE)
            /\ UNCHANGED ctx
    /\ OnlyPurge /\ UNCHANGED lock

Closed(c) ==
    [c EXCEPT !.draining = TRUE, !.healthy = FALSE, !.state = "Stopping",
              !.running = FALSE, !.gen = IF c.running THEN @ + 1 ELSE @]

EnterPurge ==
    /\ purge.step = "enter" /\ lock = "none"
    /\ ctx' = Closed(ctx)
    /\ lock' = "purge"
    /\ purge' = [purge EXCEPT !.step = "target"]
    /\ OnlyPurge

ProcessIdle == ~ctx.queued /\ \A w \in Workers : At(w, "idle")

\* WdfIoTargetPurgeIoAndWait: no request is left and no completion routine runs.
TargetsDrained == bus = {} /\ \A r \in Requests : routines[r] = 0
PurgeTargets ==
    /\ purge.step = "target" /\ TargetsDrained
    /\ lock' = "none"
    /\ purge' = [purge EXCEPT !.step = "flush"]
    /\ OnlyPurge /\ UNCHANGED ctx

\* Defect used to test the properties: the process work item is not flushed.
NoFlush == TRUE

ProcessFlushed == ProcessIdle
FlushProcess ==
    /\ purge.step = "flush" /\ ProcessFlushed
    /\ purge' = [purge EXCEPT !.step = "publish"]
    /\ OnlyPurge /\ UNCHANGED <<ctx, lock>>

Quiescent(c) ==
    /\ \A d \in Directions : c.outstanding[d] = 0
    /\ ~c.pending /\ ~c.active
    /\ SlotsIdle(c)

\* The state after the pipe resets; `restarted' when they and the restart of the targets
\* succeeded.
Published(c, restarted) ==
    LET stopped == [c EXCEPT !.draining = FALSE,
                             !.state = IF Quiescent(c) THEN "Stopped" ELSE @]
    IN IF restarted THEN [stopped EXCEPT !.healthy = TRUE, !.healthyGen = c.gen]
       ELSE stopped

PublishPurge ==
    /\ purge.step = "publish" /\ lock = "none"
    /\ LET restart == Quiescent(ctx) /\ purge.restart /\ ~PurgeRefused(ctx)
       IN \E restarted \in IF restart THEN {TRUE} \cup (IF MayFail THEN {FALSE} ELSE {})
                           ELSE {FALSE} :
            /\ ctx' = Published(ctx, restarted)
            /\ Faulted(restart /\ ~restarted)
    /\ threads' = [t \in DOMAIN threads |-> IF t = purge.by THEN "after" ELSE threads[t]]
    /\ purge' = NoPurge
    /\ UNCHANGED <<bus, routines, lock, workers, overtaken>>

(***************************************************************************)
(* The stop work item                                                      *)
(***************************************************************************)
BeginStop ==
    /\ threads["stop"] = "idle" /\ ctx.stopPending
    /\ ctx' = [ctx EXCEPT !.stopActive = TRUE]
    /\ Thread("stop", "purge")
    /\ OnlyThreads
PurgeByStop ==
    /\ threads["stop"] = "purge" /\ purge.by = "none"
    /\ IF PurgeRefused(ctx)
       THEN /\ ctx' = [ctx EXCEPT !.healthy = FALSE]
            /\ Thread("stop", "after")
            /\ UNCHANGED purge
       ELSE /\ PurgeBy("stop", TRUE)
            /\ Thread("stop", "purging")
            /\ UNCHANGED ctx
    /\ UNCHANGED <<bus, routines, lock, workers, bound, overtaken>>

StopEnded(c) == [c EXCEPT !.stopPending = FALSE, !.stopActive = FALSE]
EndStop ==
    /\ threads["stop"] = "after" /\ lock = "none"
    /\ ctx' = StopEnded(ctx)
    /\ Thread("stop", "idle")
    /\ OnlyThreads

(***************************************************************************)
(* StartPersistentIsoEngine, and the callers that allow it and forbid it    *)
(***************************************************************************)
\* Defect used to test the properties: the start looks at the health latch alone.
CanStartHealthy(c) == c.healthy

CanStart(c) ==
    /\ c.healthy /\ c.healthyGen = c.gen /\ c.state = "Stopped"
    /\ \A d \in Directions : c.outstanding[d] = 0
    /\ ~c.pending /\ ~c.active /\ ~c.stopPending /\ ~c.stopActive
    /\ \A r \in Requests : c.slots[r[1]][r[2]].state = "Idle"

Primed(c) ==
    [c EXCEPT !.gen = @ + 1, !.order = [d \in Directions |-> <<>>],
              !.slots = [d \in Directions |-> [i \in Slots |->
                            [@[d][i] EXCEPT !.gen = c.gen + 1, !.failures = 0]]]]

\* The first n capture slots are sent one after the other.
CapturesSent(c, n) ==
    [c EXCEPT !.slots["capture"] = [i \in Slots |-> IF i <= n THEN Sent(@[i], c.gen) ELSE @[i]],
              !.order["capture"] = @ \o [i \in 1 .. n |-> i],
              !.outstanding["capture"] = @ + n]

\* The frame query or the preparation fails, the n-th capture is not submitted, or all are.
Start ==
    /\ lock = "none" /\ bound.starts < MaxStarts
    /\ CanStart(ctx)
    /\ LET ready == [Primed(ctx) EXCEPT !.running = TRUE, !.state = "Running"]
           mayRun == MaySubmit(ready, ready.slots["capture"][1])
       IN \/ /\ MayFail
             /\ ctx' \in {Primed(ctx), FatalStop(Primed(ctx))}
             /\ bound' = [bound EXCEPT !.starts = @ + 1, !.faults = @ + 1]
             /\ UNCHANGED bus
          \/ \E n \in IF mayRun THEN Slots ELSE {1} :
                LET before == CapturesSent(ready, n - 1)
                IN \E result \in SubmitResults(before, "capture", n) \ {"sent"} :
                      /\ ctx' = FatalStop(Submitted(before, "capture", n, result))
                      /\ bus' = bus \cup {<<"capture", i>> : i \in 1 .. (n - 1)}
                      /\ bound' = [bound EXCEPT !.starts = @ + 1,
                                      !.faults = @ + (IF IsFault(result) THEN 1 ELSE 0)]
          \/ /\ mayRun
             /\ ctx' = CapturesSent(ready, SlotCount)
             /\ bus' = bus \cup {<<"capture", i>> : i \in Slots}
             /\ bound' = [bound EXCEPT !.starts = @ + 1]
    /\ UNCHANGED <<routines, lock, workers, purge, threads, overtaken>>

\* Run withdraws the stop request under IsoPurgeLock; Pause and the callers that are going to
\* purge make one at any time.
Run ==
    /\ purge.by = "none" /\ ~PurgeRefused(ctx) /\ ctx.stopRequested
    /\ bound.starts < MaxStarts
    /\ ctx' = [ctx EXCEPT !.stopRequested = FALSE]
    /\ OnlyThreads /\ UNCHANGED threads
RequestStop ==
    /\ ~ctx.stopRequested
    /\ ctx' = [ctx EXCEPT !.stopRequested = TRUE]
    /\ OnlyThreads /\ UNCHANGED threads

(***************************************************************************)
(* The PnP callbacks                                                       *)
(***************************************************************************)
ReleaseHardware ==
    /\ threads["pnp"] = "present" /\ purge.by = "none"
    /\ ctx' = [ctx EXCEPT !.stopping = TRUE, !.prepared = FALSE, !.stopRequested = TRUE]
    /\ PurgeBy("pnp", FALSE)
    /\ Thread("pnp", "purging")
    /\ UNCHANGED <<bus, routines, lock, workers, bound, overtaken>>

\* Defect used to test the properties: the stop work item is not flushed.
StopUnflushed == TRUE

\* The flushes of the process and stop work items, and DestroyIsoTransportResources.
StopFlushed == threads["stop"] = "idle" /\ ~ctx.stopPending
FlushForDestroy ==
    /\ threads["pnp"] = "after" /\ ProcessIdle
    /\ Thread("pnp", "flushed")
    /\ OnlyThreads /\ UNCHANGED ctx
DestroyTransport ==
    /\ threads["pnp"] = "flushed" /\ StopFlushed /\ lock = "none"
    /\ IF Drained(ctx)
       THEN /\ ctx' = [ctx EXCEPT !.slots = Allocated(0),
                                  !.order = [d \in Directions |-> <<>>]]
            /\ Thread("pnp", "released")
       ELSE /\ Thread("pnp", "refused")
            /\ UNCHANGED ctx
    /\ OnlyThreads

PrepareHardware ==
    /\ threads["pnp"] = "released" /\ bound.prepares < MaxPrepares
    /\ ctx' = [ctx EXCEPT !.stopping = FALSE, !.prepared = TRUE, !.slots = FreshSlots,
                          !.healthy = TRUE, !.healthyGen = ctx.gen]
    /\ Thread("pnp", "present")
    /\ bound' = [bound EXCEPT !.prepares = @ + 1]
    /\ UNCHANGED <<bus, routines, lock, workers, purge, overtaken>>

\* An allocation fails, or one of the steps after the last; the framework calls
\* ReleaseHardware all the same.  The health latch that such a step leaves set has no reader
\* before the purge of ReleaseHardware clears it: no stream and no other caller exists yet.
PrepareFails ==
    /\ threads["pnp"] = "released" /\ bound.prepares < MaxPrepares /\ MayFail
    /\ \E n \in 0 .. 2 * SlotCount : ctx' = [ctx EXCEPT !.slots = Allocated(n)]
    /\ Thread("pnp", "present")
    /\ bound' = [bound EXCEPT !.prepares = @ + 1, !.faults = @ + 1]
    /\ UNCHANGED <<bus, routines, lock, workers, purge, overtaken>>

UsbStep == \E r \in Requests, o \in {"data", "empty", "error"} : Complete(r[1], r[2], o)
CompletionStep == \E r \in Requests : RetireRequest(r[1], r[2])
WorkerStep(w) ==
    \/ Dispatch(w) \/ ClearPending(w) \/ AcquireTransport(w)
    \/ ProcessOutput(w) \/ ProcessCapture(w) \/ SendOutput(w) \/ Resubmit(w)
    \/ ReleaseTransport(w) \/ FinishProcess(w) \/ RecheckPending(w)
PurgeStep == EnterPurge \/ PurgeTargets \/ FlushProcess \/ PublishPurge
StopStep == BeginStop \/ PurgeByStop \/ EndStop
CallerStep == Run \/ Start \/ RequestStop \/ PurgeByCaller
PnpStep ==
    \/ ReleaseHardware \/ FlushForDestroy \/ DestroyTransport
    \/ PrepareHardware \/ PrepareFails

Next ==
    \/ UsbStep \/ CompletionStep
    \/ \E w \in Workers : WorkerStep(w)
    \/ PurgeStep \/ StopStep \/ CallerStep \/ PnpStep

Spec == Init /\ [][Next]_vars

\* The USB target completes or cancels every request, routines and work items run, and the
\* stop work item gets a wait lock that becomes free again and again, although other callers
\* purge.
Fairness ==
    /\ \A r \in Requests :
         /\ WF_vars(\E o \in {"data", "empty", "error"} : Complete(r[1], r[2], o))
         /\ WF_vars(RetireRequest(r[1], r[2]))
    /\ \A w \in Workers : WF_vars(WorkerStep(w))
    /\ WF_vars(PurgeStep)
    /\ SF_vars(StopStep)
    /\ WF_vars(FlushForDestroy \/ DestroyTransport)

FairSpec == Spec /\ Fairness

(***************************************************************************)
(* Properties                                                              *)
(***************************************************************************)
TypeOK ==
    /\ ctx.state \in {"Stopped", "Running", "Stopping"}
    /\ ctx.gen \in Nat /\ ctx.healthyGen \in 0 .. ctx.gen
    /\ \A r \in Requests : LET s == ctx.slots[r[1]][r[2]]
         IN /\ s.state \in {"Uninitialized", "Idle", "Submitted", "Completed", "Processing"}
            /\ s.inFlight \in BOOLEAN /\ s.needsReuse \in BOOLEAN
            /\ s.gen \in 0 .. ctx.gen /\ s.sentIn \in 0 .. ctx.gen
            /\ s.failures \in 0 .. RetryLimit + 1
            /\ s.outcome \in {"data", "empty", "error"}
    /\ \A d \in Directions : ctx.order[d] \in Seq(Slots) /\ ctx.outstanding[d] \in Nat
    /\ bus \subseteq Requests
    /\ routines \in [Requests -> Nat]
    /\ overtaken \in 0 .. MaxOvertaken
    /\ lock \in Workers \cup {"none", "purge"}
    /\ purge.by \in Purgers \cup {"none"}
    /\ purge.step \in {"none", "enter", "target", "flush", "publish"}
    /\ threads["stop"] \in {"idle", "purge", "purging", "after"}
    /\ threads["pnp"] \in {"present", "purging", "after", "flushed", "released", "refused"}

\* The outstanding counters, which the start and the drain rely on, count the requests that no
\* completion routine has retired, unless a slot was resubmitted under its routine; and no
\* counter is ever negative, which PersistentIsoDecrementOutstanding asserts.
OutstandingExact ==
    /\ TypeOK
    /\ overtaken = 0 => \A d \in Directions :
        ctx.outstanding[d] = Cardinality({i \in Slots : ctx.slots[d][i].inFlight})

\* A stopped engine is quiet: no request is on the bus, no completion routine is running, and
\* no slot is waiting to be processed.  DestroyIsoTransportResources deletes the requests then.
StoppedIsQuiet ==
    ctx.state = "Stopped" =>
        /\ bus = {}
        /\ \A r \in Requests : /\ routines[r] = 0
                              /\ ctx.slots[r[1]][r[2]].state \in {"Idle", "Uninitialized"}

\* The counts that a purge and a start look at are those of the requests, and an engine that
\* counts as stopped has none.
RequestsAccounted == OutstandingExact /\ StoppedIsQuiet

\* PrepareHardware reached every slot.
AllAllocated(c) == \A r \in Requests : c.slots[r[1]][r[2]].state # "Uninitialized"

\* ReleaseHardware destroys the transport and goes on to reset the pipes, whatever happened
\* since PrepareHardware, unless a slot was resubmitted under its completion routine.
ReleaseResetsPipes == overtaken = 0 => threads["pnp"] # "refused"

\* The same, for a transport that PrepareHardware allocated completely.
ReleaseSucceeds == AllAllocated(ctx) => ReleaseResetsPipes

\* Every request that the bus holds while the engine runs belongs to the running generation:
\* a stop and a new start never adopt each other's requests.
GenerationFence ==
    ctx.running => \A r \in bus : ctx.slots[r[1]][r[2]].sentIn = ctx.gen

\* A completion is never stranded: when no work is under way for it, the oldest slot of a
\* direction is not one that could be processed.
NoStrandedCompletion ==
    (ProcessIdle /\ \A r \in Requests : routines[r] = 0) =>
        \A d \in Directions : ~Found(ctx, d)

\* Every purge of a transport that is allocated completely reaches Stopped, the drain barrier
\* is complete, unless a slot was resubmitted under its completion routine: then the
\* outstanding count leaks and no purge drains.
OrderedPurgeDrains ==
    [][PublishPurge /\ overtaken = 0 /\ AllAllocated(ctx) => ctx'.state = "Stopped"]_vars

\* An engine that is stopping comes to a stop, whoever asked for it and whatever failed,
\* unless a slot was resubmitted under its completion routine or ReleaseHardware gave up on
\* the transport; and ReleaseHardware has a result: again and again neither is under way.
\* Neither the purges nor the flushes wait for each other in a circle.
Settled ==
    /\ ctx.state # "Stopping" \/ overtaken > 0
    /\ threads["pnp"] \notin {"purging", "after", "flushed"}
StoppingEnds == []<>(Settled \/ threads["pnp"] = "refused")
=============================================================================
