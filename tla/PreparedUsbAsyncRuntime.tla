----------------------- MODULE PreparedUsbAsyncRuntime ----------------------
(***************************************************************************)
(* PreparedUsbAsyncRuntime (core/src/prepared_usb_async_runtime.cpp) behind *)
(* the C bridge that the macOS engine uses                                  *)
(* (src/hal/OpenA8DJPreparedRuntimeBridge.mm).  Every stream session has a  *)
(* bridge of its own: it is created with a new pool when streaming starts   *)
(* and destroyed before the next one is created.  The USB stack outlives    *)
(* the sessions and completes handles of any of them.                       *)
(***************************************************************************)
EXTENDS UsbRequestPool

CONSTANTS
    CaptureSize, PlaybackSize,   \* the sizes the configuration gives each direction
    WrongSize,                   \* a size that matches neither
    MaxAccepted,                 \* bound on the accepted submissions of a behaviour
    MaxRefused                   \* bound on the refused calls of one session

ASSUME RuntimeConstants ==
    /\ {CaptureSize, PlaybackSize, WrongSize} \subseteq Nat \ {0}
    /\ WrongSize \notin {CaptureSize, PlaybackSize}
    /\ MaxAccepted \in Nat /\ MaxRefused \in Nat
    /\ MaxAccepted <= MaxGen

VARIABLES
    runtime,     \* the runtime of the current bridge
    holder,      \* history: the submission in each slot of the current pool
    submissions, \* history: the number of accepted submissions
    issued,      \* the handles the USB stack holds, each with its submission
    ended,       \* history: the submissions of earlier sessions
    answer       \* history: the last completion: its submission, the one it retired

runtimeVars == <<runtime, holder, submissions, issued, ended, answer>>

NoRuntimeCounts == [submits |-> 0, completions |-> 0, cancels |-> 0, failures |-> 0,
                    liveLimit |-> 0, mismatches |-> 0, invalid |-> 0]
NoBridge == [started |-> FALSE, maxLive |-> 0, pool |-> NewPool, count |-> NoRuntimeCounts]
NoAnswer == [id |-> 0, retired |-> 0]

SizeFor(dir) == IF dir = "capture" THEN CaptureSize ELSE PlaybackSize
MatchesConfig(d) == d.size = SizeFor(d.dir)

Refusals == runtime.count.failures + runtime.count.invalid
            + runtime.pool.count.invalid + runtime.pool.count.stale

RuntimeInit ==
    /\ runtime = NoBridge
    /\ holder = [s \in SlotIds |-> 0]
    /\ submissions = 0
    /\ issued = {}
    /\ ended = {}
    /\ answer = NoAnswer

\* start() refuses a live limit above the number of slots.
ValidLimit(maxLive, slots) == maxLive \in 1 .. slots

\* start(): the pool is built anew, so every generation starts again at 1.
StartedPool(slots) == PoolStart(NewPool, slots)

\* BridgeCreate: a new runtime, started; it has no bridge before.
BridgeCreate(slots, maxLive) ==
    /\ ~runtime.started
    /\ ValidPoolConfig(slots)
    /\ ValidLimit(maxLive, slots)
    /\ runtime' = [started |-> TRUE, maxLive |-> maxLive, pool |-> StartedPool(slots),
                   count |-> NoRuntimeCounts]
    /\ holder' = [s \in SlotIds |-> 0]
    /\ ended' = 1 .. submissions
    /\ UNCHANGED <<submissions, issued, answer>>

\* Defect used to test the properties: the cancelled requests are not counted.
CancelledUncounted(r) == [r EXCEPT !.pool = PoolCancelAll(@)]

\* cancel_all() of the runtime.
CancelledRuntime(r) ==
    [r EXCEPT !.pool = PoolCancelAll(@), !.count.cancels = @ + Cardinality(Busy(r.pool))]

\* BridgeDestroy: stop() cancels what is live and closes the pool.
BridgeDestroy ==
    /\ runtime.started
    /\ runtime' = [CancelledRuntime(runtime) EXCEPT !.started = FALSE, !.pool = PoolStop(@)]
    /\ UNCHANGED <<holder, submissions, issued, ended, answer>>

\* BridgeCancelAll, when the engine stops streaming.
BridgeCancelAll ==
    /\ runtime.started
    /\ runtime' = CancelledRuntime(runtime)
    /\ UNCHANGED <<holder, submissions, issued, ended, answer>>

\* live_requests has reached the configured limit.
AtLiveLimit(r) == r.pool.count.live >= r.maxLive

\* submit(): its refusals, in the order the code makes them.
CanAccept(r, d) == /\ r.started
                   /\ MatchesConfig(d)
                   /\ ~AtLiveLimit(r)
                   /\ CanSubmit(r.pool)
RefuseSubmit(r, d) ==
    LET failed == [r EXCEPT !.count.failures = @ + 1] IN
    IF ~r.started THEN failed
    ELSE IF ~MatchesConfig(d) THEN [failed EXCEPT !.count.mismatches = @ + 1]
    ELSE IF AtLiveLimit(r) THEN [failed EXCEPT !.count.liveLimit = @ + 1]
    ELSE [failed EXCEPT !.pool = PoolSubmitRefused(@)]

BridgeQueueSubmit(d) ==
    LET s == FreeSlot(runtime.pool) IN
    /\ submissions < MaxAccepted
    /\ CanAccept(runtime, d)
    /\ runtime' = [runtime EXCEPT !.pool = PoolSubmitAt(@, s, d), !.count.submits = @ + 1]
    /\ submissions' = submissions + 1
    /\ holder' = [holder EXCEPT ![s] = submissions + 1]
    /\ issued' = issued \cup {[handle |-> HandleOf(runtime.pool, s), id |-> submissions + 1]}
    /\ UNCHANGED <<ended, answer>>

BridgeSubmitRefused(d) ==
    /\ ~CanAccept(runtime, d)
    /\ Refusals < MaxRefused
    /\ runtime' = RefuseSubmit(runtime, d)
    /\ UNCHANGED <<holder, submissions, issued, ended, answer>>

\* BridgeComplete, called by the completion handler of the transfer that holds the handle.
BridgeComplete(t) ==
    LET accepted == runtime.started /\ Accepts(runtime.pool, t.handle) IN
    /\ accepted \/ Refusals < MaxRefused
    /\ runtime' = IF ~runtime.started
                  THEN [runtime EXCEPT !.count.invalid = @ + 1]
                  ELSE [runtime EXCEPT !.pool = PoolComplete(@, t.handle),
                                       !.count.completions = IF accepted THEN @ + 1 ELSE @]
    /\ answer' = [id |-> t.id, retired |-> IF accepted THEN holder[t.handle.slot] ELSE 0]
    /\ UNCHANGED <<holder, submissions, issued, ended>>

RuntimeNext ==
    \/ \E slots \in SlotIds \cup {MaxSlots}, maxLive \in 1 .. MaxSlots : BridgeCreate(slots, maxLive)
    \/ BridgeDestroy
    \/ BridgeCancelAll
    \/ \E d \in [dir : Directions, size : {CaptureSize, PlaybackSize, WrongSize}] :
          BridgeQueueSubmit(d) \/ BridgeSubmitRefused(d)
    \/ \E t \in issued : BridgeComplete(t)

RuntimeSpec == RuntimeInit /\ [][RuntimeNext]_runtimeVars

(***************************************************************************)
(* Properties                                                              *)
(***************************************************************************)
RuntimeTypeOK ==
    /\ runtime.started \in BOOLEAN
    /\ runtime.maxLive \in 0 .. MaxSlots
    /\ runtime.pool.slots \in 0 .. MaxSlots
    /\ runtime.pool.count.live \in 0 .. MaxSlots
    /\ runtime.pool.gen \in [SlotIds -> Generations]
    /\ holder \in [SlotIds -> 0 .. MaxAccepted]
    /\ issued \subseteq [handle : Handles, id : 1 .. MaxAccepted]
    /\ ended \subseteq 1 .. MaxAccepted

\* completion_owned_lifecycle: the runtime's own counters, kept apart from the pool's,
\* account for every request: submitted is completed, cancelled or still in a slot.
\* preallocated_only: because start() refuses a limit above the number of slots, the limit
\* is always reached before the pool is full, and the pool never falls back to allocation.
LifecycleOwned ==
    /\ RuntimeTypeOK
    /\ runtime.pool.count.fallbacks = 0
    /\ runtime.count.submits = runtime.count.completions + runtime.count.cancels
                               + Cardinality(Busy(runtime.pool))
    /\ ~runtime.started => Busy(runtime.pool) = {}

\* Within a session a completion retires the request its handle was issued for, however
\* late or often it is delivered.
SessionCompletionsMatch ==
    answer.id \notin ended /\ answer.retired # 0 => answer.retired = answer.id
=============================================================================
