--------------------- MODULE PreparedUsbRuntimeSubmitter --------------------
(***************************************************************************)
(* PreparedUsbRuntimeSubmitter (core/src/prepared_usb_runtime_submit.cpp):  *)
(* a planner and a request pool behind one interface.  Every descriptor the *)
(* planner lists is submitted before a call returns; at the limit of live   *)
(* requests the oldest is completed to make room.                           *)
(***************************************************************************)
EXTENDS UsbSubmitPlanner

CONSTANTS
    SubmitterConfigs,   \* the configurations a caller may ask for
    MaxQueued           \* bound on the slots of a direction in a session

VARIABLE submitter      \* a PreparedUsbRuntimeSubmitter

NoConfig == [batch |-> 1, slots |-> 1, limit |-> 1, retain |-> FALSE]
NewSubmitter == [started |-> FALSE, config |-> NoConfig, planner |-> NewPlanner,
                 pool |-> NewPool, live |-> <<>>, retained |-> 0,
                 submits |-> Zero, failures |-> 0, forgotten |-> 0]

Init == submitter = NewSubmitter

\* start() refuses a limit above the number of slots, and replaces a running session.
ConfigValid(c) == c.limit \in 1 .. c.slots /\ c.batch > 0 /\ ValidPoolConfig(c.slots)
Start(c) ==
    /\ ConfigValid(c)
    /\ submitter' = [NewSubmitter EXCEPT !.started = TRUE, !.config = c,
                                         !.planner = StartedPlanner(c.batch),
                                         !.pool = PoolStart(NewPool, c.slots)]

\* complete_oldest()
OldestCompleted(s) ==
    [s EXCEPT !.pool = PoolComplete(@, Head(s.live)), !.live = Tail(@)]

\* Complete the oldest requests until fewer than n are live.
LiveBelow(s, n) ==
    FoldLeft(LAMBDA u, i : IF Len(u.live) < n THEN u ELSE OldestCompleted(u),
             s, [i \in 1 .. MaxSlots |-> i])

\* submit_descriptor(), after remember_descriptor()
Remembered(s) ==
    IF ~s.config.retain THEN s
    ELSE IF s.retained >= MaxDescriptors THEN [s EXCEPT !.forgotten = @ + 1]
    ELSE [s EXCEPT !.retained = @ + 1]
Submitted(s, descriptor) ==
    LET room == LiveBelow(Remembered(s), s.config.limit)
        p == PoolSubmit(room.pool, descriptor)
    IN  IF p.handle = NoHandle THEN [room EXCEPT !.pool = p.pool, !.failures = @ + 1]
        ELSE [room EXCEPT !.pool = p.pool, !.live = Append(@, p.handle),
                          !.submits[descriptor.dir] = @ + 1]

\* drain_pending_submits()
PendingSubmitted(s) ==
    [FoldLeft(Submitted, s, s.planner.listed) EXCEPT !.planner = Cleared(@)]

QueueSlot(d, stamp) ==
    /\ submitter.started
    /\ submitter.planner.count.slots[d] < MaxQueued
    /\ submitter' = PendingSubmitted([submitter EXCEPT !.planner = PlannedNext(@, d, stamp)])

QueueSlotWithSequence(d, sequence, stamp) ==
    /\ submitter.started
    /\ submitter.planner.count.slots[d] < MaxQueued
    /\ submitter' = PendingSubmitted([submitter EXCEPT !.planner = Planned(@, d, sequence, stamp)])

CompleteAll ==
    /\ submitter.started
    /\ submitter' = LiveBelow(submitter, 1)

\* finish(): the batches that wait are submitted as they are, and all is completed.
FinishedSubmitter(s) ==
    LiveBelow(PendingSubmitted([s EXCEPT !.planner = FinishedPlan(@)]), 1)
Finish ==
    /\ submitter.started
    /\ submitter' = FinishedSubmitter(submitter)

Stop ==
    /\ submitter.started
    /\ submitter' = [FinishedSubmitter(submitter) EXCEPT !.started = FALSE, !.pool = PoolStop(@),
                                                         !.planner = StoppedPlanner(@)]

\* A caller that numbers its slots itself skips at most one.
Next ==
    \/ \E c \in SubmitterConfigs : Start(c)
    \/ Stop
    \/ Finish
    \/ CompleteAll
    \/ \E d \in Directions, skipped \in 0 .. 1 :
          LET b == submitter.planner.dir[d] IN
          \/ skipped = 0 /\ QueueSlot(d, b.last + 1)
          \/ QueueSlotWithSequence(d, b.next + skipped, b.last + 1)

Spec == Init /\ [][Next]_submitter

(***************************************************************************)
(* Properties                                                              *)
(***************************************************************************)
\* bounded_live_requests: the live requests are those of the pool, at most the limit; a
\* session that has ended leaves none.
RequestsOwned ==
    /\ submitter.started => FifoIsLive(submitter.pool, submitter.live)
    /\ ~submitter.started => Busy(submitter.pool) = {} /\ submitter.live = <<>>
    /\ Len(submitter.live) <= submitter.config.limit

\* no_submit_failures: every queued slot waits in its batch or was submitted once, and in
\* order when its caller numbers the slots in order; what was submitted was retained, or is
\* counted, when that was asked for.
SlotsSubmittedOnce ==
    /\ submitter.failures = 0
    /\ submitter.planner.listed = <<>>
    /\ EverySlotOnce(submitter.planner, submitter.pool)
    /\ submitter.planner.count.orderErrors = 0 =>
          Consecutive(submitter.planner, submitter.pool, submitter.live)
    /\ submitter.config.retain =>
          submitter.retained + submitter.forgotten
              = submitter.submits["capture"] + submitter.submits["playback"]
=============================================================================
