----------------------- MODULE PersistentUsbTransport -----------------------
(***************************************************************************)
(* PersistentUsbTransport (core/src/persistent_usb_transport.cpp): two      *)
(* queues of live requests over one request pool.  prime() fills both; from *)
(* then on each completion retires the oldest request of its direction and  *)
(* submits the next one at once, into the slot just freed.                  *)
(*                                                                         *)
(* A request moves its direction forward by slots_per_submit slots and the  *)
(* frames they hold, at the same lines; `position' counts requests and      *)
(* stands for both first_sequence and first_sample_timestamp.               *)
(***************************************************************************)
EXTENDS UsbRequestPool, SequencesExt

CONSTANTS
    MaxCompletions,   \* bound on the completions of a session
    MaxFailures       \* bound on the failing completions of a session

VARIABLE transport    \* a PersistentUsbTransport

Request == [handle : Handles, position : Nat]
NoRequest == [handle |-> NoHandle, position |-> 0]

\* DirectionState: `queue' is a ring of MaxSlots entries, `head' its oldest one.
Queue(slotBase) == [base |-> slotBase, head |-> 0, live |-> 0,
                    queue |-> [i \in SlotIds |-> NoRequest],
                    next |-> 0, expected |-> 0]
NoTransportCounts ==
    [primes |-> 0, steady |-> 0, completions |-> 0, cancels |-> 0, failures |-> 0,
     submitFailures |-> 0, liveLimit |-> 0, drift |-> 0, gaps |-> 0, mismatches |-> 0,
     reuses |-> 0, maxDepth |-> Zero]

Configs == [capture : 0 .. MaxSlots, playback : 0 .. MaxSlots, slots : 1 .. MaxSlots]
NoConfig == [capture |-> 0, playback |-> 0, slots |-> 1]

NewTransport == [started |-> FALSE, primed |-> FALSE, config |-> NoConfig, pool |-> NewPool,
                 dir |-> [d \in Directions |-> Queue(0)], count |-> NoTransportCounts]

Depth(t, d) == t.config[d]
AllDepths(t) == [d \in Directions |-> Depth(t, d)]

Init == transport = NewTransport

(***************************************************************************)
(* start() and stop()                                                      *)
(***************************************************************************)
\* config_valid, less the sizes, which the configurations here all have right.
ConfigValid(c) ==
    /\ c.capture > 0 /\ c.playback > 0
    /\ c.capture + c.playback <= c.slots

\* Playback takes the slots above those of capture.
BaseFor(c, d) == IF d = "capture" THEN 0 ELSE c.capture

\* start() also replaces a transport that is running, requests and all.
StartedTransport(c) ==
    [started |-> TRUE, primed |-> FALSE, config |-> c, pool |-> PoolStart(NewPool, c.slots),
     dir |-> [d \in Directions |-> Queue(BaseFor(c, d))], count |-> NoTransportCounts]
Start(c) ==
    /\ ConfigValid(c)
    /\ transport' = StartedTransport(c)

\* drain(): cancels every request and empties the queues; `primed' and the positions stay.
Drained(t) ==
    [t EXCEPT !.pool = PoolCancelAll(@),
              !.count.cancels = @ + Cardinality(Busy(t.pool)),
              !.dir = [d \in Directions |-> [@[d] EXCEPT !.live = 0, !.head = 0]]]
Drain ==
    /\ transport.started
    /\ transport' = Drained(transport)

Stopped(t) == [Drained(t) EXCEPT !.pool = PoolStop(@), !.started = FALSE, !.primed = FALSE]
Stop ==
    /\ transport.started
    /\ transport' = Stopped(transport)

(***************************************************************************)
(* submit_next()                                                           *)
(***************************************************************************)
\* Defect used to test the properties: the slot range of the direction is ignored.
ExpectedSlotFromZero(t, d) == (t.dir[d].head + t.dir[d].live) % Depth(t, d)

\* expected_pool_slot: the slot the next request of the direction must take.
ExpectedSlot(t, d) == t.dir[d].base + ((t.dir[d].head + t.dir[d].live) % Depth(t, d))

\* push_live
Push(q, request) ==
    [q EXCEPT !.queue[(q.head + q.live) % MaxSlots] = request, !.live = @ + 1]

\* One submission, made by prime() or in answer to a completion.  The pool keeps the
\* request even when it lands in the wrong slot: only the queue does without it.
Failure(t) == [t EXCEPT !.count.submitFailures = @ + 1]
Issue(t, d, prime) ==
    LET s == PoolSubmit(t.pool, [dir |-> d, size |-> 1])
        p == [t EXCEPT !.pool = s.pool]
        pushed == Push(t.dir[d], [handle |-> s.handle, position |-> t.dir[d].next])
    IN  IF s.handle = NoHandle THEN Failure(p)
        ELSE IF s.handle.slot # ExpectedSlot(t, d)
        THEN [Failure(p) EXCEPT !.count.mismatches = @ + 1]
        ELSE [p EXCEPT !.dir[d] = [pushed EXCEPT !.next = @ + 1],
                       !.count.primes = IF prime THEN @ + 1 ELSE @,
                       !.count.steady = IF prime THEN @ ELSE @ + 1,
                       !.count.reuses = IF prime THEN @ ELSE @ + 1]
SubmitNext(t, d, prime) ==
    IF t.dir[d].live >= Depth(t, d)
    THEN [Failure(t) EXCEPT !.count.liveLimit = @ + 1]
    ELSE Issue(t, d, prime)

\* account_depth
Larger(m, n) == IF m > n THEN m ELSE n
AccountDepth(t, d) ==
    [t EXCEPT !.count.drift = IF t.dir[d].live = Depth(t, d) THEN @ ELSE @ + 1,
              !.count.maxDepth[d] = Larger(@, t.dir[d].live)]

(***************************************************************************)
(* prime() and complete_next()                                             *)
(***************************************************************************)
\* prime() submits for capture, then for playback, and gives up at the first failure.
PrimeOrder(c) == [i \in 1 .. c.capture + c.playback |->
                     IF i <= c.capture THEN "capture" ELSE "playback"]
Filled(t) ==
    FoldLeft(LAMBDA u, d : IF u.count.submitFailures > t.count.submitFailures
                           THEN u ELSE SubmitNext(u, d, TRUE),
             t, PrimeOrder(t.config))
Primed(t) ==
    LET u == Filled(t) IN
    IF u.count.submitFailures > t.count.submitFailures THEN u
    ELSE AccountDepth(AccountDepth([u EXCEPT !.primed = TRUE], "capture"), "playback")
Prime ==
    /\ transport.started
    /\ ~transport.primed
    /\ transport' = Primed(transport)

\* Defect used to test the properties: the head of the queue does not move.
PoppedInPlace(q) == [q EXCEPT !.queue[q.head] = NoRequest, !.live = @ - 1]

\* pop_live
Popped(q) == [q EXCEPT !.queue[q.head] = NoRequest,
                       !.head = (@ + 1) % MaxSlots,
                       !.live = @ - 1]

\* Retire the oldest request of d, and expect the one after it next.
RetireOldest(t, d) ==
    LET oldest == t.dir[d].queue[t.dir[d].head]
        failed == ~Accepts(t.pool, oldest.handle)
        gap == oldest.position # t.dir[d].expected
        popped == Popped(t.dir[d])
    IN  [t EXCEPT !.pool = PoolComplete(@, oldest.handle),
                  !.dir[d] = [popped EXCEPT !.expected = @ + 1],
                  !.count.failures = IF failed THEN @ + 1 ELSE @,
                  !.count.gaps = IF gap THEN @ + 1 ELSE @,
                  !.count.completions = @ + 1]

CanComplete(t, d) == t.started /\ t.primed /\ t.dir[d].live > 0
\* Defect used to test the properties: the next request is submitted before the oldest is
\* retired.
AfterResubmission(t, d) == AccountDepth(RetireOldest(SubmitNext(t, d, FALSE), d), d)

\* complete_next() of a direction with live requests.
AfterCompletion(t, d) == AccountDepth(SubmitNext(RetireOldest(t, d), d, FALSE), d)
CompleteNext(d) ==
    /\ transport.count.completions < MaxCompletions
    /\ CanComplete(transport, d)
    /\ transport' = AfterCompletion(transport, d)

\* A completion before prime() or after drain() has nothing to retire.
NothingToComplete(t) ==
    [t EXCEPT !.count.failures = @ + 1,
              !.count.drift = IF t.started /\ t.primed THEN @ + 1 ELSE @]
CompleteNextFails(d) ==
    /\ transport.count.failures < MaxFailures
    /\ ~CanComplete(transport, d)
    /\ transport' = NothingToComplete(transport)

\* complete_next() as one function, for the driver that calls it inside a larger step;
\* it returns false when one of these counters has moved.
NextCompleted(t, d) == IF CanComplete(t, d) THEN AfterCompletion(t, d) ELSE NothingToComplete(t)
Errors(t) == t.count.failures + t.count.gaps + t.count.submitFailures

Next ==
    \/ \E c \in Configs : Start(c)
    \/ Prime
    \/ \E d \in Directions : CompleteNext(d) \/ CompleteNextFails(d)
    \/ Drain
    \/ Stop

Spec == Init /\ [][Next]_transport

(***************************************************************************)
(* safety()                                                                *)
(***************************************************************************)
Quiet(c) == c.failures = 0 /\ c.submitFailures = 0 /\ c.liveLimit = 0 /\ c.mismatches = 0
StableDepth(t) == t.count.drift = 0 /\ t.count.maxDepth = AllDepths(t)
ProductSafe(t) ==
    /\ t.pool.count.fallbacks = 0
    /\ t.pool.count.maxLive <= t.config.capture + t.config.playback
    /\ StableDepth(t)
    /\ t.count.gaps = 0
    /\ t.count.reuses = t.count.steady
    /\ Quiet(t.count)
    /\ t.count.primes + t.count.steady = t.count.completions + t.count.cancels
    /\ t.pool.count.live = 0

(***************************************************************************)
(* Properties                                                              *)
(***************************************************************************)
\* The queue of live requests is a ring of MaxSlots entries, and the slots of a direction
\* are a ring of `depth' slots: the two stay in step when the one divides the other, as
\* with the depths 4 and 8 that the configurations use.  A depth that does not divide
\* MaxSlots is accepted by start() and drifts: see README.
DepthsDivideRing ==
    \A d \in Directions : Depth(transport, d) > 0 => MaxSlots % Depth(transport, d) = 0

SlotRange(t, d) == t.dir[d].base .. t.dir[d].base + Depth(t, d) - 1
Entry(q, i) == q.queue[(q.head + i) % MaxSlots]
LiveHandles(t, d) == {Entry(t.dir[d], i).handle : i \in 0 .. t.dir[d].live - 1}

TypeOK ==
    /\ transport.started \in BOOLEAN /\ transport.primed \in BOOLEAN
    /\ transport.config \in Configs
    /\ transport.pool.gen \in [SlotIds -> Generations]
    /\ \A d \in Directions :
          /\ transport.dir[d] \in [base : SlotIds, head : SlotIds, live : 0 .. MaxSlots,
                                   queue : [SlotIds -> Request \cup {NoRequest}],
                                   next : Nat, expected : Nat]
          /\ transport.dir[d].live <= Depth(transport, d)

\* The live requests of the pool are those of the two queues, each in the slot range of
\* its direction: the transport loses track of no request, and no direction takes a slot
\* of the other.  The requests of a queue are consecutive, oldest first, from the position
\* that the next completion is expected at up to the one the next submission takes.
\* Between calls a primed transport is full in both directions or, once drained, empty in
\* both: a completion is always answered by a submission.
Continuous(q) ==
    /\ \A i \in 0 .. q.live - 1 : Entry(q, i).position = q.expected + i
    /\ q.live > 0 => q.next = q.expected + q.live
QueuesOwnThePool ==
    /\ TypeOK
    /\ \A d \in Directions : Continuous(transport.dir[d])
    /\ DepthsDivideRing =>
        /\ transport.pool.count.live = transport.dir["capture"].live
                                       + transport.dir["playback"].live
        /\ \A d \in Directions : \A h \in LiveHandles(transport, d) :
              /\ transport.started => Accepts(transport.pool, h)
              /\ h.slot \in SlotRange(transport, d)
              /\ transport.pool.desc[h.slot].dir = d
        /\ transport.primed =>
              \/ \A d \in Directions : transport.dir[d].live = Depth(transport, d)
              \/ \A d \in Directions : transport.dir[d].live = 0

\* A primed session that is drained with no completion left over is product_safe: this is
\* the answer that the contract tools wait for.
DrainedIsProductSafe ==
    (/\ DepthsDivideRing
     /\ transport.count.primes > 0
     /\ transport.count.failures = 0
     /\ transport.pool.count.live = 0) => ProductSafe(transport)
=============================================================================
