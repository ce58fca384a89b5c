--------------------------- MODULE UsbRequestPool ---------------------------
(***************************************************************************)
(* The class PreparedUsbRequestPool (core/src/usb_request_pool.cpp): a      *)
(* fixed array of request slots, each with a generation that its handles    *)
(* carry.  A pool is a record, and a method of the class is an operator     *)
(* from the pool it is called on to the pool it leaves, so that a component *)
(* that owns a pool can call several methods in one step.                   *)
(*                                                                         *)
(* A descriptor is abstracted to its direction and its size: byte_count and *)
(* frame_count are added to the same totals at the same places, so one size *)
(* stands for both.                                                         *)
(***************************************************************************)
EXTENDS Integers, FiniteSets, FiniteSetsExt

CONSTANTS
    MaxSlots,    \* kPreparedUsbRequestMaxSlots (128 in the code)
    MaxGen       \* the largest generation, 2^32 - 1 in the code

ASSUME PoolConstants ==
    /\ MaxSlots \in Nat \ {0}
    /\ MaxGen \in Nat \ {0}

SlotIds == 0 .. MaxSlots - 1
Generations == 0 .. MaxGen
Directions == {"capture", "playback"}
Descriptors == [dir : Directions, size : Nat \ {0}]
NoDescriptor == [dir |-> "capture", size |-> 0]
Handles == [slot : SlotIds, gen : Generations]
NoHandle == [slot |-> -1, gen |-> 0]

(***************************************************************************)
(* The counters of the pool.  The code's totals over both directions are    *)
(* the sums of the per-direction ones, which the same lines update.         *)
(***************************************************************************)
Zero == [d \in Directions |-> 0]
NoCounts == [submits |-> Zero, completions |-> Zero, cancels |-> Zero,
             recycles |-> 0, fallbacks |-> 0, invalid |-> 0, stale |-> 0,
             late |-> 0, live |-> 0, maxLive |-> 0]
Counts == [submits : [Directions -> Nat], completions : [Directions -> Nat],
           cancels : [Directions -> Nat],
           recycles : Nat, fallbacks : Nat, invalid : Nat, stale : Nat,
           late : Nat, live : Nat, maxLive : Nat]
NoBytes == [submitted |-> Zero, completed |-> Zero, cancelled |-> Zero]

\* The state of a PreparedUsbRequestPool that has just been constructed.
NewPool == [started |-> FALSE,
            slots |-> 0,
            inUse |-> [s \in SlotIds |-> FALSE],
            gen |-> [s \in SlotIds |-> 1],
            lastCancelled |-> [s \in SlotIds |-> 0],
            desc |-> [s \in SlotIds |-> NoDescriptor],
            count |-> NoCounts,
            bytes |-> NoBytes]

\* Defect used to test the properties: the slot is recycled and keeps its generation.
BumpForgotten(g) == g

\* request.generation += 1 on a 32-bit unsigned integer.
Bump(g) == IF g = MaxGen THEN 0 ELSE g + 1

ConfiguredSlots(p) == 0 .. p.slots - 1
Busy(p) == {s \in ConfiguredSlots(p) : p.inUse[s]}

\* find_free_slot: the lowest configured slot that is not in use.
IsFreeSlot(p, s) ==
    /\ s \in ConfiguredSlots(p)
    /\ ~p.inUse[s]
    /\ \A t \in 0 .. s - 1 : p.inUse[t]
HasFreeSlot(p) == \E s \in SlotIds : IsFreeSlot(p, s)
FreeSlot(p) == CHOOSE s \in SlotIds : IsFreeSlot(p, s)

\* start(): accepts 1..MaxSlots slots.  Clears the slots and the counters,
\* and keeps every generation.
ValidPoolConfig(n) == n \in 1 .. MaxSlots
PoolStart(p, n) ==
    [p EXCEPT !.started = TRUE,
              !.slots = n,
              !.inUse = [s \in SlotIds |-> FALSE],
              !.lastCancelled = [s \in SlotIds |-> 0],
              !.desc = [s \in SlotIds |-> NoDescriptor],
              !.count = NoCounts,
              !.bytes = NoBytes]

PoolStop(p) == [p EXCEPT !.started = FALSE]

\* submit() into slot s: the slot becomes live under its current generation.
AccountSubmit(c, d) ==
    [c EXCEPT !.live = @ + 1,
              !.maxLive = IF c.live + 1 > @ THEN c.live + 1 ELSE @,
              !.submits[d.dir] = @ + 1]
HandleOf(p, s) == [slot |-> s, gen |-> p.gen[s]]
PoolSubmitAt(p, s, d) ==
    [p EXCEPT !.inUse[s] = TRUE,
              !.desc[s] = d,
              !.count = AccountSubmit(@, d),
              !.bytes.submitted[d.dir] = @ + d.size]

\* submit() when the pool is stopped or has no free slot.
CanSubmit(p) == p.started /\ HasFreeSlot(p)
PoolSubmitRefused(p) == [p EXCEPT !.count.fallbacks = @ + 1]

\* submit() as one function, for the components that call it inside a larger step.
PoolSubmit(p, d) ==
    IF CanSubmit(p)
    THEN [pool |-> PoolSubmitAt(p, FreeSlot(p), d), handle |-> HandleOf(p, FreeSlot(p))]
    ELSE [pool |-> PoolSubmitRefused(p), handle |-> NoHandle]

\* complete(): which of its four exits a handle takes.
HandleInRange(p, h) == p.started /\ h.slot \in ConfiguredSlots(p)
IsStale(p, h) == HandleInRange(p, h) /\ p.gen[h.slot] # h.gen
IsLate(p, h) == IsStale(p, h) /\ p.lastCancelled[h.slot] = h.gen
\* Defect used to test the properties: a slot that is not in use is retired again.
AcceptsFreeSlot(p, h) == HandleInRange(p, h)

\* Defect used to test the properties: the generation of the handle is not compared.
AcceptsAnyGeneration(p, h) == HandleInRange(p, h) /\ p.inUse[h.slot]
\* The handle is accepted.
Accepts(p, h) == /\ HandleInRange(p, h)
                 /\ p.gen[h.slot] = h.gen
                 /\ p.inUse[h.slot]

AccountCompletion(c, d) ==
    [c EXCEPT !.live = @ - 1,
              !.recycles = @ + 1,
              !.completions[d.dir] = @ + 1]
Retired(p, s) ==
    [p EXCEPT !.inUse[s] = FALSE,
              !.gen[s] = Bump(@),
              !.desc[s] = NoDescriptor,
              !.count = AccountCompletion(@, p.desc[s]),
              !.bytes.completed[p.desc[s].dir] = @ + p.desc[s].size]
AccountRefusal(c, stale, late) ==
    [c EXCEPT !.stale = IF stale THEN @ + 1 ELSE @,
              !.late = IF late THEN @ + 1 ELSE @,
              !.invalid = IF stale THEN @ ELSE @ + 1]
Refused(p, h) == [p EXCEPT !.count = AccountRefusal(@, IsStale(p, h), IsLate(p, h))]
PoolComplete(p, h) == IF Accepts(p, h) THEN Retired(p, h.slot) ELSE Refused(p, h)

\* cancel_all(): retires every live slot; the cancelled work is not counted as
\* completed.  A pool that is not started is left alone.
SlotsOf(p, d) == {s \in Busy(p) : p.desc[s].dir = d}
SizeOf(p, d) == MapThenSumSet(LAMBDA s : p.desc[s].size, SlotsOf(p, d))
\* Defect used to test the properties: all cancelled work is counted as capture.
AccountCancelAsCapture(p) ==
    [p.count EXCEPT
        !.live = @ - Cardinality(Busy(p)),
        !.recycles = @ + Cardinality(Busy(p)),
        !.cancels["capture"] = @ + Cardinality(Busy(p))]

AccountCancel(p) ==
    [p.count EXCEPT
        !.live = @ - Cardinality(Busy(p)),
        !.recycles = @ + Cardinality(Busy(p)),
        !.cancels = [d \in Directions |-> @[d] + Cardinality(SlotsOf(p, d))]]
PoolCancelLive(p) ==
    LET Cancelled(s, new, old) == IF s \in Busy(p) THEN new ELSE old IN
    [p EXCEPT
        !.inUse = [s \in SlotIds |-> Cancelled(s, FALSE, @[s])],
        !.lastCancelled = [s \in SlotIds |-> Cancelled(s, p.gen[s], @[s])],
        !.gen = [s \in SlotIds |-> Cancelled(s, Bump(@[s]), @[s])],
        !.desc = [s \in SlotIds |-> Cancelled(s, NoDescriptor, @[s])],
        !.count = AccountCancel(p),
        !.bytes.cancelled = [d \in Directions |-> @[d] + SizeOf(p, d)]]

PoolCancelAll(p) == IF p.started THEN PoolCancelLive(p) ELSE p
=============================================================================
