-------------------------- MODULE UsbSubmitPlanner --------------------------
(***************************************************************************)
(* PreparedUsbSubmitPlanner (core/src/usb_submit_plan.cpp): gathers the     *)
(* logical slots of each direction into batches, and lists one descriptor   *)
(* per batch for its owner to submit.  As with UsbRequestPool, a planner is *)
(* a record and a method is an operator; the owners are                     *)
(* PreparedUsbRuntimeSubmitter and DriverKitDevice.                         *)
(*                                                                         *)
(* A descriptor is a pool descriptor whose size is its number of slots,     *)
(* with the sequence and the timestamp of its first slot.  Timestamps are   *)
(* counted from 1, in slots; frames and bytes follow from the slots.        *)
(***************************************************************************)
EXTENDS UsbRequestPool, SequencesExt

CONSTANT MaxDescriptors   \* kPreparedUsbSubmitMaxDescriptors (1024 in the code)

NoBatch == [next |-> 0, pending |-> 0, first |-> 0, firstStamp |-> 0, last |-> 0]
NoPlanCounts == [slots |-> Zero, calls |-> Zero, partial |-> 0, overflows |-> 0,
                 orderErrors |-> 0, regressions |-> 0]
NewPlanner == [started |-> FALSE, batch |-> 1, listed |-> <<>>,
               dir |-> [d \in Directions |-> NoBatch], count |-> NoPlanCounts]

\* start() with batches of slots_per_submit; it also resets a planner that is running.
StartedPlanner(batch) == [NewPlanner EXCEPT !.started = TRUE, !.batch = batch]

\* flush_direction(): with the list full the batch is dropped, and only counted.
Flushed(p, d, partial) ==
    LET b == p.dir[d]
        descriptor == [dir |-> d, size |-> b.pending, first |-> b.first, stamp |-> b.firstStamp]
        flushed == [p EXCEPT !.dir[d].pending = 0]
    IN  IF b.pending = 0 THEN p
        ELSE IF Len(p.listed) >= MaxDescriptors
        THEN [flushed EXCEPT !.count.overflows = @ + 1]
        ELSE [flushed EXCEPT !.listed = Append(@, descriptor),
                             !.count.calls[d] = @ + 1,
                             !.count.partial = IF partial THEN @ + 1 ELSE @]

\* The slot joins the batch of its direction, and opens one if there is none.
Joined(b, sequence, stamp) ==
    [b EXCEPT !.first = IF b.pending = 0 THEN sequence ELSE @,
              !.firstStamp = IF b.pending = 0 THEN stamp ELSE @,
              !.pending = @ + 1,
              !.next = sequence + 1,
              !.last = stamp]

\* queue_slot_with_sequence() of a planner that is started.  A sequence out of order is
\* counted and queued all the same.
Planned(p, d, sequence, stamp) ==
    LET queued == [p EXCEPT
            !.dir[d] = Joined(@, sequence, stamp),
            !.count.slots[d] = @ + 1,
            !.count.orderErrors = IF sequence # p.dir[d].next THEN @ + 1 ELSE @,
            !.count.regressions = IF stamp <= p.dir[d].last THEN @ + 1 ELSE @]
    IN  IF queued.dir[d].pending >= p.batch THEN Flushed(queued, d, FALSE) ELSE queued

\* queue_slot()
PlannedNext(p, d, stamp) == Planned(p, d, p.dir[d].next, stamp)

\* finish() and stop()
FinishedPlan(p) ==
    IF p.started THEN Flushed(Flushed(p, "capture", TRUE), "playback", TRUE) ELSE p
StoppedPlanner(p) == [FinishedPlan(p) EXCEPT !.started = FALSE]

\* clear_descriptors()
Cleared(p) == [p EXCEPT !.listed = <<>>]

(***************************************************************************)
(* What an owner has to achieve                                            *)
(***************************************************************************)
\* The descriptors of direction d among those of the live requests, oldest first.
LiveDescriptors(pool, fifo, d) ==
    SelectSeq([i \in DOMAIN fifo |-> pool.desc[fifo[i].slot]], LAMBDA x : x.dir = d)

\* The fifo of an owner is the set of the pool's live requests.
FifoIsLive(pool, fifo) ==
    /\ \A i \in DOMAIN fifo : Accepts(pool, fifo[i])
    /\ {fifo[i].slot : i \in DOMAIN fifo} = Busy(pool)
    /\ Len(fifo) = pool.count.live
    /\ Cardinality(Busy(pool)) = Len(fifo)

\* Every slot queued in a session waits in its batch or was submitted, once.
EverySlotOnce(planner, pool) ==
    \A d \in Directions :
        pool.bytes.submitted[d] + planner.dir[d].pending = planner.count.slots[d]

\* The live requests of a direction follow one another, and the batch follows them.
Consecutive(planner, pool, fifo) ==
    \A d \in Directions :
        LET live == LiveDescriptors(pool, fifo, d) IN
        \A i \in DOMAIN live :
            live[i].first + live[i].size
                = IF i < Len(live) THEN live[i + 1].first
                  ELSE planner.dir[d].next - planner.dir[d].pending
=============================================================================
