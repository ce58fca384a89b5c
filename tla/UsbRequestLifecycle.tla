------------------------ MODULE UsbRequestLifecycle -------------------------
(***************************************************************************)
(* A request pool, the client that drives it and the USB stack that         *)
(* completes its requests.  The client starts, stops and restarts the pool  *)
(* in place (as AudioDriverSkeleton does), submits and cancels; the USB     *)
(* stack holds every handle it was ever given and may deliver its           *)
(* completion at any moment: in time, late, twice or never.                 *)
(*                                                                         *)
(* History variables give each submission an identity, which the code does  *)
(* not have: they say which request a slot and a handle belong to.          *)
(***************************************************************************)
EXTENDS UsbRequestPool

CONSTANTS
    Sizes,         \* the descriptor sizes the client submits
    MaxSubmits,    \* bound on the submissions of a behaviour
    MaxRefusals    \* bound on the calls of one session that the pool refuses

ASSUME LifecycleConstants ==
    /\ Sizes \subseteq Nat \ {0}
    /\ MaxSubmits \in Nat
    /\ MaxRefusals \in Nat
    /\ MaxSubmits <= MaxGen   \* fewer submissions than generations: see README

VARIABLES
    pool,        \* the PreparedUsbRequestPool
    serial,      \* history: the number of accepted submissions
    owner,       \* history: the submission that last took each slot
    bumps,       \* history: how often each slot was retired
    tickets,     \* the handles the USB stack holds, each with its submission
    cancelled,   \* history: the submissions retired by cancel_all
    completed,   \* history: the submissions whose slot a completion retired
    lost,        \* history: the submissions live when the pool was restarted
    delivery     \* history: the last completion and what complete() answered

vars == <<pool, serial, owner, bumps, tickets, cancelled, completed, lost, delivery>>

LiveIds == {owner[s] : s \in {t \in SlotIds : pool.inUse[t]}}
NoDelivery == [id |-> 0, accepted |-> FALSE]

Init ==
    /\ pool = NewPool
    /\ serial = 0
    /\ owner = [s \in SlotIds |-> 0]
    /\ bumps = [s \in SlotIds |-> 0]
    /\ tickets = {}
    /\ cancelled = {}
    /\ completed = {}
    /\ lost = {}
    /\ delivery = NoDelivery

\* start(), on a new pool or again on a used one.
Start(n) ==
    /\ ValidPoolConfig(n)
    /\ pool' = PoolStart(pool, n)
    /\ lost' = lost \cup LiveIds
    /\ UNCHANGED <<serial, owner, bumps, tickets, cancelled, completed, delivery>>

Stop ==
    /\ pool.started
    /\ pool' = PoolStop(pool)
    /\ UNCHANGED <<serial, owner, bumps, tickets, cancelled, completed, lost, delivery>>

\* submit() that finds a free slot: the caller hands the handle to the USB stack.
Submit(s, d) ==
    /\ serial < MaxSubmits
    /\ pool.started
    /\ IsFreeSlot(pool, s)
    /\ pool' = PoolSubmitAt(pool, s, d)
    /\ serial' = serial + 1
    /\ owner' = [owner EXCEPT ![s] = serial + 1]
    /\ tickets' = tickets \cup {[handle |-> HandleOf(pool, s), id |-> serial + 1, bump |-> bumps[s]]}
    /\ UNCHANGED <<bumps, cancelled, completed, lost, delivery>>

\* submit() that finds the pool stopped or full: no request, and the client is told.
SubmitRefused ==
    /\ pool.count.fallbacks < MaxRefusals
    /\ ~CanSubmit(pool)
    /\ pool' = PoolSubmitRefused(pool)
    /\ UNCHANGED <<serial, owner, bumps, tickets, cancelled, completed, lost, delivery>>

\* The USB stack delivers the completion of a handle, for the first time or again.
Complete(t) ==
    LET s == t.handle.slot IN
    /\ pool.count.invalid + pool.count.stale < MaxRefusals \/ Accepts(pool, t.handle)
    /\ pool' = PoolComplete(pool, t.handle)
    /\ delivery' = [id |-> t.id, accepted |-> Accepts(pool, t.handle)]
    /\ IF Accepts(pool, t.handle)
       THEN /\ completed' = completed \cup {owner[s]}
            /\ bumps' = [bumps EXCEPT ![s] = @ + 1]
       ELSE UNCHANGED <<completed, bumps>>
    /\ UNCHANGED <<serial, owner, tickets, cancelled, lost>>

\* complete() with a handle that was never issued (kInvalidUsbRequestSlot).
CompleteInvalid ==
    /\ pool.count.invalid + pool.count.stale < MaxRefusals
    /\ pool' = PoolComplete(pool, NoHandle)
    /\ UNCHANGED <<serial, owner, bumps, tickets, cancelled, completed, lost, delivery>>

CancelAll ==
    /\ pool.started
    /\ pool' = PoolCancelAll(pool)
    /\ cancelled' = cancelled \cup LiveIds
    /\ bumps' = [s \in SlotIds |-> IF pool.inUse[s] THEN bumps[s] + 1 ELSE bumps[s]]
    /\ UNCHANGED <<serial, owner, tickets, completed, lost, delivery>>

Next ==
    \/ \E n \in 1 .. MaxSlots : Start(n)
    \/ Stop
    \/ \E s \in SlotIds, d \in [dir : Directions, size : Sizes] : Submit(s, d)
    \/ SubmitRefused
    \/ \E t \in tickets : Complete(t)
    \/ CompleteInvalid
    \/ CancelAll

Spec == Init /\ [][Next]_vars

(***************************************************************************)
(* Properties                                                              *)
(***************************************************************************)
IsPool(p) ==
    p \in [started : BOOLEAN, slots : 0 .. MaxSlots, inUse : [SlotIds -> BOOLEAN],
           gen : [SlotIds -> Generations], lastCancelled : [SlotIds -> Generations],
           desc : [SlotIds -> Descriptors \cup {NoDescriptor}], count : Counts,
           bytes : {p.bytes}]
Tickets == [handle : Handles, id : Nat \ {0}, bump : Nat]

\* Every variable has its type; in particular live_requests, which the code decrements
\* as an unsigned integer, never goes below zero.
TypeOK ==
    /\ IsPool(pool)
    /\ serial \in 0 .. MaxSubmits
    /\ owner \in [SlotIds -> 0 .. MaxSubmits]
    /\ bumps \in [SlotIds -> Nat]
    /\ tickets \subseteq Tickets
    /\ cancelled \subseteq 1 .. MaxSubmits
    /\ completed \subseteq 1 .. MaxSubmits
    /\ lost \subseteq 1 .. MaxSubmits
    /\ delivery \in [id : Nat, accepted : BOOLEAN]

\* live_requests is the number of slots in use, whatever the order of submissions,
\* completions, cancellations and restarts: drained() means that no slot is taken.
LiveCountExact == pool.count.live = Cardinality(Busy(pool))

\* Every variable keeps its type, and what was submitted is live, completed or cancelled,
\* in requests and in bytes, for each direction: this is what safety() compares once the
\* pool is drained.
WorkConserved ==
    /\ TypeOK
    /\ \A d \in Directions :
          /\ pool.count.submits[d] = pool.count.completions[d] + pool.count.cancels[d]
                                      + Cardinality(SlotsOf(pool, d))
          /\ pool.bytes.submitted[d] = pool.bytes.completed[d] + pool.bytes.cancelled[d]
                                      + SizeOf(pool, d)

\* A completion is accepted only for the request that its handle was issued for.  The
\* generation check tells a late or repeated completion from the slot's new owner,
\* except for the handles of requests that a restart forgot (lost).
CompletesItsOwnRequest ==
    [][ \A t \in tickets :
          (Complete(t) /\ Accepts(pool, t.handle) /\ t.id \notin lost)
             => owner[t.handle.slot] = t.id ]_vars

\* The inductive invariant behind these properties.  A slot's generation is a function of
\* how often the slot was retired, and fewer retirements than generations make that
\* function one-to-one; so a handle whose generation is the slot's own was issued since
\* the last retirement, and its request still has the slot.
GenerationAfter(k) == IF k < MaxGen THEN k + 1 ELSE k - MaxGen
BusyConfigured == \A s \in SlotIds : pool.inUse[s] => s < pool.slots
OwnersIssued == \A s \in SlotIds : pool.inUse[s] => owner[s] \in 1 .. serial
GenerationsCount ==
    \A s \in SlotIds : /\ bumps[s] + (IF pool.inUse[s] THEN 1 ELSE 0) <= serial
                       /\ pool.gen[s] = GenerationAfter(bumps[s])
TicketsCurrent ==
    \A t \in tickets :
        /\ t.id <= serial
        /\ t.bump <= bumps[t.handle.slot]
        /\ t.handle.gen = GenerationAfter(t.bump)
        /\ t.bump = bumps[t.handle.slot] /\ t.id \notin lost
              => pool.inUse[t.handle.slot] /\ owner[t.handle.slot] = t.id
IndInv ==
    /\ TypeOK
    /\ BusyConfigured
    /\ LiveCountExact
    /\ OwnersIssued
    /\ GenerationsCount
    /\ TicketsCurrent

\* The pool keeps the promise of the ledger: exactly-once retirement by identity.
Ledger == INSTANCE UsbRequestLedger WITH
              Ids <- 1 .. MaxSubmits,
              open <- pool.started,
              live <- LiveIds,
              retired <- completed \cup cancelled
ImplementsLedger == Ledger!LedgerSpec
=============================================================================
