------------------------ MODULE UsbRequestPool_proof -------------------------
(***************************************************************************)
(* Proofs about the request pool, for every number of slots, every          *)
(* generation width, every set of sizes and every bound.  Of                *)
(* UsbRequestLifecycle: its invariant, that work is conserved, and that it  *)
(* implements UsbRequestLedger.  Of PreparedUsbAsyncRuntime: what a         *)
(* completion retires, and that the runtime owns what its pool has live.    *)
(***************************************************************************)
EXTENDS UsbRequestLifecycle, PreparedUsbAsyncRuntime, FiniteSums

(***************************************************************************)
(* What the accounting does to the counters.                                *)
(***************************************************************************)
\* The counters of a pool that nobody used.
LEMMA NoCountsType == NoCounts \in Counts /\ NoCounts.live = 0 /\ NoCounts.late = 0
  <1>1. Zero \in [Directions -> Nat]
    BY DEF Zero
  <1> QED BY <1>1 DEF NoCounts, Counts

\* account_submit, with the live count and its maximum.
LEMMA AccountSubmitType ==
    ASSUME NEW c \in Counts, NEW d \in Descriptors
    PROVE  /\ AccountSubmit(c, d) \in Counts
           /\ AccountSubmit(c, d).live = c.live + 1
           /\ AccountSubmit(c, d).late = c.late
  <1> DEFINE m == IF c.live + 1 > c.maxLive THEN c.live + 1 ELSE c.maxLive
             l == c.live + 1
             f == [c.submits EXCEPT ![d.dir] = @ + 1]
  <1>1. AccountSubmit(c, d) = [c EXCEPT !.live = l, !.maxLive = m, !.submits = f]
    BY DEF AccountSubmit
  <1>2. f \in [Directions -> Nat] /\ m \in Nat /\ l \in Nat
    BY DEF Counts, Descriptors
  <1> HIDE DEF f, l, m
  <1>3. AccountSubmit(c, d) \in Counts
    BY <1>1, <1>2 DEF Counts
  <1> QED BY <1>1, <1>3 DEF Counts, l

\* account_completion, with the live count.
LEMMA AccountCompletionType ==
    ASSUME NEW c \in Counts, NEW d, d.dir \in Directions, c.live # 0
    PROVE  /\ AccountCompletion(c, d) \in Counts
           /\ AccountCompletion(c, d).live = c.live - 1
           /\ AccountCompletion(c, d).late = c.late
  <1> DEFINE f == [c.completions EXCEPT ![d.dir] = @ + 1]
             l == c.live - 1
             r == c.recycles + 1
  <1>1. AccountCompletion(c, d) = [c EXCEPT !.live = l, !.recycles = r, !.completions = f]
    BY DEF AccountCompletion
  <1>2. f \in [Directions -> Nat] /\ l \in Nat /\ r \in Nat
    BY DEF Counts
  <1> HIDE DEF f, l, r
  <1>3. AccountCompletion(c, d) \in Counts
    BY <1>1, <1>2 DEF Counts
  <1> QED BY <1>1, <1>3 DEF Counts, l

\* The error counters.
LEMMA AccountRefusalType ==
    ASSUME NEW c \in Counts, NEW stale \in BOOLEAN, NEW late \in BOOLEAN
    PROVE  /\ AccountRefusal(c, stale, late) \in Counts
           /\ AccountRefusal(c, stale, late).live = c.live
           /\ AccountRefusal(c, stale, late).late > c.late => late
  <1> DEFINE f == IF stale THEN c.stale + 1 ELSE c.stale
             g == IF late THEN c.late + 1 ELSE c.late
             h == IF stale THEN c.invalid ELSE c.invalid + 1
  <1>1. AccountRefusal(c, stale, late) = [c EXCEPT !.stale = f, !.late = g, !.invalid = h]
    BY DEF AccountRefusal
  <1>2. f \in Nat /\ g \in Nat /\ h \in Nat /\ (g > c.late => late)
    BY DEF Counts
  <1> HIDE DEF f, g, h
  <1> QED BY <1>1, <1>2 DEF Counts

(***************************************************************************)
(* What each method of the pool does to the fields the proofs look at.      *)
(***************************************************************************)
\* The fields of a pool have their types.
LEMMA PoolFields ==
    ASSUME NEW p, IsPool(p)
    PROVE  /\ p.started \in BOOLEAN
           /\ p.slots \in 0 .. MaxSlots
           /\ p.inUse \in [SlotIds -> BOOLEAN]
           /\ p.gen \in [SlotIds -> Generations]
           /\ p.lastCancelled \in [SlotIds -> Generations]
           /\ p.desc \in [SlotIds -> Descriptors \cup {NoDescriptor}]
           /\ p.count \in Counts
  BY DEF IsPool

\* A new pool is a pool with no slot in use, every generation 1.
LEMMA NewPoolType == IsPool(NewPool)
  <1>1. 1 \in Generations /\ 0 \in Generations /\ 0 \in 0 .. MaxSlots
    BY PoolConstants DEF Generations
  <1> QED BY <1>1, NoCountsType DEF NewPool, IsPool

\* start() clears the slots and keeps the generations.
LEMMA StartFields ==
    ASSUME NEW p, IsPool(p), NEW n \in 1 .. MaxSlots
    PROVE  /\ IsPool(PoolStart(p, n))
           /\ PoolStart(p, n).started
           /\ PoolStart(p, n).slots = n
           /\ PoolStart(p, n).inUse = [s \in SlotIds |-> FALSE]
           /\ PoolStart(p, n).gen = p.gen
           /\ PoolStart(p, n).lastCancelled = [s \in SlotIds |-> 0]
           /\ PoolStart(p, n).count = NoCounts
  <1> DEFINE u == [s \in SlotIds |-> FALSE]
             l == [s \in SlotIds |-> 0]
             d == [s \in SlotIds |-> NoDescriptor]
  <1>1. /\ u \in [SlotIds -> BOOLEAN]
        /\ l \in [SlotIds -> Generations]
        /\ d \in [SlotIds -> Descriptors \cup {NoDescriptor}]
        /\ n \in 0 .. MaxSlots
    BY PoolConstants DEF Generations
  <1>2. PoolStart(p, n) = [p EXCEPT !.started = TRUE, !.slots = n, !.inUse = u,
                                    !.lastCancelled = l, !.desc = d, !.count = NoCounts,
                                    !.bytes = NoBytes]
    BY DEF PoolStart
  <1> HIDE DEF u, l, d
  <1>3. IsPool(PoolStart(p, n))
    BY <1>1, <1>2, NoCountsType DEF IsPool
  <1>4. /\ PoolStart(p, n).started
        /\ PoolStart(p, n).slots = n
        /\ PoolStart(p, n).inUse = u
        /\ PoolStart(p, n).gen = p.gen
        /\ PoolStart(p, n).lastCancelled = l
        /\ PoolStart(p, n).count = NoCounts
    BY <1>2 DEF IsPool
  <1> QED BY <1>3, <1>4 DEF u, l

\* stop() only closes the pool.
LEMMA StopFields ==
    ASSUME NEW p, IsPool(p)
    PROVE  /\ IsPool(PoolStop(p))
           /\ ~PoolStop(p).started
           /\ PoolStop(p).slots = p.slots
           /\ PoolStop(p).inUse = p.inUse
           /\ PoolStop(p).gen = p.gen
           /\ PoolStop(p).lastCancelled = p.lastCancelled
           /\ PoolStop(p).count = p.count
  BY DEF PoolStop, IsPool

\* submit() takes the slot under its present generation.
LEMMA SubmitFields ==
    ASSUME NEW p, IsPool(p), NEW s \in SlotIds, NEW d \in Descriptors
    PROVE  /\ IsPool(PoolSubmitAt(p, s, d))
           /\ PoolSubmitAt(p, s, d).started = p.started
           /\ PoolSubmitAt(p, s, d).slots = p.slots
           /\ PoolSubmitAt(p, s, d).inUse = [p.inUse EXCEPT ![s] = TRUE]
           /\ PoolSubmitAt(p, s, d).gen = p.gen
           /\ PoolSubmitAt(p, s, d).lastCancelled = p.lastCancelled
           /\ PoolSubmitAt(p, s, d).count.live = p.count.live + 1
           /\ PoolSubmitAt(p, s, d).count.late = p.count.late
  <1> DEFINE c == AccountSubmit(p.count, d)
             u == [p.inUse EXCEPT ![s] = TRUE]
             e == [p.desc EXCEPT ![s] = d]
             b == [p.bytes EXCEPT !.submitted[d.dir] = @ + d.size]
  <1>1. c \in Counts /\ c.live = p.count.live + 1 /\ c.late = p.count.late
    BY AccountSubmitType, PoolFields
  <1>2. u \in [SlotIds -> BOOLEAN] /\ e \in [SlotIds -> Descriptors \cup {NoDescriptor}]
    BY PoolFields
  <1>3. PoolSubmitAt(p, s, d) = [p EXCEPT !.inUse = u, !.desc = e, !.count = c,
                            !.bytes = b]
    BY DEF PoolSubmitAt
  <1> HIDE DEF c, u, e, b
  <1>4. IsPool(PoolSubmitAt(p, s, d))
    BY <1>1, <1>2, <1>3 DEF IsPool
  <1> QED BY <1>1, <1>3, <1>4 DEF IsPool, u

\* A refused submit() only counts.
LEMMA SubmitRefusedFields ==
    ASSUME NEW p, IsPool(p)
    PROVE  /\ IsPool(PoolSubmitRefused(p))
           /\ PoolSubmitRefused(p).started = p.started
           /\ PoolSubmitRefused(p).slots = p.slots
           /\ PoolSubmitRefused(p).inUse = p.inUse
           /\ PoolSubmitRefused(p).gen = p.gen
           /\ PoolSubmitRefused(p).lastCancelled = p.lastCancelled
           /\ PoolSubmitRefused(p).count.live = p.count.live
           /\ PoolSubmitRefused(p).count.late = p.count.late
  <1> DEFINE c == [p.count EXCEPT !.fallbacks = @ + 1]
  <1>1. c \in Counts /\ c.live = p.count.live /\ c.late = p.count.late
    BY PoolFields DEF Counts
  <1>2. PoolSubmitRefused(p) = [p EXCEPT !.count = c]
    BY DEF PoolSubmitRefused
  <1> HIDE DEF c
  <1> QED BY <1>1, <1>2 DEF IsPool

\* A refused complete() only counts, and counts late only what was last cancelled.
LEMMA RefusedFields ==
    ASSUME NEW p, IsPool(p), NEW h
    PROVE  /\ IsPool(Refused(p, h))
           /\ Refused(p, h).started = p.started
           /\ Refused(p, h).slots = p.slots
           /\ Refused(p, h).inUse = p.inUse
           /\ Refused(p, h).gen = p.gen
           /\ Refused(p, h).lastCancelled = p.lastCancelled
           /\ Refused(p, h).count.live = p.count.live
           /\ Refused(p, h).count.late > p.count.late => IsLate(p, h)
  <1> DEFINE c == AccountRefusal(p.count, IsStale(p, h), IsLate(p, h))
  <1>1. IsStale(p, h) \in BOOLEAN /\ IsLate(p, h) \in BOOLEAN
    BY PoolFields DEF IsStale, IsLate, HandleInRange
  <1>2. /\ c \in Counts
        /\ c.live = p.count.live
        /\ c.late > p.count.late => IsLate(p, h)
    BY <1>1, AccountRefusalType, PoolFields
  <1>3. Refused(p, h) = [p EXCEPT !.count = c]
    BY DEF Refused
  <1> HIDE DEF c
  <1> QED BY <1>2, <1>3 DEF IsPool

\* An accepted complete() frees the slot and moves its generation.
LEMMA RetiredFields ==
    ASSUME NEW p, IsPool(p), NEW s \in SlotIds, p.count.live # 0
    PROVE  /\ IsPool(Retired(p, s))
           /\ Retired(p, s).started = p.started
           /\ Retired(p, s).slots = p.slots
           /\ Retired(p, s).inUse = [p.inUse EXCEPT ![s] = FALSE]
           /\ Retired(p, s).gen = [p.gen EXCEPT ![s] = Bump(@)]
           /\ Retired(p, s).lastCancelled = p.lastCancelled
           /\ Retired(p, s).count.live = p.count.live - 1
           /\ Retired(p, s).count.late = p.count.late
  <1> DEFINE c == AccountCompletion(p.count, p.desc[s])
             u == [p.inUse EXCEPT ![s] = FALSE]
             g == [p.gen EXCEPT ![s] = Bump(@)]
             e == [p.desc EXCEPT ![s] = NoDescriptor]
             b == [p.bytes EXCEPT !.completed[p.desc[s].dir] = @ + p.desc[s].size]
  <1>1. p.desc[s].dir \in Directions
    BY PoolFields DEF Descriptors, NoDescriptor, Directions
  <1>2. Bump(p.gen[s]) \in Generations
    BY PoolConstants, PoolFields DEF Bump, Generations
  <1>3. c \in Counts /\ c.live = p.count.live - 1 /\ c.late = p.count.late
    BY <1>1, AccountCompletionType, PoolFields
  <1>4. /\ u \in [SlotIds -> BOOLEAN]
        /\ g \in [SlotIds -> Generations]
        /\ e \in [SlotIds -> Descriptors \cup {NoDescriptor}]
    BY <1>2, PoolFields
  <1>5. Retired(p, s) = [p EXCEPT !.inUse = u, !.gen = g, !.desc = e, !.count = c,
                            !.bytes = b]
    BY DEF Retired
  <1> HIDE DEF c, u, g, e, b
  <1>6. IsPool(Retired(p, s))
    BY <1>3, <1>4, <1>5 DEF IsPool
  <1> QED BY <1>3, <1>5, <1>6 DEF IsPool, u, g

\* The slots in use are finitely many.
LEMMA BusyFinite ==
    ASSUME NEW p, IsPool(p)
    PROVE  /\ Busy(p) \subseteq SlotIds
           /\ IsFiniteSet(Busy(p))
           /\ \A d \in Directions : IsFiniteSet(SlotsOf(p, d))
  <1>1. Busy(p) \subseteq SlotIds
    BY PoolConstants DEF IsPool, Busy, ConfiguredSlots, SlotIds
  <1>2. IsFiniteSet(SlotIds)
    BY FS_Interval, PoolConstants DEF SlotIds
  <1>3. IsFiniteSet(Busy(p))
    BY <1>1, <1>2, FS_Subset
  <1>4. \A d \in Directions : SlotsOf(p, d) \subseteq Busy(p)
    BY DEF SlotsOf
  <1> QED BY <1>1, <1>3, <1>4, FS_Subset

\* cancel_all() frees every live slot, moves its generation and remembers it as cancelled.
LEMMA CancelFields ==
    ASSUME NEW p, IsPool(p), p.count.live = Cardinality(Busy(p))
    PROVE  /\ IsPool(PoolCancelLive(p))
           /\ PoolCancelLive(p).started = p.started
           /\ PoolCancelLive(p).slots = p.slots
           /\ PoolCancelLive(p).inUse
                = [s \in SlotIds |-> IF s \in Busy(p) THEN FALSE ELSE p.inUse[s]]
           /\ PoolCancelLive(p).gen
                = [s \in SlotIds |-> IF s \in Busy(p) THEN Bump(p.gen[s]) ELSE p.gen[s]]
           /\ PoolCancelLive(p).lastCancelled
                = [s \in SlotIds |-> IF s \in Busy(p) THEN p.gen[s] ELSE p.lastCancelled[s]]
           /\ PoolCancelLive(p).count.live = 0
           /\ PoolCancelLive(p).count.late = p.count.late
  <1> DEFINE u == [s \in SlotIds |-> IF s \in Busy(p) THEN FALSE ELSE p.inUse[s]]
             g == [s \in SlotIds |-> IF s \in Busy(p) THEN Bump(p.gen[s]) ELSE p.gen[s]]
             l == [s \in SlotIds |-> IF s \in Busy(p) THEN p.gen[s] ELSE p.lastCancelled[s]]
             e == [s \in SlotIds |-> IF s \in Busy(p) THEN NoDescriptor ELSE p.desc[s]]
             b == [p.bytes EXCEPT !.cancelled = [d \in Directions |-> @[d] + SizeOf(p, d)]]
             c == AccountCancel(p)
             n == Cardinality(Busy(p))
             f == [d \in Directions |-> p.count.cancels[d] + Cardinality(SlotsOf(p, d))]
  <1>1. c \in Counts /\ c.live = 0 /\ c.late = p.count.late
    <2> DEFINE m == p.count.live - n
               r == p.count.recycles + n
    <2>1. n \in Nat /\ \A d \in Directions : Cardinality(SlotsOf(p, d)) \in Nat
      BY BusyFinite, FS_CardinalityType
    <2>2. c = [p.count EXCEPT !.live = m, !.recycles = r, !.cancels = f]
      BY DEF AccountCancel
    <2>3. /\ p.count \in Counts
          /\ m = 0
          /\ r \in Nat
          /\ f \in [Directions -> Nat]
      <3>1. p.count \in Counts
        BY PoolFields
      <3>2. m = 0 /\ r \in Nat
        BY <2>1, <3>1 DEF Counts
      <3>3. f \in [Directions -> Nat]
        BY <2>1, <3>1 DEF Counts
      <3> QED BY <3>1, <3>2, <3>3
    <2> HIDE DEF m, r, f, c
    <2>4. c \in Counts
      BY <2>2, <2>3 DEF Counts
    <2> QED BY <2>2, <2>3, <2>4 DEF Counts
  <1>2. /\ u \in [SlotIds -> BOOLEAN]
        /\ g \in [SlotIds -> Generations]
        /\ l \in [SlotIds -> Generations]
        /\ e \in [SlotIds -> Descriptors \cup {NoDescriptor}]
    <2>1. \A s \in SlotIds : Bump(p.gen[s]) \in Generations
      BY PoolConstants, PoolFields DEF Bump, Generations
    <2> QED BY <2>1, PoolFields
  <1>3. PoolCancelLive(p) = [p EXCEPT !.inUse = u, !.lastCancelled = l, !.gen = g,
                                     !.desc = e, !.count = c, !.bytes = b]
    BY DEF PoolCancelLive
  <1> HIDE DEF u, g, l, e, b, c, f
  <1>4. IsPool(PoolCancelLive(p))
    BY <1>1, <1>2, <1>3 DEF IsPool
  <1>5. /\ PoolCancelLive(p).started = p.started
        /\ PoolCancelLive(p).slots = p.slots
        /\ PoolCancelLive(p).inUse = u
        /\ PoolCancelLive(p).gen = g
        /\ PoolCancelLive(p).lastCancelled = l
        /\ PoolCancelLive(p).count = c
    BY <1>3 DEF IsPool
  <1> QED BY <1>1, <1>4, <1>5 DEF u, g, l

(***************************************************************************)
(* The inductive invariant.                                                 *)
(***************************************************************************)
\* Generations follow the number of retirements and do not repeat below the width.
LEMMA GenerationAfterSteps ==
    /\ GenerationAfter(0) = 1
    /\ \A k \in 0 .. MaxGen : GenerationAfter(k) \in Generations
    /\ \A k \in 0 .. MaxGen : Bump(GenerationAfter(k)) = GenerationAfter(k + 1)
    /\ \A j, k \in 0 .. MaxGen : GenerationAfter(j) = GenerationAfter(k) => j = k
  BY PoolConstants DEF GenerationAfter, Bump, Generations

\* The invariant holds initially.
LEMMA InitInv == Init => IndInv
  <1> SUFFICES ASSUME Init PROVE IndInv
    OBVIOUS
  <1>1. IsPool(NewPool) /\ NewPool.inUse = [s \in SlotIds |-> FALSE]
        /\ NewPool.gen = [s \in SlotIds |-> 1] /\ NewPool.slots = 0
        /\ NewPool.count.live = 0
    BY NewPoolType, NoCountsType DEF NewPool
  <1>2. Busy(NewPool) = {}
    BY <1>1 DEF Busy, ConfiguredSlots
  <1>3. LiveCountExact
    BY <1>1, <1>2, FS_EmptySet DEF Init, LiveCountExact
  <1>4. TypeOK
    BY <1>1, LifecycleConstants DEF Init, TypeOK, NoDelivery
  <1>5. BusyConfigured /\ OwnersIssued /\ TicketsCurrent
    BY <1>1 DEF Init, BusyConfigured, OwnersIssued, TicketsCurrent
  <1>6. GenerationsCount
    BY <1>1, GenerationAfterSteps DEF Init, GenerationsCount
  <1> QED BY <1>3, <1>4, <1>5, <1>6 DEF IndInv

\* The submissions that hold a slot were issued.
LEMMA LiveIdsIssued ==
    ASSUME TypeOK, OwnersIssued
    PROVE  LiveIds \subseteq 1 .. serial /\ LiveIds \subseteq 1 .. MaxSubmits
  BY LifecycleConstants DEF TypeOK, OwnersIssued, LiveIds

\* start() keeps the invariant: what it forgets becomes lost.
LEMMA StartInv ==
    ASSUME IndInv, NEW n \in 1 .. MaxSlots, Start(n)
    PROVE  IndInv'
  <1> USE DEF IndInv
  <1>1. /\ IsPool(pool') /\ pool'.slots = n /\ pool'.gen = pool.gen
        /\ pool'.inUse = [s \in SlotIds |-> FALSE] /\ pool'.count = NoCounts
    BY StartFields DEF Start, TypeOK
  <1>2. Busy(pool') = {}
    BY <1>1, PoolConstants DEF Busy, ConfiguredSlots, SlotIds
  <1>3. LiveCountExact'
    BY <1>1, <1>2, FS_EmptySet, NoCountsType DEF LiveCountExact
  <1>4. TypeOK'
    BY <1>1, LiveIdsIssued DEF Start, TypeOK
  <1>5. BusyConfigured' /\ OwnersIssued' /\ GenerationsCount'
    BY <1>1 DEF Start, BusyConfigured, OwnersIssued, GenerationsCount, TypeOK
  <1>6. TicketsCurrent'
    <2> SUFFICES ASSUME NEW t \in tickets
                 PROVE  /\ t.id <= serial
                        /\ t.bump <= bumps[t.handle.slot]
                        /\ t.handle.gen = GenerationAfter(t.bump)
                        /\ t.bump = bumps[t.handle.slot] => t.id \in lost'
      BY DEF TicketsCurrent, Start
    <2>1. t.handle.slot \in SlotIds
      BY DEF TypeOK, Tickets, Handles
    <2>2. CASE t.id \in lost
      BY <2>2 DEF Start, TicketsCurrent
    <2>3. CASE t.id \notin lost
      BY <2>1, <2>3 DEF Start, TicketsCurrent, LiveIds
    <2> QED BY <2>2, <2>3
  <1> QED BY <1>3, <1>4, <1>5, <1>6

\* stop(), and every call the pool refuses, keeps the invariant: no slot changes.
LEMMA SlotsUnchangedInv ==
    ASSUME IndInv, IsPool(pool'), pool'.slots = pool.slots, pool'.inUse = pool.inUse,
           pool'.gen = pool.gen, pool'.count.live = pool.count.live,
           delivery' \in [id : Nat, accepted : BOOLEAN],
           UNCHANGED <<serial, owner, bumps, tickets, cancelled, completed, lost>>
    PROVE  IndInv'
  <1> USE DEF IndInv
  <1>1. Busy(pool') = Busy(pool)
    BY DEF Busy, ConfiguredSlots
  <1>2. LiveCountExact'
    BY <1>1 DEF LiveCountExact
  <1>3. TypeOK'
    BY DEF TypeOK
  <1>4. BusyConfigured' /\ OwnersIssued' /\ GenerationsCount'
    BY DEF BusyConfigured, OwnersIssued, GenerationsCount
  <1>5. TicketsCurrent'
    BY DEF TicketsCurrent
  <1> QED BY <1>2, <1>3, <1>4, <1>5

\* submit() keeps the invariant: the new ticket is the only current one of its slot.
LEMMA SubmitInv ==
    ASSUME IndInv, NEW s \in SlotIds, NEW d \in [dir : Directions, size : Sizes], Submit(s, d)
    PROVE  IndInv'
  <1> USE DEF IndInv
  <1>1. d \in Descriptors
    BY LifecycleConstants DEF Descriptors
  <1>2. /\ IsPool(pool') /\ pool'.slots = pool.slots /\ pool'.gen = pool.gen
        /\ pool'.inUse = [pool.inUse EXCEPT ![s] = TRUE]
        /\ pool'.count.live = pool.count.live + 1
    <2>1. IsPool(pool) /\ pool' = PoolSubmitAt(pool, s, d)
      BY DEF Submit, TypeOK
    <2> QED BY <1>1, <2>1, SubmitFields
  <1>3. s \in ConfiguredSlots(pool) /\ ~pool.inUse[s] /\ serial + 1 \in 1 .. MaxSubmits
    BY LifecycleConstants DEF Submit, IsFreeSlot, TypeOK
  <1>4. pool.inUse \in [SlotIds -> BOOLEAN] /\ pool.gen \in [SlotIds -> Generations]
        /\ pool.slots \in 0 .. MaxSlots /\ pool.count \in Counts
    BY PoolFields DEF TypeOK
  <1>5. LiveCountExact'
    <2>1. Busy(pool') = Busy(pool) \cup {s} /\ s \notin Busy(pool)
      BY <1>2, <1>3, <1>4, PoolConstants DEF Busy, ConfiguredSlots, SlotIds
    <2>2. Cardinality(Busy(pool) \cup {s}) = Cardinality(Busy(pool)) + 1
      BY <2>1, BusyFinite, FS_AddElement DEF TypeOK
    <2> QED BY <1>2, <2>1, <2>2 DEF LiveCountExact
  <1>6. TypeOK'
    <2> DEFINE t == [handle |-> HandleOf(pool, s), id |-> serial + 1, bump |-> bumps[s]]
    <2>1. t \in Tickets
      BY <1>4, LifecycleConstants DEF TypeOK, HandleOf, Handles, Tickets
    <2>2. tickets' \subseteq Tickets
      BY <2>1 DEF Submit, TypeOK
    <2> QED BY <1>2, <1>3, <2>2, LifecycleConstants DEF Submit, TypeOK
  <1>7. BusyConfigured' /\ OwnersIssued'
    BY <1>2, <1>3, <1>4 DEF Submit, BusyConfigured, OwnersIssued, TypeOK, ConfiguredSlots
  <1>8. GenerationsCount'
    BY <1>2, <1>3, <1>4 DEF Submit, GenerationsCount, TypeOK
  <1>9. TicketsCurrent'
    <2> SUFFICES ASSUME NEW t \in tickets'
                 PROVE  /\ t.id <= serial'
                        /\ t.bump <= bumps[t.handle.slot]
                        /\ t.handle.gen = GenerationAfter(t.bump)
                        /\ t.bump = bumps[t.handle.slot] /\ t.id \notin lost
                             => pool'.inUse[t.handle.slot] /\ owner'[t.handle.slot] = t.id
      BY DEF TicketsCurrent, Submit
    <2>1. CASE t \in tickets
      <3>1. t.handle.slot \in SlotIds /\ t.id \in Nat
        BY <2>1 DEF TypeOK, Tickets, Handles
      <3>2. t.handle.slot = s => ~(t.bump = bumps[s] /\ t.id \notin lost)
        BY <1>3, <2>1 DEF TicketsCurrent
      <3>3. t.handle.slot # s => /\ pool'.inUse[t.handle.slot] = pool.inUse[t.handle.slot]
                                 /\ owner'[t.handle.slot] = owner[t.handle.slot]
        BY <1>2, <1>4, <3>1 DEF Submit, TypeOK
      <3>4. t.id <= serial'
        BY <2>1, <3>1 DEF Submit, TypeOK, TicketsCurrent
      <3> QED BY <2>1, <3>2, <3>3, <3>4 DEF TicketsCurrent
    <2>2. CASE t \notin tickets
      <3>1. t = [handle |-> HandleOf(pool, s), id |-> serial + 1, bump |-> bumps[s]]
        BY <2>2 DEF Submit
      <3>2. t.handle.slot = s /\ t.handle.gen = pool.gen[s] /\ t.id = serial + 1
            /\ t.bump = bumps[s]
        BY <3>1 DEF HandleOf
      <3> QED BY <1>2, <1>4, <3>2 DEF Submit, TypeOK, GenerationsCount
    <2> QED BY <2>1, <2>2
  <1> QED BY <1>5, <1>6, <1>7, <1>8, <1>9

\* An accepted completion keeps the invariant: its slot is retired, its tickets are old.
LEMMA AcceptInv ==
    ASSUME IndInv, NEW t \in tickets, Complete(t), Accepts(pool, t.handle)
    PROVE  IndInv'
  <1> USE DEF IndInv
  <1> DEFINE s == t.handle.slot
  <1>1. s \in SlotIds /\ t.id \in Nat
    BY DEF TypeOK, Tickets, Handles
  <1>2. pool.inUse[s] /\ s \in ConfiguredSlots(pool)
    BY DEF Accepts, HandleInRange
  <1>3. pool.inUse \in [SlotIds -> BOOLEAN] /\ pool.gen \in [SlotIds -> Generations]
        /\ pool.slots \in 0 .. MaxSlots /\ pool.count \in Counts
    BY PoolFields DEF TypeOK
  <1>4. s \in Busy(pool) /\ IsFiniteSet(Busy(pool))
    BY <1>2, BusyFinite DEF Busy, TypeOK
  <1>5. pool.count.live # 0
    BY <1>4, FS_EmptySet DEF LiveCountExact
  <1>6. pool' = Retired(pool, s)
    BY DEF Complete, PoolComplete
  <1>7. /\ IsPool(pool') /\ pool'.slots = pool.slots
        /\ pool'.inUse = [pool.inUse EXCEPT ![s] = FALSE]
        /\ pool'.gen = [pool.gen EXCEPT ![s] = Bump(@)]
        /\ pool'.count.live = pool.count.live - 1
    BY <1>1, <1>5, <1>6, RetiredFields DEF TypeOK
  <1>8. /\ bumps' = [bumps EXCEPT ![s] = @ + 1]
        /\ completed' = completed \cup {owner[s]}
        /\ delivery' = [id |-> t.id, accepted |-> TRUE]
        /\ UNCHANGED <<serial, owner, tickets, cancelled, lost>>
    BY DEF Complete
  <1> HIDE DEF s
  <1>9. LiveCountExact'
    <2>1. Busy(pool') = Busy(pool) \ {s}
      BY <1>1, <1>3, <1>7, PoolConstants DEF Busy, ConfiguredSlots, SlotIds
    <2>2. Cardinality(Busy(pool) \ {s}) = Cardinality(Busy(pool)) - 1
      BY <1>4, FS_RemoveElement
    <2> QED BY <1>7, <2>1, <2>2 DEF LiveCountExact
  <1>10. TypeOK'
    <2>1. owner[s] \in 1 .. MaxSubmits
      BY <1>1, <1>2, LifecycleConstants DEF OwnersIssued, TypeOK
    <2>2. bumps' \in [SlotIds -> Nat]
      BY <1>1, <1>8 DEF TypeOK
    <2>3. completed' \subseteq 1 .. MaxSubmits
      BY <1>8, <2>1 DEF TypeOK
    <2>4. delivery' \in [id : Nat, accepted : BOOLEAN]
      BY <1>1, <1>8
    <2> QED BY <1>7, <1>8, <2>2, <2>3, <2>4 DEF TypeOK
  <1>11. BusyConfigured' /\ OwnersIssued'
    BY <1>1, <1>3, <1>7, <1>8 DEF BusyConfigured, OwnersIssued
  <1>12. GenerationsCount'
    <2> SUFFICES ASSUME NEW x \in SlotIds
                 PROVE  /\ bumps'[x] + (IF pool'.inUse[x] THEN 1 ELSE 0) <= serial
                        /\ pool'.gen[x] = GenerationAfter(bumps'[x])
      BY <1>8 DEF GenerationsCount
    <2>1. bumps[x] \in Nat /\ serial \in 0 .. MaxSubmits
      BY DEF TypeOK
    <2>2. CASE x = s
      <3>1. bumps[s] + 1 <= serial
        BY <1>1, <1>2 DEF GenerationsCount
      <3>2. bumps[s] \in 0 .. MaxGen
        BY <2>1, <2>2, <3>1, LifecycleConstants, PoolConstants
      <3>3. pool.gen[s] = GenerationAfter(bumps[s])
        BY <1>1 DEF GenerationsCount
      <3>4. Bump(pool.gen[s]) = GenerationAfter(bumps[s] + 1)
        BY <3>2, <3>3, GenerationAfterSteps
      <3>5. bumps'[s] = bumps[s] + 1 /\ ~pool'.inUse[s] /\ pool'.gen[s] = Bump(pool.gen[s])
        BY <1>1, <1>3, <1>7, <1>8 DEF TypeOK
      <3> QED BY <2>1, <2>2, <3>1, <3>4, <3>5
    <2>3. CASE x # s
      BY <1>3, <1>7, <1>8, <2>3 DEF GenerationsCount, TypeOK
    <2> QED BY <2>2, <2>3
  <1>13. TicketsCurrent'
    <2> SUFFICES ASSUME NEW u \in tickets
                 PROVE  /\ u.id <= serial
                        /\ u.bump <= bumps'[u.handle.slot]
                        /\ u.handle.gen = GenerationAfter(u.bump)
                        /\ u.bump = bumps'[u.handle.slot] /\ u.id \notin lost
                             => pool'.inUse[u.handle.slot] /\ owner[u.handle.slot] = u.id
      BY <1>8 DEF TicketsCurrent
    <2>1. u.handle.slot \in SlotIds /\ u.bump \in Nat
      BY DEF TypeOK, Tickets, Handles
    <2>2. /\ u.id <= serial
          /\ u.bump <= bumps[u.handle.slot]
          /\ u.handle.gen = GenerationAfter(u.bump)
          /\ u.bump = bumps[u.handle.slot] /\ u.id \notin lost
                => pool.inUse[u.handle.slot] /\ owner[u.handle.slot] = u.id
      BY DEF TicketsCurrent
    <2>3. CASE u.handle.slot = s
      <3>1. bumps'[s] = bumps[s] + 1 /\ bumps[s] \in Nat
        BY <1>1, <1>8 DEF TypeOK
      <3> QED BY <2>1, <2>2, <2>3, <3>1
    <2>4. CASE u.handle.slot # s
      BY <1>1, <1>3, <1>7, <1>8, <2>1, <2>2, <2>4 DEF TypeOK
    <2> QED BY <2>3, <2>4
  <1> QED BY <1>9, <1>10, <1>11, <1>12, <1>13

\* A refused completion keeps the invariant.
LEMMA RefuseInv ==
    ASSUME IndInv, NEW t \in tickets, Complete(t), ~Accepts(pool, t.handle)
    PROVE  IndInv'
  <1>1. pool' = Refused(pool, t.handle)
    BY DEF Complete, PoolComplete
  <1>2. /\ IsPool(pool') /\ pool'.slots = pool.slots /\ pool'.inUse = pool.inUse
        /\ pool'.gen = pool.gen /\ pool'.count.live = pool.count.live
    BY <1>1, RefusedFields DEF IndInv, TypeOK
  <1>3. /\ delivery' \in [id : Nat, accepted : BOOLEAN]
        /\ UNCHANGED <<serial, owner, bumps, tickets, cancelled, completed, lost>>
    <2>1. t.id \in Nat /\ Accepts(pool, t.handle) \in BOOLEAN
      BY DEF IndInv, TypeOK, Tickets, Accepts, HandleInRange
    <2>2. delivery' = [id |-> t.id, accepted |-> Accepts(pool, t.handle)]
      BY DEF Complete
    <2>3. UNCHANGED <<serial, owner, bumps, tickets, cancelled, completed, lost>>
      BY DEF Complete
    <2> QED BY <2>1, <2>2, <2>3
  <1> QED BY <1>2, <1>3, SlotsUnchangedInv

\* cancel_all() keeps the invariant: every live slot is retired at once.
LEMMA CancelInv ==
    ASSUME IndInv, CancelAll
    PROVE  IndInv'
  <1> USE DEF IndInv
  <1>1. pool.inUse \in [SlotIds -> BOOLEAN] /\ pool.gen \in [SlotIds -> Generations]
        /\ pool.slots \in 0 .. MaxSlots
    BY PoolFields DEF TypeOK
  <1>2. \A s \in SlotIds : s \in Busy(pool) <=> pool.inUse[s]
    BY <1>1 DEF Busy, ConfiguredSlots, BusyConfigured, SlotIds
  <1>3. pool' = PoolCancelLive(pool)
    BY DEF CancelAll, PoolCancelAll
  <1>4. /\ IsPool(pool') /\ pool'.slots = pool.slots /\ pool'.count.live = 0
        /\ \A s \in SlotIds : ~pool'.inUse[s]
        /\ \A s \in SlotIds :
              pool'.gen[s] = IF pool.inUse[s] THEN Bump(pool.gen[s]) ELSE pool.gen[s]
    <2>1. /\ IsPool(pool') /\ pool'.slots = pool.slots /\ pool'.count.live = 0
          /\ pool'.inUse = [s \in SlotIds |-> IF s \in Busy(pool) THEN FALSE ELSE pool.inUse[s]]
          /\ pool'.gen
                = [s \in SlotIds |-> IF s \in Busy(pool) THEN Bump(pool.gen[s]) ELSE pool.gen[s]]
      BY <1>3, CancelFields DEF LiveCountExact, TypeOK
    <2> QED BY <1>2, <2>1
  <1>5. /\ bumps' = [s \in SlotIds |-> IF pool.inUse[s] THEN bumps[s] + 1 ELSE bumps[s]]
        /\ cancelled' = cancelled \cup LiveIds
        /\ UNCHANGED <<serial, owner, tickets, completed, lost, delivery>>
    BY DEF CancelAll
  <1>6. LiveCountExact'
    <2>1. Busy(pool') = {}
      BY <1>1, <1>4, PoolConstants DEF Busy, ConfiguredSlots, SlotIds
    <2> QED BY <1>4, <2>1, FS_EmptySet DEF LiveCountExact
  <1>7. TypeOK'
    <2>1. bumps' \in [SlotIds -> Nat]
      BY <1>5 DEF TypeOK
    <2>2. cancelled' \subseteq 1 .. MaxSubmits
      BY <1>5, LiveIdsIssued DEF TypeOK
    <2> QED BY <1>4, <1>5, <2>1, <2>2 DEF TypeOK
  <1>8. BusyConfigured' /\ OwnersIssued'
    BY <1>4 DEF BusyConfigured, OwnersIssued
  <1>9. GenerationsCount'
    <2> SUFFICES ASSUME NEW x \in SlotIds
                 PROVE  /\ bumps'[x] + (IF pool'.inUse[x] THEN 1 ELSE 0) <= serial
                        /\ pool'.gen[x] = GenerationAfter(bumps'[x])
      BY <1>5 DEF GenerationsCount
    <2>1. bumps[x] \in Nat /\ serial \in 0 .. MaxSubmits
      BY DEF TypeOK
    <2>2. /\ bumps[x] + (IF pool.inUse[x] THEN 1 ELSE 0) <= serial
          /\ pool.gen[x] = GenerationAfter(bumps[x])
      BY DEF GenerationsCount
    <2>3. bumps[x] \in 0 .. MaxGen
      BY <2>1, <2>2, LifecycleConstants, PoolConstants
    <2>4. Bump(pool.gen[x]) = GenerationAfter(bumps[x] + 1)
      BY <2>2, <2>3, GenerationAfterSteps
    <2>5. CASE pool.inUse[x]
      BY <1>4, <1>5, <2>1, <2>2, <2>4, <2>5
    <2>6. CASE ~pool.inUse[x]
      BY <1>4, <1>5, <2>1, <2>2, <2>6
    <2> QED BY <2>5, <2>6
  <1>10. TicketsCurrent'
    <2> SUFFICES ASSUME NEW u \in tickets
                 PROVE  /\ u.id <= serial
                        /\ u.bump <= bumps'[u.handle.slot]
                        /\ u.handle.gen = GenerationAfter(u.bump)
                        /\ ~(u.bump = bumps'[u.handle.slot] /\ u.id \notin lost)
      BY <1>5 DEF TicketsCurrent
    <2>1. u.handle.slot \in SlotIds /\ u.bump \in Nat /\ bumps[u.handle.slot] \in Nat
      BY DEF TypeOK, Tickets, Handles
    <2>2. /\ u.id <= serial
          /\ u.bump <= bumps[u.handle.slot]
          /\ u.handle.gen = GenerationAfter(u.bump)
          /\ u.bump = bumps[u.handle.slot] /\ u.id \notin lost => pool.inUse[u.handle.slot]
      BY DEF TicketsCurrent
    <2> QED BY <1>5, <2>1, <2>2
  <1> QED BY <1>6, <1>7, <1>8, <1>9, <1>10

\* Every step keeps the invariant.
LEMMA NextInv == IndInv /\ [Next]_vars => IndInv'
  <1> SUFFICES ASSUME IndInv, [Next]_vars PROVE IndInv'
    OBVIOUS
  <1>1. ASSUME NEW n \in 1 .. MaxSlots, Start(n) PROVE IndInv'
    BY <1>1, StartInv
  <1>2. CASE Stop
    <2>1. /\ IsPool(pool') /\ pool'.slots = pool.slots /\ pool'.inUse = pool.inUse
          /\ pool'.gen = pool.gen /\ pool'.count.live = pool.count.live
      BY <1>2, StopFields DEF Stop, IndInv, TypeOK
    <2> QED BY <1>2, <2>1, SlotsUnchangedInv DEF Stop, IndInv, TypeOK
  <1>3. ASSUME NEW s \in SlotIds, NEW d \in [dir : Directions, size : Sizes], Submit(s, d)
        PROVE IndInv'
    BY <1>3, SubmitInv
  <1>4. CASE SubmitRefused
    <2>1. /\ IsPool(pool') /\ pool'.slots = pool.slots /\ pool'.inUse = pool.inUse
          /\ pool'.gen = pool.gen /\ pool'.count.live = pool.count.live
      BY <1>4, SubmitRefusedFields DEF SubmitRefused, IndInv, TypeOK
    <2> QED BY <1>4, <2>1, SlotsUnchangedInv DEF SubmitRefused, IndInv, TypeOK
  <1>5. ASSUME NEW t \in tickets, Complete(t) PROVE IndInv'
    BY <1>5, AcceptInv, RefuseInv
  <1>6. CASE CompleteInvalid
    <2>1. ~Accepts(pool, NoHandle)
      BY DEF Accepts, HandleInRange, ConfiguredSlots, NoHandle
    <2>2. pool' = Refused(pool, NoHandle)
      BY <1>6, <2>1 DEF CompleteInvalid, PoolComplete
    <2>3. /\ IsPool(pool') /\ pool'.slots = pool.slots /\ pool'.inUse = pool.inUse
          /\ pool'.gen = pool.gen /\ pool'.count.live = pool.count.live
      BY <2>2, RefusedFields DEF IndInv, TypeOK
    <2> QED BY <1>6, <2>3, SlotsUnchangedInv DEF CompleteInvalid, IndInv, TypeOK
  <1>7. CASE CancelAll
    BY <1>7, CancelInv
  <1>8. CASE UNCHANGED vars
    <2>1. UNCHANGED <<pool, serial, owner, bumps, tickets, cancelled, completed, lost, delivery>>
      BY <1>8 DEF vars
    <2> QED BY <2>1, SlotsUnchangedInv DEF IndInv, TypeOK
  <1> QED BY <1>1, <1>2, <1>3, <1>4, <1>5, <1>6, <1>7, <1>8 DEF Next

(***************************************************************************)
(* The theorems.                                                            *)
(***************************************************************************)
\* The inductive invariant of the pool and its handles is an invariant.
THEOREM Invariance == Spec => []IndInv
  BY InitInv, NextInv, PTL DEF Spec

\* Type correctness: live_requests never underflows, generations stay in their width.
THEOREM TypeCorrect == Spec => []TypeOK
  BY Invariance, PTL DEF IndInv

\* live_requests is the number of slots in use in every reachable state.
THEOREM LiveCountCorrect == Spec => []LiveCountExact
  BY Invariance, PTL DEF IndInv

\* A handle that is accepted belongs to the request that holds the slot.
LEMMA AcceptedIsCurrent ==
    ASSUME IndInv, NEW t \in tickets, Accepts(pool, t.handle), t.id \notin lost
    PROVE  owner[t.handle.slot] = t.id
  <1> USE DEF IndInv
  <1>1. t.handle.slot \in SlotIds /\ t.bump \in Nat /\ bumps[t.handle.slot] \in Nat
        /\ serial \in 0 .. MaxSubmits
    BY DEF TypeOK, Tickets, Handles
  <1>2. bumps[t.handle.slot] <= serial
    <2>1. bumps[t.handle.slot] + (IF pool.inUse[t.handle.slot] THEN 1 ELSE 0) <= serial
      BY <1>1 DEF GenerationsCount
    <2> QED BY <1>1, <2>1
  <1>3. /\ t.bump <= bumps[t.handle.slot]
        /\ t.handle.gen = GenerationAfter(t.bump)
        /\ t.bump = bumps[t.handle.slot] /\ t.id \notin lost
              => pool.inUse[t.handle.slot] /\ owner[t.handle.slot] = t.id
    BY DEF TicketsCurrent
  <1>4. bumps[t.handle.slot] \in 0 .. MaxGen /\ t.bump \in 0 .. MaxGen
    BY <1>1, <1>2, <1>3, LifecycleConstants, PoolConstants
  <1>5. GenerationAfter(t.bump) = GenerationAfter(bumps[t.handle.slot])
    BY <1>1, <1>3 DEF Accepts, GenerationsCount
  <1>6. t.bump = bumps[t.handle.slot]
    BY <1>4, <1>5, GenerationAfterSteps
  <1> QED BY <1>3, <1>6

\* A late, repeated or stale completion never retires another request.
THEOREM CompletionSafety == Spec => CompletesItsOwnRequest
  <1> DEFINE A == \A t \in tickets :
                    (Complete(t) /\ Accepts(pool, t.handle) /\ t.id \notin lost)
                       => owner[t.handle.slot] = t.id
  <1>1. IndInv => A
    BY AcceptedIsCurrent
  <1>2. IndInv => [A]_vars
    BY <1>1
  <1> QED BY <1>2, Invariance, PTL DEF CompletesItsOwnRequest

(***************************************************************************)
(* Work is conserved: what was submitted is completed, cancelled or live,   *)
(* in requests and in bytes, for each direction.                            *)
(*                                                                         *)
(* The claim is about a pool alone, so it is proved of the pool's methods:  *)
(* each takes a pool whose books agree to another.  That the bytes agree    *)
(* needs, beyond the claim, that a slot in use has the descriptor it was    *)
(* submitted with: complete() and cancel_all() take its size from there.    *)
(***************************************************************************)
Bytes == [submitted : [Directions -> Nat], completed : [Directions -> Nat],
          cancelled : [Directions -> Nat]]
SlotsDescribed(p) == \A s \in SlotIds : p.inUse[s] => p.desc[s] \in Descriptors
RequestsAgree(p) ==
    \A d \in Directions :
        p.count.submits[d] = p.count.completions[d] + p.count.cancels[d]
                               + Cardinality(SlotsOf(p, d))
BytesAgree(p) ==
    \A d \in Directions :
        p.bytes.submitted[d] = p.bytes.completed[d] + p.bytes.cancelled[d] + SizeOf(p, d)
BooksAgree(p) ==
    /\ p.bytes \in Bytes
    /\ SlotsDescribed(p)
    /\ RequestsAgree(p)
    /\ BytesAgree(p)

(***************************************************************************)
(* The size of the slots of a direction.                                    *)
(***************************************************************************)
SizesIn(p) == [s \in SlotIds |-> p.desc[s].size]

\* The slots of a direction are finitely many, each in use and within the configured ones.
LEMMA SlotsOfFinite ==
    ASSUME NEW p, IsPool(p), NEW d \in Directions
    PROVE  /\ SlotsOf(p, d) \subseteq SlotIds
           /\ IsFiniteSet(SlotsOf(p, d))
           /\ \A s \in SlotIds : s \in SlotsOf(p, d)
                                   <=> s < p.slots /\ p.inUse[s] /\ p.desc[s].dir = d
  <1>1. IsFiniteSet(SlotsOf(p, d)) /\ SlotsOf(p, d) \subseteq SlotIds
    BY BusyFinite DEF SlotsOf
  <1>2. p.slots \in 0 .. MaxSlots
    BY PoolFields
  <1>3. \A s \in SlotIds : s \in ConfiguredSlots(p) <=> s < p.slots
    BY <1>2, PoolConstants DEF ConfiguredSlots, SlotIds
  <1> QED BY <1>1, <1>3 DEF SlotsOf, Busy

\* The fold that adds the sizes up is their sum.
LEMMA SizeIsSum ==
    ASSUME NEW p, IsPool(p), NEW d \in Directions
    PROVE  SizeOf(p, d) = SumOver(SizesIn(p), SlotsOf(p, d))
  <1> DEFINE U == SlotsOf(p, d)
             F == SizesIn(p)
             Step(g) == [s \in SUBSET U |->
                           IF s = {} THEN 0
                           ELSE p.desc[CHOOSE x \in s : TRUE].size
                                  + g[s \ {CHOOSE x \in s : TRUE}]]
  <1>1. SizeOf(p, d) = (CHOOSE g : g = Step(g))[U]
    BY DEF SizeOf, MapThenSumSet, MapThenFoldSet
  <1>2. U \subseteq SlotIds
    BY SlotsOfFinite
  <1>3. ASSUME NEW g
        PROVE  Step(g) = TotalsFrom(g, F, U)
    <2>1. ASSUME NEW s \in SUBSET U, s # {}
          PROVE  p.desc[CHOOSE x \in s : TRUE].size = F[Picked(s)]
      <3>1. Picked(s) \in s
        BY <2>1 DEF Picked
      <3>2. F[Picked(s)] = p.desc[Picked(s)].size
        BY <1>2, <3>1 DEF SizesIn
      <3> QED BY <3>2 DEF Picked
    <2> HIDE DEF U, F
    <2>2. \A s \in SUBSET U :
              (IF s = {} THEN 0 ELSE p.desc[CHOOSE x \in s : TRUE].size
                                       + g[s \ {CHOOSE x \in s : TRUE}])
              = (IF s = {} THEN 0 ELSE F[Picked(s)] + g[s \ {Picked(s)}])
      BY <2>1 DEF Picked
    <2> QED BY <2>2 DEF TotalsFrom
  <1> HIDE DEF U, F, Step
  <1>4. (CHOOSE g : g = Step(g)) = (CHOOSE g : AreTotals(g, F, U))
    BY <1>3 DEF AreTotals
  <1> QED BY <1>1, <1>4 DEF SumOver, U, F

\* A pool whose slots are described has a size, zero when no slot is in use.
LEMMA SizeType ==
    ASSUME NEW p, IsPool(p), NEW d \in Directions
    PROVE  /\ SizeOf(p, d) \in Nat
           /\ SlotsOf(p, d) = {} => SizeOf(p, d) = 0
  <1>1. \A s \in SlotsOf(p, d) : SizesIn(p)[s] \in Nat
    BY SlotsOfFinite, PoolFields DEF SizesIn, Descriptors, NoDescriptor
  <1> QED BY <1>1, SlotsOfFinite, SizeIsSum, SumType

\* Pools that have the same slots in a direction, with the same descriptors, have its size.
LEMMA SizeSame ==
    ASSUME NEW p, IsPool(p), NEW q, IsPool(q), NEW d \in Directions,
           SlotsOf(p, d) = SlotsOf(q, d),
           \A s \in SlotsOf(p, d) : p.desc[s] = q.desc[s]
    PROVE  SizeOf(p, d) = SizeOf(q, d)
  <1>1. \A s \in SlotsOf(p, d) : SizesIn(p)[s] = SizesIn(q)[s]
    BY SlotsOfFinite DEF SizesIn
  <1>2. SumOver(SizesIn(p), SlotsOf(p, d)) = SumOver(SizesIn(q), SlotsOf(p, d))
    BY <1>1, SlotsOfFinite, SumSame
  <1> QED BY <1>2, SizeIsSum

\* One slot more makes a direction larger by one request and by that slot's size.
LEMMA SizeWith ==
    ASSUME NEW p, IsPool(p), NEW q, IsPool(q), NEW d \in Directions,
           NEW s \in SlotIds, s \notin SlotsOf(p, d), SlotsOf(q, d) = SlotsOf(p, d) \cup {s},
           \A t \in SlotsOf(p, d) : p.desc[t] = q.desc[t]
    PROVE  /\ SizeOf(q, d) = SizeOf(p, d) + q.desc[s].size
           /\ Cardinality(SlotsOf(q, d)) = Cardinality(SlotsOf(p, d)) + 1
           /\ Cardinality(SlotsOf(p, d)) \in Nat
           /\ SizeOf(p, d) \in Nat /\ q.desc[s].size \in Nat
  <1> DEFINE U == SlotsOf(q, d)
             F == SizesIn(q)
  <1>1. IsFiniteSet(U) /\ U \subseteq SlotIds /\ s \in U
    BY SlotsOfFinite
  <1>2. \A t \in U : F[t] \in Nat
    BY <1>1, PoolFields DEF SizesIn, Descriptors, NoDescriptor
  <1>3. F[s] = q.desc[s].size
    BY DEF SizesIn
  <1>4. U \ {s} = SlotsOf(p, d)
    OBVIOUS
  <1>5. SizeOf(q, d) = SumOver(F, U)
    BY SizeIsSum
  <1>6. SizeOf(p, d) = SumOver(F, U \ {s})
    <2>1. \A t \in SlotsOf(p, d) : SizesIn(p)[t] = F[t]
      BY SlotsOfFinite DEF SizesIn
    <2>2. SumOver(SizesIn(p), SlotsOf(p, d)) = SumOver(F, SlotsOf(p, d))
      <3> HIDE DEF F
      <3> QED BY <2>1, SlotsOfFinite, SumSame
    <2> QED BY <1>4, <2>2, SizeIsSum
  <1>7. SumOver(F, U) = F[s] + SumOver(F, U \ {s})
    <2> HIDE DEF F, U
    <2> QED BY <1>1, <1>2, SumWithout
  <1>8. SizeOf(p, d) \in Nat /\ F[s] \in Nat
    BY <1>1, <1>2, SizeType
  <1>9. Cardinality(SlotsOf(p, d)) \in Nat
        /\ Cardinality(U) = Cardinality(SlotsOf(p, d)) + 1
    BY SlotsOfFinite, FS_CardinalityType, FS_AddElement
  <1> HIDE DEF F
  <1> QED BY <1>3, <1>5, <1>6, <1>7, <1>8, <1>9

(***************************************************************************)
(* What the methods do to the books.                                        *)
(***************************************************************************)
\* Nothing is in use after start(), and the counters are zero.
LEMMA NewBooks ==
    ASSUME NEW p, IsPool(p), p.count = NoCounts, p.bytes = NoBytes,
           p.inUse = [s \in SlotIds |-> FALSE]
    PROVE  BooksAgree(p)
  <1>1. \A d \in Directions : Zero[d] = 0
    BY DEF Zero
  <1>2. \A d \in Directions : SlotsOf(p, d) = {}
    BY SlotsOfFinite
  <1>3. p.bytes \in Bytes
    BY DEF NoBytes, Bytes, Zero
  <1>4. RequestsAgree(p)
    BY <1>1, <1>2, FS_EmptySet DEF RequestsAgree, NoCounts
  <1>5. BytesAgree(p)
    BY <1>1, <1>2, SizeType DEF BytesAgree, NoBytes
  <1> QED BY <1>3, <1>4, <1>5 DEF BooksAgree, SlotsDescribed

\* A call that touches no slot, no total of requests and no total of bytes.
LEMMA SameBooks ==
    ASSUME NEW p, IsPool(p), BooksAgree(p), NEW q, IsPool(q),
           q.slots = p.slots, q.inUse = p.inUse, q.desc = p.desc, q.bytes = p.bytes,
           q.count.submits = p.count.submits, q.count.completions = p.count.completions,
           q.count.cancels = p.count.cancels
    PROVE  BooksAgree(q)
  <1>1. \A d \in Directions : SlotsOf(q, d) = SlotsOf(p, d)
    BY DEF SlotsOf, Busy, ConfiguredSlots
  <1>2. \A d \in Directions : SizeOf(q, d) = SizeOf(p, d)
    BY <1>1, SizeSame
  <1> QED BY <1>1, <1>2 DEF BooksAgree, SlotsDescribed, RequestsAgree, BytesAgree

\* submit() adds one request, and its bytes, to its direction.
LEMMA SubmitBooks ==
    ASSUME NEW p, IsPool(p), BooksAgree(p), NEW s \in SlotIds, s < p.slots, ~p.inUse[s],
           NEW d \in Descriptors
    PROVE  BooksAgree(PoolSubmitAt(p, s, d))
  <1> DEFINE q == PoolSubmitAt(p, s, d)
             c == AccountSubmit(p.count, d)
             u == [p.inUse EXCEPT ![s] = TRUE]
             e == [p.desc EXCEPT ![s] = d]
             b == [p.bytes EXCEPT !.submitted[d.dir] = @ + d.size]
             k == d.dir
  <1>1. q = [p EXCEPT !.inUse = u, !.desc = e, !.count = c, !.bytes = b]
    BY DEF PoolSubmitAt
  <1>2. /\ q.slots = p.slots /\ q.inUse = u /\ q.desc = e /\ q.count = c /\ q.bytes = b
        /\ IsPool(q)
    <2>1. IsPool(q)
      BY SubmitFields
    <2> HIDE DEF q, u, e, c, b
    <2> QED BY <1>1, <2>1 DEF IsPool
  <1>3. k \in Directions /\ d.size \in Nat \ {0}
    BY DEF Descriptors
  <1>4. /\ c.submits = [p.count.submits EXCEPT ![k] = @ + 1]
        /\ c.completions = p.count.completions
        /\ c.cancels = p.count.cancels
    BY PoolFields DEF AccountSubmit, Counts
  <1>5. /\ b.submitted = [p.bytes.submitted EXCEPT ![k] = @ + d.size]
        /\ b.completed = p.bytes.completed
        /\ b.cancelled = p.bytes.cancelled
        /\ b \in Bytes
    BY <1>3 DEF BooksAgree, Bytes
  <1>6. /\ p.count.submits \in [Directions -> Nat] /\ p.count.completions \in [Directions -> Nat]
        /\ p.count.cancels \in [Directions -> Nat]
        /\ p.bytes.submitted \in [Directions -> Nat] /\ p.bytes.completed \in [Directions -> Nat]
        /\ p.bytes.cancelled \in [Directions -> Nat]
    BY PoolFields DEF Counts, BooksAgree, Bytes
  <1>7. /\ \A t \in SlotIds : u[t] <=> (t = s \/ p.inUse[t])
        /\ \A t \in SlotIds : e[t] = IF t = s THEN d ELSE p.desc[t]
    BY PoolFields
  <1> HIDE DEF q, c, u, e, b, k
  <1>8. SlotsDescribed(q)
    BY <1>2, <1>7 DEF BooksAgree, SlotsDescribed
  <1>9. ASSUME NEW f \in Directions
        PROVE  /\ f # k => SlotsOf(q, f) = SlotsOf(p, f)
               /\ f = k => SlotsOf(q, f) = SlotsOf(p, f) \cup {s}
               /\ s \notin SlotsOf(p, f)
               /\ \A t \in SlotsOf(p, f) : p.desc[t] = q.desc[t]
    <2>1. /\ SlotsOf(p, f) \subseteq SlotIds
          /\ SlotsOf(q, f) \subseteq SlotIds
          /\ \A t \in SlotIds : t \in SlotsOf(p, f) <=> t < p.slots /\ p.inUse[t] /\ p.desc[t].dir = f
          /\ \A t \in SlotIds : t \in SlotsOf(q, f) <=> t < q.slots /\ q.inUse[t] /\ q.desc[t].dir = f
      BY <1>2, SlotsOfFinite
    <2>2. s \notin SlotsOf(p, f) /\ \A t \in SlotsOf(p, f) : p.desc[t] = q.desc[t]
      BY <1>2, <1>7, <2>1
    <2>3. \A t \in SlotIds : t \in SlotsOf(q, f) <=> t \in SlotsOf(p, f) \/ (t = s /\ f = k)
      BY <1>2, <1>7, <2>1 DEF k
    <2> QED BY <2>1, <2>2, <2>3
  <1>10. ASSUME NEW f \in Directions
         PROVE  /\ c.submits[f] = c.completions[f] + c.cancels[f] + Cardinality(SlotsOf(q, f))
                /\ b.submitted[f] = b.completed[f] + b.cancelled[f] + SizeOf(q, f)
    <2>1. /\ p.count.submits[f] = p.count.completions[f] + p.count.cancels[f]
                                    + Cardinality(SlotsOf(p, f))
          /\ p.bytes.submitted[f] = p.bytes.completed[f] + p.bytes.cancelled[f] + SizeOf(p, f)
      BY DEF BooksAgree, RequestsAgree, BytesAgree
    <2>2. CASE f # k
      <3>1. SizeOf(q, f) = SizeOf(p, f)
        BY <1>2, <1>9, <2>2, SizeSame
      <3> QED BY <1>4, <1>5, <1>6, <1>9, <2>1, <2>2, <3>1
    <2>3. CASE f = k
      <3>1. /\ SizeOf(q, f) = SizeOf(p, f) + q.desc[s].size
            /\ Cardinality(SlotsOf(q, f)) = Cardinality(SlotsOf(p, f)) + 1
            /\ Cardinality(SlotsOf(p, f)) \in Nat
            /\ SizeOf(p, f) \in Nat
        BY <1>2, <1>9, <2>3, SizeWith
      <3>2. q.desc[s] = d
        BY <1>2, <1>7
      <3> QED BY <1>3, <1>4, <1>5, <1>6, <2>1, <2>3, <3>1, <3>2
    <2> QED BY <2>2, <2>3
  <1> QED BY <1>2, <1>5, <1>8, <1>10 DEF BooksAgree, RequestsAgree, BytesAgree, q

\* complete() moves one request, and its bytes, from live to completed.
LEMMA RetiredBooks ==
    ASSUME NEW p, IsPool(p), BooksAgree(p), p.count.live # 0,
           NEW s \in SlotIds, s < p.slots, p.inUse[s]
    PROVE  BooksAgree(Retired(p, s))
  <1> DEFINE q == Retired(p, s)
             d == p.desc[s]
             c == AccountCompletion(p.count, d)
             u == [p.inUse EXCEPT ![s] = FALSE]
             g == [p.gen EXCEPT ![s] = Bump(@)]
             e == [p.desc EXCEPT ![s] = NoDescriptor]
             b == [p.bytes EXCEPT !.completed[d.dir] = @ + d.size]
             k == d.dir
  <1>1. q = [p EXCEPT !.inUse = u, !.gen = g, !.desc = e, !.count = c, !.bytes = b]
    BY DEF Retired
  <1>2. /\ q.slots = p.slots /\ q.inUse = u /\ q.desc = e /\ q.count = c /\ q.bytes = b
        /\ IsPool(q)
    <2>1. IsPool(q)
      BY RetiredFields
    <2> HIDE DEF q, u, g, e, c, b
    <2> QED BY <1>1, <2>1 DEF IsPool
  <1>3. k \in Directions /\ d.size \in Nat \ {0}
    BY DEF BooksAgree, SlotsDescribed, Descriptors
  <1>4. /\ c.submits = p.count.submits
        /\ c.completions = [p.count.completions EXCEPT ![k] = @ + 1]
        /\ c.cancels = p.count.cancels
    BY PoolFields DEF AccountCompletion, Counts
  <1>5. /\ b.submitted = p.bytes.submitted
        /\ b.completed = [p.bytes.completed EXCEPT ![k] = @ + d.size]
        /\ b.cancelled = p.bytes.cancelled
        /\ b \in Bytes
    BY <1>3 DEF BooksAgree, Bytes
  <1>6. /\ p.count.submits \in [Directions -> Nat] /\ p.count.completions \in [Directions -> Nat]
        /\ p.count.cancels \in [Directions -> Nat]
        /\ p.bytes.submitted \in [Directions -> Nat] /\ p.bytes.completed \in [Directions -> Nat]
        /\ p.bytes.cancelled \in [Directions -> Nat]
    BY PoolFields DEF Counts, BooksAgree, Bytes
  <1>7. /\ \A t \in SlotIds : u[t] <=> (t # s /\ p.inUse[t])
        /\ \A t \in SlotIds : t # s => e[t] = p.desc[t]
    BY PoolFields
  <1>8. k = p.desc[s].dir /\ d = p.desc[s]
    OBVIOUS
  <1> HIDE DEF q, c, u, g, e, b, k, d
  <1>9. SlotsDescribed(q)
    BY <1>2, <1>7 DEF BooksAgree, SlotsDescribed
  <1>10. ASSUME NEW f \in Directions
         PROVE  /\ f # k => SlotsOf(p, f) = SlotsOf(q, f)
                /\ f = k => SlotsOf(p, f) = SlotsOf(q, f) \cup {s}
                /\ s \notin SlotsOf(q, f)
                /\ \A t \in SlotsOf(q, f) : q.desc[t] = p.desc[t]
    <2>1. /\ SlotsOf(p, f) \subseteq SlotIds
          /\ SlotsOf(q, f) \subseteq SlotIds
          /\ \A t \in SlotIds : t \in SlotsOf(p, f) <=> t < p.slots /\ p.inUse[t] /\ p.desc[t].dir = f
          /\ \A t \in SlotIds : t \in SlotsOf(q, f) <=> t < q.slots /\ q.inUse[t] /\ q.desc[t].dir = f
      BY <1>2, SlotsOfFinite
    <2>2. s \notin SlotsOf(q, f) /\ \A t \in SlotsOf(q, f) : q.desc[t] = p.desc[t]
      BY <1>2, <1>7, <2>1
    <2>3. \A t \in SlotIds : t \in SlotsOf(p, f) <=> t \in SlotsOf(q, f) \/ (t = s /\ f = k)
      BY <1>2, <1>7, <1>8, <2>1
    <2> QED BY <2>1, <2>2, <2>3
  <1>11. ASSUME NEW f \in Directions
         PROVE  /\ c.submits[f] = c.completions[f] + c.cancels[f] + Cardinality(SlotsOf(q, f))
                /\ b.submitted[f] = b.completed[f] + b.cancelled[f] + SizeOf(q, f)
    <2>1. /\ p.count.submits[f] = p.count.completions[f] + p.count.cancels[f]
                                    + Cardinality(SlotsOf(p, f))
          /\ p.bytes.submitted[f] = p.bytes.completed[f] + p.bytes.cancelled[f] + SizeOf(p, f)
      BY DEF BooksAgree, RequestsAgree, BytesAgree
    <2>2. CASE f # k
      <3>1. SizeOf(q, f) = SizeOf(p, f)
        BY <1>2, <1>10, <2>2, SizeSame
      <3> QED BY <1>4, <1>5, <1>6, <1>10, <2>1, <2>2, <3>1
    <2>3. CASE f = k
      <3>1. /\ SizeOf(p, f) = SizeOf(q, f) + p.desc[s].size
            /\ Cardinality(SlotsOf(p, f)) = Cardinality(SlotsOf(q, f)) + 1
            /\ Cardinality(SlotsOf(q, f)) \in Nat
            /\ SizeOf(q, f) \in Nat
        BY <1>2, <1>10, <2>3, SizeWith
      <3> QED BY <1>3, <1>4, <1>5, <1>6, <1>8, <2>1, <2>3, <3>1
    <2> QED BY <2>2, <2>3
  <1> QED BY <1>2, <1>5, <1>9, <1>11 DEF BooksAgree, RequestsAgree, BytesAgree, q

\* cancel_all() moves every live request, and its bytes, to cancelled.
LEMMA CancelBooks ==
    ASSUME NEW p, IsPool(p), BooksAgree(p), p.count.live = Cardinality(Busy(p)),
           \A s \in SlotIds : p.inUse[s] => s < p.slots
    PROVE  BooksAgree(PoolCancelLive(p))
  <1> DEFINE q == PoolCancelLive(p)
             c == AccountCancel(p)
             n == [d \in Directions |-> p.count.cancels[d] + Cardinality(SlotsOf(p, d))]
             z == [d \in Directions |-> p.bytes.cancelled[d] + SizeOf(p, d)]
             b == [p.bytes EXCEPT !.cancelled = z]
  <1>1. /\ IsPool(q)
        /\ q.slots = p.slots
        /\ q.inUse = [s \in SlotIds |-> IF s \in Busy(p) THEN FALSE ELSE p.inUse[s]]
    BY CancelFields
  <1>2. q.count = c
    BY DEF PoolCancelLive, IsPool
  <1>3. q.bytes = b
    BY DEF PoolCancelLive, IsPool
  <1>4. /\ c.submits = p.count.submits
        /\ c.completions = p.count.completions
        /\ c.cancels = n
    BY PoolFields DEF AccountCancel, Counts
  <1>5. \A d \in Directions : SizeOf(p, d) \in Nat /\ Cardinality(SlotsOf(p, d)) \in Nat
    BY SizeType, SlotsOfFinite, FS_CardinalityType
  <1>6. /\ b.submitted = p.bytes.submitted
        /\ b.completed = p.bytes.completed
        /\ b.cancelled = z
        /\ b \in Bytes
    <2>1. z \in [Directions -> Nat]
      BY <1>5 DEF BooksAgree, Bytes
    <2> HIDE DEF z
    <2> QED BY <2>1 DEF BooksAgree, Bytes
  <1>7. /\ p.count.submits \in [Directions -> Nat] /\ p.count.completions \in [Directions -> Nat]
        /\ p.count.cancels \in [Directions -> Nat]
        /\ p.bytes.submitted \in [Directions -> Nat] /\ p.bytes.completed \in [Directions -> Nat]
        /\ p.bytes.cancelled \in [Directions -> Nat]
    BY PoolFields DEF Counts, BooksAgree, Bytes
  <1> HIDE DEF q, c, b
  <1>8. \A s \in SlotIds : ~q.inUse[s]
    <2>1. \A s \in SlotIds : p.inUse[s] => s \in Busy(p)
      BY PoolFields, PoolConstants DEF Busy, ConfiguredSlots, SlotIds
    <2> QED BY <1>1, <2>1
  <1>9. ASSUME NEW d \in Directions
        PROVE  SizeOf(q, d) = 0 /\ Cardinality(SlotsOf(q, d)) = 0
    <2>1. SlotsOf(q, d) = {}
      BY <1>1, <1>8, SlotsOfFinite
    <2> QED BY <1>1, <2>1, SizeType, FS_EmptySet
  <1>10. ASSUME NEW d \in Directions
         PROVE  /\ c.submits[d] = c.completions[d] + c.cancels[d] + Cardinality(SlotsOf(q, d))
                /\ b.submitted[d] = b.completed[d] + b.cancelled[d] + SizeOf(q, d)
    <2>1. /\ p.count.submits[d] = p.count.completions[d] + p.count.cancels[d]
                                    + Cardinality(SlotsOf(p, d))
          /\ p.bytes.submitted[d] = p.bytes.completed[d] + p.bytes.cancelled[d] + SizeOf(p, d)
      BY DEF BooksAgree, RequestsAgree, BytesAgree
    <2> QED BY <1>4, <1>5, <1>6, <1>7, <1>9, <2>1
  <1> QED BY <1>2, <1>3, <1>6, <1>8, <1>10 DEF BooksAgree, SlotsDescribed, RequestsAgree, BytesAgree, q

\* A refused submit() or complete() counts a refusal and touches no total.
LEMMA RefusalBooks ==
    ASSUME NEW p, IsPool(p), BooksAgree(p), NEW h
    PROVE  BooksAgree(PoolSubmitRefused(p)) /\ BooksAgree(Refused(p, h))
  <1>1. BooksAgree(PoolSubmitRefused(p))
    <2> DEFINE q == PoolSubmitRefused(p)
    <2>1. IsPool(q)
      BY SubmitRefusedFields
    <2>2. /\ q.slots = p.slots /\ q.inUse = p.inUse /\ q.desc = p.desc /\ q.bytes = p.bytes
          /\ q.count.submits = p.count.submits /\ q.count.completions = p.count.completions
          /\ q.count.cancels = p.count.cancels
      BY DEF PoolSubmitRefused, IsPool, Counts
    <2> HIDE DEF q
    <2> QED BY <2>1, <2>2, SameBooks DEF q
  <1>2. BooksAgree(Refused(p, h))
    <2> DEFINE q == Refused(p, h)
    <2>1. IsPool(q)
      BY RefusedFields
    <2>2. /\ q.slots = p.slots /\ q.inUse = p.inUse /\ q.desc = p.desc /\ q.bytes = p.bytes
          /\ q.count.submits = p.count.submits /\ q.count.completions = p.count.completions
          /\ q.count.cancels = p.count.cancels
      BY DEF Refused, AccountRefusal, IsPool, Counts
    <2> HIDE DEF q
    <2> QED BY <2>1, <2>2, SameBooks DEF q
  <1> QED BY <1>1, <1>2

(***************************************************************************)
(* The invariant.                                                           *)
(***************************************************************************)
\* Every step of the pool and its clients keeps the books.
LEMMA NextBooks == IndInv /\ BooksAgree(pool) /\ [Next]_vars => BooksAgree(pool')
  <1> SUFFICES ASSUME IndInv, BooksAgree(pool), [Next]_vars
               PROVE  BooksAgree(pool')
    OBVIOUS
  <1>1. IsPool(pool)
    BY DEF IndInv, TypeOK
  <1>2. ASSUME NEW n \in 1 .. MaxSlots, Start(n) PROVE BooksAgree(pool')
    <2>1. pool' = PoolStart(pool, n)
      BY <1>2 DEF Start
    <2>2. /\ IsPool(pool') /\ pool'.count = NoCounts
          /\ pool'.inUse = [s \in SlotIds |-> FALSE]
      BY <1>1, <2>1, StartFields
    <2>3. pool'.bytes = NoBytes
      BY <1>1, <2>1 DEF PoolStart, IsPool
    <2> QED BY <2>2, <2>3, NewBooks
  <1>3. CASE Stop
    <2>1. pool' = PoolStop(pool)
      BY <1>3 DEF Stop
    <2>2. /\ pool'.slots = pool.slots /\ pool'.inUse = pool.inUse /\ pool'.desc = pool.desc
          /\ pool'.bytes = pool.bytes /\ pool'.count = pool.count
      BY <1>1, <2>1 DEF PoolStop, IsPool
    <2>3. IsPool(pool')
      BY <1>1, <2>1, StopFields
    <2> QED BY <1>1, <2>2, <2>3, SameBooks
  <1>4. ASSUME NEW s \in SlotIds, NEW d \in [dir : Directions, size : Sizes], Submit(s, d)
        PROVE BooksAgree(pool')
    <2>1. d \in Descriptors
      BY LifecycleConstants DEF Descriptors
    <2>2. s < pool.slots /\ ~pool.inUse[s]
      BY <1>1, <1>4, PoolFields DEF Submit, IsFreeSlot, ConfiguredSlots
    <2> QED BY <1>1, <1>4, <2>1, <2>2, SubmitBooks DEF Submit
  <1>5. CASE SubmitRefused
    BY <1>1, <1>5, RefusalBooks DEF SubmitRefused
  <1>6. ASSUME NEW t \in tickets, Complete(t) PROVE BooksAgree(pool')
    <2>1. CASE Accepts(pool, t.handle)
      <3> DEFINE s == t.handle.slot
      <3>1. pool' = Retired(pool, s)
        BY <1>6, <2>1 DEF Complete, PoolComplete
      <3>2. s \in SlotIds /\ s < pool.slots /\ pool.inUse[s] /\ s \in Busy(pool)
        BY <1>1, <2>1, PoolFields
        DEF Accepts, HandleInRange, ConfiguredSlots, Busy, IndInv, TypeOK, Tickets, Handles
      <3>3. pool.count.live # 0
        BY <1>1, <3>2, BusyFinite, FS_EmptySet DEF IndInv, LiveCountExact
      <3> QED BY <1>1, <3>1, <3>2, <3>3, RetiredBooks
    <2>2. CASE ~Accepts(pool, t.handle)
      BY <1>1, <1>6, <2>2, RefusalBooks DEF Complete, PoolComplete
    <2> QED BY <2>1, <2>2
  <1>7. CASE CompleteInvalid
    <2>1. ~Accepts(pool, NoHandle)
      BY DEF Accepts, HandleInRange, ConfiguredSlots, NoHandle
    <2> QED BY <1>1, <1>7, <2>1, RefusalBooks DEF CompleteInvalid, PoolComplete
  <1>8. CASE CancelAll
    <2>1. pool' = PoolCancelLive(pool)
      BY <1>8 DEF CancelAll, PoolCancelAll
    <2>2. \A s \in SlotIds : pool.inUse[s] => s < pool.slots
      BY DEF IndInv, BusyConfigured
    <2> QED BY <1>1, <2>1, <2>2, CancelBooks DEF IndInv, LiveCountExact
  <1>9. CASE UNCHANGED vars
    BY <1>9 DEF vars
  <1> QED BY <1>2, <1>3, <1>4, <1>5, <1>6, <1>7, <1>8, <1>9 DEF Next

\* The books of the pool agree in every reachable state.
THEOREM PoolBooks == Spec => []BooksAgree(pool)
  <1>1. Init => BooksAgree(pool)
    <2> SUFFICES ASSUME Init PROVE BooksAgree(pool)
      OBVIOUS
    <2>1. pool.count = NoCounts /\ pool.bytes = NoBytes /\ pool.inUse = [s \in SlotIds |-> FALSE]
      BY DEF Init, NewPool
    <2> QED BY <2>1, NewPoolType, NewBooks DEF Init
  <1>2. IndInv /\ BooksAgree(pool) /\ [Next]_vars => BooksAgree(pool)'
    BY NextBooks
  <1> QED BY <1>1, <1>2, Invariance, PTL DEF Spec

\* What was submitted is live, completed or cancelled, in requests and in bytes, for each
\* direction: safety() finds the books balanced once the pool is drained.
THEOREM WorkIsConserved == Spec => []WorkConserved
  <1>1. IndInv /\ BooksAgree(pool) => WorkConserved
    BY DEF IndInv, BooksAgree, RequestsAgree, BytesAgree, WorkConserved
  <1> QED BY <1>1, Invariance, PoolBooks, PTL

(***************************************************************************)
(* The request pool implements the ledger: every step of UsbRequestLifecycle *)
(* is a step of UsbRequestLedger, or changes nothing the ledger can see.    *)
(*                                                                         *)
(* What the ledger sees is a set of identities; the pool has slots and      *)
(* generations.  The invariant below relates the two: no two slots in use   *)
(* hold the same request, a request that is live is neither retired nor     *)
(* lost, and every handle of a live request is the current one of its slot. *)
(***************************************************************************)
RetiredIds == completed \cup cancelled

OwnersDistinct ==
    \A r, s \in SlotIds : pool.inUse[r] /\ pool.inUse[s] /\ owner[r] = owner[s] => r = s
PastIssued == RetiredIds \cup lost \subseteq 1 .. serial
LiveApart == LiveIds \cap (RetiredIds \cup lost) = {}
TicketsKnown == \A t \in tickets : t.id \in LiveIds \cup RetiredIds \cup lost
LiveTicketsCurrent ==
    \A t \in tickets :
        t.id \in LiveIds => /\ pool.inUse[t.handle.slot]
                            /\ owner[t.handle.slot] = t.id
                            /\ t.bump = bumps[t.handle.slot]
IdentityInv ==
    /\ OwnersDistinct
    /\ PastIssued
    /\ LiveApart
    /\ TicketsKnown
    /\ LiveTicketsCurrent

(***************************************************************************)
(* What each action does to the identities.                                 *)
(***************************************************************************)
\* The live identities are functions of the slots in use and their owners.
LEMMA SameSlotsSameIds ==
    ASSUME pool'.inUse = pool.inUse, owner' = owner
    PROVE  LiveIds' = LiveIds
  BY DEF LiveIds

\* start() leaves nothing live, and opens the pool.
LEMMA StartEffect ==
    ASSUME IndInv, NEW n \in 1 .. MaxSlots, Start(n)
    PROVE  /\ pool'.started
           /\ \A s \in SlotIds : ~pool'.inUse[s]
           /\ LiveIds' = {}
  <1>1. pool'.started /\ pool'.inUse = [s \in SlotIds |-> FALSE]
    BY StartFields DEF Start, IndInv, TypeOK
  <1> QED BY <1>1 DEF LiveIds

\* submit() adds the identity it issues.
LEMMA SubmitEffect ==
    ASSUME IndInv, NEW s \in SlotIds, NEW d \in [dir : Directions, size : Sizes], Submit(s, d)
    PROVE  /\ pool'.started = pool.started
           /\ pool'.inUse = [pool.inUse EXCEPT ![s] = TRUE]
           /\ owner' = [owner EXCEPT ![s] = serial + 1]
           /\ ~pool.inUse[s]
           /\ serial + 1 \in 1 .. MaxSubmits
           /\ LiveIds' = LiveIds \cup {serial + 1}
  <1>1. d \in Descriptors
    BY LifecycleConstants DEF Descriptors
  <1>2. IsPool(pool) /\ pool' = PoolSubmitAt(pool, s, d)
    BY DEF Submit, IndInv, TypeOK
  <1>3. /\ pool'.started = pool.started
        /\ pool'.inUse = [pool.inUse EXCEPT ![s] = TRUE]
    BY <1>1, <1>2, SubmitFields
  <1>4. /\ owner' = [owner EXCEPT ![s] = serial + 1]
        /\ ~pool.inUse[s]
        /\ serial + 1 \in 1 .. MaxSubmits
    BY LifecycleConstants DEF Submit, IsFreeSlot, IndInv, TypeOK
  <1>5. pool.inUse \in [SlotIds -> BOOLEAN] /\ owner \in [SlotIds -> 0 .. MaxSubmits]
    BY PoolFields DEF IndInv, TypeOK
  <1>6. \A t \in SlotIds : /\ pool'.inUse[t] <=> (t = s \/ pool.inUse[t])
                           /\ owner'[t] = IF t = s THEN serial + 1 ELSE owner[t]
    BY <1>3, <1>4, <1>5
  <1>7. LiveIds' = LiveIds \cup {serial + 1}
    BY <1>4, <1>6 DEF LiveIds
  <1> QED BY <1>3, <1>4, <1>7

\* An accepted completion retires the identity that owns its slot, and no other.
LEMMA AcceptEffect ==
    ASSUME IndInv, OwnersDistinct, NEW t \in tickets, Complete(t), Accepts(pool, t.handle)
    PROVE  /\ t.handle.slot \in SlotIds
           /\ pool.started
           /\ pool'.started = pool.started
           /\ pool.inUse[t.handle.slot]
           /\ pool'.inUse = [pool.inUse EXCEPT ![t.handle.slot] = FALSE]
           /\ owner[t.handle.slot] \in LiveIds
           /\ LiveIds' = LiveIds \ {owner[t.handle.slot]}
           /\ completed' = completed \cup {owner[t.handle.slot]}
  <1> DEFINE s == t.handle.slot
  <1>1. s \in SlotIds
    BY DEF IndInv, TypeOK, Tickets, Handles
  <1>2. pool.started /\ pool.inUse[s] /\ s \in ConfiguredSlots(pool)
    BY DEF Accepts, HandleInRange
  <1>3. pool.count.live # 0
    <2>1. s \in Busy(pool) /\ IsFiniteSet(Busy(pool))
      BY <1>2, BusyFinite DEF Busy, IndInv, TypeOK
    <2> QED BY <2>1, FS_EmptySet DEF LiveCountExact, IndInv
  <1>4. pool' = Retired(pool, s)
    BY DEF Complete, PoolComplete
  <1>5. pool'.started = pool.started /\ pool'.inUse = [pool.inUse EXCEPT ![s] = FALSE]
    BY <1>1, <1>3, <1>4, RetiredFields DEF IndInv, TypeOK
  <1>6. owner' = owner /\ completed' = completed \cup {owner[s]}
    BY DEF Complete
  <1>7. pool.inUse \in [SlotIds -> BOOLEAN]
    BY PoolFields DEF IndInv, TypeOK
  <1> HIDE DEF s
  <1>8. \A r \in SlotIds : pool'.inUse[r] <=> (r # s /\ pool.inUse[r])
    BY <1>1, <1>5, <1>7
  <1>9. LiveIds' = LiveIds \ {owner[s]}
    BY <1>1, <1>2, <1>6, <1>8 DEF LiveIds, OwnersDistinct
  <1>10. owner[s] \in LiveIds
    BY <1>1, <1>2 DEF LiveIds
  <1> QED BY <1>1, <1>2, <1>5, <1>6, <1>9, <1>10 DEF s

\* A refused completion changes no identity.
LEMMA RefuseEffect ==
    ASSUME IndInv, NEW t \in tickets, Complete(t), ~Accepts(pool, t.handle)
    PROVE  /\ pool'.started = pool.started
           /\ pool'.inUse = pool.inUse
           /\ UNCHANGED <<serial, owner, bumps, tickets, cancelled, completed, lost>>
  <1>1. pool' = Refused(pool, t.handle)
    BY DEF Complete, PoolComplete
  <1>2. pool'.started = pool.started /\ pool'.inUse = pool.inUse
    BY <1>1, RefusedFields DEF IndInv, TypeOK
  <1>3. UNCHANGED <<serial, owner, bumps, tickets, cancelled, completed, lost>>
    BY DEF Complete
  <1> QED BY <1>2, <1>3

\* cancel_all() leaves nothing live.
LEMMA CancelEffect ==
    ASSUME IndInv, CancelAll
    PROVE  /\ pool'.started = pool.started
           /\ \A s \in SlotIds : ~pool'.inUse[s]
           /\ LiveIds' = {}
  <1>1. pool.inUse \in [SlotIds -> BOOLEAN] /\ pool.slots \in 0 .. MaxSlots
    BY PoolFields DEF IndInv, TypeOK
  <1>2. \A s \in SlotIds : s \in Busy(pool) <=> pool.inUse[s]
    BY <1>1 DEF Busy, ConfiguredSlots, BusyConfigured, SlotIds, IndInv
  <1>3. pool' = PoolCancelLive(pool)
    BY DEF CancelAll, PoolCancelAll
  <1>4. /\ pool'.started = pool.started
        /\ pool'.inUse = [s \in SlotIds |-> IF s \in Busy(pool) THEN FALSE ELSE pool.inUse[s]]
    BY <1>3, CancelFields DEF IndInv, LiveCountExact, TypeOK
  <1>5. \A s \in SlotIds : ~pool'.inUse[s]
    BY <1>1, <1>2, <1>4
  <1> QED BY <1>4, <1>5 DEF LiveIds

(***************************************************************************)
(* The invariant.                                                           *)
(***************************************************************************)
\* Nothing is live, retired or lost in a new pool.
LEMMA IdentityInit == Init => IdentityInv
  BY DEF Init, NewPool, IdentityInv, OwnersDistinct, PastIssued, RetiredIds, LiveApart, LiveIds,
         TicketsKnown, LiveTicketsCurrent

\* start() keeps it: what was live is lost now.
LEMMA StartIdentity ==
    ASSUME IndInv, IdentityInv, NEW n \in 1 .. MaxSlots, Start(n)
    PROVE  IdentityInv'
  <1>1. /\ \A s \in SlotIds : ~pool'.inUse[s]
        /\ LiveIds' = {}
    BY StartEffect
  <1>2. lost' = lost \cup LiveIds /\ RetiredIds' = RetiredIds /\ tickets' = tickets
        /\ serial' = serial
    BY DEF Start, RetiredIds
  <1>3. LiveIds \subseteq 1 .. serial
    BY LiveIdsIssued DEF IndInv
  <1>4. OwnersDistinct' /\ LiveApart' /\ LiveTicketsCurrent'
    BY <1>1 DEF OwnersDistinct, LiveApart, LiveTicketsCurrent
  <1>5. PastIssued' /\ TicketsKnown'
    BY <1>2, <1>3 DEF IdentityInv, PastIssued, TicketsKnown
  <1> QED BY <1>4, <1>5 DEF IdentityInv

\* submit() keeps it: the identity is new, and so is its ticket.
LEMMA SubmitIdentity ==
    ASSUME IndInv, IdentityInv, NEW s \in SlotIds,
           NEW d \in [dir : Directions, size : Sizes], Submit(s, d)
    PROVE  IdentityInv'
  <1> DEFINE new == [handle |-> HandleOf(pool, s), id |-> serial + 1, bump |-> bumps[s]]
  <1>1. /\ pool'.inUse = [pool.inUse EXCEPT ![s] = TRUE]
        /\ owner' = [owner EXCEPT ![s] = serial + 1]
        /\ ~pool.inUse[s]
        /\ LiveIds' = LiveIds \cup {serial + 1}
    BY SubmitEffect
  <1>2. /\ serial' = serial + 1 /\ tickets' = tickets \cup {new}
        /\ RetiredIds' = RetiredIds /\ lost' = lost /\ bumps' = bumps
    BY DEF Submit, RetiredIds
  <1>3. /\ pool.inUse \in [SlotIds -> BOOLEAN] /\ owner \in [SlotIds -> 0 .. MaxSubmits]
        /\ serial \in Nat
    BY PoolFields DEF IndInv, TypeOK
  <1>4. LiveIds \subseteq 1 .. serial
    BY LiveIdsIssued DEF IndInv
  <1>5. \A t \in SlotIds : /\ pool'.inUse[t] <=> (t = s \/ pool.inUse[t])
                           /\ owner'[t] = IF t = s THEN serial + 1 ELSE owner[t]
    BY <1>1, <1>3
  <1>6. OwnersDistinct'
    <2>1. \A t \in SlotIds : pool.inUse[t] => owner[t] # serial + 1
      BY <1>3 DEF IndInv, OwnersIssued
    <2> QED BY <1>5, <2>1 DEF IdentityInv, OwnersDistinct
  <1>7. PastIssued'
    BY <1>2, <1>3 DEF IdentityInv, PastIssued
  <1>8. LiveApart'
    BY <1>1, <1>2, <1>3 DEF IdentityInv, PastIssued, LiveApart
  <1>9. new.id = serial + 1 /\ new.handle.slot = s /\ new.bump = bumps[s]
    BY DEF HandleOf
  <1> HIDE DEF new
  <1>10. TicketsKnown'
    BY <1>1, <1>2, <1>9 DEF IdentityInv, TicketsKnown
  <1>11. LiveTicketsCurrent'
    <2> SUFFICES ASSUME NEW t \in tickets', t.id \in LiveIds'
                 PROVE  /\ pool'.inUse[t.handle.slot]
                        /\ owner'[t.handle.slot] = t.id
                        /\ t.bump = bumps'[t.handle.slot]
      BY DEF LiveTicketsCurrent
    <2>1. CASE t \in tickets
      <3>1. t.handle.slot \in SlotIds
        BY <2>1 DEF IndInv, TypeOK, Tickets, Handles
      <3>2. t.id # serial + 1
        BY <1>3, <2>1 DEF IndInv, TypeOK, Tickets, TicketsCurrent
      <3>3. /\ pool.inUse[t.handle.slot]
            /\ owner[t.handle.slot] = t.id
            /\ t.bump = bumps[t.handle.slot]
        BY <1>1, <2>1, <3>2 DEF IdentityInv, LiveTicketsCurrent
      <3> QED BY <1>1, <1>2, <1>5, <3>1, <3>3
    <2>2. CASE t = new
      BY <1>2, <1>5, <1>9, <2>2
    <2> QED BY <1>2, <2>1, <2>2
  <1> QED BY <1>6, <1>7, <1>8, <1>10, <1>11 DEF IdentityInv

\* An accepted completion keeps it: one identity moves from live to retired.
LEMMA AcceptIdentity ==
    ASSUME IndInv, IdentityInv, NEW t \in tickets, Complete(t), Accepts(pool, t.handle)
    PROVE  IdentityInv'
  <1> DEFINE s == t.handle.slot
  <1>1. /\ s \in SlotIds
        /\ pool.inUse[s]
        /\ pool'.inUse = [pool.inUse EXCEPT ![s] = FALSE]
        /\ owner[s] \in LiveIds
        /\ LiveIds' = LiveIds \ {owner[s]}
        /\ completed' = completed \cup {owner[s]}
    BY AcceptEffect DEF IdentityInv
  <1>2. /\ UNCHANGED <<serial, owner, tickets, cancelled, lost>>
        /\ bumps' = [bumps EXCEPT ![s] = @ + 1]
    BY DEF Complete
  <1>3. RetiredIds' = RetiredIds \cup {owner[s]}
    BY <1>1, <1>2 DEF RetiredIds
  <1>4. pool.inUse \in [SlotIds -> BOOLEAN] /\ bumps \in [SlotIds -> Nat]
    BY PoolFields DEF IndInv, TypeOK
  <1>5. LiveIds \subseteq 1 .. serial
    BY LiveIdsIssued DEF IndInv
  <1> HIDE DEF s
  <1>6. \A r \in SlotIds : /\ pool'.inUse[r] <=> (r # s /\ pool.inUse[r])
                           /\ r # s => bumps'[r] = bumps[r]
    BY <1>1, <1>2, <1>4
  <1>7. OwnersDistinct'
    BY <1>2, <1>6 DEF IdentityInv, OwnersDistinct
  <1>8. PastIssued' /\ LiveApart' /\ TicketsKnown'
    <2>1. PastIssued'
      BY <1>1, <1>2, <1>3, <1>5 DEF IdentityInv, PastIssued
    <2>2. LiveApart'
      BY <1>1, <1>2, <1>3 DEF IdentityInv, LiveApart
    <2>3. TicketsKnown'
      BY <1>1, <1>2, <1>3 DEF IdentityInv, TicketsKnown
    <2> QED BY <2>1, <2>2, <2>3
  <1>9. LiveTicketsCurrent'
    <2> SUFFICES ASSUME NEW u \in tickets, u.id \in LiveIds, u.id # owner[s]
                 PROVE  /\ pool'.inUse[u.handle.slot]
                        /\ owner[u.handle.slot] = u.id
                        /\ u.bump = bumps'[u.handle.slot]
      BY <1>1, <1>2 DEF LiveTicketsCurrent
    <2>1. u.handle.slot \in SlotIds
      BY DEF IndInv, TypeOK, Tickets, Handles
    <2>2. /\ pool.inUse[u.handle.slot]
          /\ owner[u.handle.slot] = u.id
          /\ u.bump = bumps[u.handle.slot]
      BY DEF IdentityInv, LiveTicketsCurrent
    <2>3. u.handle.slot # s
      BY <2>2
    <2> QED BY <1>6, <2>1, <2>2, <2>3
  <1> QED BY <1>7, <1>8, <1>9 DEF IdentityInv

\* Whatever leaves the slots alone keeps it.
LEMMA SameSlotsIdentity ==
    ASSUME IdentityInv, pool'.inUse = pool.inUse,
           UNCHANGED <<serial, owner, bumps, tickets, cancelled, completed, lost>>
    PROVE  IdentityInv'
  <1>1. LiveIds' = LiveIds
    BY SameSlotsSameIds
  <1>2. RetiredIds' = RetiredIds
    BY DEF RetiredIds
  <1> QED BY <1>1, <1>2 DEF IdentityInv, OwnersDistinct, PastIssued, LiveApart, TicketsKnown,
                            LiveTicketsCurrent

\* cancel_all() keeps it: what was live is retired.
LEMMA CancelIdentity ==
    ASSUME IndInv, IdentityInv, CancelAll
    PROVE  IdentityInv'
  <1>1. (\A s \in SlotIds : ~pool'.inUse[s]) /\ LiveIds' = {}
    BY CancelEffect
  <1>2. lost' = lost /\ tickets' = tickets /\ serial' = serial
        /\ RetiredIds' = RetiredIds \cup LiveIds
    BY DEF CancelAll, RetiredIds
  <1>3. LiveIds \subseteq 1 .. serial
    BY LiveIdsIssued DEF IndInv
  <1>4. OwnersDistinct' /\ LiveApart' /\ LiveTicketsCurrent'
    BY <1>1 DEF OwnersDistinct, LiveApart, LiveTicketsCurrent
  <1>5. PastIssued' /\ TicketsKnown'
    BY <1>2, <1>3 DEF IdentityInv, PastIssued, TicketsKnown
  <1> QED BY <1>4, <1>5 DEF IdentityInv

\* A call that the pool answers without touching a slot.
LEMMA QuietEffect ==
    ASSUME IndInv, SubmitRefused \/ CompleteInvalid
    PROVE  /\ pool'.started = pool.started
           /\ pool'.inUse = pool.inUse
           /\ UNCHANGED <<serial, owner, bumps, tickets, cancelled, completed, lost, delivery>>
  <1>1. IsPool(pool)
    BY DEF IndInv, TypeOK
  <1>2. CASE SubmitRefused
    BY <1>1, <1>2, SubmitRefusedFields DEF SubmitRefused
  <1>3. CASE CompleteInvalid
    <2>1. ~Accepts(pool, NoHandle)
      BY DEF Accepts, HandleInRange, ConfiguredSlots, NoHandle
    <2>2. pool' = Refused(pool, NoHandle)
      BY <1>3, <2>1 DEF CompleteInvalid, PoolComplete
    <2> QED BY <1>1, <1>3, <2>2, RefusedFields DEF CompleteInvalid
  <1> QED BY <1>2, <1>3

\* Every step keeps the identities apart.
LEMMA NextIdentity == IndInv /\ IdentityInv /\ [Next]_vars => IdentityInv'
  <1> SUFFICES ASSUME IndInv, IdentityInv, [Next]_vars PROVE IdentityInv'
    OBVIOUS
  <1>1. ASSUME NEW n \in 1 .. MaxSlots, Start(n) PROVE IdentityInv'
    BY <1>1, StartIdentity
  <1>2. CASE Stop
    BY <1>2, StopFields, SameSlotsIdentity DEF Stop, IndInv, TypeOK
  <1>3. ASSUME NEW s \in SlotIds, NEW d \in [dir : Directions, size : Sizes], Submit(s, d)
        PROVE IdentityInv'
    BY <1>3, SubmitIdentity
  <1>4. CASE SubmitRefused \/ CompleteInvalid
    BY <1>4, QuietEffect, SameSlotsIdentity
  <1>5. ASSUME NEW t \in tickets, Complete(t) PROVE IdentityInv'
    BY <1>5, AcceptIdentity, RefuseEffect, SameSlotsIdentity
  <1>6. CASE CancelAll
    BY <1>6, CancelIdentity
  <1>7. CASE UNCHANGED vars
    BY <1>7, SameSlotsIdentity DEF vars
  <1> QED BY <1>1, <1>2, <1>3, <1>4, <1>5, <1>6, <1>7 DEF Next

\* Two slots never hold one request, and a request that is live is not yet retired: no
\* submission is retired twice, and none is retired and still in flight.
THEOREM IdentitiesApart == Spec => []IdentityInv
  <1>1. Init => IdentityInv
    BY IdentityInit
  <1>2. IndInv /\ IdentityInv /\ [Next]_vars => IdentityInv'
    BY NextIdentity
  <1> QED BY <1>1, <1>2, Invariance, PTL DEF Spec

(***************************************************************************)
(* The refinement.                                                          *)
(***************************************************************************)
\* A completion of a request that no restart forgot is accepted exactly when the pool is
\* started and the request is live.
LEMMA AcceptedWhenLive ==
    ASSUME IndInv, IdentityInv, NEW t \in tickets, t.id \notin lost
    PROVE  Accepts(pool, t.handle) <=> (pool.started /\ t.id \in LiveIds)
  <1>1. t.handle.slot \in SlotIds /\ pool.slots \in 0 .. MaxSlots
    BY PoolFields DEF IndInv, TypeOK, Tickets, Handles
  <1>2. ASSUME Accepts(pool, t.handle) PROVE pool.started /\ t.id \in LiveIds
    <2>1. owner[t.handle.slot] = t.id
      BY <1>2, AcceptedIsCurrent
    <2> QED BY <1>1, <1>2, <2>1 DEF Accepts, HandleInRange, LiveIds
  <1>3. ASSUME pool.started, t.id \in LiveIds PROVE Accepts(pool, t.handle)
    <2>1. pool.inUse[t.handle.slot] /\ t.bump = bumps[t.handle.slot]
      BY <1>3 DEF IdentityInv, LiveTicketsCurrent
    <2>2. t.handle.slot \in ConfiguredSlots(pool)
      BY <1>1, <2>1 DEF ConfiguredSlots, IndInv, BusyConfigured, SlotIds
    <2>3. pool.gen[t.handle.slot] = t.handle.gen
      BY <1>1, <2>1 DEF IndInv, GenerationsCount, TicketsCurrent
    <2> QED BY <1>3, <2>1, <2>2, <2>3 DEF Accepts, HandleInRange
  <1> QED BY <1>2, <1>3

\* complete() is a delivery of the ledger: to its own request, or of a lost one.
LEMMA CompleteRefines ==
    ASSUME IndInv, IdentityInv, NEW t \in tickets, Complete(t)
    PROVE  Ledger!Deliver(t.id) \/ Ledger!DeliverLost(t.id)
  <1> DEFINE s == t.handle.slot
  <1>1. /\ lost' = lost
        /\ delivery' = [id |-> t.id, accepted |-> Accepts(pool, t.handle)]
    BY DEF Complete
  <1>2. t.id \in LiveIds \cup RetiredIds \cup lost
    BY DEF IdentityInv, TicketsKnown
  <1>3. CASE Accepts(pool, t.handle)
    <2>1. /\ pool.started /\ pool'.started = pool.started
          /\ owner[s] \in LiveIds
          /\ LiveIds' = LiveIds \ {owner[s]}
          /\ completed' \cup cancelled' = RetiredIds \cup {owner[s]}
          /\ delivery' = [id |-> t.id, accepted |-> TRUE]
      <3>1. Accepts(pool, t.handle) = TRUE
        BY <1>3 DEF Accepts, HandleInRange
      <3> QED BY <1>1, <1>3, <3>1, AcceptEffect DEF IdentityInv, RetiredIds, Complete
    <2>2. CASE t.id \in lost
      BY <1>1, <1>3, <2>1, <2>2 DEF Ledger!DeliverLost, RetiredIds
    <2>3. CASE t.id \notin lost
      <3>1. owner[s] = t.id
        BY <1>3, <2>3, AcceptedIsCurrent
      <3> QED BY <1>1, <1>3, <2>1, <2>3, <3>1 DEF Ledger!Deliver, RetiredIds
    <2> QED BY <2>2, <2>3
  <1>4. CASE ~Accepts(pool, t.handle)
    <2>1. /\ pool'.started = pool.started
          /\ LiveIds' = LiveIds
          /\ completed' \cup cancelled' = RetiredIds
          /\ delivery' = [id |-> t.id, accepted |-> FALSE]
      <3>1. Accepts(pool, t.handle) = FALSE
        BY <1>4 DEF Accepts, HandleInRange
      <3> QED BY <1>1, <1>4, <3>1, RefuseEffect, SameSlotsSameIds DEF RetiredIds
    <2>2. CASE t.id \in lost
      BY <1>1, <1>4, <2>1, <2>2 DEF Ledger!DeliverLost, RetiredIds
    <2>3. CASE t.id \notin lost
      BY <1>1, <1>2, <1>4, <2>1, <2>3, AcceptedWhenLive DEF Ledger!Deliver, RetiredIds
    <2> QED BY <2>2, <2>3
  <1> QED BY <1>3, <1>4

\* A new pool is an empty ledger.
LEMMA InitRefines == Init => Ledger!LedgerInit
  BY DEF Init, NewPool, LiveIds, NoDelivery, Ledger!LedgerInit, Ledger!NoDelivery

\* Every step of the pool is a step of the ledger, or one the ledger does not see.
LEMMA NextRefines ==
    IndInv /\ IdentityInv /\ [Next]_vars => [Ledger!LedgerNext]_(Ledger!ledgerVars)
  <1> SUFFICES ASSUME IndInv, IdentityInv, [Next]_vars
               PROVE  Ledger!LedgerNext \/ UNCHANGED Ledger!ledgerVars
    OBVIOUS
  <1>1. ASSUME NEW n \in 1 .. MaxSlots, Start(n) PROVE Ledger!Restart
    BY <1>1, StartEffect DEF Start, Ledger!Restart
  <1>2. ASSUME Stop PROVE Ledger!Shut
    BY <1>2, StopFields, SameSlotsSameIds DEF Stop, IndInv, TypeOK, Ledger!Shut
  <1>3. ASSUME NEW s \in SlotIds, NEW d \in [dir : Directions, size : Sizes], Submit(s, d)
        PROVE  serial + 1 \in 1 .. MaxSubmits /\ Ledger!Issue(serial + 1)
    <2>1. /\ pool.started /\ pool'.started = pool.started
          /\ serial + 1 \in 1 .. MaxSubmits
          /\ LiveIds' = LiveIds \cup {serial + 1}
          /\ UNCHANGED <<cancelled, completed, lost, delivery>>
      BY <1>3, SubmitEffect DEF Submit
    <2>2. serial + 1 \notin LiveIds \cup RetiredIds \cup lost
      BY LiveIdsIssued DEF IndInv, TypeOK, IdentityInv, PastIssued
    <2> QED BY <2>1, <2>2 DEF Ledger!Issue, Ledger!Known, RetiredIds
  <1>4. ASSUME SubmitRefused \/ CompleteInvalid PROVE UNCHANGED Ledger!ledgerVars
    BY <1>4, QuietEffect, SameSlotsSameIds DEF Ledger!ledgerVars
  <1>5. ASSUME NEW t \in tickets, Complete(t)
        PROVE  t.id \in 1 .. MaxSubmits /\ (Ledger!Deliver(t.id) \/ Ledger!DeliverLost(t.id))
    <2>1. t.id \in 1 .. MaxSubmits
      <3>1. t.id \in Nat \ {0} /\ serial \in 0 .. MaxSubmits
        BY <1>5 DEF IndInv, TypeOK, Tickets
      <3>2. t.id <= serial
        BY <1>5 DEF IndInv, TicketsCurrent
      <3> QED BY <3>1, <3>2, LifecycleConstants
    <2> QED BY <1>5, <2>1, CompleteRefines
  <1>6. ASSUME CancelAll PROVE Ledger!CancelLive
    BY <1>6, CancelEffect DEF CancelAll, Ledger!CancelLive
  <1>7. ASSUME UNCHANGED vars PROVE UNCHANGED Ledger!ledgerVars
    BY <1>7, SameSlotsSameIds DEF vars, Ledger!ledgerVars
  <1> QED BY <1>1, <1>2, <1>3, <1>4, <1>5, <1>6, <1>7 DEF Next, Ledger!LedgerNext

\* The pool implements the ledger: whatever the order of submissions, restarts, stops,
\* cancellations and late or repeated completions, each request that no restart forgot is
\* retired at most once, and only by its own completion or by a cancellation.
THEOREM PoolImplementsLedger == Spec => ImplementsLedger
  <1>1. Init => Ledger!LedgerInit
    BY InitRefines
  <1>2. IndInv /\ IdentityInv /\ [Next]_vars => [Ledger!LedgerNext]_(Ledger!ledgerVars)
    BY NextRefines
  <1> QED BY <1>1, <1>2, Invariance, IdentitiesApart, PTL
          DEF Spec, ImplementsLedger, Ledger!LedgerSpec

(***************************************************************************)
(* The macOS bridge.  Every session begins with a new pool, whose           *)
(* generations start again at 1, so that a handle of an earlier session may *)
(* look like one of this session; within the session it cannot.             *)
(***************************************************************************)
\* How far a generation has come: the one after the largest is 0.
Rank(g) == IF g = 0 THEN MaxGen + 1 ELSE g

RuntimeCounts == [submits : Nat, completions : Nat, cancels : Nat, failures : Nat,
                  liveLimit : Nat, mismatches : Nat, invalid : Nat]

\* The type of a bridge.
BridgeTyped(r) ==
    /\ r \in [started : BOOLEAN, maxLive : 0 .. MaxSlots, pool : {r.pool}, count : RuntimeCounts]
    /\ IsPool(r.pool)

\* A bridge owns its pool: it is started and stopped with it, its limit is within the pool, what
\* it counts as submitted is completed, cancelled or live, and the pool never had to refuse.
BridgeOwned(r) ==
    /\ r.pool.started = r.started
    /\ r.pool.count.live = Cardinality(Busy(r.pool))
    /\ r.pool.count.fallbacks = 0
    /\ \A s \in SlotIds : r.pool.inUse[s] => s < r.pool.slots
    /\ r.maxLive <= r.pool.slots
    /\ ~r.started => \A s \in SlotIds : ~r.pool.inUse[s]
    /\ r.count.submits = r.count.completions + r.count.cancels + Cardinality(Busy(r.pool))

\* The types of the history.
HistoryTyped ==
    /\ holder \in [SlotIds -> 0 .. MaxAccepted] /\ submissions \in 0 .. MaxAccepted
    /\ issued \subseteq [handle : Handles, id : 1 .. MaxAccepted]
    /\ ended \subseteq 1 .. submissions
    /\ \A t \in issued : t.id <= submissions

\* Every reuse of a slot moves its generation on, and takes a submission.
GenerationsEarned ==
    \A s \in SlotIds :
        Rank(runtime.pool.gen[s]) + (IF runtime.pool.inUse[s] THEN 1 ELSE 0) <= submissions + 1

\* A handle of this session is of its slot's present generation only while its own submission
\* is in the slot.
HandlesCurrent ==
    \A t \in issued : t.id \notin ended =>
        /\ Rank(t.handle.gen) <= Rank(runtime.pool.gen[t.handle.slot])
        /\ t.handle.gen = runtime.pool.gen[t.handle.slot] =>
              runtime.pool.inUse[t.handle.slot] /\ holder[t.handle.slot] = t.id

\* The last answer was for a submission that was accepted.
AnswerKnown ==
    /\ answer \in [id : 0 .. submissions, retired : 0 .. MaxAccepted]
    /\ answer.id = 0 => answer.retired = 0
    /\ SessionCompletionsMatch

SessionInv ==
    /\ BridgeTyped(runtime) /\ BridgeOwned(runtime) /\ HistoryTyped
    /\ GenerationsEarned /\ HandlesCurrent /\ AnswerKnown

\* What the methods of the pool do with the count of refused submissions.
LEMMA FallbacksKept ==
    ASSUME NEW p, IsPool(p)
    PROVE  /\ \A s \in SlotIds, d \in Descriptors :
                  PoolSubmitAt(p, s, d).count.fallbacks = p.count.fallbacks
           /\ \A s \in SlotIds : Retired(p, s).count.fallbacks = p.count.fallbacks
           /\ \A h : Refused(p, h).count.fallbacks = p.count.fallbacks
           /\ PoolCancelLive(p).count.fallbacks = p.count.fallbacks
           /\ PoolStop(p).count.fallbacks = p.count.fallbacks
           /\ NoCounts.fallbacks = 0
  <1>1. p.count \in Counts
    BY PoolFields
  <1>2. ASSUME NEW s \in SlotIds, NEW d \in Descriptors
        PROVE  PoolSubmitAt(p, s, d).count.fallbacks = p.count.fallbacks
    <2> DEFINE c == AccountSubmit(p.count, d)
               f == [p.count.submits EXCEPT ![d.dir] = @ + 1]
               m == IF p.count.live + 1 > p.count.maxLive THEN p.count.live + 1 ELSE p.count.maxLive
               b == [p.bytes EXCEPT !.submitted[d.dir] = @ + d.size]
    <2>1. c = [p.count EXCEPT !.live = @ + 1, !.maxLive = m, !.submits = f]
      BY DEF AccountSubmit
    <2>2. PoolSubmitAt(p, s, d)
            = [p EXCEPT !.inUse[s] = TRUE, !.desc[s] = d, !.count = c, !.bytes = b]
      BY DEF PoolSubmitAt
    <2> HIDE DEF b, f, m
    <2>3. c.fallbacks = p.count.fallbacks
      BY <1>1, <2>1 DEF Counts
    <2> HIDE DEF c
    <2>4. PoolSubmitAt(p, s, d).count = c
      BY <2>2 DEF IsPool
    <2> QED BY <2>3, <2>4
  <1>3. ASSUME NEW s \in SlotIds PROVE Retired(p, s).count.fallbacks = p.count.fallbacks
    <2> DEFINE c == AccountCompletion(p.count, p.desc[s])
               f == [p.count.completions EXCEPT ![p.desc[s].dir] = @ + 1]
               b == [p.bytes EXCEPT !.completed[p.desc[s].dir] = @ + p.desc[s].size]
    <2>1. c = [p.count EXCEPT !.live = @ - 1, !.recycles = @ + 1, !.completions = f]
      BY DEF AccountCompletion
    <2>2. Retired(p, s) = [p EXCEPT !.inUse[s] = FALSE, !.gen[s] = Bump(@),
                                    !.desc[s] = NoDescriptor, !.count = c, !.bytes = b]
      BY DEF Retired
    <2> HIDE DEF b, f
    <2>3. c.fallbacks = p.count.fallbacks
      BY <1>1, <2>1 DEF Counts
    <2> HIDE DEF c
    <2>4. Retired(p, s).count = c
      BY <2>2 DEF IsPool
    <2> QED BY <2>3, <2>4
  <1>4. ASSUME NEW h PROVE Refused(p, h).count.fallbacks = p.count.fallbacks
    <2>1. Refused(p, h).count = AccountRefusal(p.count, IsStale(p, h), IsLate(p, h))
      BY DEF Refused, IsPool
    <2>2. AccountRefusal(p.count, IsStale(p, h), IsLate(p, h)).fallbacks = p.count.fallbacks
      BY <1>1 DEF AccountRefusal, Counts
    <2> QED BY <2>1, <2>2
  <1>5. PoolCancelLive(p).count.fallbacks = p.count.fallbacks
    <2>1. PoolCancelLive(p).count = AccountCancel(p)
      BY DEF PoolCancelLive, IsPool
    <2>2. AccountCancel(p).fallbacks = p.count.fallbacks
      BY <1>1 DEF AccountCancel, Counts
    <2> QED BY <2>1, <2>2
  <1>6. PoolStop(p).count.fallbacks = p.count.fallbacks
    BY DEF PoolStop, IsPool
  <1>7. NoCounts.fallbacks = 0
    BY DEF NoCounts
  <1> QED BY <1>2, <1>3, <1>4, <1>5, <1>6, <1>7

\* A bridge with a new pool and new counters.
Remade(r, p, k) == [r EXCEPT !.pool = p, !.count = k]

\* It keeps its limit, and whether it is started.
LEMMA BridgeParts ==
    ASSUME NEW r, BridgeTyped(r), NEW p, IsPool(p), NEW k, k \in RuntimeCounts
    PROVE  /\ BridgeTyped(Remade(r, p, k))
           /\ Remade(r, p, k).pool = p /\ Remade(r, p, k).count = k
           /\ Remade(r, p, k).started = r.started /\ Remade(r, p, k).maxLive = r.maxLive
  <1> DEFINE n == Remade(r, p, k)
  <1> USE DEF Remade
  <1>1. n.pool = p /\ n.count = k /\ n.started = r.started /\ n.maxLive = r.maxLive
    BY DEF BridgeTyped
  <1>2. n \in [started : BOOLEAN, maxLive : 0 .. MaxSlots, pool : {p}, count : RuntimeCounts]
    BY DEF BridgeTyped
  <1> HIDE DEF n, Remade
  <1>3. BridgeTyped(n)
    BY <1>1, <1>2 DEF BridgeTyped
  <1> QED BY <1>1, <1>3 DEF n

\* The fields of a bridge.
LEMMA BridgeFields ==
    ASSUME NEW r, BridgeTyped(r)
    PROVE  /\ r.started \in BOOLEAN /\ r.maxLive \in 0 .. MaxSlots /\ IsPool(r.pool)
           /\ r.count \in RuntimeCounts
           /\ r.count.submits \in Nat /\ r.count.completions \in Nat /\ r.count.cancels \in Nat
           /\ IsFiniteSet(Busy(r.pool)) /\ Busy(r.pool) \subseteq SlotIds
           /\ Cardinality(Busy(r.pool)) \in Nat
  <1>1. /\ r.started \in BOOLEAN /\ r.maxLive \in 0 .. MaxSlots /\ IsPool(r.pool)
        /\ r.count \in RuntimeCounts
    BY DEF BridgeTyped
  <1>2. r.count.submits \in Nat /\ r.count.completions \in Nat /\ r.count.cancels \in Nat
    BY <1>1 DEF RuntimeCounts
  <1> QED BY <1>1, <1>2, BusyFinite, FS_CardinalityType

\* The busy slots are those in use, as long as only configured ones are.
LEMMA BusyAreInUse ==
    ASSUME NEW p, IsPool(p), \A s \in SlotIds : p.inUse[s] => s < p.slots
    PROVE  /\ \A s \in SlotIds : s \in Busy(p) <=> p.inUse[s]
           /\ \A s \in ConfiguredSlots(p) : s \in SlotIds
  <1>1. p.slots \in 0 .. MaxSlots
    BY PoolFields
  <1> QED BY <1>1, PoolConstants DEF Busy, ConfiguredSlots, SlotIds

\* Below its limit a bridge has a free slot: the pool never has to refuse.
LEMMA BelowLimitFree ==
    ASSUME NEW r, BridgeTyped(r), BridgeOwned(r), r.started, ~AtLiveLimit(r)
    PROVE  CanSubmit(r.pool)
  <1> DEFINE p == r.pool
             F == {s \in ConfiguredSlots(p) : ~p.inUse[s]}
  <1>1. IsPool(p) /\ p.started /\ p.slots \in 0 .. MaxSlots /\ IsFiniteSet(Busy(p))
        /\ p.count.live = Cardinality(Busy(p)) /\ Cardinality(Busy(p)) \in Nat
        /\ r.maxLive \in 0 .. MaxSlots /\ r.maxLive <= p.slots
    BY BridgeFields, PoolFields DEF BridgeOwned
  <1>2. Cardinality(Busy(p)) < p.slots
    BY <1>1 DEF AtLiveLimit
  <1>3. Cardinality(ConfiguredSlots(p)) = p.slots
    <2>1. 0 \in Int /\ p.slots - 1 \in Int
      BY <1>1
    <2>2. Cardinality(0 .. p.slots - 1)
            = IF 0 > p.slots - 1 THEN 0 ELSE (p.slots - 1) - 0 + 1
      BY <2>1, FS_Interval
    <2> QED BY <1>1, <2>2 DEF ConfiguredSlots
  <1>4. F # {}
    <2>1. SUFFICES ASSUME F = {} PROVE FALSE
      OBVIOUS
    <2>2. Busy(p) = ConfiguredSlots(p)
      BY <2>1 DEF Busy
    <2> HIDE DEF p
    <2> QED BY <1>1, <1>2, <1>3, <2>2
  <1>5. F \in SUBSET Nat
    BY <1>1 DEF ConfiguredSlots
  <1> HIDE DEF F
  <1>6. PICK m \in F : \A k \in F : m <= k
    BY <1>4, <1>5, LeastNat
  <1>7. m \in SlotIds /\ IsFreeSlot(p, m)
    <2>1. m \in ConfiguredSlots(p) /\ ~p.inUse[m]
      BY DEF F
    <2>2. m \in SlotIds
      BY <1>1, <2>1, PoolConstants DEF ConfiguredSlots, SlotIds
    <2>3. \A t \in 0 .. m - 1 : p.inUse[t]
      <3>1. SUFFICES ASSUME NEW t \in 0 .. m - 1, ~p.inUse[t] PROVE FALSE
        OBVIOUS
      <3>2. t \in ConfiguredSlots(p)
        BY <1>1, <2>1 DEF ConfiguredSlots
      <3>3. t \in F
        BY <3>1, <3>2 DEF F
      <3> QED BY <1>6, <2>2, <3>3 DEF SlotIds
    <2> QED BY <2>1, <2>2, <2>3 DEF IsFreeSlot
  <1> QED BY <1>1, <1>7 DEF CanSubmit, HasFreeSlot

\* A reuse moves a generation on by one, as long as the largest one is not reached.
LEMMA RankBumped ==
    ASSUME NEW g \in Generations, Rank(g) <= MaxGen
    PROVE  Rank(Bump(g)) = Rank(g) + 1
  BY PoolConstants DEF Rank, Bump, Generations

\* Slots that are kept, or retired under the next generation, keep the handles apart.
LEMMA RetiringKeepsHandles ==
    ASSUME SessionInv, UNCHANGED <<holder, submissions, issued, ended>>,
           \A s \in SlotIds :
              \/ /\ runtime'.pool.inUse[s] = runtime.pool.inUse[s]
                 /\ runtime'.pool.gen[s] = runtime.pool.gen[s]
              \/ /\ runtime.pool.inUse[s] /\ ~runtime'.pool.inUse[s]
                 /\ runtime'.pool.gen[s] = Bump(runtime.pool.gen[s])
    PROVE  HistoryTyped' /\ GenerationsEarned' /\ HandlesCurrent'
  <1> USE DEF SessionInv
  <1>1. /\ runtime.pool.gen \in [SlotIds -> Generations]
        /\ runtime.pool.inUse \in [SlotIds -> BOOLEAN]
        /\ submissions \in 0 .. MaxAccepted /\ MaxAccepted \in Nat /\ MaxAccepted <= MaxGen
        /\ MaxGen \in Nat
    BY BridgeFields, PoolFields, RuntimeConstants, PoolConstants DEF HistoryTyped
  <1>2. \A s \in SlotIds : runtime.pool.inUse[s] =>
            Rank(Bump(runtime.pool.gen[s])) = Rank(runtime.pool.gen[s]) + 1
    <2>1. SUFFICES ASSUME NEW s \in SlotIds, runtime.pool.inUse[s]
                   PROVE  Rank(runtime.pool.gen[s]) <= MaxGen
      BY <1>1, RankBumped
    <2>2. Rank(runtime.pool.gen[s]) + 1 <= submissions + 1
      BY <2>1 DEF GenerationsEarned
    <2>3. Rank(runtime.pool.gen[s]) \in Nat
      BY <1>1, PoolConstants DEF Rank, Generations
    <2> QED BY <1>1, <2>2, <2>3
  <1>3. \A s \in SlotIds : Rank(runtime.pool.gen[s]) \in Nat
    BY <1>1, PoolConstants DEF Rank, Generations
  <1>4. HistoryTyped'
    BY DEF HistoryTyped
  <1>5. GenerationsEarned'
    <2> SUFFICES ASSUME NEW s \in SlotIds
                 PROVE  Rank(runtime'.pool.gen[s]) + (IF runtime'.pool.inUse[s] THEN 1 ELSE 0)
                          <= submissions + 1
      BY DEF GenerationsEarned
    <2>1. Rank(runtime.pool.gen[s]) + (IF runtime.pool.inUse[s] THEN 1 ELSE 0) <= submissions + 1
      BY DEF GenerationsEarned
    <2>2. CASE /\ runtime'.pool.inUse[s] = runtime.pool.inUse[s]
               /\ runtime'.pool.gen[s] = runtime.pool.gen[s]
      BY <2>1, <2>2
    <2>3. CASE /\ runtime.pool.inUse[s] /\ ~runtime'.pool.inUse[s]
               /\ runtime'.pool.gen[s] = Bump(runtime.pool.gen[s])
      <3>1. Rank(runtime'.pool.gen[s]) = Rank(runtime.pool.gen[s]) + 1
        BY <1>2, <2>3
      <3> QED BY <1>1, <1>3, <2>1, <2>3, <3>1
    <2> QED BY <2>2, <2>3
  <1>6. HandlesCurrent'
    <2> SUFFICES ASSUME NEW t \in issued, t.id \notin ended
                 PROVE  /\ Rank(t.handle.gen) <= Rank(runtime'.pool.gen[t.handle.slot])
                        /\ t.handle.gen = runtime'.pool.gen[t.handle.slot] =>
                              runtime'.pool.inUse[t.handle.slot] /\ holder[t.handle.slot] = t.id
      BY DEF HandlesCurrent
    <2> DEFINE s == t.handle.slot
    <2>1. s \in SlotIds /\ Rank(t.handle.gen) \in Nat
      BY PoolConstants DEF HistoryTyped, Handles, Rank, Generations
    <2>2. /\ Rank(t.handle.gen) <= Rank(runtime.pool.gen[s])
          /\ t.handle.gen = runtime.pool.gen[s] => runtime.pool.inUse[s] /\ holder[s] = t.id
      BY DEF HandlesCurrent
    <2> HIDE DEF s
    <2>3. CASE /\ runtime'.pool.inUse[s] = runtime.pool.inUse[s]
               /\ runtime'.pool.gen[s] = runtime.pool.gen[s]
      BY <2>2, <2>3 DEF s
    <2>4. CASE /\ runtime.pool.inUse[s] /\ ~runtime'.pool.inUse[s]
               /\ runtime'.pool.gen[s] = Bump(runtime.pool.gen[s])
      <3>1. Rank(runtime'.pool.gen[s]) = Rank(runtime.pool.gen[s]) + 1
        BY <1>2, <2>1, <2>4
      <3>2. Rank(runtime'.pool.gen[s]) > Rank(t.handle.gen)
        BY <1>3, <2>1, <2>2, <3>1
      <3>3. t.handle.gen # runtime'.pool.gen[s]
        BY <2>1, <3>2
      <3> QED BY <1>3, <2>1, <3>1, <3>2, <3>3 DEF s
    <2> QED BY <2>1, <2>3, <2>4
  <1> QED BY <1>4, <1>5, <1>6

\* cancel_all() of the bridge leaves no slot in use and counts every request it cancels.
LEMMA CancelledBridge ==
    ASSUME NEW r, BridgeTyped(r), BridgeOwned(r), r.started
    PROVE  LET c == CancelledRuntime(r)
           IN  /\ BridgeTyped(c) /\ BridgeOwned(c) /\ c.started /\ c.maxLive = r.maxLive
               /\ \A s \in SlotIds :
                     /\ ~c.pool.inUse[s]
                     /\ c.pool.gen[s] = IF r.pool.inUse[s] THEN Bump(r.pool.gen[s])
                                        ELSE r.pool.gen[s]
  <1> DEFINE c == CancelledRuntime(r)
             p == PoolCancelLive(r.pool)
             k == [r.count EXCEPT !.cancels = @ + Cardinality(Busy(r.pool))]
             n == Cardinality(Busy(r.pool))
  <1>1. /\ IsPool(r.pool) /\ r.pool.started /\ r.pool.count.live = n
        /\ \A s \in SlotIds : r.pool.inUse[s] => s < r.pool.slots
    BY BridgeFields DEF BridgeOwned
  <1>2. /\ k \in RuntimeCounts /\ k.cancels = r.count.cancels + n
        /\ k.submits = r.count.submits /\ k.completions = r.count.completions
    <2>1. r.count \in RuntimeCounts /\ n \in Nat
      BY BridgeFields
    <2> HIDE DEF n
    <2>2. k = [r.count EXCEPT !.cancels = @ + n]
      BY DEF n
    <2> HIDE DEF k
    <2> QED BY <2>1, <2>2 DEF RuntimeCounts
  <1>3. c = Remade(r, p, k)
    <2>1. PoolCancelAll(r.pool) = p
      BY <1>1 DEF PoolCancelAll
    <2>2. c = [r EXCEPT !.pool = PoolCancelAll(r.pool), !.count = k]
      BY DEF CancelledRuntime
    <2> QED BY <2>1, <2>2 DEF Remade
  <1>4. /\ IsPool(p) /\ p.started /\ p.slots = r.pool.slots /\ p.count.live = 0
        /\ p.count.fallbacks = r.pool.count.fallbacks
        /\ p.inUse = [s \in SlotIds |-> IF s \in Busy(r.pool) THEN FALSE ELSE r.pool.inUse[s]]
        /\ p.gen = [s \in SlotIds |-> IF s \in Busy(r.pool) THEN Bump(r.pool.gen[s]) ELSE r.pool.gen[s]]
    BY <1>1, CancelFields, FallbacksKept
  <1>5. \A s \in SlotIds : s \in Busy(r.pool) <=> r.pool.inUse[s]
    BY <1>1, BusyAreInUse
  <1> HIDE DEF c, p, k, n
  <1>6. BridgeTyped(c) /\ c.pool = p /\ c.count = k /\ c.started = r.started /\ c.maxLive = r.maxLive
    <2>1. IsPool(p) /\ k \in RuntimeCounts
      BY <1>2, <1>4
    <2>2. c.pool = p
      BY <2>1, <1>3, BridgeParts
    <2>3. c.count = k
      BY <2>1, <1>3, BridgeParts
    <2>4. c.started = r.started
      BY <2>1, <1>3, BridgeParts
    <2>5. c.maxLive = r.maxLive
      BY <2>1, <1>3, BridgeParts
    <2> QED BY <1>3, <2>1, <2>2, <2>3, <2>4, <2>5, BridgeParts
  <1>7. \A s \in SlotIds :
            /\ ~p.inUse[s]
            /\ p.gen[s] = IF r.pool.inUse[s] THEN Bump(r.pool.gen[s]) ELSE r.pool.gen[s]
    BY <1>4, <1>5
  <1>8. Busy(p) = {} /\ Cardinality(Busy(p)) = 0
    <2>1. Busy(p) \subseteq SlotIds
      BY <1>4, BusyFinite
    <2>2. Busy(p) = {}
      BY <1>7, <2>1 DEF Busy
    <2> QED BY <2>2, FS_EmptySet
  <1>9. r.count.submits = r.count.completions + r.count.cancels + n
    BY DEF BridgeOwned, n
  <1>10. BridgeOwned(c)
    <2>1. k.submits = k.completions + k.cancels + 0
      <3>1. r.count.completions \in Nat /\ r.count.cancels \in Nat /\ n \in Nat
        BY BridgeFields DEF n
      <3> QED BY <1>2, <1>9, <3>1
    <2>2. c.started /\ p.count.fallbacks = 0 /\ c.maxLive <= p.slots
      BY <1>4, <1>6 DEF BridgeOwned
    <2> QED BY <1>4, <1>6, <1>7, <1>8, <2>1, <2>2 DEF BridgeOwned
  <1> QED BY <1>6, <1>7, <1>10 DEF c

\* The invariant holds of a bridge that was never made.
LEMMA SessionInit == RuntimeInit => SessionInv
  <1> SUFFICES ASSUME RuntimeInit PROVE SessionInv
    OBVIOUS
  <1>1. IsPool(NewPool) /\ NewPool.inUse = [s \in SlotIds |-> FALSE] /\ ~NewPool.started
        /\ NewPool.gen = [s \in SlotIds |-> 1] /\ NewPool.slots = 0
        /\ NewPool.count.live = 0 /\ NewPool.count.fallbacks = 0
    BY NewPoolType, NoCountsType, FallbacksKept DEF NewPool
  <1>2. Busy(NewPool) = {} /\ Cardinality(Busy(NewPool)) = 0
    BY <1>1, FS_EmptySet DEF Busy, ConfiguredSlots
  <1>3. BridgeTyped(runtime)
    <2>1. NoRuntimeCounts \in RuntimeCounts
      BY DEF NoRuntimeCounts, RuntimeCounts
    <2>2. 0 \in 0 .. MaxSlots
      BY PoolConstants
    <2> QED BY <1>1, <2>1, <2>2 DEF RuntimeInit, NoBridge, BridgeTyped
  <1>4. BridgeOwned(runtime)
    <2>1. /\ runtime.pool = NewPool /\ runtime.started = FALSE /\ runtime.maxLive = 0
          /\ runtime.count.submits = 0 /\ runtime.count.completions = 0 /\ runtime.count.cancels = 0
      BY DEF RuntimeInit, NoBridge, NoRuntimeCounts
    <2>2. NewPool.started = FALSE /\ \A s \in SlotIds : ~NewPool.inUse[s]
      BY DEF NewPool
    <2>3. /\ NewPool.started = FALSE /\ NewPool.count.live = Cardinality(Busy(NewPool))
          /\ NewPool.count.fallbacks = 0 /\ 0 <= NewPool.slots
          /\ 0 = 0 + 0 + Cardinality(Busy(NewPool))
      BY <1>1, <1>2, <2>2
    <2> QED BY <2>1, <2>2, <2>3 DEF BridgeOwned
  <1>5. HistoryTyped /\ HandlesCurrent
    BY RuntimeConstants DEF RuntimeInit, HistoryTyped, HandlesCurrent
  <1>6. GenerationsEarned
    BY <1>1, PoolConstants DEF RuntimeInit, NoBridge, GenerationsEarned, Rank
  <1>7. AnswerKnown
    BY RuntimeConstants DEF RuntimeInit, NoAnswer, AnswerKnown, SessionCompletionsMatch
  <1> QED BY <1>3, <1>4, <1>5, <1>6, <1>7 DEF SessionInv

\* A new session: the earlier submissions have ended, and no slot is in use.
LEMMA SessionCreate ==
    ASSUME SessionInv, NEW slots, NEW maxLive \in 1 .. MaxSlots, BridgeCreate(slots, maxLive)
    PROVE  SessionInv'
  <1> USE DEF SessionInv
  <1>1. slots \in 1 .. MaxSlots /\ maxLive <= slots
    BY DEF BridgeCreate, ValidPoolConfig, ValidLimit
  <1>2. /\ IsPool(runtime'.pool) /\ runtime'.pool.started = TRUE /\ runtime'.pool.slots = slots
        /\ runtime'.pool.inUse = [s \in SlotIds |-> FALSE]
        /\ runtime'.pool.gen = [s \in SlotIds |-> 1] /\ runtime'.pool.count = NoCounts
    <2>1. runtime'.pool = PoolStart(NewPool, slots)
      BY DEF BridgeCreate, StartedPool
    <2>2. PoolStart(NewPool, slots).started = TRUE
      BY DEF PoolStart, NewPool
    <2>3. NewPool.gen = [s \in SlotIds |-> 1]
      BY DEF NewPool
    <2>4. /\ IsPool(PoolStart(NewPool, slots)) /\ PoolStart(NewPool, slots).slots = slots
          /\ PoolStart(NewPool, slots).inUse = [s \in SlotIds |-> FALSE]
          /\ PoolStart(NewPool, slots).gen = NewPool.gen
          /\ PoolStart(NewPool, slots).count = NoCounts
      BY <1>1, NewPoolType, StartFields
    <2> QED BY <2>1, <2>2, <2>3, <2>4
  <1>3. /\ runtime'.started = TRUE /\ runtime'.maxLive = maxLive /\ runtime'.count = NoRuntimeCounts
        /\ holder' = [s \in SlotIds |-> 0] /\ ended' = 1 .. submissions
        /\ UNCHANGED <<submissions, issued, answer>>
    BY DEF BridgeCreate
  <1>4. \A s \in SlotIds : ~runtime'.pool.inUse[s] /\ runtime'.pool.gen[s] = 1
    BY <1>2
  <1>5. BridgeTyped(runtime')
    <2>1. NoRuntimeCounts \in RuntimeCounts
      BY DEF NoRuntimeCounts, RuntimeCounts
    <2> DEFINE p == PoolStart(NewPool, slots)
    <2>2. runtime' = [started |-> TRUE, maxLive |-> maxLive, pool |-> p, count |-> NoRuntimeCounts]
      BY DEF BridgeCreate, StartedPool
    <2>3. maxLive \in 0 .. MaxSlots
      BY PoolConstants
    <2> HIDE DEF p
    <2>4. runtime'.pool = p /\ runtime' \in [started : BOOLEAN, maxLive : 0 .. MaxSlots, pool : {p},
                                             count : RuntimeCounts]
      BY <2>1, <2>2, <2>3
    <2> QED BY <1>2, <2>4 DEF BridgeTyped
  <1>6. BridgeOwned(runtime')
    <2>1. Busy(runtime'.pool) = {}
      BY <1>2, <1>4, BusyFinite DEF Busy
    <2>2. Cardinality(Busy(runtime'.pool)) = 0
      BY <2>1, FS_EmptySet
    <2>3. runtime'.pool.count.live = 0 /\ runtime'.pool.count.fallbacks = 0
      BY <1>2, NoCountsType, FallbacksKept, NewPoolType
    <2>4. runtime'.count.submits = 0 /\ runtime'.count.completions = 0 /\ runtime'.count.cancels = 0
      BY <1>3 DEF NoRuntimeCounts
    <2>5. runtime'.pool.started = runtime'.started /\ runtime'.maxLive <= runtime'.pool.slots
      BY <1>1, <1>2, <1>3
    <2>6. runtime'.count.submits = runtime'.count.completions + runtime'.count.cancels
                                     + Cardinality(Busy(runtime'.pool))
      BY <2>2, <2>4
    <2> QED BY <1>4, <2>2, <2>3, <2>5, <2>6 DEF BridgeOwned
  <1>7. submissions \in 0 .. MaxAccepted /\ MaxAccepted \in Nat
    BY RuntimeConstants DEF HistoryTyped
  <1>8. HistoryTyped'
    <2>1. holder' \in [SlotIds -> 0 .. MaxAccepted]
      BY <1>3, <1>7
    <2> QED BY <1>3, <2>1 DEF HistoryTyped
  <1>9. GenerationsEarned'
    BY <1>3, <1>4, <1>7 DEF GenerationsEarned, Rank
  <1>10. HandlesCurrent'
    BY <1>3, <1>7 DEF HandlesCurrent, HistoryTyped
  <1>11. AnswerKnown'
    BY <1>3, <1>7 DEF AnswerKnown, SessionCompletionsMatch
  <1> QED BY <1>5, <1>6, <1>8, <1>9, <1>10, <1>11

\* The end of a session cancels what is live.
LEMMA SessionCancel ==
    ASSUME SessionInv, BridgeDestroy \/ BridgeCancelAll
    PROVE  SessionInv'
  <1> USE DEF SessionInv
  <1> DEFINE c == CancelledRuntime(runtime)
  <1>1. /\ runtime.started /\ UNCHANGED <<holder, submissions, issued, ended, answer>>
        /\ \/ runtime' = c
           \/ runtime' = [c EXCEPT !.started = FALSE, !.pool = PoolStop(@)]
    BY DEF BridgeDestroy, BridgeCancelAll
  <1>2. /\ BridgeTyped(c) /\ BridgeOwned(c) /\ c.started
        /\ \A s \in SlotIds :
              /\ ~c.pool.inUse[s]
              /\ c.pool.gen[s] = IF runtime.pool.inUse[s] THEN Bump(runtime.pool.gen[s])
                                 ELSE runtime.pool.gen[s]
    BY <1>1, CancelledBridge
  <1> HIDE DEF c
  <1>3. /\ BridgeTyped(runtime') /\ BridgeOwned(runtime')
        /\ runtime'.pool.inUse = c.pool.inUse /\ runtime'.pool.gen = c.pool.gen
    <2>1. CASE runtime' = c
      BY <1>2, <2>1
    <2>2. CASE runtime' = [c EXCEPT !.started = FALSE, !.pool = PoolStop(@)]
      <3> DEFINE p == PoolStop(c.pool)
      <3>1. /\ IsPool(p) /\ p.slots = c.pool.slots /\ p.inUse = c.pool.inUse /\ p.gen = c.pool.gen
            /\ p.count = c.pool.count
        BY <1>2, BridgeFields, StopFields
      <3>2. p.started = FALSE
        BY <1>2, BridgeFields DEF PoolStop, IsPool
      <3> HIDE DEF p
      <3>3. runtime' = [c EXCEPT !.started = FALSE, !.pool = p]
        BY <2>2 DEF p
      <3>4. /\ runtime'.pool = p /\ runtime'.started = FALSE /\ runtime'.maxLive = c.maxLive
            /\ runtime'.count = c.count
            /\ runtime' \in [started : BOOLEAN, maxLive : 0 .. MaxSlots, pool : {p},
                             count : RuntimeCounts]
        BY <1>2, <3>3 DEF BridgeTyped
      <3>5. BridgeTyped(runtime')
        BY <3>1, <3>4 DEF BridgeTyped
      <3>6. Busy(p) = Busy(c.pool)
        BY <3>1 DEF Busy, ConfiguredSlots
      <3>7. BridgeOwned(runtime')
        BY <1>2, <3>1, <3>2, <3>4, <3>6 DEF BridgeOwned
      <3> QED BY <3>1, <3>4, <3>5, <3>7
    <2> QED BY <1>1, <2>1, <2>2
  <1>4. HistoryTyped' /\ GenerationsEarned' /\ HandlesCurrent'
    <2>1. \A s \in SlotIds :
              \/ /\ runtime'.pool.inUse[s] = runtime.pool.inUse[s]
                 /\ runtime'.pool.gen[s] = runtime.pool.gen[s]
              \/ /\ runtime.pool.inUse[s] /\ ~runtime'.pool.inUse[s]
                 /\ runtime'.pool.gen[s] = Bump(runtime.pool.gen[s])
      <3>1. SUFFICES ASSUME NEW s \in SlotIds
                     PROVE  \/ /\ c.pool.inUse[s] = runtime.pool.inUse[s]
                               /\ c.pool.gen[s] = runtime.pool.gen[s]
                            \/ /\ runtime.pool.inUse[s] /\ ~c.pool.inUse[s]
                               /\ c.pool.gen[s] = Bump(runtime.pool.gen[s])
        BY <1>3
      <3>2. c.pool.inUse[s] \in BOOLEAN /\ runtime.pool.inUse[s] \in BOOLEAN
        BY <1>2, BridgeFields, PoolFields
      <3> QED BY <1>2, <3>2
    <2> QED BY <1>1, <2>1, RetiringKeepsHandles
  <1>5. AnswerKnown'
    BY <1>1 DEF AnswerKnown, SessionCompletionsMatch
  <1> QED BY <1>3, <1>4, <1>5

\* A submission takes a free slot and its present generation.
LEMMA SessionSubmit ==
    ASSUME SessionInv, NEW d \in Descriptors, BridgeQueueSubmit(d)
    PROVE  SessionInv'
  <1> USE DEF SessionInv
  <1> DEFINE s == FreeSlot(runtime.pool)
             p == PoolSubmitAt(runtime.pool, s, d)
             k == [runtime.count EXCEPT !.submits = @ + 1]
             n == submissions + 1
             old == runtime.pool
  <1>1. IsPool(old) /\ runtime.started /\ HasFreeSlot(old) /\ submissions < MaxAccepted
    BY BridgeFields DEF BridgeQueueSubmit, CanAccept, CanSubmit
  <1>2. s \in SlotIds /\ IsFreeSlot(old, s)
    BY <1>1 DEF FreeSlot, HasFreeSlot
  <1>3. /\ s \in SlotIds /\ s \in ConfiguredSlots(old) /\ ~old.inUse[s]
        /\ s < old.slots /\ s \notin Busy(old)
    <2>1. old.slots \in Nat
      BY <1>1, PoolFields
    <2> QED BY <1>2, <2>1 DEF IsFreeSlot, ConfiguredSlots, Busy
  <1>4. /\ IsPool(p) /\ p.started = old.started /\ p.slots = old.slots
        /\ p.inUse = [old.inUse EXCEPT ![s] = TRUE] /\ p.gen = old.gen
        /\ p.count.live = old.count.live + 1
        /\ p.count.fallbacks = old.count.fallbacks
    <2> HIDE DEF s
    <2> QED BY <1>1, <1>3, SubmitFields, FallbacksKept
  <1>5. /\ runtime' = Remade(runtime, p, k)
        /\ submissions' = n /\ holder' = [holder EXCEPT ![s] = n]
        /\ issued' = issued \cup {[handle |-> HandleOf(old, s), id |-> n]}
        /\ UNCHANGED <<ended, answer>>
    BY DEF BridgeQueueSubmit, Remade
  <1>6. k \in RuntimeCounts /\ k.submits = runtime.count.submits + 1
        /\ k.completions = runtime.count.completions /\ k.cancels = runtime.count.cancels
    <2>1. runtime.count \in RuntimeCounts
      BY BridgeFields
    <2> QED BY <2>1 DEF RuntimeCounts
  <1> HIDE DEF s, p, k
  <1>7. BridgeTyped(runtime')
    BY <1>4, <1>5, <1>6, BridgeParts
  <1>8. runtime'.pool = p /\ runtime'.count = k
    <2>1. runtime'.pool = p
      BY <1>4, <1>5, <1>6, BridgeParts
    <2>2. runtime'.count = k
      BY <1>4, <1>5, <1>6, BridgeParts
    <2> QED BY <2>1, <2>2
  <1>9. runtime'.started = runtime.started /\ runtime'.maxLive = runtime.maxLive
    <2>1. runtime'.started = runtime.started
      BY <1>4, <1>5, <1>6, BridgeParts
    <2>2. runtime'.maxLive = runtime.maxLive
      BY <1>4, <1>5, <1>6, BridgeParts
    <2> QED BY <2>1, <2>2
  <1>10. old.inUse \in [SlotIds -> BOOLEAN] /\ old.gen \in [SlotIds -> Generations]
    BY <1>1, PoolFields
  <1>11. /\ p.inUse[s] /\ \A x \in SlotIds : x # s => p.inUse[x] = old.inUse[x]
    BY <1>3, <1>4, <1>10
  <1>12. Busy(p) = Busy(old) \cup {s}
    <2>1. ConfiguredSlots(p) = ConfiguredSlots(old)
      BY <1>4 DEF ConfiguredSlots
    <2>2. \A x \in ConfiguredSlots(old) : x \in SlotIds
      BY <1>1, BusyAreInUse DEF BridgeOwned
    <2> QED BY <1>3, <1>11, <2>1, <2>2 DEF Busy
  <1>13. Cardinality(Busy(p)) = Cardinality(Busy(old)) + 1
    BY <1>1, <1>3, <1>12, BusyFinite, FS_AddElement
  <1>14. BridgeOwned(runtime')
    <2>1. /\ old.started = runtime.started /\ old.count.live = Cardinality(Busy(old))
          /\ old.count.fallbacks = 0 /\ runtime.maxLive <= old.slots
          /\ \A x \in SlotIds : old.inUse[x] => x < old.slots
          /\ runtime.count.submits = runtime.count.completions + runtime.count.cancels
                                       + Cardinality(Busy(old))
      BY DEF BridgeOwned
    <2>2. \A x \in SlotIds : p.inUse[x] => x < p.slots
      BY <1>3, <1>4, <1>11, <2>1
    <2>3. k.submits = k.completions + k.cancels + Cardinality(Busy(p))
      <3>1. /\ runtime.count.completions \in Nat /\ runtime.count.cancels \in Nat
            /\ Cardinality(Busy(old)) \in Nat
        BY BridgeFields
      <3> QED BY <1>6, <1>13, <2>1, <3>1
    <2> HIDE DEF old
    <2> QED BY <1>1, <1>4, <1>8, <1>9, <1>13, <2>1, <2>2, <2>3 DEF BridgeOwned
  <1>15. n \in 1 .. MaxAccepted /\ submissions \in 0 .. MaxAccepted /\ MaxAccepted \in Nat
    BY <1>1, RuntimeConstants DEF HistoryTyped
  <1>16. HandleOf(old, s) \in Handles /\ HandleOf(old, s).slot = s /\ HandleOf(old, s).gen = old.gen[s]
    BY <1>3, <1>10 DEF HandleOf, Handles
  <1>17. HistoryTyped'
    <2>1. holder' \in [SlotIds -> 0 .. MaxAccepted]
      <3>1. holder \in [SlotIds -> 0 .. MaxAccepted] /\ n \in 0 .. MaxAccepted
        BY <1>15 DEF HistoryTyped
      <3> HIDE DEF n
      <3> QED BY <1>5, <3>1
    <2>2. issued' \subseteq [handle : Handles, id : 1 .. MaxAccepted]
      BY <1>5, <1>15, <1>16 DEF HistoryTyped
    <2>3. \A t \in issued' : t.id <= submissions'
      <3> SUFFICES ASSUME NEW t \in issued' PROVE t.id <= n
        BY <1>5
      <3>1. CASE t \in issued
        <4>1. t.id \in Nat /\ t.id <= submissions
          BY <3>1 DEF HistoryTyped
        <4> QED BY <1>15, <4>1
      <3>2. CASE t = [handle |-> HandleOf(old, s), id |-> n]
        BY <1>15, <3>2
      <3> QED BY <1>5, <3>1, <3>2
    <2>4. ended' \subseteq 1 .. submissions'
      <3>1. ended \subseteq 1 .. submissions /\ submissions \in Nat
        BY <1>15 DEF HistoryTyped
      <3>2. \A x \in 1 .. submissions : x \in 1 .. n
        BY <3>1
      <3> HIDE DEF n
      <3> QED BY <1>5, <3>1, <3>2
    <2> QED BY <1>5, <1>15, <2>1, <2>2, <2>3, <2>4 DEF HistoryTyped
  <1>18. \A x \in SlotIds : Rank(old.gen[x]) \in Nat
    BY <1>10, PoolConstants DEF Rank, Generations
  <1>19. GenerationsEarned'
    <2> SUFFICES ASSUME NEW x \in SlotIds
                 PROVE  Rank(p.gen[x]) + (IF p.inUse[x] THEN 1 ELSE 0) <= n + 1
      BY <1>5, <1>8 DEF GenerationsEarned
    <2>1. Rank(old.gen[x]) + (IF old.inUse[x] THEN 1 ELSE 0) <= submissions + 1
      BY DEF GenerationsEarned
    <2>2. p.gen[x] = old.gen[x]
      BY <1>4
    <2> HIDE DEF old
    <2>3. CASE x = s
      BY <1>3, <1>15, <1>18, <2>1, <2>2, <2>3
    <2>4. CASE x # s
      BY <1>11, <1>15, <1>18, <2>1, <2>2, <2>4
    <2> QED BY <2>3, <2>4
  <1>20. HandlesCurrent'
    <2> SUFFICES ASSUME NEW t \in issued', t.id \notin ended
                 PROVE  /\ Rank(t.handle.gen) <= Rank(p.gen[t.handle.slot])
                        /\ t.handle.gen = p.gen[t.handle.slot] =>
                              p.inUse[t.handle.slot] /\ holder'[t.handle.slot] = t.id
      BY <1>5, <1>8 DEF HandlesCurrent
    <2>1. CASE t \in issued
      <3>1. t.handle.slot \in SlotIds
        BY <2>1 DEF HistoryTyped, Handles
      <3>2. /\ Rank(t.handle.gen) <= Rank(old.gen[t.handle.slot])
            /\ t.handle.gen = old.gen[t.handle.slot] =>
                  old.inUse[t.handle.slot] /\ holder[t.handle.slot] = t.id
        BY <2>1 DEF HandlesCurrent
      <3> HIDE DEF old
      <3>3. t.handle.slot # s => holder'[t.handle.slot] = holder[t.handle.slot]
        BY <1>5, <3>1 DEF HistoryTyped
      <3> QED BY <1>3, <1>4, <1>11, <3>1, <3>2, <3>3
    <2>2. CASE t = [handle |-> HandleOf(old, s), id |-> n]
      <3>1. t.handle.slot = s /\ t.handle.gen = old.gen[s] /\ t.id = n
        BY <1>16, <2>2
      <3>2. holder'[s] = n
        BY <1>3, <1>5 DEF HistoryTyped
      <3> QED BY <1>3, <1>4, <1>11, <1>18, <3>1, <3>2
    <2> QED BY <1>5, <2>1, <2>2
  <1>21. AnswerKnown'
    BY <1>5, <1>15 DEF AnswerKnown, SessionCompletionsMatch
  <1> QED BY <1>7, <1>14, <1>17, <1>19, <1>20, <1>21

\* A refusal only counts: the pool is not asked, because it would have had room.
LEMMA SessionRefuse ==
    ASSUME SessionInv, NEW d, BridgeSubmitRefused(d)
    PROVE  SessionInv'
  <1> USE DEF SessionInv
  <1> DEFINE f == [runtime.count EXCEPT !.failures = @ + 1]
             m == [f EXCEPT !.mismatches = @ + 1]
             l == [f EXCEPT !.liveLimit = @ + 1]
  <1>1. runtime.count \in RuntimeCounts /\ IsPool(runtime.pool)
    BY BridgeFields
  <1>2. /\ f \in RuntimeCounts /\ f.submits = runtime.count.submits
        /\ f.completions = runtime.count.completions /\ f.cancels = runtime.count.cancels
    BY <1>1 DEF RuntimeCounts
  <1> DEFINE failed == [runtime EXCEPT !.count.failures = @ + 1]
  <1>3. failed = Remade(runtime, runtime.pool, f)
    BY DEF BridgeTyped, Remade
  <1>4. failed.count = f
    BY <1>3 DEF BridgeTyped, Remade
  <1> HIDE DEF f
  <1>5. /\ m \in RuntimeCounts /\ m.submits = f.submits /\ m.completions = f.completions
        /\ m.cancels = f.cancels
    BY <1>2 DEF RuntimeCounts
  <1>6. /\ l \in RuntimeCounts /\ l.submits = f.submits /\ l.completions = f.completions
        /\ l.cancels = f.cancels
    BY <1>2 DEF RuntimeCounts
  <1> HIDE DEF failed
  <1>a. [failed EXCEPT !.count.mismatches = @ + 1] = [failed EXCEPT !.count = m]
    BY <1>4
  <1>b. [failed EXCEPT !.count.liveLimit = @ + 1] = [failed EXCEPT !.count = l]
    BY <1>4
  <1> HIDE DEF m, l
  <1>7. [failed EXCEPT !.count.mismatches = @ + 1] = Remade(runtime, runtime.pool, m)
    BY <1>3, <1>a DEF BridgeTyped, Remade
  <1>8. [failed EXCEPT !.count.liveLimit = @ + 1] = Remade(runtime, runtime.pool, l)
    BY <1>3, <1>b DEF BridgeTyped, Remade
  <1>9. /\ ~CanAccept(runtime, d) /\ runtime' = RefuseSubmit(runtime, d)
        /\ UNCHANGED <<holder, submissions, issued, ended, answer>>
    BY DEF BridgeSubmitRefused
  <1>10. runtime' \in {Remade(runtime, runtime.pool, k) : k \in {f, m, l}}
    <2>1. CASE ~runtime.started
      BY <1>3, <1>9, <2>1 DEF RefuseSubmit, failed
    <2>2. CASE runtime.started /\ ~MatchesConfig(d)
      BY <1>7, <1>9, <2>2 DEF RefuseSubmit, failed
    <2>3. CASE runtime.started /\ MatchesConfig(d) /\ AtLiveLimit(runtime)
      BY <1>8, <1>9, <2>3 DEF RefuseSubmit, failed
    <2>4. CASE runtime.started /\ MatchesConfig(d) /\ ~AtLiveLimit(runtime)
      BY <1>9, <2>4, BelowLimitFree DEF CanAccept
    <2> QED BY <2>1, <2>2, <2>3, <2>4
  <1>11. PICK k \in {f, m, l} : runtime' = Remade(runtime, runtime.pool, k)
    BY <1>10
  <1>12. /\ k \in RuntimeCounts /\ k.submits = runtime.count.submits
         /\ k.completions = runtime.count.completions /\ k.cancels = runtime.count.cancels
    BY <1>2, <1>5, <1>6
  <1>13. BridgeTyped(runtime')
    BY <1>1, <1>11, <1>12, BridgeParts
  <1>14. runtime'.pool = runtime.pool
    BY <1>1, <1>11, <1>12, BridgeParts
  <1>15. runtime'.count = k
    BY <1>1, <1>11, <1>12, BridgeParts
  <1>16. runtime'.started = runtime.started
    BY <1>1, <1>11, <1>12, BridgeParts
  <1>17. runtime'.maxLive = runtime.maxLive
    BY <1>1, <1>11, <1>12, BridgeParts
  <1>18. BridgeOwned(runtime')
    BY <1>12, <1>14, <1>15, <1>16, <1>17 DEF BridgeOwned
  <1>19. HistoryTyped' /\ GenerationsEarned' /\ HandlesCurrent'
    BY <1>9, <1>14, RetiringKeepsHandles
  <1>20. AnswerKnown'
    BY <1>9 DEF AnswerKnown, SessionCompletionsMatch
  <1> QED BY <1>13, <1>18, <1>19, <1>20

\* A handle that is accepted in its own session is that of the request in the slot.
LEMMA SessionComplete ==
    ASSUME SessionInv, NEW t \in issued, BridgeComplete(t)
    PROVE  SessionInv'
  <1> USE DEF SessionInv
  <1> DEFINE old == runtime.pool
             accepted == runtime.started /\ Accepts(old, t.handle)
             s == t.handle.slot
  <1>1. /\ IsPool(old) /\ runtime.count \in RuntimeCounts
        /\ old.gen \in [SlotIds -> Generations] /\ old.inUse \in [SlotIds -> BOOLEAN]
        /\ old.count \in Counts /\ Cardinality(Busy(old)) \in Nat /\ IsFiniteSet(Busy(old))
    BY BridgeFields, PoolFields
  <1>2. /\ runtime' = IF ~runtime.started
                      THEN [runtime EXCEPT !.count.invalid = @ + 1]
                      ELSE [runtime EXCEPT !.pool = PoolComplete(@, t.handle),
                                           !.count.completions = IF accepted THEN @ + 1 ELSE @]
        /\ answer' = [id |-> t.id, retired |-> IF accepted THEN holder[s] ELSE 0]
        /\ UNCHANGED <<holder, submissions, issued, ended>>
    BY DEF BridgeComplete
  <1>3. t.handle \in Handles /\ s \in SlotIds /\ t.id \in 1 .. submissions
    BY DEF HistoryTyped, Handles
  <1>4. AnswerKnown'
    <2>1. accepted /\ t.id \notin ended => holder[s] = t.id
      BY DEF HandlesCurrent, Accepts
    <2>2. holder[s] \in 0 .. MaxAccepted /\ 0 \in 0 .. MaxAccepted
      BY <1>3, RuntimeConstants DEF HistoryTyped
    <2>3. submissions \in Nat
      BY DEF HistoryTyped
    <2> HIDE DEF accepted, s
    <2> QED BY <1>2, <1>3, <2>1, <2>2, <2>3 DEF AnswerKnown, SessionCompletionsMatch
  <1>5. CASE ~runtime.started
    <2> DEFINE k == [runtime.count EXCEPT !.invalid = @ + 1]
    <2>1. runtime' = Remade(runtime, old, k)
      BY <1>2, <1>5 DEF BridgeTyped, Remade
    <2>2. /\ k \in RuntimeCounts /\ k.submits = runtime.count.submits
          /\ k.completions = runtime.count.completions /\ k.cancels = runtime.count.cancels
      BY <1>1 DEF RuntimeCounts
    <2> HIDE DEF k
    <2>3. BridgeTyped(runtime')
      BY <1>1, <2>1, <2>2, BridgeParts
    <2>4. runtime'.pool = old
      BY <1>1, <2>1, <2>2, BridgeParts
    <2>5. runtime'.count = k
      BY <1>1, <2>1, <2>2, BridgeParts
    <2>6. runtime'.started = runtime.started
      BY <1>1, <2>1, <2>2, BridgeParts
    <2>7. runtime'.maxLive = runtime.maxLive
      BY <1>1, <2>1, <2>2, BridgeParts
    <2>8. BridgeOwned(runtime')
      BY <2>2, <2>4, <2>5, <2>6, <2>7 DEF BridgeOwned
    <2>9. HistoryTyped' /\ GenerationsEarned' /\ HandlesCurrent'
      BY <1>2, <2>4, RetiringKeepsHandles
    <2> QED BY <1>4, <2>3, <2>8, <2>9
  <1>6. CASE runtime.started /\ ~Accepts(old, t.handle)
    <2> DEFINE p == Refused(old, t.handle)
    <2>1. runtime' = Remade(runtime, p, runtime.count)
      <3>1. runtime' = [runtime EXCEPT !.pool = PoolComplete(@, t.handle),
                                       !.count.completions = @]
        BY <1>2, <1>6
      <3>2. PoolComplete(old, t.handle) = p
        BY <1>6 DEF PoolComplete
      <3>3. [runtime.count EXCEPT !.completions = @] = runtime.count
        BY <1>1 DEF RuntimeCounts
      <3> HIDE DEF p
      <3>4. runtime' = [runtime EXCEPT !.pool = p, !.count = [runtime.count EXCEPT !.completions = @]]
        BY <3>1, <3>2
      <3> QED BY <3>3, <3>4 DEF Remade
    <2>2. /\ IsPool(p) /\ p.started = old.started /\ p.slots = old.slots /\ p.inUse = old.inUse
          /\ p.gen = old.gen /\ p.count.live = old.count.live
          /\ p.count.fallbacks = old.count.fallbacks
      BY <1>1, RefusedFields, FallbacksKept
    <2> HIDE DEF p
    <2>3. BridgeTyped(runtime')
      BY <1>1, <2>1, <2>2, BridgeParts
    <2>4. runtime'.pool = p
      BY <1>1, <2>1, <2>2, BridgeParts
    <2>5. runtime'.count = runtime.count
      BY <1>1, <2>1, <2>2, BridgeParts
    <2>6. runtime'.started = runtime.started
      BY <1>1, <2>1, <2>2, BridgeParts
    <2>7. runtime'.maxLive = runtime.maxLive
      BY <1>1, <2>1, <2>2, BridgeParts
    <2>8. Busy(p) = Busy(old)
      BY <2>2 DEF Busy, ConfiguredSlots
    <2>9. BridgeOwned(runtime')
      BY <2>2, <2>4, <2>5, <2>6, <2>7, <2>8 DEF BridgeOwned
    <2>10. HistoryTyped' /\ GenerationsEarned' /\ HandlesCurrent'
      BY <1>2, <2>2, <2>4, RetiringKeepsHandles
    <2> QED BY <1>4, <2>3, <2>9, <2>10
  <1>7. CASE accepted
    <2> DEFINE p == Retired(old, s)
               k == [runtime.count EXCEPT !.completions = @ + 1]
    <2>1. runtime' = Remade(runtime, p, k)
      BY <1>2, <1>7 DEF BridgeTyped, Remade, PoolComplete
    <2>2. old.inUse[s] /\ s \in Busy(old)
      BY <1>7 DEF Accepts, HandleInRange, Busy
    <2>3. Cardinality(Busy(old) \ {s}) = Cardinality(Busy(old)) - 1 /\ Cardinality(Busy(old)) # 0
      <3> DEFINE B == Busy(old)
      <3> HIDE DEF s, B
      <3>0. IsFiniteSet(B) /\ s \in B
        BY <1>1, <2>2 DEF B
      <3>1. Cardinality(Busy(old) \ {s}) = Cardinality(Busy(old)) - 1
        <4>1. Cardinality(B \ {s}) = Cardinality(B) - 1
          BY <3>0, FS_RemoveElement
        <4> QED BY <4>1 DEF B
      <3>2. Cardinality(Busy(old) \ {s}) \in Nat
        BY <1>1, FS_RemoveElement, FS_CardinalityType
      <3> QED BY <1>1, <3>1, <3>2
    <2>4. old.count.live # 0
      BY <2>3 DEF BridgeOwned
    <2>5. /\ IsPool(p) /\ p.started = old.started /\ p.slots = old.slots
          /\ p.inUse = [old.inUse EXCEPT ![s] = FALSE]
          /\ p.gen = [old.gen EXCEPT ![s] = Bump(@)]
          /\ p.count.live = old.count.live - 1
          /\ p.count.fallbacks = old.count.fallbacks
      <3> HIDE DEF s
      <3> QED BY <1>1, <1>3, <2>4, RetiredFields, FallbacksKept
    <2>6. /\ k \in RuntimeCounts /\ k.submits = runtime.count.submits
          /\ k.completions = runtime.count.completions + 1 /\ k.cancels = runtime.count.cancels
      BY <1>1 DEF RuntimeCounts
    <2> HIDE DEF p, k, s
    <2>7. BridgeTyped(runtime')
      BY <1>1, <2>1, <2>5, <2>6, BridgeParts
    <2>8. runtime'.pool = p
      BY <1>1, <2>1, <2>5, <2>6, BridgeParts
    <2>9. runtime'.count = k
      BY <1>1, <2>1, <2>5, <2>6, BridgeParts
    <2>10. runtime'.started = runtime.started
      BY <1>1, <2>1, <2>5, <2>6, BridgeParts
    <2>11. runtime'.maxLive = runtime.maxLive
      BY <1>1, <2>1, <2>5, <2>6, BridgeParts
    <2>12. /\ ~p.inUse[s] /\ p.gen[s] = Bump(old.gen[s])
           /\ \A x \in SlotIds : x # s => p.inUse[x] = old.inUse[x] /\ p.gen[x] = old.gen[x]
      BY <1>1, <1>3, <2>5
    <2>13. Busy(p) = Busy(old) \ {s}
      <3>1. ConfiguredSlots(p) = ConfiguredSlots(old)
        BY <2>5 DEF ConfiguredSlots
      <3>2. \A x \in ConfiguredSlots(old) : x \in SlotIds
        BY <1>1, BusyAreInUse DEF BridgeOwned
      <3> QED BY <2>12, <3>1, <3>2 DEF Busy
    <2>14. BridgeOwned(runtime')
      <3>1. /\ old.started = runtime.started /\ old.count.live = Cardinality(Busy(old))
            /\ old.count.fallbacks = 0 /\ runtime.maxLive <= old.slots
            /\ \A x \in SlotIds : old.inUse[x] => x < old.slots
            /\ runtime.count.submits = runtime.count.completions + runtime.count.cancels
                                         + Cardinality(Busy(old))
        BY DEF BridgeOwned
      <3>2. \A x \in SlotIds : p.inUse[x] => x < p.slots
        BY <2>5, <2>12, <3>1
      <3>3. Cardinality(Busy(p)) = Cardinality(Busy(old)) - 1
        BY <2>3, <2>13
      <3>4. k.submits = k.completions + k.cancels + Cardinality(Busy(p))
        <4>1. runtime.count.completions \in Nat /\ runtime.count.cancels \in Nat
          BY BridgeFields
        <4> QED BY <1>1, <2>6, <3>1, <3>3, <4>1
      <3>5. runtime.started
        BY <1>7
      <3> HIDE DEF old
      <3> QED BY <2>5, <2>8, <2>9, <2>10, <2>11, <3>1, <3>2, <3>3, <3>4, <3>5 DEF BridgeOwned
    <2>15. HistoryTyped' /\ GenerationsEarned' /\ HandlesCurrent'
      <3>1. \A x \in SlotIds :
                \/ /\ runtime'.pool.inUse[x] = runtime.pool.inUse[x]
                   /\ runtime'.pool.gen[x] = runtime.pool.gen[x]
                \/ /\ runtime.pool.inUse[x] /\ ~runtime'.pool.inUse[x]
                   /\ runtime'.pool.gen[x] = Bump(runtime.pool.gen[x])
        BY <2>2, <2>8, <2>12
      <3> QED BY <1>2, <3>1, RetiringKeepsHandles
    <2> QED BY <1>4, <2>7, <2>14, <2>15
  <1> QED BY <1>5, <1>6, <1>7

\* Every step keeps the invariant.
LEMMA SessionNext == SessionInv /\ [RuntimeNext]_runtimeVars => SessionInv'
  <1> SUFFICES ASSUME SessionInv, [RuntimeNext]_runtimeVars PROVE SessionInv'
    OBVIOUS
  <1>1. ASSUME NEW slots \in SlotIds \cup {MaxSlots}, NEW maxLive \in 1 .. MaxSlots,
               BridgeCreate(slots, maxLive)
        PROVE  SessionInv'
    BY <1>1, SessionCreate
  <1>2. CASE BridgeDestroy \/ BridgeCancelAll
    BY <1>2, SessionCancel
  <1>3. ASSUME NEW d \in [dir : Directions, size : {CaptureSize, PlaybackSize, WrongSize}],
               BridgeQueueSubmit(d) \/ BridgeSubmitRefused(d)
        PROVE  SessionInv'
    <2>1. d \in Descriptors
      BY RuntimeConstants DEF Descriptors
    <2> QED BY <1>3, <2>1, SessionSubmit, SessionRefuse
  <1>4. ASSUME NEW t \in issued, BridgeComplete(t) PROVE SessionInv'
    BY <1>4, SessionComplete
  <1>5. CASE UNCHANGED runtimeVars
    BY <1>5 DEF runtimeVars, SessionInv, BridgeTyped, BridgeOwned, HistoryTyped,
                GenerationsEarned, HandlesCurrent, AnswerKnown, SessionCompletionsMatch
  <1> QED BY <1>1, <1>2, <1>3, <1>4, <1>5 DEF RuntimeNext

\* The inductive invariant of the bridge, over all its sessions.
THEOREM SessionInvariant == RuntimeSpec => []SessionInv
  BY SessionInit, SessionNext, PTL DEF RuntimeSpec

\* A completion retires the request its handle was issued for, or none: however late or often the
\* USB stack delivers it within its session, for every size of the pool and every limit.
THEOREM SessionSafety == RuntimeSpec => []SessionCompletionsMatch
  <1>1. SessionInv => SessionCompletionsMatch
    BY DEF SessionInv, AnswerKnown
  <1> QED BY <1>1, SessionInvariant, PTL

\* completion_owned_lifecycle and preallocated_only: the bridge's counters account for every
\* request, a session that has ended leaves nothing in use, and the pool never refuses.
THEOREM LifecycleIsOwned == RuntimeSpec => []LifecycleOwned
  <1>1. ASSUME SessionInv PROVE LifecycleOwned
    <2> USE <1>1 DEF SessionInv
    <2>1. /\ runtime.started \in BOOLEAN /\ runtime.maxLive \in 0 .. MaxSlots
          /\ runtime.pool.slots \in 0 .. MaxSlots /\ runtime.pool.gen \in [SlotIds -> Generations]
          /\ Busy(runtime.pool) \subseteq SlotIds
      BY BridgeFields, PoolFields
    <2>2. runtime.pool.count.live \in 0 .. MaxSlots
      <3>1. IsFiniteSet(SlotIds) /\ Cardinality(SlotIds) = MaxSlots
        <4>1. 0 \in Int /\ MaxSlots - 1 \in Int /\ MaxSlots \in Nat
          BY PoolConstants
        <4>2. /\ IsFiniteSet(0 .. MaxSlots - 1)
              /\ Cardinality(0 .. MaxSlots - 1)
                   = IF 0 > MaxSlots - 1 THEN 0 ELSE (MaxSlots - 1) - 0 + 1
          BY <4>1, FS_Interval
        <4> QED BY <4>1, <4>2, PoolConstants DEF SlotIds
      <3>2. Cardinality(Busy(runtime.pool)) <= MaxSlots
        BY <2>1, <3>1, FS_Subset
      <3>3. Cardinality(Busy(runtime.pool)) \in Nat
        BY BridgeFields
      <3> QED BY <3>2, <3>3, PoolConstants DEF BridgeOwned
    <2>3. RuntimeTypeOK
      <3>1. ended \subseteq 1 .. MaxAccepted
        <4>1. ended \subseteq 1 .. submissions /\ submissions \in 0 .. MaxAccepted
          BY DEF HistoryTyped
        <4>2. \A x \in 1 .. submissions : x \in 1 .. MaxAccepted
          BY <4>1, RuntimeConstants
        <4> QED BY <4>1, <4>2
      <3> QED BY <2>1, <2>2, <3>1 DEF RuntimeTypeOK, HistoryTyped
    <2>4. ~runtime.started => Busy(runtime.pool) = {}
      BY <2>1 DEF BridgeOwned, Busy
    <2> QED BY <2>3, <2>4 DEF LifecycleOwned, BridgeOwned
  <1> QED BY <1>1, SessionInvariant, PTL
=============================================================================
