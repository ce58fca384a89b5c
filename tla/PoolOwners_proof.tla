------------------------- MODULE PoolOwners_proof --------------------------
(***************************************************************************)
(* Proofs about the owners of the request pool, for every configuration and *)
(* every bound: what the operators of the pool do to a pool in an owner's   *)
(* hands, that the playback scheduler keeps its lead and submits each slot  *)
(* once, that the persistent transport keeps its two queues and its pool in *)
(* step, and from both that the safety reports of a process hold.           *)
(***************************************************************************)
EXTENDS PoolOwners, FiniteSums, SequenceTheorems

(***************************************************************************)
(* The counters of a pool.                                                  *)
(***************************************************************************)
\* The counters of a pool that nobody used.
LEMMA NewCounts == NoCounts \in Counts /\ NoCounts.live = 0
  <1>1. Zero \in [Directions -> Nat]
    BY DEF Zero
  <1> QED BY <1>1 DEF NoCounts, Counts

\* A refused handle is counted, and nothing else changes.
LEMMA RefusedCounts ==
    ASSUME NEW c \in Counts, NEW stale \in BOOLEAN, NEW late \in BOOLEAN
    PROVE  /\ AccountRefusal(c, stale, late) \in Counts
           /\ AccountRefusal(c, stale, late).live = c.live
  <1> DEFINE f == IF stale THEN c.stale + 1 ELSE c.stale
             g == IF late THEN c.late + 1 ELSE c.late
             h == IF stale THEN c.invalid ELSE c.invalid + 1
  <1>1. AccountRefusal(c, stale, late) = [c EXCEPT !.stale = f, !.late = g, !.invalid = h]
    BY DEF AccountRefusal
  <1>2. f \in Nat /\ g \in Nat /\ h \in Nat
    BY DEF Counts
  <1> HIDE DEF f, g, h
  <1> QED BY <1>1, <1>2 DEF Counts

(***************************************************************************)
(* The pool in the hands of its owners.  A descriptor may carry more than a *)
(* direction and a size, so what a pool is, is said without them.           *)
(***************************************************************************)
PoolNames == {"started", "slots", "inUse", "gen", "lastCancelled", "desc", "count", "bytes"}
ByteNames == {"submitted", "completed", "cancelled"}
Sound(p) ==
    /\ DOMAIN p = PoolNames
    /\ p.started \in BOOLEAN /\ p.slots \in 0 .. MaxSlots
    /\ p.inUse \in [SlotIds -> BOOLEAN] /\ p.gen \in [SlotIds -> Generations]
    /\ DOMAIN p.desc = SlotIds /\ DOMAIN p.lastCancelled = SlotIds
    /\ p.count \in Counts
    /\ DOMAIN p.bytes = ByteNames /\ p.bytes.submitted \in [Directions -> Nat]
    /\ p.count.live = Cardinality(Busy(p))
    /\ \A s \in SlotIds : p.inUse[s] => s < p.slots
    /\ \A s \in SlotIds : p.desc[s].dir \in Directions /\ p.desc[s].size \in Nat

\* The slots in use, and how many there are.
LEMMA SoundBusy ==
    ASSUME NEW p, Sound(p)
    PROVE  /\ Busy(p) \subseteq SlotIds /\ IsFiniteSet(Busy(p)) /\ Cardinality(Busy(p)) \in Nat
           /\ \A s \in SlotIds : s \in Busy(p) <=> p.inUse[s]
           /\ p.count.live = 0 <=> Busy(p) = {}
           /\ \A d \in Directions : IsFiniteSet(SlotsOf(p, d)) /\ SlotsOf(p, d) \subseteq SlotIds
  <1>1. p.slots \in 0 .. MaxSlots /\ \A s \in SlotIds : p.inUse[s] => s < p.slots
    BY DEF Sound
  <1>2. Busy(p) \subseteq SlotIds /\ \A s \in SlotIds : s \in Busy(p) <=> p.inUse[s]
    BY <1>1, PoolConstants DEF Busy, ConfiguredSlots, SlotIds
  <1>3. IsFiniteSet(SlotIds)
    BY FS_Interval, PoolConstants DEF SlotIds
  <1>4. IsFiniteSet(Busy(p)) /\ Cardinality(Busy(p)) \in Nat
    BY <1>2, <1>3, FS_Subset, FS_CardinalityType
  <1>5. Cardinality(Busy(p)) = 0 <=> Busy(p) = {}
    BY <1>4, FS_EmptySet
  <1>6. \A d \in Directions : IsFiniteSet(SlotsOf(p, d)) /\ SlotsOf(p, d) \subseteq SlotIds
    BY <1>2, <1>4, FS_Subset DEF SlotsOf
  <1> QED BY <1>2, <1>4, <1>5, <1>6 DEF Sound

\* With a slot that is not in use submit() succeeds, and takes the lowest one.
LEMMA LowestFree ==
    ASSUME NEW p, Sound(p), p.started, NEW k \in SlotIds, k < p.slots, ~p.inUse[k]
    PROVE  /\ CanSubmit(p)
           /\ FreeSlot(p) \in SlotIds /\ FreeSlot(p) < p.slots /\ ~p.inUse[FreeSlot(p)]
           /\ \A t \in SlotIds : t < FreeSlot(p) => p.inUse[t]
  <1> DEFINE F == {s \in SlotIds : s < p.slots /\ ~p.inUse[s]}
  <1>1. F \in SUBSET Nat /\ F # {}
    BY PoolConstants DEF SlotIds
  <1>2. PICK m \in F : \A j \in F : m <= j
    BY <1>1, LeastNat
  <1>3. p.slots \in 0 .. MaxSlots
    BY DEF Sound
  <1>4. \A s \in SlotIds : IsFreeSlot(p, s) <=> s < p.slots /\ ~p.inUse[s] /\ \A t \in 0 .. s - 1 : p.inUse[t]
    BY <1>3, PoolConstants DEF IsFreeSlot, ConfiguredSlots, SlotIds
  <1>5. m \in SlotIds /\ m < p.slots /\ ~p.inUse[m] /\ m \in Nat
    BY <1>1
  <1>6. \A t \in 0 .. m - 1 : t \in SlotIds /\ t < p.slots /\ t < m /\ ~(m <= t)
    BY <1>3, <1>5, PoolConstants DEF SlotIds
  <1>7. IsFreeSlot(p, m)
    BY <1>2, <1>4, <1>5, <1>6
  <1>8. FreeSlot(p) \in SlotIds /\ IsFreeSlot(p, FreeSlot(p))
    BY <1>5, <1>7 DEF FreeSlot
  <1>9. \A t \in SlotIds : t < FreeSlot(p) => t \in 0 .. FreeSlot(p) - 1
    BY <1>8, PoolConstants DEF SlotIds
  <1> QED BY <1>4, <1>5, <1>7, <1>8, <1>9 DEF CanSubmit, HasFreeSlot

\* Fewer requests than slots leave a slot that is not in use.
LEMMA RoomIsFree ==
    ASSUME NEW p, Sound(p), p.count.live < p.slots
    PROVE  \E k \in SlotIds : k < p.slots /\ ~p.inUse[k]
  <1>1. p.slots \in 0 .. MaxSlots /\ p.count.live = Cardinality(Busy(p))
    BY DEF Sound
  <1>2. Cardinality(ConfiguredSlots(p)) = p.slots
    <2>1. 0 \in Int /\ p.slots - 1 \in Int
      BY <1>1
    <2>2. Cardinality(0 .. p.slots - 1)
            = IF 0 > p.slots - 1 THEN 0 ELSE (p.slots - 1) - 0 + 1
      BY <2>1, FS_Interval
    <2> QED BY <1>1, <2>2 DEF ConfiguredSlots
  <1>3. SUFFICES ASSUME \A k \in SlotIds : k < p.slots => p.inUse[k] PROVE FALSE
    BY SoundBusy
  <1>4. Busy(p) = ConfiguredSlots(p)
    BY <1>1, <1>3, PoolConstants DEF Busy, ConfiguredSlots, SlotIds
  <1> QED BY <1>1, <1>2, <1>4

\* The function g is f with one more at x.
OneMore(f, x, g) == g = [f EXCEPT ![x] = @ + 1]

\* What the counters of a submission are.
LEMMA CountsAfterSubmit ==
    ASSUME NEW c \in Counts, NEW d, d.dir \in Directions, NEW e, e = AccountSubmit(c, d)
    PROVE  /\ e \in Counts /\ e.live = c.live + 1
           /\ e.maxLive = (IF c.live + 1 > c.maxLive THEN c.live + 1 ELSE c.maxLive)
           /\ OneMore(c.submits, d.dir, e.submits)
           /\ e.completions = c.completions /\ e.cancels = c.cancels
           /\ e.fallbacks = c.fallbacks
  <1> DEFINE m == IF c.live + 1 > c.maxLive THEN c.live + 1 ELSE c.maxLive
             l == c.live + 1
             f == [c.submits EXCEPT ![d.dir] = @ + 1]
  <1>1. e = [c EXCEPT !.live = l, !.maxLive = m, !.submits = f]
    BY DEF AccountSubmit
  <1>2. f \in [Directions -> Nat] /\ m \in Nat /\ l \in Nat
    BY DEF Counts
  <1> HIDE DEF f, l, m
  <1>3. e \in Counts /\ e.live = l /\ e.maxLive = m /\ e.submits = f
        /\ e.completions = c.completions /\ e.cancels = c.cancels /\ e.fallbacks = c.fallbacks
    BY <1>1, <1>2 DEF Counts
  <1> QED BY <1>3 DEF f, l, m, OneMore

\* What the counters of a completion are.
LEMMA CountsAfterCompletion ==
    ASSUME NEW c \in Counts, NEW d, d.dir \in Directions, c.live # 0,
           NEW e, e = AccountCompletion(c, d)
    PROVE  /\ e \in Counts /\ e.live = c.live - 1 /\ e.maxLive = c.maxLive
           /\ e.submits = c.submits /\ e.cancels = c.cancels /\ e.fallbacks = c.fallbacks
           /\ OneMore(c.completions, d.dir, e.completions)
  <1> DEFINE r == c.recycles + 1
             l == c.live - 1
             f == [c.completions EXCEPT ![d.dir] = @ + 1]
  <1>1. e = [c EXCEPT !.live = l, !.recycles = r, !.completions = f]
    BY DEF AccountCompletion
  <1>2. f \in [Directions -> Nat] /\ r \in Nat /\ l \in Nat
    BY DEF Counts
  <1> HIDE DEF f, l, r
  <1>3. e \in Counts /\ e.live = l /\ e.maxLive = c.maxLive /\ e.submits = c.submits
        /\ e.completions = f /\ e.cancels = c.cancels /\ e.fallbacks = c.fallbacks
    BY <1>1, <1>2 DEF Counts
  <1> QED BY <1>3 DEF f, l, r, OneMore

\* The pool q is p after a submission of d into slot s.
Took(p, s, d, q) ==
    /\ Sound(q) /\ q.started = p.started /\ q.slots = p.slots /\ q.gen = p.gen
    /\ q.inUse = [p.inUse EXCEPT ![s] = TRUE] /\ q.desc = [p.desc EXCEPT ![s] = d]
    /\ q.count = AccountSubmit(p.count, d)
    /\ q.bytes.submitted = [p.bytes.submitted EXCEPT ![d.dir] = @ + d.size]
    /\ Busy(q) = Busy(p) \cup {s}

\* The pool q is p after the completion of slot s.
Freed(p, s, q) ==
    /\ Sound(q) /\ q.started = p.started /\ q.slots = p.slots
    /\ q.gen = [p.gen EXCEPT ![s] = Bump(@)]
    /\ q.inUse = [p.inUse EXCEPT ![s] = FALSE]
    /\ q.desc = [p.desc EXCEPT ![s] = NoDescriptor]
    /\ p.count.live # 0 /\ q.count = AccountCompletion(p.count, p.desc[s])
    /\ q.bytes.submitted = p.bytes.submitted
    /\ Busy(q) = Busy(p) \ {s}

\* The slots of q are those of p.
SameSlots(p, q) ==
    /\ Sound(q) /\ q.started = p.started /\ q.slots = p.slots /\ q.gen = p.gen
    /\ q.inUse = p.inUse /\ q.desc = p.desc /\ q.bytes = p.bytes
    /\ q.count.live = p.count.live

\* submit() that finds a slot: it makes the slot live under its present generation.
LEMMA SubmitsInto ==
    ASSUME NEW p, Sound(p), CanSubmit(p), NEW s \in SlotIds, s = FreeSlot(p),
           s < p.slots, ~p.inUse[s],
           NEW d, d.dir \in Directions, d.size \in Nat,
           NEW q, q = PoolSubmit(p, d).pool
    PROVE  PoolSubmit(p, d).handle = HandleOf(p, s) /\ Took(p, s, d, q)
  <1> DEFINE c == AccountSubmit(p.count, d)
             u == [p.inUse EXCEPT ![s] = TRUE]
             e == [p.desc EXCEPT ![s] = d]
             b == [p.bytes EXCEPT !.submitted[d.dir] = @ + d.size]
  <1>1. q = PoolSubmitAt(p, s, d) /\ PoolSubmit(p, d).handle = HandleOf(p, s)
    BY DEF PoolSubmit
  <1>2. q = [p EXCEPT !.inUse = u, !.desc = e, !.count = c, !.bytes = b]
    BY <1>1 DEF PoolSubmitAt
  <1>3. c \in Counts /\ c.live = p.count.live + 1
    <2>1. p.count \in Counts
      BY DEF Sound
    <2> QED BY <2>1, CountsAfterSubmit
  <1>4. /\ u \in [SlotIds -> BOOLEAN] /\ DOMAIN e = SlotIds
        /\ \A t \in SlotIds : u[t] <=> t = s \/ p.inUse[t]
        /\ \A t \in SlotIds : e[t] = IF t = s THEN d ELSE p.desc[t]
    BY DEF Sound
  <1>5. /\ b.submitted = [p.bytes.submitted EXCEPT ![d.dir] = @ + d.size]
        /\ DOMAIN b = ByteNames /\ b.submitted \in [Directions -> Nat]
    <2> DEFINE f == [p.bytes.submitted EXCEPT ![d.dir] = @ + d.size]
    <2>1. f \in [Directions -> Nat] /\ b = [p.bytes EXCEPT !.submitted = f]
      BY DEF Sound
    <2> HIDE DEF f, b
    <2>2. DOMAIN b = ByteNames /\ b.submitted = f
      BY <2>1 DEF Sound, ByteNames
    <2> QED BY <2>1, <2>2 DEF f
  <1> HIDE DEF c, u, e, b
  <1>6. /\ DOMAIN q = PoolNames /\ q.started = p.started /\ q.slots = p.slots /\ q.gen = p.gen
        /\ q.inUse = u /\ q.desc = e /\ q.count = c /\ q.bytes = b
        /\ q.lastCancelled = p.lastCancelled
    BY <1>2 DEF Sound, PoolNames
  <1>7. Busy(q) = Busy(p) \cup {s} /\ s \notin Busy(p)
    <2>1. \A t \in ConfiguredSlots(p) : t \in SlotIds
      BY PoolConstants DEF Sound, ConfiguredSlots, SlotIds
    <2>2. s \in ConfiguredSlots(p)
      BY PoolConstants DEF Sound, ConfiguredSlots, SlotIds
    <2>3. ConfiguredSlots(q) = ConfiguredSlots(p)
      BY <1>6 DEF ConfiguredSlots
    <2> QED BY <1>4, <1>6, <2>1, <2>2, <2>3 DEF Busy
  <1>8. Cardinality(Busy(q)) = Cardinality(Busy(p)) + 1
    BY <1>7, SoundBusy, FS_AddElement
  <1>9. Sound(q)
    <2>1. q.count.live = Cardinality(Busy(q))
      BY <1>3, <1>6, <1>8 DEF Sound
    <2>2. \A t \in SlotIds : q.inUse[t] => t < q.slots
      BY <1>4, <1>6 DEF Sound
    <2>3. \A t \in SlotIds : q.desc[t].dir \in Directions /\ q.desc[t].size \in Nat
      BY <1>4, <1>6 DEF Sound
    <2> QED BY <1>3, <1>4, <1>5, <1>6, <2>1, <2>2, <2>3 DEF Sound
  <1> QED BY <1>1, <1>5, <1>6, <1>7, <1>9 DEF Took, c, u, e

\* A pool that has just been constructed.
LEMMA NewPoolSound ==
    Sound(NewPool) /\ NewPool.count = NoCounts /\ NewPool.bytes = NoBytes /\ ~NewPool.started
  <1> DEFINE p == NewPool
  <1>1. /\ DOMAIN p = PoolNames /\ ~p.started /\ p.started \in BOOLEAN /\ p.slots = 0
        /\ p.inUse = [s \in SlotIds |-> FALSE] /\ p.gen = [s \in SlotIds |-> 1]
        /\ p.lastCancelled = [s \in SlotIds |-> 0] /\ p.desc = [s \in SlotIds |-> NoDescriptor]
        /\ p.count = NoCounts /\ p.bytes = NoBytes
    BY DEF NewPool, PoolNames
  <1> HIDE DEF p
  <1>2. 1 \in Generations /\ 0 \in 0 .. MaxSlots
    BY PoolConstants DEF Generations
  <1>3. DOMAIN NoBytes = ByteNames /\ NoBytes.submitted \in [Directions -> Nat]
    BY DEF NoBytes, ByteNames, Zero
  <1>4. NoDescriptor.dir \in Directions /\ NoDescriptor.size \in Nat
    BY DEF NoDescriptor, Directions
  <1>5. Busy(p) = {}
    BY <1>1 DEF Busy, ConfiguredSlots
  <1>6. p.count.live = Cardinality(Busy(p)) /\ p.count \in Counts
    BY <1>1, <1>5, NewCounts, FS_EmptySet
  <1>7. \A s \in SlotIds : ~p.inUse[s] /\ p.desc[s] = NoDescriptor
    BY <1>1
  <1>8. p.inUse \in [SlotIds -> BOOLEAN] /\ p.gen \in [SlotIds -> Generations]
        /\ DOMAIN p.desc = SlotIds /\ DOMAIN p.lastCancelled = SlotIds
    BY <1>1, <1>2
  <1> QED BY <1>1, <1>2, <1>3, <1>4, <1>6, <1>7, <1>8 DEF Sound, p

\* submit() that finds none only counts.
LEMMA SubmitsNowhere ==
    ASSUME NEW p, Sound(p), ~CanSubmit(p), NEW d, NEW q, q = PoolSubmit(p, d).pool
    PROVE  PoolSubmit(p, d).handle = NoHandle /\ SameSlots(p, q)
  <1> DEFINE c == [p.count EXCEPT !.fallbacks = @ + 1]
  <1>1. q = [p EXCEPT !.count = c] /\ PoolSubmit(p, d).handle = NoHandle
    BY DEF PoolSubmit, PoolSubmitRefused
  <1>2. c \in Counts /\ c.live = p.count.live
    BY DEF Sound, Counts
  <1> HIDE DEF c
  <1>3. /\ DOMAIN q = PoolNames /\ q.started = p.started /\ q.slots = p.slots /\ q.gen = p.gen
        /\ q.inUse = p.inUse /\ q.desc = p.desc /\ q.bytes = p.bytes /\ q.count = c
        /\ q.lastCancelled = p.lastCancelled
    BY <1>1 DEF Sound, PoolNames
  <1>4. Busy(q) = Busy(p)
    BY <1>3 DEF Busy, ConfiguredSlots
  <1> QED BY <1>1, <1>2, <1>3, <1>4 DEF Sound, SameSlots

\* complete() with a handle that is accepted retires the slot.
LEMMA CompletesSlot ==
    ASSUME NEW p, Sound(p), NEW h, Accepts(p, h), NEW q, q = PoolComplete(p, h)
    PROVE  /\ h.slot \in SlotIds /\ h.slot < p.slots /\ p.inUse[h.slot] /\ p.started
           /\ Freed(p, h.slot, q)
  <1> DEFINE s == h.slot
             c == AccountCompletion(p.count, p.desc[s])
             u == [p.inUse EXCEPT ![s] = FALSE]
             g == [p.gen EXCEPT ![s] = Bump(@)]
             e == [p.desc EXCEPT ![s] = NoDescriptor]
             b == [p.bytes EXCEPT !.completed[p.desc[s].dir] = @ + p.desc[s].size]
  <1>1. q = [p EXCEPT !.inUse = u, !.gen = g, !.desc = e, !.count = c, !.bytes = b]
    BY DEF PoolComplete, Retired
  <1>2. /\ s \in SlotIds /\ s < p.slots /\ p.inUse[s] /\ p.started
        /\ p.desc[s].dir \in Directions /\ p.desc[s].size \in Nat /\ p.gen[s] \in Generations
    <2>1. p.slots \in 0 .. MaxSlots
      BY DEF Sound
    <2>2. s \in SlotIds /\ s < p.slots
      BY <2>1, PoolConstants DEF Accepts, HandleInRange, ConfiguredSlots, SlotIds
    <2> HIDE DEF s
    <2>3. p.inUse[s] /\ p.started
      BY DEF Accepts, HandleInRange, s
    <2> QED BY <2>2, <2>3 DEF Sound
  <1>3. s \in Busy(p) /\ IsFiniteSet(Busy(p)) /\ Cardinality(Busy(p)) \in Nat /\ p.count.live # 0
    BY <1>2, SoundBusy
  <1>4. c \in Counts /\ c.live = p.count.live - 1
    <2> DEFINE n == p.count
               d == p.desc[s]
    <2>1. n \in Counts /\ n.live # 0 /\ d.dir \in Directions /\ c = AccountCompletion(n, d)
      BY <1>2, <1>3 DEF Sound
    <2> HIDE DEF n, d, c
    <2>2. c \in Counts /\ c.live = n.live - 1
      BY <2>1, CountsAfterCompletion
    <2> QED BY <2>2 DEF n
  <1>5. Bump(p.gen[s]) \in Generations
    BY <1>2, PoolConstants DEF Bump, Generations
  <1>6. /\ u \in [SlotIds -> BOOLEAN] /\ DOMAIN e = SlotIds /\ g \in [SlotIds -> Generations]
        /\ \A t \in SlotIds : u[t] <=> t # s /\ p.inUse[t]
        /\ \A t \in SlotIds : e[t] = IF t = s THEN NoDescriptor ELSE p.desc[t]
    BY <1>5 DEF Sound
  <1>7. DOMAIN b = ByteNames /\ b.submitted = p.bytes.submitted
    <2> DEFINE f == [p.bytes.completed EXCEPT ![p.desc[s].dir] = @ + p.desc[s].size]
    <2>1. b = [p.bytes EXCEPT !.completed = f]
      OBVIOUS
    <2> HIDE DEF f, b
    <2> QED BY <2>1 DEF Sound, ByteNames
  <1> HIDE DEF c, u, g, e, b, s
  <1>8. /\ DOMAIN q = PoolNames /\ q.started = p.started /\ q.slots = p.slots /\ q.gen = g
        /\ q.inUse = u /\ q.desc = e /\ q.count = c /\ q.bytes = b
        /\ q.lastCancelled = p.lastCancelled
    BY <1>1 DEF Sound, PoolNames
  <1>9. Busy(q) = Busy(p) \ {s}
    <2>1. \A t \in ConfiguredSlots(p) : t \in SlotIds
      BY PoolConstants DEF Sound, ConfiguredSlots, SlotIds
    <2>2. ConfiguredSlots(q) = ConfiguredSlots(p)
      BY <1>8 DEF ConfiguredSlots
    <2> QED BY <1>6, <1>8, <2>1, <2>2 DEF Busy
  <1>10. Cardinality(Busy(q)) = Cardinality(Busy(p)) - 1
    BY <1>3, <1>9, FS_RemoveElement
  <1>11. Sound(q)
    <2>1. q.count.live = Cardinality(Busy(q))
      BY <1>4, <1>8, <1>10 DEF Sound
    <2>2. \A t \in SlotIds : q.inUse[t] => t < q.slots
      BY <1>6, <1>8 DEF Sound
    <2>3. NoDescriptor.dir \in Directions /\ NoDescriptor.size \in Nat
      BY DEF NoDescriptor, Directions
    <2>4. \A t \in SlotIds : q.desc[t].dir \in Directions /\ q.desc[t].size \in Nat
      BY <1>6, <1>8, <2>3 DEF Sound
    <2> QED BY <1>4, <1>6, <1>7, <1>8, <2>1, <2>2, <2>4 DEF Sound
  <1> QED BY <1>2, <1>3, <1>7, <1>8, <1>9, <1>11 DEF Freed, c, u, g, e, s

\* complete() with any other handle only counts.
LEMMA CompletesNothing ==
    ASSUME NEW p, Sound(p), NEW h, ~Accepts(p, h), NEW q, q = PoolComplete(p, h)
    PROVE  SameSlots(p, q)
  <1> DEFINE c == AccountRefusal(p.count, IsStale(p, h), IsLate(p, h))
  <1>1. q = [p EXCEPT !.count = c]
    BY DEF PoolComplete, Refused
  <1>2. c \in Counts /\ c.live = p.count.live
    <2>1. IsStale(p, h) \in BOOLEAN /\ IsLate(p, h) \in BOOLEAN
      BY DEF Sound, IsStale, IsLate, HandleInRange
    <2> QED BY <2>1, RefusedCounts DEF Sound
  <1> HIDE DEF c
  <1>3. /\ DOMAIN q = PoolNames /\ q.started = p.started /\ q.slots = p.slots /\ q.gen = p.gen
        /\ q.inUse = p.inUse /\ q.desc = p.desc /\ q.bytes = p.bytes /\ q.count = c
        /\ q.lastCancelled = p.lastCancelled
    BY <1>1 DEF Sound, PoolNames
  <1>4. Busy(q) = Busy(p)
    BY <1>3 DEF Busy, ConfiguredSlots
  <1> QED BY <1>2, <1>3, <1>4 DEF Sound, SameSlots

\* start() clears the slots and keeps the generations; stop() only closes the pool.
LEMMA OpensAndCloses ==
    ASSUME NEW p, Sound(p)
    PROVE  /\ \A n \in 1 .. MaxSlots :
                  /\ Sound(PoolStart(p, n)) /\ PoolStart(p, n).started
                  /\ PoolStart(p, n).slots = n /\ PoolStart(p, n).gen = p.gen
                  /\ PoolStart(p, n).inUse = [s \in SlotIds |-> FALSE]
                  /\ PoolStart(p, n).count = NoCounts /\ PoolStart(p, n).bytes = NoBytes
                  /\ Busy(PoolStart(p, n)) = {}
           /\ Sound(PoolStop(p)) /\ ~PoolStop(p).started /\ PoolStop(p).slots = p.slots
           /\ PoolStop(p).inUse = p.inUse /\ PoolStop(p).gen = p.gen /\ PoolStop(p).desc = p.desc
           /\ PoolStop(p).count = p.count /\ PoolStop(p).bytes = p.bytes
           /\ Busy(PoolStop(p)) = Busy(p)
  <1>1. ASSUME NEW n \in 1 .. MaxSlots
        PROVE  /\ Sound(PoolStart(p, n)) /\ PoolStart(p, n).started
               /\ PoolStart(p, n).slots = n /\ PoolStart(p, n).gen = p.gen
               /\ PoolStart(p, n).inUse = [s \in SlotIds |-> FALSE]
               /\ PoolStart(p, n).count = NoCounts /\ PoolStart(p, n).bytes = NoBytes
               /\ Busy(PoolStart(p, n)) = {}
    <2> DEFINE u == [s \in SlotIds |-> FALSE]
               l == [s \in SlotIds |-> 0]
               e == [s \in SlotIds |-> NoDescriptor]
               q == PoolStart(p, n)
    <2>1. q = [p EXCEPT !.started = TRUE, !.slots = n, !.inUse = u, !.lastCancelled = l,
                        !.desc = e, !.count = NoCounts, !.bytes = NoBytes]
      BY DEF PoolStart
    <2>2. /\ u \in [SlotIds -> BOOLEAN] /\ DOMAIN l = SlotIds /\ DOMAIN e = SlotIds
          /\ \A s \in SlotIds : ~u[s] /\ e[s] = NoDescriptor
      OBVIOUS
    <2>3. n \in 0 .. MaxSlots /\ DOMAIN NoBytes = ByteNames /\ NoBytes.submitted \in [Directions -> Nat]
      BY PoolConstants DEF NoBytes, ByteNames, Zero
    <2>4. NoDescriptor.dir \in Directions /\ NoDescriptor.size \in Nat
      BY DEF NoDescriptor, Directions
    <2> HIDE DEF u, l, e, q
    <2>5. /\ DOMAIN q = PoolNames /\ q.started /\ q.slots = n /\ q.gen = p.gen
          /\ q.inUse = u /\ q.desc = e /\ q.lastCancelled = l /\ q.count = NoCounts
          /\ q.bytes = NoBytes
      BY <2>1 DEF Sound, PoolNames
    <2>6. Busy(q) = {}
      <3>1. ConfiguredSlots(q) \subseteq SlotIds
        BY <2>3, <2>5, PoolConstants DEF ConfiguredSlots, SlotIds
      <3> QED BY <2>2, <2>5, <3>1 DEF Busy
    <2>7. q.count.live = Cardinality(Busy(q))
      BY <2>5, <2>6, NewCounts, FS_EmptySet
    <2>8. Sound(q)
      BY <2>2, <2>3, <2>4, <2>5, <2>7, NewCounts DEF Sound
    <2> QED BY <2>5, <2>6, <2>8 DEF u, q
  <1>2. /\ Sound(PoolStop(p)) /\ ~PoolStop(p).started /\ PoolStop(p).slots = p.slots
        /\ PoolStop(p).inUse = p.inUse /\ PoolStop(p).gen = p.gen /\ PoolStop(p).desc = p.desc
        /\ PoolStop(p).count = p.count /\ PoolStop(p).bytes = p.bytes
        /\ Busy(PoolStop(p)) = Busy(p)
    <2> DEFINE q == PoolStop(p)
    <2>1. /\ DOMAIN q = PoolNames /\ ~q.started /\ q.slots = p.slots /\ q.gen = p.gen
          /\ q.inUse = p.inUse /\ q.desc = p.desc /\ q.count = p.count /\ q.bytes = p.bytes
          /\ q.lastCancelled = p.lastCancelled /\ q.started \in BOOLEAN
      BY DEF Sound, PoolNames, PoolStop
    <2> HIDE DEF q
    <2>2. Busy(q) = Busy(p)
      BY <2>1 DEF Busy, ConfiguredSlots
    <2>3. Sound(q)
      BY <2>1, <2>2 DEF Sound
    <2> QED BY <2>1, <2>2, <2>3 DEF q
  <1> QED BY <1>1, <1>2

\* cancel_all() leaves nothing live.
LEMMA CancelsAll ==
    ASSUME NEW p, Sound(p), NEW q, q = PoolCancelAll(p)
    PROVE  /\ Sound(q) /\ q.started = p.started /\ q.slots = p.slots
           /\ q.count.fallbacks = p.count.fallbacks /\ q.count.maxLive = p.count.maxLive
           /\ q.count.submits = p.count.submits /\ q.count.completions = p.count.completions
           /\ q.bytes.submitted = p.bytes.submitted
           /\ p.started => Busy(q) = {} /\ q.count.live = 0 /\ \A s \in SlotIds : ~q.inUse[s]
           /\ ~p.started => q = p
           /\ Busy(p) = {} => q.count = p.count /\ q.inUse = p.inUse /\ q.gen = p.gen
  <1>1. CASE ~p.started
    <2>1. q = p
      BY <1>1 DEF PoolCancelAll
    <2> QED BY <1>1, <2>1
  <1>2. CASE p.started
    <2> DEFINE u == [s \in SlotIds |-> IF s \in Busy(p) THEN FALSE ELSE p.inUse[s]]
               g == [s \in SlotIds |-> IF s \in Busy(p) THEN Bump(p.gen[s]) ELSE p.gen[s]]
               l == [s \in SlotIds |-> IF s \in Busy(p) THEN p.gen[s] ELSE p.lastCancelled[s]]
               e == [s \in SlotIds |-> IF s \in Busy(p) THEN NoDescriptor ELSE p.desc[s]]
               z == [d \in Directions |-> p.bytes.cancelled[d] + SizeOf(p, d)]
               b == [p.bytes EXCEPT !.cancelled = z]
               c == AccountCancel(p)
               n == Cardinality(Busy(p))
               f == [d \in Directions |-> p.count.cancels[d] + Cardinality(SlotsOf(p, d))]
    <2>1. q = [p EXCEPT !.inUse = u, !.lastCancelled = l, !.gen = g, !.desc = e, !.count = c,
                        !.bytes = b]
      BY <1>2 DEF PoolCancelAll, PoolCancelLive
    <2>2. /\ c \in Counts /\ c.live = 0 /\ c.fallbacks = p.count.fallbacks
          /\ c.maxLive = p.count.maxLive /\ c.submits = p.count.submits
          /\ c.completions = p.count.completions /\ (n = 0 => c.recycles = p.count.recycles)
          /\ c.cancels = f
      <3> DEFINE m == p.count.live - n
                 r == p.count.recycles + n
      <3>1. n \in Nat /\ \A d \in Directions : Cardinality(SlotsOf(p, d)) \in Nat
        BY SoundBusy, FS_CardinalityType
      <3>2. c = [p.count EXCEPT !.live = m, !.recycles = r, !.cancels = f]
        BY DEF AccountCancel
      <3>3. m = 0 /\ r \in Nat /\ (n = 0 => r = p.count.recycles) /\ p.count \in Counts
        BY <3>1 DEF Sound, Counts
      <3>4. f \in [Directions -> Nat]
        BY <3>1 DEF Sound, Counts
      <3> HIDE DEF m, r, f, c
      <3>5. c \in Counts
        BY <3>2, <3>3, <3>4 DEF Counts
      <3>6. /\ c.live = m /\ c.fallbacks = p.count.fallbacks
            /\ c.maxLive = p.count.maxLive /\ c.submits = p.count.submits
            /\ c.completions = p.count.completions /\ c.recycles = r /\ c.cancels = f
        BY <3>2, <3>3 DEF Counts
      <3> QED BY <3>3, <3>5, <3>6
    <2>3. \A s \in SlotIds : Bump(p.gen[s]) \in Generations /\ p.gen[s] \in Generations
      BY PoolConstants DEF Bump, Generations, Sound
    <2>4. NoDescriptor.dir \in Directions /\ NoDescriptor.size \in Nat
      BY DEF NoDescriptor, Directions
    <2>5. /\ u \in [SlotIds -> BOOLEAN] /\ g \in [SlotIds -> Generations]
          /\ DOMAIN l = SlotIds /\ DOMAIN e = SlotIds
          /\ \A s \in SlotIds : ~u[s]
          /\ \A s \in SlotIds : e[s].dir \in Directions /\ e[s].size \in Nat
      <3>1. \A s \in SlotIds : s \notin Busy(p) => ~p.inUse[s]
        BY SoundBusy
      <3> QED BY <2>3, <2>4, <3>1 DEF Sound
    <2>6. DOMAIN b = ByteNames /\ b.submitted = p.bytes.submitted
      <3> HIDE DEF z
      <3> QED BY DEF Sound, ByteNames
    <2>7. Busy(p) = {} => u = p.inUse /\ g = p.gen /\ c = p.count
      <3>1. SUFFICES ASSUME Busy(p) = {} PROVE u = p.inUse /\ g = p.gen /\ c = p.count
        OBVIOUS
      <3>2. u = p.inUse /\ g = p.gen
        BY <3>1 DEF Sound
      <3>3. n = 0 /\ \A d \in Directions : Cardinality(SlotsOf(p, d)) = 0
        BY <3>1, FS_EmptySet DEF SlotsOf
      <3>4. f = p.count.cancels
        BY <3>3 DEF Sound, Counts
      <3>5. p.count.live = 0 /\ p.count \in Counts
        BY <3>3 DEF Sound
      <3> HIDE DEF c, f, n, u, g
      <3>6. /\ c.live = p.count.live /\ c.recycles = p.count.recycles
            /\ c.cancels = p.count.cancels /\ c.submits = p.count.submits
            /\ c.completions = p.count.completions /\ c.fallbacks = p.count.fallbacks
            /\ c.maxLive = p.count.maxLive
        BY <2>2, <3>3, <3>4, <3>5
      <3>7. c.invalid = p.count.invalid /\ c.stale = p.count.stale /\ c.late = p.count.late
        BY <3>5 DEF c, AccountCancel, Counts
      <3>8. c = p.count
        BY <2>2, <3>5, <3>6, <3>7 DEF Counts
      <3> QED BY <3>2, <3>8
    <2> HIDE DEF u, g, l, e, b, c, f, n
    <2>8. /\ DOMAIN q = PoolNames /\ q.started = p.started /\ q.slots = p.slots /\ q.gen = g
          /\ q.inUse = u /\ q.desc = e /\ q.count = c /\ q.bytes = b /\ q.lastCancelled = l
      BY <2>1 DEF Sound, PoolNames
    <2>9. Busy(q) = {}
      <3>1. ConfiguredSlots(q) \subseteq SlotIds
        BY <2>8, PoolConstants DEF ConfiguredSlots, SlotIds, Sound
      <3> QED BY <2>5, <2>8, <3>1 DEF Busy
    <2>10. Sound(q)
      <3>1. q.count.live = Cardinality(Busy(q))
        BY <2>2, <2>8, <2>9, FS_EmptySet
      <3>2. \A s \in SlotIds : q.inUse[s] => s < q.slots
        BY <2>5, <2>8
      <3> QED BY <2>2, <2>5, <2>6, <2>8, <3>1, <3>2 DEF Sound
    <2> QED BY <1>2, <2>2, <2>5, <2>6, <2>7, <2>8, <2>9, <2>10
  <1> QED BY <1>1, <1>2

\* The pool operators that PlaybackSchedulerRuntime extends are those of UsbRequestPool.
LEMMA SchedulerPool ==
    /\ L!NoHandle = NoHandle /\ L!NewPool = NewPool /\ L!Directions = Directions
    /\ L!SlotIds = SlotIds /\ L!Zero = Zero
    /\ \A p, d : L!PoolSubmit(p, d) = PoolSubmit(p, d)
    /\ \A p, h : L!Accepts(p, h) = Accepts(p, h) /\ L!PoolComplete(p, h) = PoolComplete(p, h)
    /\ \A p, n : L!ValidPoolConfig(n) = ValidPoolConfig(n) /\ L!PoolStart(p, n) = PoolStart(p, n)
    /\ \A p : L!PoolStop(p) = PoolStop(p) /\ L!PoolCancelAll(p) = PoolCancelAll(p)
    /\ \A p : L!Busy(p) = Busy(p) /\ L!Cardinality(p) = Cardinality(p)
  <1>1. /\ L!NoHandle = NoHandle /\ L!Directions = Directions /\ L!SlotIds = SlotIds
        /\ L!Zero = Zero /\ L!NoDescriptor = NoDescriptor
        /\ \A p : L!Busy(p) = Busy(p) /\ L!Cardinality(p) = Cardinality(p)
        /\ \A g : L!Bump(g) = Bump(g)
    BY DEF L!NoHandle, NoHandle, L!Directions, Directions, L!SlotIds, SlotIds, L!Zero,
       Zero, L!NoDescriptor, NoDescriptor, L!Busy, Busy, L!ConfiguredSlots,
       ConfiguredSlots, L!Cardinality, Cardinality, L!Bump, Bump
  <1>2. L!NewPool = NewPool
    BY DEF L!NewPool, NewPool, L!NoCounts, NoCounts, L!NoBytes, NoBytes, L!Zero, Zero,
       L!Directions, Directions, L!SlotIds, SlotIds, L!NoDescriptor, NoDescriptor
  <1>3. ASSUME NEW p, NEW d PROVE L!PoolSubmit(p, d) = PoolSubmit(p, d)
    BY DEF L!PoolSubmit, PoolSubmit, L!CanSubmit, CanSubmit, L!HasFreeSlot, HasFreeSlot,
       L!IsFreeSlot, IsFreeSlot, L!ConfiguredSlots, ConfiguredSlots, L!SlotIds, SlotIds,
       L!PoolSubmitAt, PoolSubmitAt, L!FreeSlot, FreeSlot, L!AccountSubmit, AccountSubmit,
       L!HandleOf, HandleOf, L!PoolSubmitRefused, PoolSubmitRefused, L!NoHandle, NoHandle
  <1>4. ASSUME NEW p, NEW h
        PROVE  L!Accepts(p, h) = Accepts(p, h) /\ L!PoolComplete(p, h) = PoolComplete(p, h)
    BY DEF L!PoolComplete, PoolComplete, L!Accepts, Accepts, L!HandleInRange,
       HandleInRange, L!Retired, Retired, L!Bump, Bump, L!NoDescriptor, NoDescriptor,
       L!AccountCompletion, AccountCompletion, L!Refused, Refused, L!AccountRefusal,
       AccountRefusal, L!IsStale, IsStale, L!IsLate, IsLate, L!ConfiguredSlots,
       ConfiguredSlots
  <1>5. ASSUME NEW p, NEW n
        PROVE  /\ L!ValidPoolConfig(n) = ValidPoolConfig(n)
               /\ L!PoolStart(p, n) = PoolStart(p, n) /\ L!PoolStop(p) = PoolStop(p)
    BY DEF L!ValidPoolConfig, ValidPoolConfig, L!PoolStart, PoolStart, L!PoolStop,
       PoolStop, L!NoCounts, NoCounts, L!NoBytes, NoBytes, L!Zero, Zero, L!Directions,
       Directions, L!SlotIds, SlotIds, L!NoDescriptor, NoDescriptor
  <1>6. ASSUME NEW p PROVE L!PoolCancelAll(p) = PoolCancelAll(p)
    <2>1. \A d : L!SlotsOf(p, d) = SlotsOf(p, d) /\ L!SizeOf(p, d) = SizeOf(p, d)
      BY DEF L!SizeOf, SizeOf, L!SlotsOf, SlotsOf, L!Busy, Busy, L!ConfiguredSlots,
         ConfiguredSlots, L!MapThenSumSet, MapThenSumSet, L!MapThenFoldSet, MapThenFoldSet
    <2>2. [d \in Directions |-> p.count.cancels[d] + L!Cardinality(L!SlotsOf(p, d))]
            = [d \in Directions |-> p.count.cancels[d] + Cardinality(SlotsOf(p, d))]
      BY <1>1, <2>1
    <2>3. L!AccountCancel(p) = AccountCancel(p)
      BY <1>1, <2>2 DEF L!AccountCancel, AccountCancel
    <2>4. [d \in Directions |-> p.bytes.cancelled[d] + L!SizeOf(p, d)]
            = [d \in Directions |-> p.bytes.cancelled[d] + SizeOf(p, d)]
      BY <2>1
    <2>5. [s \in SlotIds |-> IF s \in Busy(p) THEN L!Bump(p.gen[s]) ELSE p.gen[s]]
            = [s \in SlotIds |-> IF s \in Busy(p) THEN Bump(p.gen[s]) ELSE p.gen[s]]
      BY <1>1
    <2>6. L!PoolCancelLive(p) = PoolCancelLive(p)
      BY <1>1, <2>3, <2>4, <2>5 DEF L!PoolCancelLive, PoolCancelLive
    <2> QED BY <2>6 DEF L!PoolCancelAll, PoolCancelAll
  <1> QED BY <1>1, <1>2, <1>3, <1>4, <1>5, <1>6

\* So are those of PersistentUsbTransport,
LEMMA TransportPool ==
    /\ T!NoHandle = NoHandle /\ T!NewPool = NewPool /\ T!Directions = Directions
    /\ T!SlotIds = SlotIds /\ T!Zero = Zero
    /\ \A p, d : T!PoolSubmit(p, d) = PoolSubmit(p, d)
    /\ \A p, h : T!Accepts(p, h) = Accepts(p, h) /\ T!PoolComplete(p, h) = PoolComplete(p, h)
    /\ \A p, n : T!ValidPoolConfig(n) = ValidPoolConfig(n) /\ T!PoolStart(p, n) = PoolStart(p, n)
    /\ \A p : T!PoolStop(p) = PoolStop(p) /\ T!PoolCancelAll(p) = PoolCancelAll(p)
    /\ \A p : T!Busy(p) = Busy(p) /\ T!Cardinality(p) = Cardinality(p)
  <1>1. /\ T!NoHandle = NoHandle /\ T!Directions = Directions /\ T!SlotIds = SlotIds
        /\ T!Zero = Zero /\ T!NoDescriptor = NoDescriptor
        /\ \A p : T!Busy(p) = Busy(p) /\ T!Cardinality(p) = Cardinality(p)
        /\ \A g : T!Bump(g) = Bump(g)
    BY DEF T!NoHandle, NoHandle, T!Directions, Directions, T!SlotIds, SlotIds, T!Zero,
       Zero, T!NoDescriptor, NoDescriptor, T!Busy, Busy, T!ConfiguredSlots,
       ConfiguredSlots, T!Cardinality, Cardinality, T!Bump, Bump
  <1>2. T!NewPool = NewPool
    BY DEF T!NewPool, NewPool, T!NoCounts, NoCounts, T!NoBytes, NoBytes, T!Zero, Zero,
       T!Directions, Directions, T!SlotIds, SlotIds, T!NoDescriptor, NoDescriptor
  <1>3. ASSUME NEW p, NEW d PROVE T!PoolSubmit(p, d) = PoolSubmit(p, d)
    BY DEF T!PoolSubmit, PoolSubmit, T!CanSubmit, CanSubmit, T!HasFreeSlot, HasFreeSlot,
       T!IsFreeSlot, IsFreeSlot, T!ConfiguredSlots, ConfiguredSlots, T!SlotIds, SlotIds,
       T!PoolSubmitAt, PoolSubmitAt, T!FreeSlot, FreeSlot, T!AccountSubmit, AccountSubmit,
       T!HandleOf, HandleOf, T!PoolSubmitRefused, PoolSubmitRefused, T!NoHandle, NoHandle
  <1>4. ASSUME NEW p, NEW h
        PROVE  T!Accepts(p, h) = Accepts(p, h) /\ T!PoolComplete(p, h) = PoolComplete(p, h)
    BY DEF T!PoolComplete, PoolComplete, T!Accepts, Accepts, T!HandleInRange,
       HandleInRange, T!Retired, Retired, T!Bump, Bump, T!NoDescriptor, NoDescriptor,
       T!AccountCompletion, AccountCompletion, T!Refused, Refused, T!AccountRefusal,
       AccountRefusal, T!IsStale, IsStale, T!IsLate, IsLate, T!ConfiguredSlots,
       ConfiguredSlots
  <1>5. ASSUME NEW p, NEW n
        PROVE  /\ T!ValidPoolConfig(n) = ValidPoolConfig(n)
               /\ T!PoolStart(p, n) = PoolStart(p, n) /\ T!PoolStop(p) = PoolStop(p)
    BY DEF T!ValidPoolConfig, ValidPoolConfig, T!PoolStart, PoolStart, T!PoolStop,
       PoolStop, T!NoCounts, NoCounts, T!NoBytes, NoBytes, T!Zero, Zero, T!Directions,
       Directions, T!SlotIds, SlotIds, T!NoDescriptor, NoDescriptor
  <1>6. ASSUME NEW p PROVE T!PoolCancelAll(p) = PoolCancelAll(p)
    <2>1. \A d : T!SlotsOf(p, d) = SlotsOf(p, d) /\ T!SizeOf(p, d) = SizeOf(p, d)
      BY DEF T!SizeOf, SizeOf, T!SlotsOf, SlotsOf, T!Busy, Busy, T!ConfiguredSlots,
         ConfiguredSlots, T!MapThenSumSet, MapThenSumSet, T!MapThenFoldSet, MapThenFoldSet
    <2>2. [d \in Directions |-> p.count.cancels[d] + T!Cardinality(T!SlotsOf(p, d))]
            = [d \in Directions |-> p.count.cancels[d] + Cardinality(SlotsOf(p, d))]
      BY <1>1, <2>1
    <2>3. T!AccountCancel(p) = AccountCancel(p)
      BY <1>1, <2>2 DEF T!AccountCancel, AccountCancel
    <2>4. [d \in Directions |-> p.bytes.cancelled[d] + T!SizeOf(p, d)]
            = [d \in Directions |-> p.bytes.cancelled[d] + SizeOf(p, d)]
      BY <2>1
    <2>5. [s \in SlotIds |-> IF s \in Busy(p) THEN T!Bump(p.gen[s]) ELSE p.gen[s]]
            = [s \in SlotIds |-> IF s \in Busy(p) THEN Bump(p.gen[s]) ELSE p.gen[s]]
      BY <1>1
    <2>6. T!PoolCancelLive(p) = PoolCancelLive(p)
      BY <1>1, <2>3, <2>4, <2>5 DEF T!PoolCancelLive, PoolCancelLive
    <2> QED BY <2>6 DEF T!PoolCancelAll, PoolCancelAll
  <1> QED BY <1>1, <1>2, <1>3, <1>4, <1>5, <1>6

\* of PreparedUsbRuntimeSubmitter,
LEMMA SubmitterPool ==
    /\ S!NoHandle = NoHandle /\ S!NewPool = NewPool /\ S!Directions = Directions
    /\ S!SlotIds = SlotIds /\ S!Zero = Zero
    /\ \A p, d : S!PoolSubmit(p, d) = PoolSubmit(p, d)
    /\ \A p, h : S!Accepts(p, h) = Accepts(p, h) /\ S!PoolComplete(p, h) = PoolComplete(p, h)
    /\ \A p, n : S!ValidPoolConfig(n) = ValidPoolConfig(n) /\ S!PoolStart(p, n) = PoolStart(p, n)
    /\ \A p : S!PoolStop(p) = PoolStop(p) /\ S!PoolCancelAll(p) = PoolCancelAll(p)
    /\ \A p : S!Busy(p) = Busy(p) /\ S!Cardinality(p) = Cardinality(p)
  <1>1. /\ S!NoHandle = NoHandle /\ S!Directions = Directions /\ S!SlotIds = SlotIds
        /\ S!Zero = Zero /\ S!NoDescriptor = NoDescriptor
        /\ \A p : S!Busy(p) = Busy(p) /\ S!Cardinality(p) = Cardinality(p)
        /\ \A g : S!Bump(g) = Bump(g)
    BY DEF S!NoHandle, NoHandle, S!Directions, Directions, S!SlotIds, SlotIds, S!Zero,
       Zero, S!NoDescriptor, NoDescriptor, S!Busy, Busy, S!ConfiguredSlots,
       ConfiguredSlots, S!Cardinality, Cardinality, S!Bump, Bump
  <1>2. S!NewPool = NewPool
    BY DEF S!NewPool, NewPool, S!NoCounts, NoCounts, S!NoBytes, NoBytes, S!Zero, Zero,
       S!Directions, Directions, S!SlotIds, SlotIds, S!NoDescriptor, NoDescriptor
  <1>3. ASSUME NEW p, NEW d PROVE S!PoolSubmit(p, d) = PoolSubmit(p, d)
    BY DEF S!PoolSubmit, PoolSubmit, S!CanSubmit, CanSubmit, S!HasFreeSlot, HasFreeSlot,
       S!IsFreeSlot, IsFreeSlot, S!ConfiguredSlots, ConfiguredSlots, S!SlotIds, SlotIds,
       S!PoolSubmitAt, PoolSubmitAt, S!FreeSlot, FreeSlot, S!AccountSubmit, AccountSubmit,
       S!HandleOf, HandleOf, S!PoolSubmitRefused, PoolSubmitRefused, S!NoHandle, NoHandle
  <1>4. ASSUME NEW p, NEW h
        PROVE  S!Accepts(p, h) = Accepts(p, h) /\ S!PoolComplete(p, h) = PoolComplete(p, h)
    BY DEF S!PoolComplete, PoolComplete, S!Accepts, Accepts, S!HandleInRange,
       HandleInRange, S!Retired, Retired, S!Bump, Bump, S!NoDescriptor, NoDescriptor,
       S!AccountCompletion, AccountCompletion, S!Refused, Refused, S!AccountRefusal,
       AccountRefusal, S!IsStale, IsStale, S!IsLate, IsLate, S!ConfiguredSlots,
       ConfiguredSlots
  <1>5. ASSUME NEW p, NEW n
        PROVE  /\ S!ValidPoolConfig(n) = ValidPoolConfig(n)
               /\ S!PoolStart(p, n) = PoolStart(p, n) /\ S!PoolStop(p) = PoolStop(p)
    BY DEF S!ValidPoolConfig, ValidPoolConfig, S!PoolStart, PoolStart, S!PoolStop,
       PoolStop, S!NoCounts, NoCounts, S!NoBytes, NoBytes, S!Zero, Zero, S!Directions,
       Directions, S!SlotIds, SlotIds, S!NoDescriptor, NoDescriptor
  <1>6. ASSUME NEW p PROVE S!PoolCancelAll(p) = PoolCancelAll(p)
    <2>1. \A d : S!SlotsOf(p, d) = SlotsOf(p, d) /\ S!SizeOf(p, d) = SizeOf(p, d)
      BY DEF S!SizeOf, SizeOf, S!SlotsOf, SlotsOf, S!Busy, Busy, S!ConfiguredSlots,
         ConfiguredSlots, S!MapThenSumSet, MapThenSumSet, S!MapThenFoldSet, MapThenFoldSet
    <2>2. [d \in Directions |-> p.count.cancels[d] + S!Cardinality(S!SlotsOf(p, d))]
            = [d \in Directions |-> p.count.cancels[d] + Cardinality(SlotsOf(p, d))]
      BY <1>1, <2>1
    <2>3. S!AccountCancel(p) = AccountCancel(p)
      BY <1>1, <2>2 DEF S!AccountCancel, AccountCancel
    <2>4. [d \in Directions |-> p.bytes.cancelled[d] + S!SizeOf(p, d)]
            = [d \in Directions |-> p.bytes.cancelled[d] + SizeOf(p, d)]
      BY <2>1
    <2>5. [s \in SlotIds |-> IF s \in Busy(p) THEN S!Bump(p.gen[s]) ELSE p.gen[s]]
            = [s \in SlotIds |-> IF s \in Busy(p) THEN Bump(p.gen[s]) ELSE p.gen[s]]
      BY <1>1
    <2>6. S!PoolCancelLive(p) = PoolCancelLive(p)
      BY <1>1, <2>3, <2>4, <2>5 DEF S!PoolCancelLive, PoolCancelLive
    <2> QED BY <2>6 DEF S!PoolCancelAll, PoolCancelAll
  <1> QED BY <1>1, <1>2, <1>3, <1>4, <1>5, <1>6

\* of DriverKitDevice,
LEMMA DriverPool ==
    /\ D!NoHandle = NoHandle /\ D!NewPool = NewPool /\ D!Directions = Directions
    /\ D!SlotIds = SlotIds /\ D!Zero = Zero
    /\ \A p, d : D!PoolSubmit(p, d) = PoolSubmit(p, d)
    /\ \A p, h : D!Accepts(p, h) = Accepts(p, h) /\ D!PoolComplete(p, h) = PoolComplete(p, h)
    /\ \A p, n : D!ValidPoolConfig(n) = ValidPoolConfig(n) /\ D!PoolStart(p, n) = PoolStart(p, n)
    /\ \A p : D!PoolStop(p) = PoolStop(p) /\ D!PoolCancelAll(p) = PoolCancelAll(p)
    /\ \A p : D!Busy(p) = Busy(p) /\ D!Cardinality(p) = Cardinality(p)
  <1>1. /\ D!NoHandle = NoHandle /\ D!Directions = Directions /\ D!SlotIds = SlotIds
        /\ D!Zero = Zero /\ D!NoDescriptor = NoDescriptor
        /\ \A p : D!Busy(p) = Busy(p) /\ D!Cardinality(p) = Cardinality(p)
        /\ \A g : D!Bump(g) = Bump(g)
    BY DEF D!NoHandle, NoHandle, D!Directions, Directions, D!SlotIds, SlotIds, D!Zero,
       Zero, D!NoDescriptor, NoDescriptor, D!Busy, Busy, D!ConfiguredSlots,
       ConfiguredSlots, D!Cardinality, Cardinality, D!Bump, Bump
  <1>2. D!NewPool = NewPool
    BY DEF D!NewPool, NewPool, D!NoCounts, NoCounts, D!NoBytes, NoBytes, D!Zero, Zero,
       D!Directions, Directions, D!SlotIds, SlotIds, D!NoDescriptor, NoDescriptor
  <1>3. ASSUME NEW p, NEW d PROVE D!PoolSubmit(p, d) = PoolSubmit(p, d)
    BY DEF D!PoolSubmit, PoolSubmit, D!CanSubmit, CanSubmit, D!HasFreeSlot, HasFreeSlot,
       D!IsFreeSlot, IsFreeSlot, D!ConfiguredSlots, ConfiguredSlots, D!SlotIds, SlotIds,
       D!PoolSubmitAt, PoolSubmitAt, D!FreeSlot, FreeSlot, D!AccountSubmit, AccountSubmit,
       D!HandleOf, HandleOf, D!PoolSubmitRefused, PoolSubmitRefused, D!NoHandle, NoHandle
  <1>4. ASSUME NEW p, NEW h
        PROVE  D!Accepts(p, h) = Accepts(p, h) /\ D!PoolComplete(p, h) = PoolComplete(p, h)
    BY DEF D!PoolComplete, PoolComplete, D!Accepts, Accepts, D!HandleInRange,
       HandleInRange, D!Retired, Retired, D!Bump, Bump, D!NoDescriptor, NoDescriptor,
       D!AccountCompletion, AccountCompletion, D!Refused, Refused, D!AccountRefusal,
       AccountRefusal, D!IsStale, IsStale, D!IsLate, IsLate, D!ConfiguredSlots,
       ConfiguredSlots
  <1>5. ASSUME NEW p, NEW n
        PROVE  /\ D!ValidPoolConfig(n) = ValidPoolConfig(n)
               /\ D!PoolStart(p, n) = PoolStart(p, n) /\ D!PoolStop(p) = PoolStop(p)
    BY DEF D!ValidPoolConfig, ValidPoolConfig, D!PoolStart, PoolStart, D!PoolStop,
       PoolStop, D!NoCounts, NoCounts, D!NoBytes, NoBytes, D!Zero, Zero, D!Directions,
       Directions, D!SlotIds, SlotIds, D!NoDescriptor, NoDescriptor
  <1>6. ASSUME NEW p PROVE D!PoolCancelAll(p) = PoolCancelAll(p)
    <2>1. \A d : D!SlotsOf(p, d) = SlotsOf(p, d) /\ D!SizeOf(p, d) = SizeOf(p, d)
      BY DEF D!SizeOf, SizeOf, D!SlotsOf, SlotsOf, D!Busy, Busy, D!ConfiguredSlots,
         ConfiguredSlots, D!MapThenSumSet, MapThenSumSet, D!MapThenFoldSet, MapThenFoldSet
    <2>2. [d \in Directions |-> p.count.cancels[d] + D!Cardinality(D!SlotsOf(p, d))]
            = [d \in Directions |-> p.count.cancels[d] + Cardinality(SlotsOf(p, d))]
      BY <1>1, <2>1
    <2>3. D!AccountCancel(p) = AccountCancel(p)
      BY <1>1, <2>2 DEF D!AccountCancel, AccountCancel
    <2>4. [d \in Directions |-> p.bytes.cancelled[d] + D!SizeOf(p, d)]
            = [d \in Directions |-> p.bytes.cancelled[d] + SizeOf(p, d)]
      BY <2>1
    <2>5. [s \in SlotIds |-> IF s \in Busy(p) THEN D!Bump(p.gen[s]) ELSE p.gen[s]]
            = [s \in SlotIds |-> IF s \in Busy(p) THEN Bump(p.gen[s]) ELSE p.gen[s]]
      BY <1>1
    <2>6. D!PoolCancelLive(p) = PoolCancelLive(p)
      BY <1>1, <2>3, <2>4, <2>5 DEF D!PoolCancelLive, PoolCancelLive
    <2> QED BY <2>6 DEF D!PoolCancelAll, PoolCancelAll
  <1> QED BY <1>1, <1>2, <1>3, <1>4, <1>5, <1>6

\* and of the transport that it drives.
LEMMA DriverTransportPool ==
    /\ D!P!NoHandle = NoHandle /\ D!P!NewPool = NewPool /\ D!P!Directions = Directions
    /\ D!P!SlotIds = SlotIds /\ D!P!Zero = Zero
    /\ \A p, d : D!P!PoolSubmit(p, d) = PoolSubmit(p, d)
    /\ \A p, h : D!P!Accepts(p, h) = Accepts(p, h) /\ D!P!PoolComplete(p, h) = PoolComplete(p, h)
    /\ \A p, n : D!P!ValidPoolConfig(n) = ValidPoolConfig(n) /\ D!P!PoolStart(p, n) = PoolStart(p, n)
    /\ \A p : D!P!PoolStop(p) = PoolStop(p) /\ D!P!PoolCancelAll(p) = PoolCancelAll(p)
    /\ \A p : D!P!Busy(p) = Busy(p) /\ D!P!Cardinality(p) = Cardinality(p)
  <1>1. /\ D!P!NoHandle = NoHandle /\ D!P!Directions = Directions /\ D!P!SlotIds = SlotIds
        /\ D!P!Zero = Zero /\ D!P!NoDescriptor = NoDescriptor
        /\ \A p : D!P!Busy(p) = Busy(p) /\ D!P!Cardinality(p) = Cardinality(p)
        /\ \A g : D!P!Bump(g) = Bump(g)
    BY DEF D!P!NoHandle, NoHandle, D!P!Directions, Directions, D!P!SlotIds, SlotIds,
       D!P!Zero, Zero, D!P!NoDescriptor, NoDescriptor, D!P!Busy, Busy, D!P!ConfiguredSlots,
       ConfiguredSlots, D!P!Cardinality, Cardinality, D!P!Bump, Bump
  <1>2. D!P!NewPool = NewPool
    BY DEF D!P!NewPool, NewPool, D!P!NoCounts, NoCounts, D!P!NoBytes, NoBytes, D!P!Zero,
       Zero, D!P!Directions, Directions, D!P!SlotIds, SlotIds, D!P!NoDescriptor,
       NoDescriptor
  <1>3. ASSUME NEW p, NEW d PROVE D!P!PoolSubmit(p, d) = PoolSubmit(p, d)
    BY DEF D!P!PoolSubmit, PoolSubmit, D!P!CanSubmit, CanSubmit, D!P!HasFreeSlot,
       HasFreeSlot, D!P!IsFreeSlot, IsFreeSlot, D!P!ConfiguredSlots, ConfiguredSlots,
       D!P!SlotIds, SlotIds, D!P!PoolSubmitAt, PoolSubmitAt, D!P!FreeSlot, FreeSlot,
       D!P!AccountSubmit, AccountSubmit, D!P!HandleOf, HandleOf, D!P!PoolSubmitRefused,
       PoolSubmitRefused, D!P!NoHandle, NoHandle
  <1>4. ASSUME NEW p, NEW h
        PROVE  D!P!Accepts(p, h) = Accepts(p, h) /\ D!P!PoolComplete(p, h) = PoolComplete(p, h)
    BY DEF D!P!PoolComplete, PoolComplete, D!P!Accepts, Accepts, D!P!HandleInRange,
       HandleInRange, D!P!Retired, Retired, D!P!Bump, Bump, D!P!NoDescriptor, NoDescriptor,
       D!P!AccountCompletion, AccountCompletion, D!P!Refused, Refused, D!P!AccountRefusal,
       AccountRefusal, D!P!IsStale, IsStale, D!P!IsLate, IsLate, D!P!ConfiguredSlots,
       ConfiguredSlots
  <1>5. ASSUME NEW p, NEW n
        PROVE  /\ D!P!ValidPoolConfig(n) = ValidPoolConfig(n)
               /\ D!P!PoolStart(p, n) = PoolStart(p, n) /\ D!P!PoolStop(p) = PoolStop(p)
    BY DEF D!P!ValidPoolConfig, ValidPoolConfig, D!P!PoolStart, PoolStart, D!P!PoolStop,
       PoolStop, D!P!NoCounts, NoCounts, D!P!NoBytes, NoBytes, D!P!Zero, Zero,
       D!P!Directions, Directions, D!P!SlotIds, SlotIds, D!P!NoDescriptor, NoDescriptor
  <1>6. ASSUME NEW p PROVE D!P!PoolCancelAll(p) = PoolCancelAll(p)
    <2>1. \A d : D!P!SlotsOf(p, d) = SlotsOf(p, d) /\ D!P!SizeOf(p, d) = SizeOf(p, d)
      BY DEF D!P!SizeOf, SizeOf, D!P!SlotsOf, SlotsOf, D!P!Busy, Busy, D!P!ConfiguredSlots,
         ConfiguredSlots, D!P!MapThenSumSet, MapThenSumSet, D!P!MapThenFoldSet,
         MapThenFoldSet
    <2>2. [d \in Directions |-> p.count.cancels[d] + D!P!Cardinality(D!P!SlotsOf(p, d))]
            = [d \in Directions |-> p.count.cancels[d] + Cardinality(SlotsOf(p, d))]
      BY <1>1, <2>1
    <2>3. D!P!AccountCancel(p) = AccountCancel(p)
      BY <1>1, <2>2 DEF D!P!AccountCancel, AccountCancel
    <2>4. [d \in Directions |-> p.bytes.cancelled[d] + D!P!SizeOf(p, d)]
            = [d \in Directions |-> p.bytes.cancelled[d] + SizeOf(p, d)]
      BY <2>1
    <2>5. [s \in SlotIds |-> IF s \in Busy(p) THEN D!P!Bump(p.gen[s]) ELSE p.gen[s]]
            = [s \in SlotIds |-> IF s \in Busy(p) THEN Bump(p.gen[s]) ELSE p.gen[s]]
      BY <1>1
    <2>6. D!P!PoolCancelLive(p) = PoolCancelLive(p)
      BY <1>1, <2>3, <2>4, <2>5 DEF D!P!PoolCancelLive, PoolCancelLive
    <2> QED BY <2>6 DEF D!P!PoolCancelAll, PoolCancelAll
  <1> QED BY <1>1, <1>2, <1>3, <1>4, <1>5, <1>6

(***************************************************************************)
(* The playback scheduler and its binding.                                  *)
(***************************************************************************)
ScheduleCounts ==
    [periods : Nat, capture : Nat, captureGaps : Nat, slots : Nat, submits : Nat,
     completed : Nat, underflows : Nat, poolOverflows : Nat, batchOverflows : Nat,
     cadence : Nat, minLead : Nat, maxLead : Nat]
Schedules == [started : BOOLEAN, config : LeadType, lead : Nat, count : ScheduleCounts]
IsSchedule(s) == s \in Schedules /\ L!ConfigValid(s.config) /\ s.lead <= s.config.slots

\* The scheduler q is s after a submission of n slots.
Added(s, q, n) ==
    /\ IsSchedule(q) /\ q.started = s.started /\ q.config = s.config
    /\ q.lead = s.lead + n /\ q.count.slots = s.count.slots + n
    /\ q.count.submits = s.count.submits + (IF n > 0 THEN 1 ELSE 0)
    /\ q.count.periods = s.count.periods /\ q.count.completed = s.count.completed
    /\ q.count.underflows = s.count.underflows
    /\ q.count.minLead = s.count.minLead /\ q.count.maxLead = s.count.maxLead

\* The smaller and the larger of two numbers.
LEMMA LesserLarger ==
    ASSUME NEW m \in Nat, NEW n \in Nat
    PROVE  /\ L!Lesser(m, n) \in Nat /\ L!Lesser(m, n) <= m /\ L!Lesser(m, n) <= n
           /\ L!Lesser(m, n) = m \/ L!Lesser(m, n) = n
           /\ L!Larger(m, n) \in Nat /\ L!Larger(m, n) >= m /\ L!Larger(m, n) >= n
           /\ L!Larger(m, n) = m \/ L!Larger(m, n) = n
  BY DEF L!Lesser, L!Larger

\* submit_playback_slots(): what it adds is at most what was wanted, a batch and the room
\* of the pool, and something if there is some of each.
LEMMA SlotsAdded ==
    ASSUME NEW s, IsSchedule(s), NEW wanted \in Nat, NEW q, q = L!SlotsSubmitted(s, wanted)
    PROVE  \E n \in Nat : Added(s, q, n) /\ (wanted > 0 /\ s.lead < s.config.slots => n > 0)
  <1> DEFINE batch == L!Lesser(wanted, s.config.batch)
             n == L!Lesser(batch, s.config.slots - s.lead)
             e == IF wanted > s.config.batch THEN s.count.batchOverflows + 1 ELSE s.count.batchOverflows
             o == IF n < batch THEN s.count.poolOverflows + 1 ELSE s.count.poolOverflows
             m == IF n > 0 THEN s.count.submits + 1 ELSE s.count.submits
             l == s.lead + n
             k == s.count.slots + n
             c == [s.count EXCEPT !.batchOverflows = e, !.poolOverflows = o, !.slots = k, !.submits = m]
  <1>1. /\ s.started \in BOOLEAN /\ s.config \in LeadType /\ s.lead \in Nat
        /\ s.count \in ScheduleCounts /\ s.lead <= s.config.slots
        /\ s.config.batch \in Nat /\ s.config.slots \in Nat /\ s.config.batch > 0
        /\ s.count.batchOverflows \in Nat /\ s.count.poolOverflows \in Nat
        /\ s.count.submits \in Nat /\ s.count.slots \in Nat
    BY DEF IsSchedule, Schedules, LeadType, ScheduleCounts, L!ConfigValid
  <1>2. s.config.slots - s.lead \in Nat
    BY <1>1
  <1>3. batch \in Nat /\ batch <= wanted /\ batch <= s.config.batch
        /\ (batch = wanted \/ batch = s.config.batch)
    BY <1>1, LesserLarger
  <1>4. n \in Nat /\ n <= s.config.slots - s.lead /\ (n = batch \/ n = s.config.slots - s.lead)
    BY <1>2, <1>3, LesserLarger
  <1>5. q = [s EXCEPT !.lead = l, !.count = c]
    <2>1. q = [s EXCEPT !.count.batchOverflows = e, !.count.poolOverflows = o, !.lead = l,
                        !.count.slots = k, !.count.submits = m]
      BY DEF L!SlotsSubmitted
    <2> HIDE DEF e, o, l, k, m
    <2> QED BY <1>1, <2>1 DEF IsSchedule, Schedules, ScheduleCounts
  <1>6. e \in Nat /\ o \in Nat /\ m \in Nat /\ l \in Nat /\ k \in Nat /\ l <= s.config.slots
        /\ m = s.count.submits + (IF n > 0 THEN 1 ELSE 0)
    BY <1>1, <1>4
  <1>7. (wanted > 0 /\ s.lead < s.config.slots) => n > 0
    BY <1>1, <1>3, <1>4
  <1> HIDE DEF batch, n, e, o, m, l, k
  <1>8. c \in ScheduleCounts
    BY <1>1, <1>6 DEF ScheduleCounts
  <1>9. /\ c.slots = k /\ c.submits = m /\ c.periods = s.count.periods
        /\ c.completed = s.count.completed /\ c.underflows = s.count.underflows
        /\ c.minLead = s.count.minLead /\ c.maxLead = s.count.maxLead
    BY <1>1 DEF ScheduleCounts
  <1> HIDE DEF c
  <1>10. /\ q \in Schedules /\ q.started = s.started /\ q.config = s.config /\ q.lead = l
         /\ q.count = c
    BY <1>1, <1>5, <1>6, <1>8 DEF IsSchedule, Schedules
  <1>11. IsSchedule(q)
    BY <1>6, <1>10 DEF IsSchedule
  <1> QED BY <1>4, <1>6, <1>7, <1>9, <1>10, <1>11 DEF Added, k, l

\* What the playback lead keeps to: what was submitted and not consumed is the lead, which
\* fits the pool; and with no refill held back it has not sunk below the low watermark.
ScheduleSafe(s, held) ==
    /\ IsSchedule(s) /\ s.count.maxLead <= s.config.slots
    /\ s.started =>
          /\ s.count.slots = s.count.completed + s.lead /\ s.count.minLead <= s.lead
          /\ ~held => s.count.minLead >= s.config.low /\ s.count.underflows = 0

Options == [suppress : BOOLEAN, overflow : BOOLEAN, captureGap : BOOLEAN]
HeldBack(options) == options.suppress /\ ~options.overflow

\* A scheduler that has just started.
LEMMA StartedSchedule ==
    ASSUME NEW c \in LeadType, L!ConfigValid(c), NEW q, q = L!ScheduleStarted(c)
    PROVE  /\ ScheduleSafe(q, q.lead < c.low) /\ q.started /\ q.config = c
           /\ q.count.slots > 0 /\ q.count.slots = q.lead /\ q.count.submits = 1
           /\ q.count.periods = 0
  <1> DEFINE f == [L!NewScheduler EXCEPT !.started = TRUE, !.config = c]
             s == L!SlotsSubmitted(f, c.target)
  <1>1. /\ c.slots \in Nat /\ c.target \in Nat /\ c.target > 0 /\ c.low \in Nat
        /\ c.high \in Nat /\ c.low < c.high /\ c.high <= c.slots
    BY DEF LeadType, L!ConfigValid
  <1>2. /\ f \in Schedules /\ f.started /\ f.config = c /\ f.lead = 0
        /\ f.count = L!NoScheduleCounts
    BY DEF L!NewScheduler, L!NoScheduleCounts, Schedules, ScheduleCounts
  <1>3. /\ IsSchedule(f) /\ f.count.slots = 0 /\ f.count.submits = 0 /\ f.count.periods = 0
        /\ f.count.completed = 0 /\ f.count.underflows = 0
    BY <1>1, <1>2 DEF IsSchedule, L!NoScheduleCounts
  <1>4. q = [s EXCEPT !.count.minLead = s.lead, !.count.maxLead = s.lead]
    BY DEF L!ScheduleStarted
  <1> HIDE DEF f
  <1>5. PICK n \in Nat :
              Added(f, s, n) /\ (c.target > 0 /\ f.lead < f.config.slots => n > 0)
    <2>1. c.target \in Nat
      BY <1>1
    <2> QED BY <1>3, <2>1, SlotsAdded
  <1> HIDE DEF s
  <1> DEFINE k == [s.count EXCEPT !.minLead = s.lead, !.maxLead = s.lead]
  <1>6. s \in Schedules /\ s.lead \in Nat /\ s.count \in ScheduleCounts /\ s.lead <= s.config.slots
    BY <1>5 DEF Added, IsSchedule, Schedules
  <1>7. q = [s EXCEPT !.count = k]
    BY <1>4, <1>6 DEF Schedules, ScheduleCounts
  <1>8. /\ k \in ScheduleCounts /\ k.minLead = s.lead /\ k.maxLead = s.lead
        /\ k.slots = s.count.slots /\ k.submits = s.count.submits /\ k.periods = s.count.periods
        /\ k.completed = s.count.completed /\ k.underflows = s.count.underflows
    BY <1>6 DEF ScheduleCounts
  <1> HIDE DEF k
  <1>9. q \in Schedules /\ q.count = k /\ q.lead = s.lead /\ q.config = s.config /\ q.started = s.started
    BY <1>6, <1>7, <1>8 DEF Schedules
  <1>10. IsSchedule(q)
    BY <1>5, <1>9 DEF Added, IsSchedule
  <1>11. n > 0 /\ s.lead = n
    BY <1>1, <1>2, <1>5 DEF Added
  <1> QED BY <1>1, <1>2, <1>3, <1>5, <1>6, <1>8, <1>9, <1>10, <1>11 DEF ScheduleSafe, Added

\* A refill that is not held back adds to a lead that has reached the low watermark.
LEMMA RefilledSchedule ==
    ASSUME NEW s, IsSchedule(s), NEW options \in Options, NEW q, q = L!Refilled(s, options)
    PROVE  \E n \in Nat : Added(s, q, n) /\ (~HeldBack(options) /\ s.lead <= s.config.low => n > 0)
  <1>1. /\ s.config.low \in Nat /\ s.config.high \in Nat /\ s.config.batch \in Nat
        /\ s.config.batch > 0 /\ s.config.low < s.config.high /\ s.config.high <= s.config.slots
        /\ s.config.slots \in Nat /\ s.lead \in Nat /\ s.count \in ScheduleCounts
    BY DEF IsSchedule, Schedules, LeadType, L!ConfigValid
  <1>2. s.count.slots \in Nat /\ s.count.submits \in Nat
    BY <1>1 DEF ScheduleCounts
  <1>3. options.overflow \in BOOLEAN /\ options.suppress \in BOOLEAN
    BY DEF Options
  <1>4. CASE options.overflow
    <2> DEFINE w == s.config.batch + 1
    <2>1. w \in Nat /\ w > 0 /\ q = L!SlotsSubmitted(s, w)
      BY <1>1, <1>4 DEF L!Refilled
    <2>2. s.lead <= s.config.low => s.lead < s.config.slots
      BY <1>1
    <2> HIDE DEF w
    <2>3. \E n \in Nat : Added(s, q, n) /\ (w > 0 /\ s.lead < s.config.slots => n > 0)
      BY <2>1, SlotsAdded
    <2> QED BY <2>1, <2>2, <2>3
  <1>5. CASE ~options.overflow /\ (options.suppress \/ s.lead > s.config.low)
    <2>1. q = s
      BY <1>5 DEF L!Refilled
    <2>2. (~HeldBack(options) /\ s.lead <= s.config.low) => FALSE
      BY <1>1, <1>5 DEF HeldBack
    <2>3. Added(s, s, 0)
      BY <1>1, <1>2 DEF Added
    <2> QED BY <2>1, <2>2, <2>3
  <1>6. CASE ~options.overflow /\ ~options.suppress /\ ~(s.lead > s.config.low)
    <2> DEFINE w == L!Lesser(s.config.high - s.lead, s.config.batch)
    <2>1. s.config.high - s.lead \in Nat /\ s.config.high - s.lead > 0
      BY <1>1, <1>6
    <2>2. w \in Nat /\ w > 0
      BY <1>1, <2>1, LesserLarger
    <2>3. q = L!SlotsSubmitted(s, w) /\ s.lead < s.config.slots
      BY <1>1, <1>6 DEF L!Refilled
    <2> HIDE DEF w
    <2>4. \E n \in Nat : Added(s, q, n) /\ (w > 0 /\ s.lead < s.config.slots => n > 0)
      BY <2>2, <2>3, SlotsAdded
    <2> QED BY <2>2, <2>3, <2>4
  <1> QED BY <1>3, <1>4, <1>5, <1>6

\* consume_playback_period()
LEMMA ConsumedSchedule ==
    ASSUME NEW s, IsSchedule(s), NEW q, q = L!PeriodConsumed(s)
    PROVE  /\ IsSchedule(q) /\ q.started = s.started /\ q.config = s.config
           /\ q.count.slots = s.count.slots /\ q.count.submits = s.count.submits
           /\ q.count.periods = s.count.periods
           /\ q.count.minLead = s.count.minLead /\ q.count.maxLead = s.count.maxLead
           /\ s.count.slots = s.count.completed + s.lead
                  => q.count.slots = q.count.completed + q.lead
           /\ s.lead = 0 => q.lead = 0
           /\ s.lead > 0 => q.lead = s.lead - 1 /\ q.count.underflows = s.count.underflows
  <1>1. /\ s \in Schedules /\ s.lead \in Nat /\ s.count \in ScheduleCounts
        /\ s.config.slots \in Nat /\ s.lead <= s.config.slots
        /\ s.count.underflows \in Nat /\ s.count.completed \in Nat /\ s.count.slots \in Nat
    BY DEF IsSchedule, Schedules, ScheduleCounts, LeadType
  <1>2. CASE s.lead = 0
    <2> DEFINE u == s.count.underflows + 1
               k == [s.count EXCEPT !.underflows = u]
    <2>1. q = [s EXCEPT !.count = k]
      BY <1>2 DEF L!PeriodConsumed
    <2>2. u \in Nat
      BY <1>1
    <2> HIDE DEF u
    <2>3. /\ k \in ScheduleCounts /\ k.slots = s.count.slots /\ k.submits = s.count.submits
          /\ k.periods = s.count.periods /\ k.completed = s.count.completed
          /\ k.minLead = s.count.minLead /\ k.maxLead = s.count.maxLead
      BY <1>1, <2>2 DEF ScheduleCounts
    <2> HIDE DEF k
    <2>4. /\ q \in Schedules /\ q.count = k /\ q.lead = s.lead /\ q.config = s.config
          /\ q.started = s.started
      BY <1>1, <2>1, <2>3 DEF Schedules
    <2>5. IsSchedule(q)
      BY <1>1, <2>4 DEF IsSchedule
    <2> QED BY <1>1, <1>2, <2>3, <2>4, <2>5
  <1>3. CASE s.lead # 0
    <2> DEFINE u == s.count.completed + 1
               l == s.lead - 1
               k == [s.count EXCEPT !.completed = u]
    <2>1. q = [s EXCEPT !.lead = l, !.count = k]
      BY <1>3 DEF L!PeriodConsumed
    <2>2. u \in Nat /\ l \in Nat /\ l <= s.config.slots
      BY <1>1, <1>3
    <2> HIDE DEF u, l
    <2>3. /\ k \in ScheduleCounts /\ k.slots = s.count.slots /\ k.submits = s.count.submits
          /\ k.periods = s.count.periods /\ k.completed = u
          /\ k.underflows = s.count.underflows
          /\ k.minLead = s.count.minLead /\ k.maxLead = s.count.maxLead
      BY <1>1, <2>2 DEF ScheduleCounts
    <2> HIDE DEF k
    <2>4. /\ q \in Schedules /\ q.count = k /\ q.lead = l /\ q.config = s.config
          /\ q.started = s.started
      BY <1>1, <2>1, <2>2, <2>3 DEF Schedules
    <2>5. IsSchedule(q)
      BY <2>2, <2>4 DEF IsSchedule
    <2> QED BY <1>1, <1>3, <2>3, <2>4, <2>5 DEF u, l
  <1> QED BY <1>1, <1>2, <1>3

\* complete_period()
LEMMA PeriodSchedule ==
    ASSUME NEW s, NEW held \in BOOLEAN, ScheduleSafe(s, held), s.started,
           NEW options \in Options, NEW q, q = L!PeriodScheduled(s, options)
    PROVE  /\ ScheduleSafe(q, held \/ HeldBack(options)) /\ q.started /\ q.config = s.config
           /\ q.count.periods = s.count.periods + 1
           /\ \E n \in Nat : /\ q.count.slots = s.count.slots + n
                             /\ q.count.submits = s.count.submits + (IF n > 0 THEN 1 ELSE 0)
  <1> DEFINE due == (s.count.periods + 1) % s.config.gap = 0
             capture == s.config.everyPeriod /\ ~options.captureGap
             pp == s.count.periods + 1
             cc == IF capture THEN s.count.capture + 1 ELSE s.count.capture
             gg == IF capture THEN s.count.captureGaps ELSE s.count.captureGaps + 1
             dd == IF due THEN s.count.cadence ELSE s.count.cadence + 1
             k == [s.count EXCEPT !.periods = pp, !.capture = cc, !.captureGaps = gg, !.cadence = dd]
             counted == [s EXCEPT !.count = k]
             raw == [s EXCEPT !.count.periods = @ + 1,
                              !.count.capture = IF capture THEN @ + 1 ELSE @,
                              !.count.captureGaps = IF capture THEN @ ELSE @ + 1,
                              !.count.cadence = IF due THEN @ ELSE @ + 1]
             m == IF due THEN L!PeriodConsumed(counted) ELSE counted
             r == L!Refilled(m, options)
             lo == L!Lesser(r.count.minLead, r.lead)
             hi == L!Larger(r.count.maxLead, r.lead)
             z == [r.count EXCEPT !.minLead = lo, !.maxLead = hi]
  <1>1. /\ s \in Schedules /\ s.lead \in Nat /\ s.count \in ScheduleCounts
        /\ s.config.slots \in Nat /\ s.lead <= s.config.slots
        /\ s.count.periods \in Nat /\ s.count.capture \in Nat /\ s.count.captureGaps \in Nat
        /\ s.count.cadence \in Nat /\ s.count.minLead \in Nat /\ s.count.maxLead \in Nat
        /\ s.count.slots \in Nat /\ s.count.submits \in Nat
        /\ L!ConfigValid(s.config) /\ s.config.low \in Nat
    BY DEF ScheduleSafe, IsSchedule, Schedules, ScheduleCounts, LeadType
  <1>2. pp \in Nat /\ cc \in Nat /\ gg \in Nat /\ dd \in Nat
    BY <1>1
  <1>3. raw = counted
    <2>1. raw = [s EXCEPT !.count.periods = pp, !.count.capture = cc,
                          !.count.captureGaps = gg, !.count.cadence = dd]
      OBVIOUS
    <2> HIDE DEF pp, cc, gg, dd, raw
    <2> QED BY <1>1, <2>1 DEF Schedules, ScheduleCounts
  <1>4. q = [r EXCEPT !.count.minLead = lo, !.count.maxLead = hi]
    <2> DEFINE m0 == IF due THEN L!PeriodConsumed(raw) ELSE raw
               r0 == L!Refilled(m0, options)
    <2>1. q = [r0 EXCEPT !.count.minLead = L!Lesser(@, r0.lead), !.count.maxLead = L!Larger(@, r0.lead)]
      BY DEF L!PeriodScheduled
    <2> HIDE DEF raw, counted, due
    <2>2. r0 = r
      BY <1>3
    <2> HIDE DEF r0, r
    <2> QED BY <2>1, <2>2, SMTT(40)
  <1> HIDE DEF pp, cc, gg, dd, due, raw
  <1>5. /\ k \in ScheduleCounts /\ k.periods = pp /\ k.slots = s.count.slots
        /\ k.submits = s.count.submits /\ k.completed = s.count.completed
        /\ k.underflows = s.count.underflows
        /\ k.minLead = s.count.minLead /\ k.maxLead = s.count.maxLead
    BY <1>1, <1>2 DEF ScheduleCounts
  <1> HIDE DEF k
  <1>6. /\ counted \in Schedules /\ counted.started = s.started /\ counted.config = s.config
        /\ counted.lead = s.lead /\ counted.count = k
    BY <1>1, <1>5 DEF Schedules
  <1>7. IsSchedule(counted)
    BY <1>1, <1>6 DEF IsSchedule
  <1> HIDE DEF counted
  <1>8. /\ IsSchedule(m) /\ m.started = s.started /\ m.config = s.config
        /\ m.count.slots = s.count.slots /\ m.count.submits = s.count.submits
        /\ m.count.periods = pp
        /\ m.count.minLead = s.count.minLead /\ m.count.maxLead = s.count.maxLead
        /\ m.count.slots = m.count.completed + m.lead
        /\ s.lead > 0 => m.lead >= s.lead - 1 /\ m.count.underflows = s.count.underflows
    <2>1. counted.count.slots = counted.count.completed + counted.lead
      BY <1>5, <1>6 DEF ScheduleSafe
    <2>2. CASE due
      <3>1. m = L!PeriodConsumed(counted)
        BY <2>2
      <3> HIDE DEF m
      <3>2. /\ IsSchedule(m) /\ m.started = counted.started /\ m.config = counted.config
            /\ m.count.slots = counted.count.slots /\ m.count.submits = counted.count.submits
            /\ m.count.periods = counted.count.periods
            /\ m.count.minLead = counted.count.minLead /\ m.count.maxLead = counted.count.maxLead
            /\ m.count.slots = m.count.completed + m.lead
            /\ counted.lead > 0 => m.lead = counted.lead - 1 /\ m.count.underflows = counted.count.underflows
        BY <1>7, <2>1, <3>1, ConsumedSchedule
      <3> QED BY <1>1, <1>5, <1>6, <3>2
    <2>3. CASE ~due
      <3>1. m = counted
        BY <2>3
      <3> HIDE DEF m
      <3>2. IsSchedule(m)
        BY <1>7, <3>1
      <3>3. m.lead = s.lead /\ m.count = k /\ m.started = s.started /\ m.config = s.config
            /\ m.count.slots = m.count.completed + m.lead
        BY <1>6, <2>1, <3>1
      <3> QED BY <1>1, <1>5, <3>2, <3>3
    <2> QED BY <2>2, <2>3
  <1> HIDE DEF m
  <1>9. PICK n \in Nat : Added(m, r, n) /\ (~HeldBack(options) /\ m.lead <= m.config.low => n > 0)
    BY <1>8, RefilledSchedule
  <1> HIDE DEF r
  <1>10. /\ r \in Schedules /\ r.lead \in Nat /\ r.count \in ScheduleCounts
         /\ r.count.minLead \in Nat /\ r.count.maxLead \in Nat /\ r.lead <= r.config.slots
         /\ r.config = s.config /\ r.started /\ L!ConfigValid(r.config)
    BY <1>8, <1>9 DEF Added, IsSchedule, Schedules, ScheduleCounts
  <1>11. /\ lo \in Nat /\ lo <= r.lead /\ (lo = r.lead \/ lo = r.count.minLead)
         /\ hi \in Nat /\ (hi = r.lead \/ hi = r.count.maxLead)
    BY <1>10, LesserLarger
  <1> HIDE DEF lo, hi
  <1>12. q = [r EXCEPT !.count = z]
    BY <1>4, <1>10 DEF Schedules, ScheduleCounts
  <1>13. /\ z \in ScheduleCounts /\ z.minLead = lo /\ z.maxLead = hi /\ z.slots = r.count.slots
         /\ z.submits = r.count.submits /\ z.periods = r.count.periods
         /\ z.completed = r.count.completed /\ z.underflows = r.count.underflows
    BY <1>10, <1>11 DEF ScheduleCounts
  <1> HIDE DEF z
  <1>14. /\ q \in Schedules /\ q.count = z /\ q.lead = r.lead /\ q.config = s.config /\ q.started
    BY <1>10, <1>12, <1>13 DEF Schedules
  <1>15. IsSchedule(q) /\ q.count.maxLead <= q.config.slots
    BY <1>8, <1>9, <1>10, <1>11, <1>13, <1>14 DEF Added, IsSchedule, ScheduleSafe
  <1>16. q.count.slots = q.count.completed + q.lead /\ q.count.minLead <= q.lead
    <2>1. m.count.completed \in Nat /\ m.lead \in Nat
      BY <1>8 DEF IsSchedule, Schedules, ScheduleCounts
    <2> QED BY <1>8, <1>9, <1>11, <1>13, <1>14, <2>1 DEF Added
  <1>17. ASSUME ~held, ~HeldBack(options)
         PROVE  q.count.minLead >= q.config.low /\ q.count.underflows = 0
    <2>1. /\ s.count.minLead >= s.config.low /\ s.count.underflows = 0
          /\ s.count.minLead <= s.lead /\ s.config.low > 0
      BY <1>1, <1>17 DEF ScheduleSafe, L!ConfigValid
    <2>2. s.lead > 0 /\ m.lead >= s.config.low - 1 /\ m.count.underflows = 0 /\ m.lead \in Nat
      BY <1>1, <1>8, <2>1 DEF IsSchedule, Schedules
    <2>3. r.lead >= s.config.low
      BY <1>1, <1>8, <1>9, <1>17, <2>2 DEF Added
    <2>4. r.count.minLead = s.count.minLead /\ r.count.underflows = 0
      BY <1>8, <1>9, <2>2 DEF Added
    <2> QED BY <1>11, <1>13, <1>14, <2>1, <2>3, <2>4
  <1>18. ScheduleSafe(q, held \/ HeldBack(options))
    BY <1>14, <1>15, <1>16, <1>17 DEF ScheduleSafe
  <1>19. q.count.periods = s.count.periods + 1 /\ q.count.slots = s.count.slots + n
         /\ q.count.submits = s.count.submits + (IF n > 0 THEN 1 ELSE 0)
    BY <1>8, <1>9, <1>13, <1>14 DEF Added, pp
  <1> QED BY <1>14, <1>18, <1>19

\* stop() keeps the counters.
LEMMA StoppedSchedule ==
    ASSUME NEW s, NEW held, ScheduleSafe(s, held), NEW q, q = L!ScheduleStopped(s)
    PROVE  ScheduleSafe(q, held) /\ ~q.started /\ q.config = s.config /\ q.count = s.count
  <1>1. s \in Schedules /\ s.config.slots \in Nat /\ s.lead <= s.config.slots
    BY DEF ScheduleSafe, IsSchedule, Schedules, LeadType
  <1>2. q \in Schedules /\ ~q.started /\ q.lead = 0 /\ q.config = s.config /\ q.count = s.count
    BY <1>1 DEF Schedules, L!ScheduleStopped
  <1> QED BY <1>1, <1>2 DEF ScheduleSafe, IsSchedule

\* A binding that no submission failed while it ran: every request it made has completed.
BindingNames == {"started", "pool", "nextCapture", "nextPlayback", "slots", "captureGaps", "failures"}
Idle(p, started) ==
    /\ Sound(p) /\ p.count.live = 0 /\ p.count.submits = p.count.completions
    /\ started => p.started /\ p.slots > 0
IsBinding(b) ==
    /\ DOMAIN b = BindingNames /\ b.started \in BOOLEAN
    /\ b.nextCapture \in Nat /\ b.nextPlayback \in Nat /\ b.slots \in Nat /\ b.captureGaps \in Nat
    /\ b.failures \in Nat /\ (b.started => b.failures = 0) /\ Idle(b.pool, b.started)

\* A request with nothing else live finds a slot and is accepted when it completes.
LEMMA RuntimeSubmits ==
    ASSUME NEW b, IsBinding(b), b.started, NEW d \in Directions, NEW n \in Nat,
           NEW r, r = L!RuntimeSubmitted(b, d, n)
    PROVE  /\ IsBinding(r) /\ r.started
           /\ r.nextCapture = b.nextCapture /\ r.nextPlayback = b.nextPlayback
           /\ r.slots = b.slots /\ r.captureGaps = b.captureGaps
           /\ r.pool.bytes.submitted = [b.pool.bytes.submitted EXCEPT ![d] = @ + n]
           /\ r.pool.count.submits = [b.pool.count.submits EXCEPT ![d] = @ + 1]
  <1> DEFINE p == b.pool
             x == [dir |-> d, size |-> n]
             s == FreeSlot(p)
             q == PoolSubmit(p, x).pool
             h == PoolSubmit(p, x).handle
             z == PoolComplete(q, h)
  <1>1. /\ Sound(p) /\ p.count.live = 0 /\ p.started /\ p.slots > 0 /\ p.slots \in 0 .. MaxSlots
        /\ p.count \in Counts /\ p.count.submits = p.count.completions
    BY DEF IsBinding, Idle, Sound
  <1> HIDE DEF p
  <1>2. PICK k \in SlotIds : k < p.slots /\ ~p.inUse[k]
    BY <1>1, RoomIsFree
  <1>3. CanSubmit(p) /\ s \in SlotIds /\ s < p.slots /\ ~p.inUse[s]
    BY <1>1, <1>2, LowestFree
  <1>4. x.dir \in Directions /\ x.size \in Nat /\ x.dir = d /\ x.size = n
    OBVIOUS
  <1> HIDE DEF x
  <1> HIDE DEF q, h, s
  <1>5. h = HandleOf(p, s) /\ Took(p, s, x, q)
    <2>1. q = PoolSubmit(p, x).pool /\ s = FreeSlot(p) /\ h = PoolSubmit(p, x).handle
      BY DEF q, s, h
    <2> QED BY <1>1, <1>3, <1>4, <2>1, SubmitsInto
  <1>6. /\ Sound(q) /\ q.started /\ q.slots = p.slots /\ q.gen = p.gen
        /\ q.inUse[s] /\ q.desc[s] = x /\ q.count = AccountSubmit(p.count, x)
        /\ q.bytes.submitted = [p.bytes.submitted EXCEPT ![x.dir] = @ + x.size]
    BY <1>1, <1>3, <1>5 DEF Sound, Took
  <1>7. Accepts(q, h) /\ h # NoHandle /\ h.slot = s
    <2>1. s \in 0 .. q.slots - 1 /\ s # -1
      BY <1>1, <1>3, <1>6, PoolConstants DEF SlotIds
    <2> QED BY <1>1, <1>5, <1>6, <2>1 DEF Accepts, HandleInRange, ConfiguredSlots, NoHandle, HandleOf
  <1> HIDE DEF z
  <1>8. Freed(q, s, z)
    <2>1. z = PoolComplete(q, h) /\ Sound(q) /\ Accepts(q, h)
      BY <1>6, <1>7 DEF z
    <2>2. Freed(q, h.slot, z)
      BY <2>1, CompletesSlot
    <2> QED BY <1>7, <2>2
  <1>9. /\ Sound(z) /\ z.started /\ z.slots = p.slots
         /\ q.count.live # 0 /\ z.count = AccountCompletion(q.count, x)
         /\ z.bytes.submitted = q.bytes.submitted
    BY <1>6, <1>8 DEF Freed
  <1>10. r = [b EXCEPT !.pool = z, !.failures = b.failures]
    <2> DEFINE y == L!PoolSubmit(p, x)
    <2>1. r = IF y.handle = L!NoHandle THEN [b EXCEPT !.pool = y.pool, !.failures = @ + 1]
              ELSE [b EXCEPT !.pool = L!PoolComplete(y.pool, y.handle),
                             !.failures = IF L!Accepts(y.pool, y.handle) THEN @ ELSE @ + 1]
      BY DEF L!RuntimeSubmitted, p, x
    <2>2. y = PoolSubmit(p, x)
      BY SchedulerPool
    <2> HIDE DEF y
    <2>3. PoolSubmit(p, x).pool = q /\ PoolSubmit(p, x).handle = h /\ z = PoolComplete(q, h)
      BY DEF q, h, z
    <2> QED BY <1>7, <2>1, <2>3, <2>2, SchedulerPool
  <1>11. /\ DOMAIN r = BindingNames /\ r.pool = z /\ r.failures = b.failures
         /\ r.started = b.started /\ r.nextCapture = b.nextCapture
         /\ r.nextPlayback = b.nextPlayback /\ r.slots = b.slots
         /\ r.captureGaps = b.captureGaps
    BY <1>10 DEF IsBinding, BindingNames
  <1>12. /\ q.count \in Counts /\ q.count.live = p.count.live + 1
         /\ q.count.submits = [p.count.submits EXCEPT ![d] = @ + 1]
         /\ q.count.completions = p.count.completions
    BY <1>1, <1>4, <1>6, CountsAfterSubmit DEF OneMore
  <1>13. /\ z.count.live = q.count.live - 1 /\ z.count.submits = q.count.submits
         /\ z.count.completions = [q.count.completions EXCEPT ![d] = @ + 1]
    <2>1. x.dir \in Directions /\ q.count.live # 0 /\ z.count = AccountCompletion(q.count, x)
      BY <1>4, <1>9
    <2> QED BY <1>4, <1>12, <2>1, CountsAfterCompletion DEF OneMore
  <1>14. z.count.submits = z.count.completions /\ z.count.live = 0
    BY <1>1, <1>12, <1>13
  <1>15. Idle(r.pool, r.started)
    BY <1>1, <1>11, <1>14, <1>9 DEF Idle
  <1>16. IsBinding(r)
    BY <1>11, <1>15 DEF IsBinding
  <1>17. r.pool.bytes.submitted = [p.bytes.submitted EXCEPT ![d] = @ + n]
    BY <1>4, <1>6, <1>11, <1>9
  <1>18. r.pool.count.submits = [p.count.submits EXCEPT ![d] = @ + 1]
    BY <1>11, <1>12, <1>13
  <1> QED BY <1>11, <1>16, <1>17, <1>18 DEF p

\* The binding r is b after one request of n playback slots, or none if n is zero.
Delivered(b, n, r) ==
    /\ IsBinding(r) /\ r.started
    /\ r.nextCapture = b.nextCapture /\ r.nextPlayback = b.nextPlayback + n
    /\ r.slots = b.slots + n /\ r.captureGaps = b.captureGaps
    /\ r.pool.bytes.submitted = [b.pool.bytes.submitted EXCEPT !["playback"] = @ + n]
    /\ r.pool.count.submits = [b.pool.count.submits EXCEPT
           !["playback"] = @ + (IF n > 0 THEN 1 ELSE 0)]

\* submit_playback_delta(): one request of what the scheduler has submitted, if anything.
LEMMA DeltaSubmits ==
    ASSUME NEW b, IsBinding(b), b.started, NEW s, NEW before \in Nat, NEW n \in Nat,
           s.count.slots = before + n, NEW r, r = L!DeltaSubmitted(b, s, before)
    PROVE  Delivered(b, n, r)
  <1> DEFINE u == L!RuntimeSubmitted(b, "playback", n)
             i == b.nextPlayback + n
             j == b.slots + n
  <1>1. s.count.slots - before = n
    OBVIOUS
  <1>2. CASE n = 0
    <2>1. r = b
      BY <1>1, <1>2 DEF L!DeltaSubmitted
    <2>2. /\ b.pool.bytes.submitted \in [Directions -> Nat]
          /\ b.pool.count.submits \in [Directions -> Nat]
          /\ b.nextPlayback \in Nat /\ b.slots \in Nat
      BY DEF IsBinding, Idle, Sound, Counts
    <2>3. b.pool.bytes.submitted = [b.pool.bytes.submitted EXCEPT !["playback"] = @ + n]
      BY <1>2, <2>2
    <2>4. b.pool.count.submits = [b.pool.count.submits EXCEPT
                                      !["playback"] = @ + (IF n > 0 THEN 1 ELSE 0)]
      BY <1>2, <2>2
    <2> QED BY <1>2, <2>1, <2>2, <2>3, <2>4 DEF Delivered
  <1>3. CASE n # 0
    <2>1. "playback" \in Directions
      BY DEF Directions
    <2> HIDE DEF u
    <2>2. u = L!RuntimeSubmitted(b, "playback", n)
      BY DEF u
    <2>3. /\ IsBinding(u) /\ u.started
          /\ u.nextCapture = b.nextCapture /\ u.nextPlayback = b.nextPlayback
          /\ u.slots = b.slots /\ u.captureGaps = b.captureGaps
          /\ u.pool.bytes.submitted = [b.pool.bytes.submitted EXCEPT !["playback"] = @ + n]
          /\ u.pool.count.submits = [b.pool.count.submits EXCEPT !["playback"] = @ + 1]
      BY <2>1, <2>2, RuntimeSubmits
    <2>4. ~(u.failures > b.failures)
      BY <2>3 DEF IsBinding
    <2>5. r = [u EXCEPT !.nextPlayback = @ + n, !.slots = @ + n]
      BY <1>1, <1>3, <2>2, <2>4 DEF L!DeltaSubmitted
    <2>6. /\ DOMAIN r = BindingNames /\ r.pool = u.pool /\ r.failures = u.failures
          /\ r.started = u.started /\ r.nextCapture = u.nextCapture
          /\ r.nextPlayback = u.nextPlayback + n /\ r.slots = u.slots + n
          /\ r.captureGaps = u.captureGaps
      BY <2>3, <2>5 DEF IsBinding, BindingNames
    <2>7. u.nextPlayback \in Nat /\ u.slots \in Nat
      BY <2>3 DEF IsBinding
    <2>8. IsBinding(r)
      <3>1. Idle(r.pool, r.started) /\ r.started \in BOOLEAN /\ r.failures = 0
        BY <2>3, <2>6 DEF IsBinding
      <3>2. r.nextCapture \in Nat /\ r.captureGaps \in Nat
        BY <2>3, <2>6 DEF IsBinding
      <3>3. r.nextPlayback \in Nat /\ r.slots \in Nat
        BY <2>6, <2>7
      <3> QED BY <2>6, <3>1, <3>2, <3>3 DEF IsBinding
    <2>9. n > 0
      BY <1>3
    <2> QED BY <2>3, <2>6, <2>8, <2>9 DEF Delivered
  <1> QED BY <1>2, <1>3

\* What was submitted and what the scheduler counted agree.
LeadAgrees(s, b) ==
    LET count == s.count
        taken == b.pool
    IN  /\ count.slots = b.slots /\ count.slots = b.nextPlayback
        /\ taken.bytes.submitted["playback"] = count.slots
        /\ taken.count.submits["playback"] = count.submits
        /\ taken.count.submits["capture"] = b.nextCapture
        /\ count.periods = b.nextCapture + b.captureGaps

\* What the scheduler and its binding keep to.
LeadInv ==
    /\ heldBack \in BOOLEAN /\ ScheduleSafe(scheduler, heldBack) /\ IsBinding(binding)
    /\ scheduler.started = binding.started /\ LeadAgrees(scheduler, binding)

\* A scheduler and a binding that were never started satisfy it.
LEMMA LeadInit == L!Init => LeadInv
  <1> SUFFICES ASSUME L!Init PROVE LeadInv
    OBVIOUS
  <1>1. scheduler = L!NewScheduler /\ binding = L!NewBinding /\ heldBack = FALSE
    BY DEF L!Init
  <1>2. L!NewBinding.pool = NewPool
    BY SchedulerPool DEF L!NewBinding
  <1>3. Sound(NewPool) /\ NewPool.count = NoCounts /\ NewPool.bytes = NoBytes
    BY NewPoolSound
  <1>4. /\ NoCounts.live = 0 /\ NoCounts.submits = Zero /\ NoCounts.completions = Zero
        /\ NoBytes.submitted = Zero /\ Zero["capture"] = 0 /\ Zero["playback"] = 0
    BY DEF NoCounts, NoBytes, Zero, Directions
  <1>5. IsBinding(binding) /\ ~binding.started
    BY <1>1, <1>2, <1>3, <1>4 DEF IsBinding, BindingNames, Idle, L!NewBinding
  <1>6. /\ scheduler \in Schedules /\ ~scheduler.started /\ scheduler.lead = 0
        /\ scheduler.config = L!NoConfig /\ scheduler.count = L!NoScheduleCounts
    BY <1>1 DEF L!NewScheduler, L!NoScheduleCounts, L!NoConfig, Schedules, ScheduleCounts, LeadType
  <1>7. ScheduleSafe(scheduler, FALSE)
    BY <1>6 DEF ScheduleSafe, IsSchedule, L!NoConfig, L!NoScheduleCounts, L!ConfigValid
  <1>8. LeadAgrees(scheduler, binding)
    BY <1>1, <1>2, <1>3, <1>4, <1>6 DEF LeadAgrees, L!NewBinding, L!NoScheduleCounts
  <1>9. scheduler.started = binding.started
    BY <1>5, <1>6 DEF Schedules, IsBinding
  <1>10. ScheduleSafe(scheduler, heldBack) /\ heldBack \in BOOLEAN
    BY <1>1, <1>7
  <1> QED BY <1>5, <1>8, <1>9, <1>10 DEF LeadInv

\* A start queues the first slots of an empty pool, or refuses the configuration or the pool.
LEMMA LeadStart ==
    ASSUME LeadInv, NEW c \in LeadConfigs, NEW n \in {0, 1}, L!Start(c, n)
    PROVE  LeadInv'
  <1> DEFINE s == L!ScheduleStarted(c)
             k == L!PoolStart(L!NewPool, n)
             f == [L!NewBinding EXCEPT !.started = TRUE, !.pool = k]
             r == L!DeltaSubmitted(f, s, 0)
  <1>1. c \in LeadType /\ L!ConfigValid(c) /\ n \in 1 .. MaxSlots
    BY OwnersConstants, SchedulerPool DEF L!Start, ValidPoolConfig
  <1>2. /\ scheduler' = IF r.failures > 0 THEN L!ScheduleStopped(s) ELSE s
        /\ binding' = IF r.failures > 0 THEN L!BindingStopped(r) ELSE r
        /\ heldBack' = (s.lead < c.low)
    BY DEF L!Start
  <1> HIDE DEF s
  <1>3. /\ ScheduleSafe(s, s.lead < c.low) /\ s.started /\ s.config = c
        /\ s.count.slots > 0 /\ s.count.submits = 1 /\ s.count.periods = 0
    BY <1>1, StartedSchedule DEF s
  <1>4. k = PoolStart(NewPool, n)
    BY SchedulerPool
  <1> HIDE DEF k
  <1>5. /\ Sound(k) /\ k.started /\ k.slots = n /\ k.count = NoCounts /\ k.bytes = NoBytes
    BY <1>1, <1>4, NewPoolSound, OpensAndCloses
  <1>6. /\ NoCounts.live = 0 /\ NoCounts.submits = Zero /\ NoCounts.completions = Zero
        /\ NoBytes.submitted = Zero /\ Zero["capture"] = 0 /\ Zero["playback"] = 0
        /\ DOMAIN Zero = Directions /\ {"capture", "playback"} = Directions
    BY DEF NoCounts, NoBytes, Zero, Directions
  <1>7. /\ DOMAIN f = BindingNames /\ f.started = TRUE /\ f.pool = k /\ f.nextCapture = 0
        /\ f.nextPlayback = 0 /\ f.slots = 0 /\ f.captureGaps = 0 /\ f.failures = 0
    BY DEF L!NewBinding, BindingNames
  <1> HIDE DEF f
  <1>8. Idle(k, f.started)
    BY <1>1, <1>5, <1>6 DEF Idle
  <1>9. IsBinding(f)
    <2>1. Idle(f.pool, f.started) /\ f.started \in BOOLEAN
      BY <1>7, <1>8
    <2> QED BY <1>7, <2>1 DEF IsBinding
  <1>10. s.count.slots \in Nat /\ s.count.slots = 0 + s.count.slots /\ s \in Schedules
    BY <1>3 DEF ScheduleSafe, IsSchedule, Schedules, ScheduleCounts
  <1> DEFINE m == s.count.slots
  <1>11. m \in Nat /\ m > 0 /\ s.count.slots = 0 + m /\ s.count.slots = m
    BY <1>3, <1>10
  <1> HIDE DEF m
  <1> HIDE DEF r
  <1>12. /\ IsBinding(r) /\ r.started
         /\ r.nextCapture = f.nextCapture /\ r.nextPlayback = f.nextPlayback + m
         /\ r.slots = f.slots + m /\ r.captureGaps = f.captureGaps
         /\ r.pool.bytes.submitted = [f.pool.bytes.submitted EXCEPT !["playback"] = @ + m]
         /\ r.pool.count.submits = [f.pool.count.submits EXCEPT
                !["playback"] = @ + (IF m > 0 THEN 1 ELSE 0)]
    <2>1. r = L!DeltaSubmitted(f, s, 0) /\ 0 \in Nat
      BY DEF r
    <2>2. Delivered(f, m, r)
      BY <1>7, <1>9, <1>11, <2>1, DeltaSubmits
    <2> QED BY <2>2 DEF Delivered
  <1>13. scheduler' = s /\ binding' = r
    BY <1>2, <1>12 DEF IsBinding
  <1>14. /\ r.pool.bytes.submitted["playback"] = m /\ r.pool.count.submits["playback"] = 1
         /\ r.pool.count.submits["capture"] = 0
    BY <1>5, <1>6, <1>7, <1>11, <1>12
  <1>15. LeadAgrees(s, r)
    BY <1>3, <1>7, <1>11, <1>12, <1>14 DEF LeadAgrees
  <1>16. s.started \in BOOLEAN /\ r.started \in BOOLEAN
    BY <1>10, <1>12 DEF Schedules, IsBinding
  <1>17. s.started = r.started
    BY <1>3, <1>12, <1>16
  <1>18. ScheduleSafe(s, heldBack') /\ heldBack' \in BOOLEAN
    BY <1>2, <1>3
  <1> QED BY <1>12, <1>13, <1>15, <1>17, <1>18 DEF LeadInv

\* A period that completes consumes a slot of the lead and refills it.
LEMMA LeadPeriod ==
    ASSUME LeadInv, NEW options \in Options, L!CompletePeriod(options)
    PROVE  LeadInv'
  <1> DEFINE s == scheduler
             b == binding
             q == L!PeriodScheduled(s, options)
             u == L!RuntimeSubmitted(b, "capture", 1)
             k == IF options.captureGap THEN [b EXCEPT !.captureGaps = @ + 1]
                  ELSE [u EXCEPT !.nextCapture = @ + 1]
             r == L!DeltaSubmitted(k, q, s.count.slots)
  <1>1. /\ ScheduleSafe(s, heldBack) /\ heldBack \in BOOLEAN /\ IsBinding(b)
        /\ s.started /\ b.started /\ LeadAgrees(s, b)
    BY DEF LeadInv, L!CompletePeriod
  <1>2. scheduler' = q /\ binding' = r /\ heldBack' = (heldBack \/ HeldBack(options))
    BY DEF L!CompletePeriod, HeldBack
  <1>3. /\ s.count.slots \in Nat /\ s.count.submits \in Nat /\ s.count.periods \in Nat
        /\ b.nextCapture \in Nat /\ b.captureGaps \in Nat /\ b.slots \in Nat
        /\ b.nextPlayback \in Nat /\ b.failures = 0
        /\ b.pool.bytes.submitted \in [Directions -> Nat]
        /\ b.pool.count.submits \in [Directions -> Nat]
    BY <1>1 DEF ScheduleSafe, IsSchedule, Schedules, ScheduleCounts, IsBinding, Idle, Sound, Counts
  <1> HIDE DEF s, b, q, r
  <1>4. /\ ScheduleSafe(q, heldBack \/ HeldBack(options)) /\ q.started
        /\ q.count.periods = s.count.periods + 1
        /\ \E n \in Nat : /\ q.count.slots = s.count.slots + n
                          /\ q.count.submits = s.count.submits + (IF n > 0 THEN 1 ELSE 0)
    <2>1. q = L!PeriodScheduled(s, options)
      BY DEF q
    <2> QED BY <1>1, <2>1, PeriodSchedule
  <1>5. PICK n \in Nat : /\ q.count.slots = s.count.slots + n
                        /\ q.count.submits = s.count.submits + (IF n > 0 THEN 1 ELSE 0)
    BY <1>4
  <1> HIDE DEF u
  <1>6. /\ IsBinding(u) /\ u.started
        /\ u.nextCapture = b.nextCapture /\ u.nextPlayback = b.nextPlayback
        /\ u.slots = b.slots /\ u.captureGaps = b.captureGaps
        /\ u.pool.bytes.submitted = [b.pool.bytes.submitted EXCEPT !["capture"] = @ + 1]
        /\ u.pool.count.submits = [b.pool.count.submits EXCEPT !["capture"] = @ + 1]
    <2>1. u = L!RuntimeSubmitted(b, "capture", 1) /\ "capture" \in Directions /\ 1 \in Nat
      BY DEF u, Directions
    <2> QED BY <1>1, <2>1, RuntimeSubmits
  <1>7. /\ IsBinding(k) /\ k.started /\ k.nextPlayback = b.nextPlayback /\ k.slots = b.slots
        /\ k.pool.bytes.submitted["playback"] = b.pool.bytes.submitted["playback"]
        /\ k.pool.count.submits["playback"] = b.pool.count.submits["playback"]
        /\ k.pool.count.submits["capture"] = k.nextCapture
        /\ k.nextCapture + k.captureGaps = s.count.periods + 1
        /\ k.pool.bytes.submitted \in [Directions -> Nat]
        /\ k.pool.count.submits \in [Directions -> Nat]
    <2>1. b.pool.count.submits["capture"] = b.nextCapture
          /\ b.nextCapture + b.captureGaps = s.count.periods
      BY <1>1 DEF LeadAgrees
    <2>2. CASE options.captureGap
      <3>1. k = [b EXCEPT !.captureGaps = @ + 1]
        BY <2>2
      <3> HIDE DEF k
      <3>2. /\ DOMAIN k = BindingNames /\ k.pool = b.pool /\ k.started = b.started
            /\ k.nextCapture = b.nextCapture /\ k.nextPlayback = b.nextPlayback
            /\ k.slots = b.slots /\ k.captureGaps = b.captureGaps + 1 /\ k.failures = b.failures
        BY <1>1, <3>1 DEF IsBinding, BindingNames
      <3>3. Idle(k.pool, k.started) /\ k.started \in BOOLEAN
        BY <1>1, <3>2 DEF IsBinding
      <3>4. IsBinding(k)
        BY <1>3, <3>2, <3>3 DEF IsBinding
      <3> QED BY <1>1, <1>3, <2>1, <3>2, <3>4
    <2>3. CASE ~options.captureGap
      <3>1. k = [u EXCEPT !.nextCapture = @ + 1]
        BY <2>3
      <3> HIDE DEF k
      <3>2. /\ DOMAIN k = BindingNames /\ k.pool = u.pool /\ k.started = u.started
            /\ k.nextCapture = u.nextCapture + 1 /\ k.nextPlayback = u.nextPlayback
            /\ k.slots = u.slots /\ k.captureGaps = u.captureGaps /\ k.failures = u.failures
        BY <1>6, <3>1 DEF IsBinding, BindingNames
      <3>3. Idle(k.pool, k.started) /\ k.started \in BOOLEAN /\ k.failures = 0
        BY <1>6, <3>2 DEF IsBinding
      <3>4. IsBinding(k)
        <4>1. k.nextCapture \in Nat /\ k.nextPlayback \in Nat /\ k.slots \in Nat /\ k.captureGaps \in Nat
          BY <1>3, <1>6, <3>2
        <4> QED BY <3>2, <3>3, <4>1 DEF IsBinding
      <3>5. /\ k.pool.bytes.submitted["playback"] = b.pool.bytes.submitted["playback"]
            /\ k.pool.count.submits["playback"] = b.pool.count.submits["playback"]
            /\ k.pool.count.submits["capture"] = b.pool.count.submits["capture"] + 1
            /\ k.pool.bytes.submitted \in [Directions -> Nat]
            /\ k.pool.count.submits \in [Directions -> Nat]
        BY <1>3, <1>6, <3>2 DEF Directions
      <3> QED BY <1>3, <1>6, <2>1, <3>2, <3>4, <3>5
    <2> QED BY <2>2, <2>3
  <1> HIDE DEF k
  <1>8. /\ IsBinding(r) /\ r.started
        /\ r.nextCapture = k.nextCapture /\ r.nextPlayback = k.nextPlayback + n
        /\ r.slots = k.slots + n /\ r.captureGaps = k.captureGaps
        /\ r.pool.bytes.submitted = [k.pool.bytes.submitted EXCEPT !["playback"] = @ + n]
        /\ r.pool.count.submits = [k.pool.count.submits EXCEPT
               !["playback"] = @ + (IF n > 0 THEN 1 ELSE 0)]
    <2>1. r = L!DeltaSubmitted(k, q, s.count.slots)
      BY DEF r
    <2>2. Delivered(k, n, r)
      BY <1>3, <1>5, <1>7, <2>1, DeltaSubmits
    <2> QED BY <2>2 DEF Delivered
  <1>9. LeadAgrees(q, r)
    <2>1. /\ s.count.slots = b.slots /\ s.count.slots = b.nextPlayback
          /\ b.pool.bytes.submitted["playback"] = s.count.slots
          /\ b.pool.count.submits["playback"] = s.count.submits
      BY <1>1 DEF LeadAgrees
    <2>2. /\ r.pool.bytes.submitted["playback"] = k.pool.bytes.submitted["playback"] + n
          /\ r.pool.count.submits["playback"]
                = k.pool.count.submits["playback"] + (IF n > 0 THEN 1 ELSE 0)
          /\ r.pool.count.submits["capture"] = k.pool.count.submits["capture"]
      BY <1>7, <1>8 DEF Directions
    <2> QED BY <1>3, <1>4, <1>5, <1>7, <1>8, <2>1, <2>2 DEF LeadAgrees
  <1>10. q.started = r.started
    <2>1. q.started \in BOOLEAN /\ r.started \in BOOLEAN
      BY <1>4, <1>8 DEF ScheduleSafe, IsSchedule, Schedules, IsBinding
    <2> QED BY <1>4, <1>8, <2>1
  <1>11. ScheduleSafe(q, heldBack') /\ heldBack' \in BOOLEAN
    BY <1>2, <1>4
  <1> QED BY <1>2, <1>8, <1>9, <1>10, <1>11 DEF LeadInv

\* A stop cancels what the binding has live.
LEMMA LeadStop ==
    ASSUME LeadInv, L!Stop
    PROVE  LeadInv'
  <1> DEFINE s == scheduler
             b == binding
             q == L!ScheduleStopped(s)
             r == L!BindingStopped(b)
             c == PoolCancelAll(b.pool)
             p == PoolStop(c)
  <1>1. scheduler' = q /\ binding' = r /\ heldBack' = heldBack
    BY DEF L!Stop
  <1>2. /\ ScheduleSafe(s, heldBack) /\ heldBack \in BOOLEAN /\ IsBinding(b)
        /\ LeadAgrees(s, b)
    BY DEF LeadInv
  <1>3. r = [b EXCEPT !.started = FALSE, !.pool = p]
    BY SchedulerPool DEF L!BindingStopped
  <1> HIDE DEF s, b, q, r
  <1>4. ScheduleSafe(q, heldBack) /\ ~q.started /\ q.count = s.count
    <2>1. q = L!ScheduleStopped(s)
      BY DEF q
    <2> QED BY <1>2, <2>1, StoppedSchedule
  <1>5. /\ Sound(b.pool) /\ b.pool.count.live = 0 /\ b.pool.count.submits = b.pool.count.completions
        /\ Busy(b.pool) = {}
    BY <1>2, SoundBusy DEF IsBinding, Idle
  <1> HIDE DEF c
  <1>6. Sound(c) /\ c.count = b.pool.count /\ c.bytes.submitted = b.pool.bytes.submitted
    BY <1>5, CancelsAll DEF c
  <1> HIDE DEF p
  <1>7. Sound(p) /\ p.count = c.count /\ p.bytes = c.bytes
    BY <1>6, OpensAndCloses DEF p
  <1>8. /\ DOMAIN r = BindingNames /\ r.pool = p /\ r.failures = b.failures
        /\ r.started = FALSE /\ r.nextCapture = b.nextCapture
        /\ r.nextPlayback = b.nextPlayback /\ r.slots = b.slots
        /\ r.captureGaps = b.captureGaps
    BY <1>2, <1>3 DEF IsBinding, BindingNames
  <1>9. Idle(r.pool, r.started)
    BY <1>5, <1>6, <1>7, <1>8 DEF Idle
  <1>10. IsBinding(r)
    BY <1>2, <1>8, <1>9 DEF IsBinding
  <1>11. LeadAgrees(q, r)
    BY <1>2, <1>4, <1>6, <1>7, <1>8 DEF LeadAgrees
  <1>12. q.started = r.started
    <2>1. q.started \in BOOLEAN
      BY <1>4 DEF ScheduleSafe, IsSchedule, Schedules
    <2> QED BY <1>4, <1>8, <2>1
  <1>13. ScheduleSafe(q, heldBack') /\ heldBack' \in BOOLEAN
    BY <1>1, <1>2, <1>4
  <1> QED BY <1>1, <1>10, <1>11, <1>12, <1>13 DEF LeadInv

\* A period of a binding that is not started is only counted.
LEMMA LeadRefused ==
    ASSUME LeadInv, L!PeriodRefused
    PROVE  LeadInv'
  <1> DEFINE b == binding
             r == [b EXCEPT !.failures = @ + 1]
  <1>1. /\ ~b.started /\ binding' = r /\ scheduler' = scheduler /\ heldBack' = heldBack
    BY DEF L!PeriodRefused
  <1>2. /\ heldBack \in BOOLEAN /\ ScheduleSafe(scheduler, heldBack) /\ IsBinding(b)
        /\ scheduler.started = b.started /\ LeadAgrees(scheduler, b)
    BY DEF LeadInv
  <1> HIDE DEF b
  <1>3. /\ DOMAIN r = BindingNames /\ r.pool = b.pool /\ r.failures = b.failures + 1
        /\ r.started = b.started /\ r.nextCapture = b.nextCapture
        /\ r.nextPlayback = b.nextPlayback /\ r.slots = b.slots
        /\ r.captureGaps = b.captureGaps
    BY <1>2 DEF IsBinding, BindingNames
  <1> HIDE DEF r
  <1>4. IsBinding(r)
    BY <1>1, <1>2, <1>3 DEF IsBinding
  <1>5. LeadAgrees(scheduler, r)
    BY <1>2, <1>3 DEF LeadAgrees
  <1> QED BY <1>1, <1>2, <1>3, <1>4, <1>5 DEF LeadInv

\* The invariant gives what the run checks of the scheduler and its binding.
LEMMA LeadImplies == LeadInv => L!SlotsSubmittedOnce /\ L!LeadHolds
  <1> SUFFICES ASSUME LeadInv PROVE L!SlotsSubmittedOnce /\ L!LeadHolds
    OBVIOUS
  <1>1. /\ ScheduleSafe(scheduler, heldBack) /\ IsBinding(binding)
        /\ scheduler.started = binding.started /\ LeadAgrees(scheduler, binding)
    BY DEF LeadInv
  <1>2. /\ binding.started => binding.failures = 0
        /\ binding.pool.count.live = 0
        /\ binding.pool.count.submits = binding.pool.count.completions
    BY <1>1 DEF IsBinding, Idle
  <1>3. scheduler.started => scheduler.count.slots - scheduler.count.completed = scheduler.lead
    <2>1. /\ scheduler.lead \in Nat /\ scheduler.count.slots \in Nat
          /\ scheduler.count.completed \in Nat
      BY <1>1 DEF ScheduleSafe, IsSchedule, Schedules, ScheduleCounts
    <2> QED BY <1>1, <2>1 DEF ScheduleSafe
  <1>4. scheduler.count.maxLead <= scheduler.config.slots
    BY <1>1 DEF ScheduleSafe
  <1>5. L!SlotsSubmittedOnce
    BY <1>1, <1>2, <1>3, <1>4 DEF LeadAgrees, L!SlotsSubmittedOnce
  <1>6. L!LeadHolds
    BY <1>1 DEF ScheduleSafe, L!LeadHolds
  <1> QED BY <1>5, <1>6

\* Every step of the scheduler and its binding keeps the invariant.
LEMMA LeadNext == LeadInv /\ [L!Next]_leadVars => LeadInv'
  <1> SUFFICES ASSUME LeadInv, [L!Next]_leadVars PROVE LeadInv'
    OBVIOUS
  <1>1. ASSUME NEW c \in LeadConfigs, NEW n \in {0, 1}, L!Start(c, n) PROVE LeadInv'
    BY <1>1, LeadStart
  <1>2. ASSUME NEW options \in Options, L!CompletePeriod(options) PROVE LeadInv'
    BY <1>2, LeadPeriod
  <1>3. CASE L!Stop
    BY <1>3, LeadStop
  <1>4. CASE L!PeriodRefused
    BY <1>4, LeadRefused
  <1>5. CASE UNCHANGED leadVars
    BY <1>5 DEF leadVars, LeadInv
  <1> QED BY <1>1, <1>2, <1>3, <1>4, <1>5 DEF L!Next, Options

\* A process steps with one of its owners, and leaves the others alone.
LEMMA OneOwnerSteps ==
    ASSUME [OwnersNext]_<<runtimeVars, transport, deviceVars, submitter, leadVars>>
    PROVE  [T!Next]_transport /\ [L!Next]_leadVars
  BY DEF OwnersNext, HasRuntime, HasTransport, HasDriver, HasSubmitter, HasScheduler

\* The scheduler submits every slot once, in order and completely, and keeps its lead.
LEMMA LeadSafety == OwnersSpec => [](L!SlotsSubmittedOnce /\ L!LeadHolds)
  <1>1. OwnersInit => LeadInv
    BY LeadInit DEF OwnersInit
  <1>2. LeadInv /\ [OwnersNext]_<<runtimeVars, transport, deviceVars, submitter, leadVars>>
            => LeadInv'
    BY LeadNext, OneOwnerSteps
  <1>3. LeadInv => L!SlotsSubmittedOnce /\ L!LeadHolds
    BY LeadImplies
  <1> QED BY <1>1, <1>2, <1>3, PTL DEF OwnersSpec

(***************************************************************************)
(* Folds over sequences.                                                    *)
(***************************************************************************)
\* What holds at zero and is passed on by each number holds of every number.
LEMMA CountUp ==
    ASSUME NEW Upto \in SUBSET Nat, 0 \in Upto, \A k \in Upto : k + 1 \in Upto
    PROVE  Upto = Nat
  <1> SUFFICES ASSUME Nat \ Upto # {} PROVE FALSE
    OBVIOUS
  <1>1. PICK m \in Nat \ Upto : \A k \in Nat \ Upto : m <= k
    BY LeastNat
  <1>2. m # 0 /\ m \in Nat
    BY <1>1
  <1>3. m - 1 \in Nat /\ ~(m <= m - 1)
    BY <1>2
  <1>4. m - 1 \in Upto
    BY <1>1, <1>3
  <1>5. (m - 1) + 1 \in Upto
    BY <1>4
  <1> QED BY <1>1, <1>2, <1>5

\* The last element of a set of positions.
Last(s) == CHOOSE x \in s : \A y \in s : x >= y
\* What the last position is, and what is left without it.
LEMMA LastOf ==
    ASSUME NEW k \in Nat, NEW s \in SUBSET (1 .. k + 1), k + 1 \in s
    PROVE  Last(s) = k + 1 /\ s \ {k + 1} \in SUBSET (1 .. k)
  <1>1. \A y \in s : y \in Nat /\ k + 1 >= y /\ (y >= k + 1 => y = k + 1)
    OBVIOUS
  <1>2. Last(s) = k + 1
    BY <1>1 DEF Last
  <1> QED BY <1>1, <1>2

\* The recursion of FoldLeft for prime(): one submission after the other.
FillOne(t, u, d) ==
    IF u.count.submitFailures > t.count.submitFailures THEN u ELSE T!SubmitNext(u, d, TRUE)
FillFrom(h, t, order, n) ==
    [s \in SUBSET (1 .. n) |->
        IF s = {} THEN t ELSE FillOne(t, h[s \ {Last(s)}], order[Last(s)])]
FillSteps(h, t, order, n) == h = FillFrom(h, t, order, n)

\* There is a function that follows the recursion.
LEMMA FillExists ==
    ASSUME NEW t, NEW order, NEW n \in Nat
    PROVE  \E h : FillSteps(h, t, order, n)
  <1> DEFINE Upto == {k \in Nat : \E h : FillSteps(h, t, order, k)}
  <1>1. 0 \in Upto
    <2> DEFINE h == [s \in SUBSET (1 .. 0) |-> t]
    <2>1. \A s \in SUBSET (1 .. 0) : s = {}
      OBVIOUS
    <2>2. h = FillFrom(h, t, order, 0)
      BY <2>1 DEF FillFrom
    <2> QED BY <2>2 DEF FillSteps
  <1>2. ASSUME NEW k \in Upto PROVE k + 1 \in Upto
    <2>1. PICK f : f = FillFrom(f, t, order, k)
      BY DEF FillSteps
    <2> DEFINE h == [s \in SUBSET (1 .. k + 1) |->
                        IF k + 1 \in s THEN FillOne(t, f[s \ {k + 1}], order[k + 1]) ELSE f[s]]
    <2>2. ASSUME NEW s \in SUBSET (1 .. k + 1)
          PROVE  h[s] = IF s = {} THEN t ELSE FillOne(t, h[s \ {Last(s)}], order[Last(s)])
      <3>1. CASE k + 1 \in s
        <4>1. Last(s) = k + 1 /\ s \ {k + 1} \in SUBSET (1 .. k)
          BY <3>1, LastOf
        <4>2. s \ {k + 1} \in SUBSET (1 .. k + 1) /\ k + 1 \notin s \ {k + 1}
          OBVIOUS
        <4>3. h[s \ {k + 1}] = f[s \ {k + 1}]
          BY <4>2
        <4>4. h[s] = FillOne(t, f[s \ {k + 1}], order[k + 1])
          BY <3>1
        <4> HIDE DEF h
        <4> QED BY <3>1, <4>1, <4>3, <4>4
      <3>2. CASE k + 1 \notin s
        <4>1. s \in SUBSET (1 .. k)
          BY <3>2
        <4>2. h[s] = f[s] /\ h[s \ {Last(s)}] = f[s \ {Last(s)}]
          BY <3>2
        <4>3. f[s] = IF s = {} THEN t ELSE FillOne(t, f[s \ {Last(s)}], order[Last(s)])
          BY <2>1, <4>1 DEF FillFrom
        <4> HIDE DEF h
        <4> QED BY <4>2, <4>3
      <3> QED BY <3>1, <3>2
    <2>3. h = [s \in SUBSET (1 .. k + 1) |-> h[s]]
      OBVIOUS
    <2> HIDE DEF h
    <2>4. h = FillFrom(h, t, order, k + 1)
      BY <2>2, <2>3 DEF FillFrom
    <2> QED BY <2>4 DEF FillSteps
  <1>3. Upto = Nat
    <2> HIDE DEF Upto
    <2>1. Upto \in SUBSET Nat
      BY DEF Upto
    <2> QED BY <1>1, <1>2, <2>1, CountUp
  <1> QED BY <1>3

\* So prime() makes its submissions in order.
LEMMA FillTrace ==
    ASSUME NEW t, NEW order, NEW n \in Nat, order = T!PrimeOrder(t.config), DOMAIN order = 1 .. n
    PROVE  \E g : /\ g[0] = t /\ g[n] = T!Filled(t)
                  /\ \A i \in 1 .. n : g[i] = FillOne(t, g[i - 1], order[i])
  <1> DEFINE h == CHOOSE f : FillSteps(f, t, order, n)
             g == [i \in 0 .. n |-> h[1 .. i]]
  <1>1. T!Filled(t) = h[1 .. n]
    BY DEF T!Filled, T!FoldLeft, T!MapThenFoldSet, T!Max, FillSteps, FillFrom, FillOne, Last
  <1>2. h = FillFrom(h, t, order, n)
    BY FillExists DEF FillSteps
  <1> HIDE DEF h
  <1>3. h[1 .. 0] = t
    BY <1>2 DEF FillFrom
  <1>4. ASSUME NEW i \in 1 .. n
        PROVE  h[1 .. i] = FillOne(t, h[1 .. i - 1], order[i])
    <2> DEFINE k == i - 1
    <2>1. k \in Nat /\ k + 1 = i /\ 1 .. i \in SUBSET (1 .. k + 1) /\ k + 1 \in 1 .. i
      OBVIOUS
    <2> HIDE DEF k
    <2>2. Last(1 .. i) = i
      BY <2>1, LastOf
    <2>3. 1 .. i \in SUBSET (1 .. n) /\ 1 .. i # {}
      OBVIOUS
    <2>4. (1 .. i) \ {i} = 1 .. i - 1
      <3>1. \A x : x \in (1 .. i) \ {i} <=> x \in 1 .. i - 1
        OBVIOUS
      <3> QED BY <3>1
    <2> QED BY <1>2, <2>2, <2>3, <2>4 DEF FillFrom
  <1>5. \A i \in 1 .. n : i \in 0 .. n /\ i - 1 \in 0 .. n
    OBVIOUS
  <1>6. g[0] = t /\ g[n] = T!Filled(t)
    BY <1>1, <1>3
  <1>7. \A i \in 1 .. n : g[i] = FillOne(t, g[i - 1], order[i])
    BY <1>4, <1>5
  <1> QED BY <1>6, <1>7

(***************************************************************************)
(* Remainders.                                                              *)
(***************************************************************************)
\* The remainder is the only one.
LEMMA ModUnique ==
    ASSUME NEW k \in Nat, k > 0, NEW q \in Int, NEW m \in 0 .. k - 1
    PROVE  (k * q + m) % k = m
  OBVIOUS

\* A number is a multiple and its remainder.
LEMMA ModParts ==
    ASSUME NEW k \in Nat, k > 0, NEW a \in Nat
    PROVE  /\ a % k \in 0 .. k - 1 /\ \E q \in Nat : a = k * q + (a % k)
  <1>1. a % k \in 0 .. k - 1 /\ a \div k \in Int
    OBVIOUS
  <1>2. a = k * (a \div k) + (a % k)
    OBVIOUS
  <1>3. a \div k >= 0
    <2>1. SUFFICES ASSUME a \div k <= -1 PROVE FALSE
      BY <1>1
    <2>2. k * (a \div k) <= -k
      BY <1>1, <2>1
    <2> QED BY <1>1, <1>2, <2>2
  <1> QED BY <1>1, <1>2, <1>3

\* A multiple leaves the remainder alone.
LEMMA ModShift ==
    ASSUME NEW k \in Nat, k > 0, NEW a \in Nat, a % k = 0, NEW i \in Nat
    PROVE  (a + i) % k = i % k
  <1>1. PICK q \in Nat : a = k * q + (a % k)
    BY ModParts
  <1>2. PICK r \in Nat : i = k * r + (i % k)
    BY ModParts
  <1>3. i % k \in 0 .. k - 1
    BY ModParts
  <1>4. a + i = k * (q + r) + (i % k)
    BY <1>1, <1>2, <1>3
  <1> DEFINE n == q + r
             m == i % k
  <1>5. n \in Int /\ m \in 0 .. k - 1 /\ a + i = k * n + m
    BY <1>1, <1>3, <1>4
  <1> HIDE DEF n, m
  <1>6. (k * n + m) % k = m
    BY <1>5, ModUnique
  <1> QED BY <1>5, <1>6 DEF m

\* A ring of m places: the places from `head' on are all different.
LEMMA RingPlace ==
    ASSUME NEW m \in Nat, m > 0, NEW h \in 0 .. m - 1, NEW i \in 0 .. m
    PROVE  /\ (h + i) % m = IF h + i < m THEN h + i ELSE h + i - m
           /\ (h + i) % m \in 0 .. m - 1
  <1>1. CASE h + i < m
    BY <1>1
  <1>2. CASE ~(h + i < m)
    <2> DEFINE r == h + i - m
    <2>1. r \in 0 .. m - 1 /\ h + i = m * 1 + r /\ 1 \in Int
      BY <1>2
    <2> HIDE DEF r
    <2>2. (m * 1 + r) % m = r
      BY <2>1, ModUnique
    <2>3. (h + i) % m = r
      BY <2>1, <2>2
    <2> QED BY <1>2, <2>1, <2>3 DEF r
  <1> QED BY <1>1, <1>2

\* The places of a ring are distinct, and moving its head renumbers them.
LEMMA RingPlaces ==
    ASSUME NEW m \in Nat, m > 0, NEW h \in 0 .. m - 1
    PROVE  /\ \A i, j \in 0 .. m - 1 : (h + i) % m = (h + j) % m => i = j
           /\ (h + 1) % m \in 0 .. m - 1
           /\ \A i \in 0 .. m - 1 : (((h + 1) % m) + i) % m = (h + (i + 1)) % m
  <1>1. ASSUME NEW i \in 0 .. m - 1, NEW j \in 0 .. m - 1, (h + i) % m = (h + j) % m
        PROVE  i = j
    BY <1>1, RingPlace
  <1>2. (h + 1) % m \in 0 .. m - 1 /\ (h + 1) % m = IF h + 1 < m THEN h + 1 ELSE 0
    BY RingPlace
  <1>3. ASSUME NEW i \in 0 .. m - 1
        PROVE  (((h + 1) % m) + i) % m = (h + (i + 1)) % m
    <2> DEFINE g == (h + 1) % m
    <2>1. g \in 0 .. m - 1 /\ g = IF h + 1 < m THEN h + 1 ELSE 0
      BY <1>2
    <2> HIDE DEF g
    <2>2. (g + i) % m = IF g + i < m THEN g + i ELSE g + i - m
      BY <2>1, RingPlace
    <2>3. i + 1 \in 0 .. m
      OBVIOUS
    <2>4. (h + (i + 1)) % m = IF h + (i + 1) < m THEN h + (i + 1) ELSE h + (i + 1) - m
      BY <2>3, RingPlace
    <2>5. (g + i) % m = (h + (i + 1)) % m
      BY <2>1, <2>2, <2>4
    <2> QED BY <2>5 DEF g
  <1> QED BY <1>1, <1>2, <1>3

\* A remainder is its own remainder.
LEMMA ModSmall ==
    ASSUME NEW m \in Nat, m > 0, NEW h \in 0 .. m - 1
    PROVE  h % m = h /\ (h + 0) % m = h
  <1>1. 0 \in Int /\ m * 0 + h = h /\ h + 0 = h
    OBVIOUS
  <1>2. (m * 0 + h) % m = h
    BY <1>1, ModUnique
  <1> QED BY <1>1, <1>2

\* Places less than k apart are different, wherever they are counted from.
LEMMA RingSlots ==
    ASSUME NEW k \in Nat, k > 0, NEW h \in Nat,
           NEW i \in 0 .. k - 1, NEW j \in 0 .. k - 1, (h + i) % k = (h + j) % k
    PROVE  i = j
  <1>1. PICK q \in Nat : h = k * q + (h % k)
    BY ModParts
  <1>2. h % k \in 0 .. k - 1
    BY ModParts
  <1> DEFINE r == h % k
             a == k * q
  <1>3. a \in Nat /\ a % k = 0
    <2>1. k * q \in Nat /\ 0 \in 0 .. k - 1 /\ q \in Int /\ k * q + 0 = k * q
      OBVIOUS
    <2>2. (k * q + 0) % k = 0
      BY <2>1, ModUnique
    <2> QED BY <2>1, <2>2
  <1>4. h = a + r /\ r \in 0 .. k - 1 /\ r \in Nat
    BY <1>1, <1>2
  <1> HIDE DEF a, r
  <1>5. ASSUME NEW n \in 0 .. k - 1 PROVE (h + n) % k = (r + n) % k
    <2>1. r + n \in Nat /\ h + n = a + (r + n)
      BY <1>3, <1>4
    <2>2. (a + (r + n)) % k = (r + n) % k
      BY <1>3, <2>1, ModShift
    <2> QED BY <2>1, <2>2
  <1>6. (r + i) % k = (r + j) % k
    BY <1>5
  <1> QED BY <1>4, <1>6, RingPlaces

\* When k divides m, the ring of m places goes round the slots of a direction in step.
LEMMA RingInStep ==
    ASSUME NEW m \in Nat, m > 0, NEW k \in Nat, k > 0, m % k = 0, NEW h \in 0 .. m - 1
    PROVE  /\ \A i \in Nat : (((h + 1) % m) + i) % k = (h + (i + 1)) % k
           /\ (((h + 1) % m) + (k - 1)) % k = (h + 0) % k
  <1>1. ASSUME NEW i \in Nat PROVE (((h + 1) % m) + i) % k = (h + (i + 1)) % k
    <2>1. (h + 1) % m = IF h + 1 < m THEN h + 1 ELSE 0
      BY RingPlace
    <2>2. CASE h + 1 < m
      <3>1. ((h + 1) % m) + i = h + (i + 1)
        BY <2>1, <2>2
      <3> QED BY <3>1
    <2>3. CASE ~(h + 1 < m)
      <3>1. h + (i + 1) = m + i /\ ((h + 1) % m) + i = i
        BY <2>1, <2>3
      <3>2. (m + i) % k = i % k
        BY ModShift
      <3> QED BY <3>1, <3>2
    <2> QED BY <2>2, <2>3
  <1>2. k - 1 \in Nat /\ h + ((k - 1) + 1) = k + h /\ h + 0 = h
    OBVIOUS
  <1>3. (((h + 1) % m) + (k - 1)) % k = (h + ((k - 1) + 1)) % k
    BY <1>1, <1>2
  <1>4. k % k = 0
    <2>1. 1 \in Int /\ 0 \in 0 .. k - 1 /\ k * 1 + 0 = k
      OBVIOUS
    <2>2. (k * 1 + 0) % k = 0
      BY <2>1, ModUnique
    <2> QED BY <2>1, <2>2
  <1>5. (k + h) % k = h % k
    <2>1. k \in Nat /\ h \in Nat
      OBVIOUS
    <2> QED BY <1>4, <2>1, ModShift
  <1> QED BY <1>1, <1>2, <1>3, <1>5

(***************************************************************************)
(* The persistent transport: the two queues and their pool.                 *)
(***************************************************************************)
TransportNames == {"started", "primed", "config", "pool", "dir", "count"}
TransportCounts ==
    [primes : Nat, steady : Nat, completions : Nat, cancels : Nat, failures : Nat,
     submitFailures : Nat, liveLimit : Nat, drift : Nat, gaps : Nat, mismatches : Nat,
     reuses : Nat, maxDepth : [Directions -> Nat]]
Requests == T!Request \cup {T!NoRequest}
QueueRecs ==
    [base : SlotIds, head : SlotIds, live : 0 .. MaxSlots, queue : [SlotIds -> Requests],
     next : Nat, expected : Nat]
EntryOf(q, i) == q.queue[(q.head + i) % MaxSlots]

\* The queue p is q with one request more, under the handle h.
Appended(q, h, p) ==
    /\ p \in QueueRecs /\ p.base = q.base /\ p.head = q.head /\ p.expected = q.expected
    /\ p.live = q.live + 1 /\ p.next = q.next + 1
    /\ \A i \in 0 .. q.live - 1 : EntryOf(p, i) = EntryOf(q, i)
    /\ EntryOf(p, q.live) = [handle |-> h, position |-> q.next]

\* The queue p is q without its oldest request.
Shortened(q, p) ==
    /\ p \in QueueRecs /\ p.base = q.base /\ p.head = (q.head + 1) % MaxSlots
    /\ p.next = q.next /\ p.expected = q.expected + 1 /\ p.live = q.live - 1
    /\ \A i \in 0 .. q.live - 2 : EntryOf(p, i) = EntryOf(q, i + 1)

\* The transport's own names for the requests of the pool.
LEMMA TransportRequests ==
    /\ \A h \in Handles, n \in Nat : [handle |-> h, position |-> n] \in Requests
    /\ \A r \in Requests : r.position \in Nat
    /\ T!NoRequest \in Requests
  <1>1. T!Handles = Handles
    BY TransportPool DEF T!Handles, Handles, T!Generations, Generations
  <1>2. T!NoRequest.position = 0
    BY DEF T!NoRequest
  <1> QED BY <1>1, <1>2 DEF Requests, T!Request

\* push_live()
LEMMA Appends ==
    ASSUME NEW q \in QueueRecs, q.live < MaxSlots, NEW h \in Handles,
           NEW p, p = [T!Push(q, [handle |-> h, position |-> q.next]) EXCEPT !.next = @ + 1]
    PROVE  Appended(q, h, p)
  <1> DEFINE r == [handle |-> h, position |-> q.next]
             k == (q.head + q.live) % MaxSlots
             e == [q.queue EXCEPT ![k] = r]
             l == q.live + 1
             n == q.next + 1
  <1>1. /\ MaxSlots \in Nat /\ MaxSlots > 0 /\ SlotIds = 0 .. MaxSlots - 1
        /\ q.live \in Nat /\ q.head \in SlotIds /\ q.next \in Nat /\ q.queue \in [SlotIds -> Requests]
        /\ q.base \in SlotIds /\ q.expected \in Nat /\ q.head \in 0 .. MaxSlots - 1
    BY PoolConstants DEF QueueRecs, SlotIds
  <1>2. r \in Requests
    BY <1>1, TransportRequests
  <1>3. p = [q EXCEPT !.queue = e, !.live = l, !.next = n]
    BY DEF T!Push, QueueRecs
  <1>4. k \in SlotIds /\ q.live \in 0 .. MaxSlots - 1
    <2>1. q.live \in 0 .. MaxSlots
      BY <1>1
    <2>2. (q.head + q.live) % MaxSlots \in 0 .. MaxSlots - 1
      BY <1>1, <2>1, RingPlace
    <2> QED BY <1>1, <2>1, <2>2
  <1>5. \A i \in 0 .. q.live - 1 : i \in 0 .. MaxSlots - 1 /\ i \in 0 .. MaxSlots /\ i # q.live
    BY <1>1
  <1>6. \A i \in 0 .. q.live - 1 : (q.head + i) % MaxSlots # k
    BY <1>1, <1>4, <1>5, RingPlaces
  <1>7. e \in [SlotIds -> Requests] /\ e[k] = r /\ \A j \in SlotIds : j # k => e[j] = q.queue[j]
    BY <1>1, <1>2, <1>4
  <1>8. l \in 0 .. MaxSlots /\ n \in Nat
    BY <1>1
  <1>9. \A i \in 0 .. q.live - 1 : (q.head + i) % MaxSlots \in SlotIds
    BY <1>1, <1>5, RingPlace
  <1> HIDE DEF r, k, e, l, n
  <1>10. /\ p \in QueueRecs /\ p.base = q.base /\ p.head = q.head /\ p.expected = q.expected
         /\ p.live = l /\ p.next = n /\ p.queue = e
    BY <1>1, <1>3, <1>7, <1>8 DEF QueueRecs
  <1>11. \A i \in 0 .. q.live - 1 : EntryOf(p, i) = EntryOf(q, i)
    BY <1>6, <1>7, <1>9, <1>10 DEF EntryOf
  <1>12. EntryOf(p, q.live) = r
    BY <1>7, <1>10 DEF EntryOf, k
  <1> QED BY <1>10, <1>11, <1>12 DEF Appended, l, n, r

\* pop_live()
LEMMA Shortens ==
    ASSUME NEW q \in QueueRecs, q.live > 0,
           NEW p, p = [T!Popped(q) EXCEPT !.expected = @ + 1]
    PROVE  Shortened(q, p)
  <1> DEFINE e == [q.queue EXCEPT ![q.head] = T!NoRequest]
             k == (q.head + 1) % MaxSlots
             l == q.live - 1
             n == q.expected + 1
  <1>1. /\ MaxSlots \in Nat /\ MaxSlots > 0 /\ SlotIds = 0 .. MaxSlots - 1
        /\ q.live \in 0 .. MaxSlots /\ q.head \in SlotIds /\ q.next \in Nat
        /\ q.queue \in [SlotIds -> Requests]
        /\ q.base \in SlotIds /\ q.expected \in Nat /\ q.head \in 0 .. MaxSlots - 1
        /\ 0 \in 0 .. MaxSlots
    BY PoolConstants DEF QueueRecs, SlotIds
  <1>2. p = [q EXCEPT !.queue = e, !.head = k, !.live = l, !.expected = n]
    BY DEF T!Popped, QueueRecs
  <1>3. k \in SlotIds /\ l \in 0 .. MaxSlots /\ n \in Nat
    <2>1. k \in 0 .. MaxSlots - 1
      BY <1>1, RingPlaces
    <2> QED BY <1>1, <2>1
  <1>4. \A i \in 0 .. q.live - 2 : /\ i \in 0 .. MaxSlots - 1 /\ i + 1 \in 0 .. MaxSlots - 1
                                   /\ i + 1 # 0 /\ 0 \in 0 .. MaxSlots - 1 /\ i + 1 \in 0 .. MaxSlots
    BY <1>1
  <1>5. (q.head + 0) % MaxSlots = q.head
    BY <1>1, ModSmall
  <1>6. \A i \in 0 .. q.live - 2 : /\ (q.head + (i + 1)) % MaxSlots # q.head
                                   /\ (q.head + (i + 1)) % MaxSlots \in SlotIds
                                   /\ (k + i) % MaxSlots = (q.head + (i + 1)) % MaxSlots
    <2> TAKE i \in 0 .. q.live - 2
    <2>1. (q.head + (i + 1)) % MaxSlots # (q.head + 0) % MaxSlots
      BY <1>1, <1>4, RingPlaces
    <2>2. (q.head + (i + 1)) % MaxSlots \in SlotIds
      BY <1>1, <1>4, RingPlace
    <2>3. (k + i) % MaxSlots = (q.head + (i + 1)) % MaxSlots
      BY <1>1, <1>4, RingPlaces
    <2> QED BY <1>5, <2>1, <2>2, <2>3
  <1>7. e \in [SlotIds -> Requests] /\ \A j \in SlotIds : j # q.head => e[j] = q.queue[j]
    BY <1>1, TransportRequests
  <1> HIDE DEF e, k, l, n
  <1>8. /\ p \in QueueRecs /\ p.base = q.base /\ p.head = k /\ p.expected = n
        /\ p.live = l /\ p.next = q.next /\ p.queue = e
    BY <1>1, <1>2, <1>3, <1>7 DEF QueueRecs
  <1>9. \A i \in 0 .. q.live - 2 : EntryOf(p, i) = EntryOf(q, i + 1)
    BY <1>6, <1>7, <1>8 DEF EntryOf
  <1> QED BY <1>8, <1>9 DEF Shortened, k, l, n

\* The requests of a queue are consecutive.
Linked(q) ==
    /\ q.next = q.expected + q.live
    /\ \A i \in 0 .. q.live - 1 : EntryOf(q, i).position = q.expected + i

\* A request more, or one fewer, leaves them so.
LEMMA StayLinked ==
    ASSUME NEW q \in QueueRecs, Linked(q), NEW p
    PROVE  /\ \A h : Appended(q, h, p) => Linked(p)
           /\ q.live > 0 /\ Shortened(q, p) => Linked(p) /\ EntryOf(q, 0).position = q.expected
  <1>1. q.live \in Nat /\ q.next \in Nat /\ q.expected \in Nat
    BY DEF QueueRecs
  <1>2. ASSUME NEW h, Appended(q, h, p) PROVE Linked(p)
    <2>1. p.next = p.expected + p.live /\ p.live = q.live + 1 /\ p.expected = q.expected
      BY <1>1, <1>2 DEF Appended, Linked
    <2>2. EntryOf(p, q.live).position = p.expected + q.live
      BY <1>1, <1>2 DEF Appended, Linked
    <2>3. \A i \in 0 .. q.live - 1 : EntryOf(p, i).position = p.expected + i
      BY <1>1, <1>2 DEF Appended, Linked
    <2>4. \A i \in 0 .. p.live - 1 : i \in 0 .. q.live - 1 \/ i = q.live
      BY <1>1, <2>1
    <2> QED BY <2>1, <2>2, <2>3, <2>4 DEF Linked
  <1>3. ASSUME q.live > 0, Shortened(q, p) PROVE Linked(p) /\ EntryOf(q, 0).position = q.expected
    <2>1. p.next = p.expected + p.live /\ p.live = q.live - 1 /\ p.expected = q.expected + 1
      BY <1>1, <1>3 DEF Shortened, Linked
    <2>2. ASSUME NEW i \in 0 .. p.live - 1 PROVE EntryOf(p, i).position = p.expected + i
      <3>1. i \in 0 .. q.live - 2 /\ i + 1 \in 0 .. q.live - 1 /\ i \in Nat
        BY <1>1, <2>1
      <3>2. EntryOf(p, i) = EntryOf(q, i + 1) /\ EntryOf(q, i + 1).position = q.expected + (i + 1)
        BY <1>3, <3>1 DEF Shortened, Linked
      <3> QED BY <1>1, <2>1, <3>1, <3>2
    <2>3. 0 \in 0 .. q.live - 1
      BY <1>1, <1>3
    <2>4. EntryOf(q, 0).position = q.expected + 0
      BY <2>3 DEF Linked
    <2> QED BY <1>1, <2>1, <2>2, <2>4 DEF Linked
  <1> QED BY <1>2, <1>3

Place(t, d, i) == t.dir[d].base + ((t.dir[d].head + i) % t.config[d])
IsTransport(t) ==
    /\ DOMAIN t = TransportNames /\ t.started \in BOOLEAN /\ t.primed \in BOOLEAN
    /\ t.config \in T!Configs /\ Sound(t.pool) /\ t.dir \in [Directions -> QueueRecs]
    /\ t.count \in TransportCounts
    /\ \A d \in Directions : t.dir[d].live <= t.config[d]

\* The transport u is t with the queue of d or the pool changed.
Kept(t, u) ==
    /\ IsTransport(u) /\ u.started = t.started /\ u.primed = t.primed /\ u.config = t.config
    /\ u.pool.started = t.pool.started /\ u.pool.slots = t.pool.slots
Beside(t, d, u) ==
    /\ Kept(t, u) /\ u.dir[d].base = t.dir[d].base
    /\ \A e \in Directions : e # d => u.dir[e] = t.dir[e]

\* The counters after a submission.
Submitted(c, prime, e) ==
    /\ e \in TransportCounts
    /\ e.primes = c.primes + (IF prime THEN 1 ELSE 0)
    /\ e.steady = c.steady + (IF prime THEN 0 ELSE 1)
    /\ e.reuses = c.reuses + (IF prime THEN 0 ELSE 1)
    /\ e.completions = c.completions /\ e.cancels = c.cancels /\ e.failures = c.failures
    /\ e.submitFailures = c.submitFailures /\ e.liveLimit = c.liveLimit /\ e.drift = c.drift
    /\ e.gaps = c.gaps /\ e.mismatches = c.mismatches /\ e.maxDepth = c.maxDepth

Descriptor(d) == [dir |-> d, size |-> 1]

\* The transport u is t after a submission for d into slot s.
SentTo(t, d, prime, s, u) ==
    /\ Beside(t, d, u) /\ Took(t.pool, s, Descriptor(d), u.pool)
    /\ Appended(t.dir[d], HandleOf(t.pool, s), u.dir[d])
    /\ Submitted(t.count, prime, u.count)

\* The transport u is t with the pool q and the counters f.
Recounted(t, q, f, u) == u = [t EXCEPT !.pool = q, !.count = f]

\* A failure is counted, and nothing else happens to the queues.
LEMMA FailureCounted ==
    ASSUME NEW t, IsTransport(t), NEW q, Sound(q), q.started = t.pool.started,
           q.slots = t.pool.slots, NEW f \in TransportCounts,
           NEW u, Recounted(t, q, f, u)
    PROVE  Kept(t, u) /\ u.dir = t.dir
  <1>1. /\ DOMAIN u = TransportNames /\ u.started = t.started /\ u.primed = t.primed
        /\ u.config = t.config /\ u.pool = q /\ u.dir = t.dir /\ u.count = f
    BY DEF Recounted, IsTransport, TransportNames
  <1> QED BY <1>1 DEF Kept, IsTransport

\* The counters that failures move.
LEMMA FailureCounts ==
    ASSUME NEW c \in TransportCounts
    PROVE  /\ [c EXCEPT !.submitFailures = @ + 1] \in TransportCounts
           /\ [[c EXCEPT !.submitFailures = @ + 1] EXCEPT !.liveLimit = @ + 1] \in TransportCounts
           /\ [[c EXCEPT !.submitFailures = @ + 1] EXCEPT !.mismatches = @ + 1] \in TransportCounts
  <1> DEFINE e == [c EXCEPT !.submitFailures = @ + 1]
  <1>1. e \in TransportCounts
    BY DEF TransportCounts
  <1> HIDE DEF e
  <1>2. [e EXCEPT !.liveLimit = @ + 1] \in TransportCounts
    BY <1>1 DEF TransportCounts
  <1>3. [e EXCEPT !.mismatches = @ + 1] \in TransportCounts
    BY <1>1 DEF TransportCounts
  <1> QED BY <1>1, <1>2, <1>3 DEF e

\* A request whose slot is the one expected joins the queue.
LEMMA RequestJoins ==
    ASSUME NEW t, IsTransport(t), NEW d \in Directions, t.dir[d].live < t.config[d],
           NEW prime \in BOOLEAN, NEW s \in SlotIds, s = FreeSlot(t.pool), CanSubmit(t.pool),
           s = T!ExpectedSlot(t, d), s < t.pool.slots, ~t.pool.inUse[s],
           NEW u, u = T!SubmitNext(t, d, prime)
    PROVE  SentTo(t, d, prime, s, u)
  <1> DEFINE x == Descriptor(d)
             r == PoolSubmit(t.pool, x)
             q == r.pool
             h == HandleOf(t.pool, s)
             k == [T!Push(t.dir[d], [handle |-> h, position |-> t.dir[d].next])
                       EXCEPT !.next = @ + 1]
             v == [t.dir EXCEPT ![d] = k]
             a == IF prime THEN t.count.primes + 1 ELSE t.count.primes
             b == IF prime THEN t.count.steady ELSE t.count.steady + 1
             c == IF prime THEN t.count.reuses ELSE t.count.reuses + 1
             e == [t.count EXCEPT !.primes = a, !.steady = b, !.reuses = c]
  <1>1. Sound(t.pool) /\ t.dir \in [Directions -> QueueRecs] /\ t.count \in TransportCounts
        /\ t.config \in T!Configs /\ t.dir[d] \in QueueRecs
    BY DEF IsTransport
  <1>2. t.config[d] <= MaxSlots /\ t.config[d] \in Nat /\ t.dir[d].live \in Nat
    BY <1>1, PoolConstants DEF T!Configs, Directions, QueueRecs
  <1>3. x.dir \in Directions /\ x.size \in Nat /\ x.dir = d
    BY DEF Descriptor
  <1> HIDE DEF x
  <1>4. r.handle = h /\ Took(t.pool, s, x, q)
    BY <1>1, <1>3, SubmitsInto
  <1>5. h.slot = s /\ h # NoHandle /\ h \in Handles
    <2>1. h.slot = s /\ h.gen = t.pool.gen[s] /\ t.pool.gen[s] \in Generations
          /\ h = [slot |-> s, gen |-> t.pool.gen[s]]
      BY <1>1 DEF HandleOf, Sound
    <2>2. s # -1
      BY PoolConstants DEF SlotIds
    <2> QED BY <2>1, <2>2 DEF NoHandle, Handles
  <1>6. r = T!PoolSubmit(t.pool, [dir |-> d, size |-> 1]) /\ T!NoHandle = NoHandle
    BY TransportPool DEF x, Descriptor
  <1> HIDE DEF r, q, h
  <1>7. u = T!Issue(t, d, prime)
    <2>1. ~(t.dir[d].live >= t.config[d])
      BY <1>2
    <2> QED BY <2>1 DEF T!SubmitNext, T!Depth
  <1> HIDE DEF k
  <1>8. Appended(t.dir[d], h, k)
    <2> DEFINE z == t.dir[d]
    <2>1. z \in QueueRecs /\ z.live < MaxSlots /\ h \in Handles
      BY <1>1, <1>2, <1>5, PoolConstants
    <2>2. k = [T!Push(z, [handle |-> h, position |-> z.next]) EXCEPT !.next = @ + 1]
      BY DEF k
    <2> HIDE DEF z
    <2>3. Appended(z, h, k)
      BY <2>1, <2>2, Appends
    <2> QED BY <2>3 DEF z
  <1>9. u = [t EXCEPT !.pool = q, !.dir = v, !.count = e]
    <2> DEFINE p == [t EXCEPT !.pool = q]
    <2>1. u = [p EXCEPT !.dir[d] = k, !.count.primes = IF prime THEN @ + 1 ELSE @,
                        !.count.steady = IF prime THEN @ ELSE @ + 1,
                        !.count.reuses = IF prime THEN @ ELSE @ + 1]
      BY <1>4, <1>5, <1>6, <1>7 DEF T!Issue, k, q
    <2>2. p.dir = t.dir /\ p.count = t.count /\ DOMAIN p = TransportNames
      BY DEF IsTransport, TransportNames
    <2>3. u = [p EXCEPT !.dir[d] = k, !.count.primes = a, !.count.steady = b, !.count.reuses = c]
      BY <1>1, <2>1, <2>2 DEF TransportCounts
    <2> HIDE DEF a, b, c, p
    <2>4. u = [p EXCEPT !.dir = v, !.count = e]
      BY <1>1, <2>2, <2>3 DEF TransportNames, TransportCounts
    <2> HIDE DEF v, e
    <2> QED BY <2>4 DEF IsTransport, TransportNames, p
  <1>10. Submitted(t.count, prime, e)
    <2>1. a \in Nat /\ b \in Nat /\ c \in Nat
      BY <1>1 DEF TransportCounts
    <2>2. /\ a = t.count.primes + (IF prime THEN 1 ELSE 0)
          /\ b = t.count.steady + (IF prime THEN 0 ELSE 1)
          /\ c = t.count.reuses + (IF prime THEN 0 ELSE 1)
      BY <1>1 DEF TransportCounts
    <2> HIDE DEF a, b, c
    <2> QED BY <1>1, <2>1, <2>2 DEF Submitted, TransportCounts
  <1>11. v \in [Directions -> QueueRecs] /\ v[d] = k /\ \A f \in Directions : f # d => v[f] = t.dir[f]
    BY <1>1, <1>8 DEF Appended
  <1> HIDE DEF v, e
  <1>12. /\ DOMAIN u = TransportNames /\ u.started = t.started /\ u.primed = t.primed
         /\ u.config = t.config /\ u.pool = q /\ u.dir = v /\ u.count = e
    BY <1>9 DEF IsTransport, TransportNames
  <1>13. \A f \in Directions : u.dir[f].live <= u.config[f]
    <2>1. k.live = t.dir[d].live + 1 /\ k.live <= t.config[d]
      BY <1>2, <1>8 DEF Appended
    <2> QED BY <1>11, <1>12, <2>1 DEF IsTransport
  <1>14. Sound(q) /\ q.started = t.pool.started /\ q.slots = t.pool.slots
    BY <1>4 DEF Took
  <1>15. IsTransport(u)
    BY <1>1, <1>10, <1>11, <1>12, <1>13, <1>14 DEF IsTransport, Submitted
  <1>16. Beside(t, d, u)
    BY <1>8, <1>11, <1>12, <1>14, <1>15 DEF Beside, Kept, Appended
  <1> QED BY <1>4, <1>8, <1>10, <1>11, <1>12, <1>16 DEF SentTo, x, h

\* submit_next(), whatever comes of it.
LEMMA Submits ==
    ASSUME NEW t, IsTransport(t), NEW d \in Directions, NEW prime \in BOOLEAN,
           NEW u, u = T!SubmitNext(t, d, prime)
    PROVE  (Kept(t, u) /\ u.dir = t.dir) \/ \E s \in SlotIds : SentTo(t, d, prime, s, u)
  <1> DEFINE r == PoolSubmit(t.pool, Descriptor(d))
             f == [t.count EXCEPT !.submitFailures = @ + 1]
             g == [f EXCEPT !.liveLimit = @ + 1]
             m == [f EXCEPT !.mismatches = @ + 1]
  <1>1. Sound(t.pool) /\ t.dir[d] \in QueueRecs /\ t.count \in TransportCounts /\ t.config \in T!Configs
    BY DEF IsTransport
  <1>2. f \in TransportCounts /\ g \in TransportCounts /\ m \in TransportCounts
    BY <1>1, FailureCounts
  <1>3. t.config[d] \in Nat /\ t.dir[d].live \in Nat
    BY <1>1, PoolConstants DEF T!Configs, Directions, QueueRecs
  <1>4. r = T!PoolSubmit(t.pool, [dir |-> d, size |-> 1]) /\ T!NoHandle = NoHandle
    BY TransportPool DEF Descriptor
  <1>5. CASE t.dir[d].live >= t.config[d]
    <2>1. u = [T!Failure(t) EXCEPT !.count.liveLimit = @ + 1]
      BY <1>5 DEF T!SubmitNext, T!Depth
    <2>2. Recounted(t, t.pool, g, u)
      BY <1>1, <2>1 DEF Recounted, T!Failure, IsTransport, TransportNames, TransportCounts
    <2> HIDE DEF f, g, m
    <2> QED BY <1>1, <1>2, <2>2, FailureCounted
  <1>6. CASE ~(t.dir[d].live >= t.config[d])
    <2>1. u = T!Issue(t, d, prime) /\ t.dir[d].live < t.config[d]
      BY <1>3, <1>6 DEF T!SubmitNext, T!Depth
    <2> DEFINE p == [t EXCEPT !.pool = r.pool]
    <2>2. CASE ~CanSubmit(t.pool)
      <3>1. r.handle = NoHandle /\ SameSlots(t.pool, r.pool)
        BY <1>1, <2>2, SubmitsNowhere
      <3>2. u = T!Failure(p)
        BY <1>4, <2>1, <3>1 DEF T!Issue
      <3> HIDE DEF r
      <3>3. Recounted(t, r.pool, f, u)
        BY <1>1, <3>2 DEF Recounted, T!Failure, IsTransport, TransportNames, TransportCounts
      <3> HIDE DEF f, p
      <3> QED BY <1>2, <3>1, <3>3, FailureCounted DEF SameSlots
    <2>3. CASE CanSubmit(t.pool)
      <3> DEFINE s == FreeSlot(t.pool)
                 x == Descriptor(d)
      <3>1. \E k \in SlotIds : IsFreeSlot(t.pool, k)
        BY <2>3 DEF CanSubmit, HasFreeSlot
      <3>2. s \in SlotIds /\ IsFreeSlot(t.pool, s)
        BY <3>1 DEF FreeSlot
      <3>3. s < t.pool.slots /\ ~t.pool.inUse[s]
        <4>1. t.pool.slots \in Nat
          BY <1>1, PoolConstants DEF Sound
        <4> HIDE DEF s
        <4> QED BY <3>2, <4>1 DEF IsFreeSlot, ConfiguredSlots
      <3> HIDE DEF s
      <3>4. x.dir \in Directions /\ x.size \in Nat
        BY DEF Descriptor
      <3> HIDE DEF x
      <3>5. r.handle = HandleOf(t.pool, s) /\ Took(t.pool, s, x, r.pool)
        <4>1. r = PoolSubmit(t.pool, x)
          BY DEF x
        <4> HIDE DEF r
        <4> QED BY <1>1, <2>3, <3>2, <3>3, <3>4, <4>1, SubmitsInto DEF s
      <3>6. r.handle.slot = s /\ r.handle # NoHandle
        <4>1. s # -1
          BY <3>2, PoolConstants DEF SlotIds
        <4> QED BY <3>5, <4>1 DEF HandleOf, NoHandle
      <3>7. CASE s = T!ExpectedSlot(t, d)
        <4>1. SentTo(t, d, prime, s, u)
          BY <2>1, <2>3, <3>2, <3>3, <3>7, RequestJoins DEF s
        <4> QED BY <3>2, <4>1
      <3>8. CASE s # T!ExpectedSlot(t, d)
        <4>1. u = [T!Failure(p) EXCEPT !.count.mismatches = @ + 1]
          BY <1>4, <2>1, <3>6, <3>8 DEF T!Issue
        <4> HIDE DEF r
        <4>2. Recounted(t, r.pool, m, u)
          BY <1>1, <4>1 DEF Recounted, T!Failure, IsTransport, TransportNames, TransportCounts
        <4> HIDE DEF f, g, m, p
        <4> QED BY <1>2, <3>5, <4>2, FailureCounted DEF Took
      <3> QED BY <3>7, <3>8
    <2> QED BY <2>2, <2>3
  <1> QED BY <1>5, <1>6

\* The counters after a completion; `failed' and `gap' say what was wrong with it.
Completed(c, failed, gap, e) ==
    /\ e \in TransportCounts
    /\ e.completions = c.completions + 1
    /\ e.failures = (IF failed THEN c.failures + 1 ELSE c.failures)
    /\ e.gaps = (IF gap THEN c.gaps + 1 ELSE c.gaps)
    /\ e.primes = c.primes /\ e.steady = c.steady /\ e.reuses = c.reuses /\ e.cancels = c.cancels
    /\ e.submitFailures = c.submitFailures /\ e.liveLimit = c.liveLimit /\ e.drift = c.drift
    /\ e.mismatches = c.mismatches /\ e.maxDepth = c.maxDepth

Oldest(t, d) == EntryOf(t.dir[d], 0)

\* The transport u is t after its oldest request for d has been retired.
RetiredFrom(t, d, u) ==
    /\ Beside(t, d, u) /\ Shortened(t.dir[d], u.dir[d])
    /\ u.pool = PoolComplete(t.pool, Oldest(t, d).handle)
    /\ Completed(t.count, ~Accepts(t.pool, Oldest(t, d).handle),
                 Oldest(t, d).position # t.dir[d].expected, u.count)

\* What retire_oldest does to the queue, the pool and the counters.
LEMMA Retires ==
    ASSUME NEW t, IsTransport(t), NEW d \in Directions, t.dir[d].live > 0,
           NEW u, u = T!RetireOldest(t, d)
    PROVE  RetiredFrom(t, d, u)
  <1> DEFINE o == Oldest(t, d)
             failed == ~Accepts(t.pool, o.handle)
             gap == o.position # t.dir[d].expected
             q == PoolComplete(t.pool, o.handle)
             k == [T!Popped(t.dir[d]) EXCEPT !.expected = @ + 1]
             v == [t.dir EXCEPT ![d] = k]
             a == IF failed THEN t.count.failures + 1 ELSE t.count.failures
             b == IF gap THEN t.count.gaps + 1 ELSE t.count.gaps
             c == t.count.completions + 1
             e == [t.count EXCEPT !.failures = a, !.gaps = b, !.completions = c]
  <1>1. Sound(t.pool) /\ t.dir \in [Directions -> QueueRecs] /\ t.count \in TransportCounts
        /\ t.config \in T!Configs /\ t.dir[d] \in QueueRecs
    BY DEF IsTransport
  <1>2. t.config[d] <= MaxSlots /\ t.config[d] \in Nat /\ t.dir[d].live \in Nat
    BY <1>1, PoolConstants DEF T!Configs, Directions, QueueRecs
  <1>3. o = t.dir[d].queue[t.dir[d].head]
    <2>1. t.dir[d].head \in 0 .. MaxSlots - 1 /\ MaxSlots \in Nat /\ MaxSlots > 0
      BY <1>1, PoolConstants DEF QueueRecs, SlotIds
    <2>2. (t.dir[d].head + 0) % MaxSlots = t.dir[d].head
      BY <2>1, ModSmall
    <2> QED BY <2>2 DEF Oldest, EntryOf
  <1> HIDE DEF o
  <1>4. Sound(q) /\ q.started = t.pool.started /\ q.slots = t.pool.slots
    <2>1. CASE failed
      <3>1. SameSlots(t.pool, q)
        BY <1>1, <2>1, CompletesNothing
      <3> QED BY <3>1 DEF SameSlots
    <2>2. CASE ~failed
      <3> DEFINE h == o.handle
      <3>1. Accepts(t.pool, h) /\ q = PoolComplete(t.pool, h)
        BY <2>2
      <3> HIDE DEF q, h
      <3>2. Freed(t.pool, h.slot, q)
        BY <1>1, <3>1, CompletesSlot
      <3> QED BY <3>2 DEF Freed
    <2> QED BY <2>1, <2>2
  <1>5. Shortened(t.dir[d], k)
    <2> DEFINE z == t.dir[d]
    <2>1. z \in QueueRecs /\ z.live > 0
      BY <1>1
    <2>2. k = [T!Popped(z) EXCEPT !.expected = @ + 1]
      OBVIOUS
    <2> HIDE DEF z, k
    <2>3. Shortened(z, k)
      BY <2>1, <2>2, Shortens
    <2> QED BY <2>3 DEF z
  <1>6. u = [t EXCEPT !.pool = q, !.dir = v, !.count = e]
    <2>1. /\ T!PoolComplete(t.pool, o.handle) = q
          /\ T!Accepts(t.pool, o.handle) = Accepts(t.pool, o.handle)
      BY TransportPool
    <2>2. u = [t EXCEPT !.pool = T!PoolComplete(@, o.handle),
                        !.dir[d] = k,
                        !.count.failures = IF ~T!Accepts(t.pool, o.handle) THEN @ + 1 ELSE @,
                        !.count.gaps = IF gap THEN @ + 1 ELSE @,
                        !.count.completions = @ + 1]
      BY <1>3 DEF T!RetireOldest
    <2>3. u = [t EXCEPT !.pool = T!PoolComplete(t.pool, o.handle),
                        !.dir[d] = k, !.count.failures = a, !.count.gaps = b,
                        !.count.completions = c]
      BY <1>1, <2>1, <2>2 DEF TransportCounts
    <2> HIDE DEF a, b, c, k, q
    <2>4. u = [t EXCEPT !.pool = q, !.dir[d] = k, !.count.failures = a, !.count.gaps = b,
                        !.count.completions = c]
      BY <2>1, <2>3 DEF q
    <2> QED BY <1>1, <2>4 DEF IsTransport, TransportNames, TransportCounts
  <1>7. a \in Nat /\ b \in Nat /\ c \in Nat
    BY <1>1 DEF TransportCounts
  <1>8. Completed(t.count, failed, gap, e)
    <2> DEFINE f == failed
               g == gap
    <2>1. a = (IF f THEN t.count.failures + 1 ELSE t.count.failures)
          /\ b = (IF g THEN t.count.gaps + 1 ELSE t.count.gaps) /\ c = t.count.completions + 1
      OBVIOUS
    <2> HIDE DEF a, b, c, f, g
    <2>2. Completed(t.count, f, g, e)
      BY <1>1, <1>7, <2>1 DEF Completed, TransportCounts
    <2> QED BY <2>2 DEF f, g
  <1>9. v \in [Directions -> QueueRecs] /\ v[d] = k /\ \A f \in Directions : f # d => v[f] = t.dir[f]
    BY <1>1, <1>5 DEF Shortened
  <1> HIDE DEF v, e, k, q, failed, gap
  <1>10. /\ DOMAIN u = TransportNames /\ u.started = t.started /\ u.primed = t.primed
         /\ u.config = t.config /\ u.pool = q /\ u.dir = v /\ u.count = e
    BY <1>6 DEF IsTransport, TransportNames
  <1>11. \A f \in Directions : u.dir[f].live <= u.config[f]
    <2>1. k.live = t.dir[d].live - 1 /\ t.dir[d].live <= t.config[d]
      BY <1>2, <1>5 DEF Shortened, IsTransport
    <2>2. k.live <= t.config[d]
      BY <1>2, <2>1
    <2> QED BY <1>9, <1>10, <2>2 DEF IsTransport
  <1>12. IsTransport(u)
    BY <1>1, <1>4, <1>8, <1>9, <1>10, <1>11 DEF IsTransport, Completed
  <1>13. Beside(t, d, u)
    BY <1>4, <1>5, <1>9, <1>10, <1>12 DEF Beside, Kept, Shortened
  <1> QED BY <1>5, <1>8, <1>9, <1>10, <1>13 DEF RetiredFrom, q, failed, gap, o

\* The transport u is t with the depth of d accounted for.
Accounted(t, d, u) ==
    /\ Kept(t, u) /\ u.pool = t.pool /\ u.dir = t.dir
    /\ u.count.primes = t.count.primes /\ u.count.steady = t.count.steady
    /\ u.count.reuses = t.count.reuses /\ u.count.cancels = t.count.cancels
    /\ u.count.completions = t.count.completions /\ u.count.failures = t.count.failures
    /\ u.count.submitFailures = t.count.submitFailures
    /\ u.count.liveLimit = t.count.liveLimit /\ u.count.gaps = t.count.gaps
    /\ u.count.mismatches = t.count.mismatches
    /\ t.dir[d].live = t.config[d] => u.count.drift = t.count.drift
    /\ \A f \in Directions : u.count.maxDepth[f] =
           IF f = d /\ t.dir[d].live > t.count.maxDepth[d] THEN t.dir[d].live
           ELSE t.count.maxDepth[f]

\* What account_depth does to the counters.
LEMMA AccountsDepth ==
    ASSUME NEW t, IsTransport(t), NEW d \in Directions, NEW u, u = T!AccountDepth(t, d)
    PROVE  Accounted(t, d, u)
  <1> DEFINE a == IF t.dir[d].live = t.config[d] THEN t.count.drift ELSE t.count.drift + 1
             n == IF t.count.maxDepth[d] > t.dir[d].live THEN t.count.maxDepth[d] ELSE t.dir[d].live
             m == [t.count.maxDepth EXCEPT ![d] = n]
             e == [t.count EXCEPT !.drift = a, !.maxDepth = m]
  <1>1. /\ t.count \in TransportCounts /\ t.dir[d].live \in Nat /\ t.count.drift \in Nat
        /\ t.count.maxDepth \in [Directions -> Nat] /\ t.count.maxDepth[d] \in Nat
    BY PoolConstants DEF IsTransport, QueueRecs, TransportCounts
  <1>2. u = [t EXCEPT !.count = e]
    <2>1. u = [t EXCEPT !.count.drift = a, !.count.maxDepth[d] = n]
      BY DEF T!AccountDepth, T!Larger, T!Depth
    <2> HIDE DEF a, n
    <2> QED BY <1>1, <2>1 DEF IsTransport, TransportNames, TransportCounts
  <1>3. a \in Nat /\ n \in Nat
    BY <1>1
  <1>4. /\ m \in [Directions -> Nat]
        /\ \A f \in Directions : m[f] =
               IF f = d /\ t.dir[d].live > t.count.maxDepth[d] THEN t.dir[d].live
               ELSE t.count.maxDepth[f]
    BY <1>1, <1>3
  <1>5. t.dir[d].live = t.config[d] => a = t.count.drift
    OBVIOUS
  <1> HIDE DEF a, n, m
  <1>6. /\ e \in TransportCounts /\ e.maxDepth = m /\ e.drift = a
        /\ e.primes = t.count.primes /\ e.steady = t.count.steady /\ e.reuses = t.count.reuses
        /\ e.cancels = t.count.cancels /\ e.completions = t.count.completions
        /\ e.failures = t.count.failures /\ e.submitFailures = t.count.submitFailures
        /\ e.liveLimit = t.count.liveLimit /\ e.gaps = t.count.gaps
        /\ e.mismatches = t.count.mismatches
    BY <1>1, <1>3, <1>4 DEF TransportCounts
  <1> HIDE DEF e
  <1>7. /\ DOMAIN u = TransportNames /\ u.started = t.started /\ u.primed = t.primed
        /\ u.config = t.config /\ u.pool = t.pool /\ u.dir = t.dir /\ u.count = e
    BY <1>2 DEF IsTransport, TransportNames
  <1>8. Kept(t, u)
    BY <1>6, <1>7 DEF Kept, IsTransport
  <1> QED BY <1>4, <1>5, <1>6, <1>7, <1>8 DEF Accounted

\* complete_next() of a direction with live requests, whatever comes of it.
LEMMA Completes ==
    ASSUME NEW t, IsTransport(t), NEW d \in Directions, t.dir[d].live > 0, Linked(t.dir[d]),
           NEW u, u = T!AfterCompletion(t, d)
    PROVE  Beside(t, d, u) /\ Linked(u.dir[d])
  <1> DEFINE r == T!RetireOldest(t, d)
             s == T!SubmitNext(r, d, FALSE)
  <1>1. u = T!AccountDepth(s, d)
    BY DEF T!AfterCompletion
  <1>2. RetiredFrom(t, d, r)
    BY Retires
  <1> HIDE DEF r
  <1>3. IsTransport(r) /\ Linked(r.dir[d]) /\ Beside(t, d, r) /\ r.dir[d] \in QueueRecs
    <2>1. t.dir[d] \in QueueRecs
      BY DEF IsTransport
    <2> QED BY <1>2, <2>1, StayLinked DEF RetiredFrom, Beside, Kept, Shortened
  <1>4. (Kept(r, s) /\ s.dir = r.dir) \/ \E k \in SlotIds : SentTo(r, d, FALSE, k, s)
    BY <1>3, Submits
  <1> HIDE DEF s
  <1>5. Linked(s.dir[d]) /\ IsTransport(s) /\ Beside(t, d, s)
    <2>1. CASE Kept(r, s) /\ s.dir = r.dir
      BY <1>3, <2>1 DEF Beside, Kept
    <2>2. CASE \E k \in SlotIds : SentTo(r, d, FALSE, k, s)
      BY <1>3, <2>2, StayLinked DEF SentTo, Beside, Kept
    <2> QED BY <1>4, <2>1, <2>2
  <1>6. Accounted(s, d, u)
    BY <1>1, <1>5, AccountsDepth
  <1> QED BY <1>5, <1>6 DEF Accounted, Beside, Kept

Together(t) == t.config.capture + t.config.playback
Opened(t) ==
    /\ T!ConfigValid(t.config) /\ t.pool.started /\ t.pool.slots = t.config.slots
    /\ \A d \in Directions : t.dir[d].base = T!BaseFor(t.config, d)

\* Every queued request is live in the slot of its place, in the range of its direction.
Held(t) ==
    \A d \in Directions : \A i \in 0 .. t.dir[d].live - 1 :
        /\ EntryOf(t.dir[d], i).handle = HandleOf(t.pool, Place(t, d, i))
        /\ t.pool.desc[Place(t, d, i)].dir = d

\* Both queues are full, and the pool has their requests and no others.
Full(t) ==
    /\ t.pool.count.live = Together(t)
    /\ \A s \in SlotIds : t.pool.inUse[s] <=> s < Together(t)
    /\ \A d \in Directions : t.dir[d].live = t.config[d]
    /\ Held(t)

\* The depth of a queue divides the ring that it is kept in.
InStep(t) == \A d \in Directions : t.config[d] > 0 => MaxSlots % t.config[d] = 0

\* The places of a direction are in its slot range, and those of live requests differ.
LEMMA PlacesApart ==
    ASSUME NEW t, IsTransport(t), Opened(t)
    PROVE  /\ Together(t) \in Nat /\ Together(t) <= t.pool.slots /\ Together(t) <= MaxSlots
           /\ \A d \in Directions : /\ t.config[d] \in Nat /\ t.config[d] > 0
                                    /\ t.config[d] <= MaxSlots /\ t.dir[d].head \in Nat
           /\ \A d \in Directions : \A i \in Nat :
                 /\ Place(t, d, i) \in SlotIds /\ Place(t, d, i) < Together(t)
                 /\ Place(t, d, i) \in t.dir[d].base .. t.dir[d].base + t.config[d] - 1
           /\ \A d, e \in Directions : \A i, j \in Nat : Place(t, d, i) = Place(t, e, j) => d = e
           /\ \A d \in Directions : \A i, j \in 0 .. t.config[d] - 1 :
                 Place(t, d, i) = Place(t, d, j) => i = j
  <1>1. /\ t.config.capture \in 0 .. MaxSlots /\ t.config.playback \in 0 .. MaxSlots
        /\ t.config.slots \in 1 .. MaxSlots /\ MaxSlots \in Nat /\ SlotIds = 0 .. MaxSlots - 1
        /\ t.config.capture > 0 /\ t.config.playback > 0
        /\ t.config.capture + t.config.playback <= t.config.slots /\ t.pool.slots = t.config.slots
    BY PoolConstants DEF IsTransport, Opened, T!Configs, T!ConfigValid, SlotIds
  <1>2. \A d \in Directions : t.dir[d].head \in Nat
    BY <1>1 DEF IsTransport, QueueRecs
  <1>3. t.dir["capture"].base = 0 /\ t.dir["playback"].base = t.config.capture
    BY DEF Opened, Directions, T!BaseFor
  <1>4. ASSUME NEW d \in Directions, NEW i \in Nat
        PROVE  /\ t.config[d] \in Nat /\ t.config[d] > 0 /\ t.config[d] <= MaxSlots
               /\ (t.dir[d].head + i) % t.config[d] \in 0 .. t.config[d] - 1
    <2>1. t.config[d] \in Nat /\ t.config[d] > 0 /\ t.config[d] <= MaxSlots
      BY <1>1 DEF Directions
    <2>2. t.dir[d].head + i \in Nat
      BY <1>2
    <2> QED BY <2>1, <2>2, ModParts
  <1>5. ASSUME NEW d \in Directions, NEW i \in Nat
        PROVE  /\ Place(t, d, i) \in Nat /\ t.dir[d].base \in Nat /\ t.dir[d].base <= Place(t, d, i)
               /\ Place(t, d, i) < t.dir[d].base + t.config[d]
    <2> DEFINE x == (t.dir[d].head + i) % t.config[d]
    <2>1. x \in 0 .. t.config[d] - 1 /\ t.config[d] \in Nat
      BY <1>4
    <2>2. t.dir[d].base \in Nat
      BY <1>1, <1>3 DEF Directions
    <2>3. Place(t, d, i) = t.dir[d].base + x
      BY DEF Place
    <2> HIDE DEF x
    <2> QED BY <2>1, <2>2, <2>3
  <1>6. ASSUME NEW d \in Directions, NEW i \in 0 .. t.config[d] - 1,
               NEW j \in 0 .. t.config[d] - 1, Place(t, d, i) = Place(t, d, j)
        PROVE  i = j
    <2> DEFINE k == t.config[d]
               h == t.dir[d].head
    <2>1. k \in Nat /\ k > 0 /\ h \in Nat /\ i \in 0 .. k - 1 /\ j \in 0 .. k - 1 /\ 0 \in Nat
      BY <1>2, <1>4
    <2>2. i \in Nat /\ j \in Nat
      BY <2>1
    <2>3. (h + i) % k \in Int /\ (h + j) % k \in Int /\ t.dir[d].base \in Int
      BY <1>4, <1>5, <2>2
    <2>4. (h + i) % k = (h + j) % k
      BY <1>6, <2>3 DEF Place
    <2> HIDE DEF k, h
    <2> QED BY <2>1, <2>4, RingSlots
  <1>7. ASSUME NEW d \in Directions, NEW e \in Directions, NEW i \in Nat, NEW j \in Nat,
               Place(t, d, i) = Place(t, e, j)
        PROVE  d = e
    <2> DEFINE x == Place(t, d, i)
               y == Place(t, e, j)
    <2>1. /\ x \in Nat /\ t.dir[d].base <= x /\ x < t.dir[d].base + t.config[d]
          /\ y \in Nat /\ t.dir[e].base <= y /\ y < t.dir[e].base + t.config[e] /\ x = y
      BY <1>5, <1>7
    <2> HIDE DEF x, y
    <2>2. SUFFICES ASSUME d # e PROVE FALSE
      OBVIOUS
    <2>3. (d = "capture" /\ e = "playback") \/ (d = "playback" /\ e = "capture")
      BY <2>2 DEF Directions
    <2> QED BY <1>1, <1>3, <2>1, <2>3
  <1>8. \A d \in Directions : \A i \in Nat :
           /\ Place(t, d, i) \in SlotIds /\ Place(t, d, i) < Together(t)
           /\ Place(t, d, i) \in t.dir[d].base .. t.dir[d].base + t.config[d] - 1
    <2> TAKE d \in Directions
    <2> TAKE i \in Nat
    <2> DEFINE x == Place(t, d, i)
    <2>1. /\ x \in Nat /\ t.dir[d].base \in Nat /\ t.dir[d].base <= x
          /\ x < t.dir[d].base + t.config[d] /\ t.config[d] \in Nat
      BY <1>4, <1>5
    <2> HIDE DEF x
    <2>2. x \in t.dir[d].base .. t.dir[d].base + t.config[d] - 1
      BY <2>1
    <2>3. x < Together(t)
      BY <1>1, <1>3, <2>1 DEF Directions, Together
    <2>4. x \in SlotIds
      BY <1>1, <2>1, <2>3 DEF Together
    <2> QED BY <2>2, <2>3, <2>4 DEF x
  <1>9. Together(t) \in Nat /\ Together(t) <= t.pool.slots /\ Together(t) <= MaxSlots
    BY <1>1 DEF Together
  <1>10. \A d \in Directions : /\ t.config[d] \in Nat /\ t.config[d] > 0
                               /\ t.config[d] <= MaxSlots /\ t.dir[d].head \in Nat
    BY <1>1, <1>2 DEF Directions
  <1> QED BY <1>6, <1>7, <1>8, <1>9, <1>10

\* A request that joins its queue in the slot of its place is held like the others.
LEMMA HeldJoins ==
    ASSUME NEW t, IsTransport(t), Opened(t), Held(t), NEW d \in Directions, NEW prime \in BOOLEAN,
           t.dir[d].live < t.config[d], NEW s, s = Place(t, d, t.dir[d].live),
           NEW u, SentTo(t, d, prime, s, u)
    PROVE  Held(u) /\ Opened(u)
  <1>1. /\ IsTransport(u) /\ u.config = t.config /\ u.pool.started = t.pool.started
        /\ u.pool.slots = t.pool.slots /\ u.pool.gen = t.pool.gen
        /\ u.pool.desc = [t.pool.desc EXCEPT ![s] = Descriptor(d)]
        /\ Appended(t.dir[d], HandleOf(t.pool, s), u.dir[d])
        /\ \A e \in Directions : u.dir[e].base = t.dir[e].base /\ u.dir[e].head = t.dir[e].head
        /\ \A e \in Directions : e # d => u.dir[e] = t.dir[e]
    BY DEF SentTo, Beside, Kept, Took, Appended
  <1>2. \A e \in Directions : t.dir[e].live \in Nat
    BY PoolConstants DEF IsTransport, QueueRecs
  <1>3. s \in SlotIds /\ DOMAIN t.pool.desc = SlotIds
    BY <1>2, PlacesApart DEF IsTransport, Sound
  <1>4. \A e, i : Place(u, e, i) = u.dir[e].base + ((u.dir[e].head + i) % t.config[e])
    BY <1>1 DEF Place
  <1>5. \A e \in Directions : \A i \in Nat : Place(u, e, i) = Place(t, e, i)
    BY <1>1, <1>4 DEF Place
  <1>6. ASSUME NEW e \in Directions, NEW i \in 0 .. u.dir[e].live - 1
        PROVE  /\ EntryOf(u.dir[e], i).handle = HandleOf(u.pool, Place(u, e, i))
               /\ u.pool.desc[Place(u, e, i)].dir = e
    <2>1. \A k : HandleOf(u.pool, k) = HandleOf(t.pool, k)
      BY <1>1 DEF HandleOf
    <2>2. i \in Nat
      OBVIOUS
    <2>3. CASE e # d
      <3>1. i \in 0 .. t.dir[e].live - 1 /\ EntryOf(u.dir[e], i) = EntryOf(t.dir[e], i)
        BY <1>1, <2>3
      <3>2. Place(t, e, i) # s /\ Place(t, e, i) \in SlotIds
        BY <1>2, <2>2, <2>3, PlacesApart
      <3> QED BY <1>1, <1>3, <1>5, <2>1, <2>2, <3>1, <3>2 DEF Held
    <2>4. CASE e = d /\ i # t.dir[d].live
      <3>1. i \in 0 .. t.dir[d].live - 1
        BY <1>1, <1>2, <2>4 DEF Appended
      <3>2. EntryOf(u.dir[d], i) = EntryOf(t.dir[d], i)
        BY <1>1, <3>1 DEF Appended
      <3>3. Place(t, d, i) \in SlotIds
        BY <2>2, PlacesApart
      <3>4. u.pool.desc[Place(t, d, i)].dir = d
        BY <1>1, <1>3, <3>1, <3>3 DEF Held, Descriptor
      <3> QED BY <1>5, <2>1, <2>2, <2>4, <3>1, <3>2, <3>4 DEF Held
    <2>5. CASE e = d /\ i = t.dir[d].live
      <3>1. EntryOf(u.dir[d], i).handle = HandleOf(t.pool, s)
        BY <1>1, <2>5 DEF Appended
      <3>2. Place(u, e, i) = s
        BY <1>5, <2>2, <2>5
      <3>3. u.pool.desc[s].dir = d
        BY <1>1, <1>3 DEF Descriptor
      <3> QED BY <2>1, <2>5, <3>1, <3>2, <3>3
    <2> QED BY <2>3, <2>4, <2>5
  <1>7. Opened(u)
    BY <1>1 DEF Opened
  <1> QED BY <1>6, <1>7 DEF Held

\* The slot of the oldest request is the one that the next request expects once it is retired.
LEMMA OldestIsNext ==
    ASSUME NEW t, IsTransport(t), Opened(t), InStep(t), NEW d \in Directions,
           t.dir[d].live = t.config[d], NEW u, Beside(t, d, u), Shortened(t.dir[d], u.dir[d])
    PROVE  /\ \A i \in Nat : Place(u, d, i) = Place(t, d, i + 1)
           /\ Place(u, d, u.dir[d].live) = Place(t, d, 0)
  <1> DEFINE m == MaxSlots
             k == t.config[d]
             h == t.dir[d].head
  <1>1. m \in Nat /\ m > 0 /\ k \in Nat /\ k > 0 /\ m % k = 0 /\ h \in 0 .. m - 1
    <2>1. k \in Nat /\ k > 0
      BY PlacesApart
    <2> QED BY <2>1, PoolConstants DEF InStep, IsTransport, QueueRecs, SlotIds
  <1>2. /\ u.dir[d].head = (h + 1) % m /\ u.dir[d].base = t.dir[d].base
        /\ u.dir[d].live = k - 1 /\ u.config[d] = k
    BY DEF Shortened, Beside, Kept
  <1> HIDE DEF m, k, h
  <1>3. /\ \A i \in Nat : (((h + 1) % m) + i) % k = (h + (i + 1)) % k
        /\ (((h + 1) % m) + (k - 1)) % k = (h + 0) % k
    BY <1>1, RingInStep
  <1>4. \A i : Place(u, d, i) = t.dir[d].base + ((((h + 1) % m) + i) % k)
    BY <1>2 DEF Place
  <1>5. \A i : Place(t, d, i) = t.dir[d].base + ((h + i) % k)
    BY DEF Place, h, k
  <1>6. Place(u, d, u.dir[d].live) = Place(t, d, 0)
    BY <1>2, <1>3, <1>4, <1>5
  <1>7. \A i \in Nat : Place(u, d, i) = Place(t, d, i + 1)
    BY <1>3, <1>4, <1>5
  <1> QED BY <1>6, <1>7

\* The oldest request of a full transport is accepted, and what is left is held.
LEMMA OldestRetires ==
    ASSUME NEW t, IsTransport(t), Opened(t), InStep(t), Full(t), NEW d \in Directions,
           NEW s, s = Place(t, d, 0), NEW u, RetiredFrom(t, d, u)
    PROVE  /\ Accepts(t.pool, Oldest(t, d).handle) /\ Freed(t.pool, s, u.pool)
           /\ Held(u) /\ Opened(u)
  <1> DEFINE h == Oldest(t, d).handle
  <1>1. /\ s \in SlotIds /\ s < Together(t) /\ s < t.pool.slots /\ t.pool.inUse[s] /\ t.pool.started
        /\ h = HandleOf(t.pool, s) /\ t.dir[d].live = t.config[d] /\ t.config[d] > 0
    <2>1. s \in SlotIds /\ s < Together(t) /\ Together(t) <= t.pool.slots /\ Together(t) \in Nat
      BY PlacesApart
    <2>2. t.pool.slots \in Nat /\ s \in Nat
      BY <2>1, PoolConstants DEF IsTransport, Sound, SlotIds
    <2>3. t.dir[d].live = t.config[d] /\ t.config[d] \in Nat /\ t.config[d] > 0
      BY PlacesApart DEF Full
    <2>4. 0 \in 0 .. t.dir[d].live - 1
      BY <2>3
    <2>5. h = HandleOf(t.pool, s)
      BY <2>4 DEF Full, Held, Oldest
    <2> QED BY <2>1, <2>2, <2>3, <2>5 DEF Full, Opened
  <1>2. h.slot = s /\ h.gen = t.pool.gen[s]
    BY <1>1 DEF HandleOf
  <1>3. Accepts(t.pool, h)
    BY <1>1, <1>2, PoolConstants DEF Accepts, HandleInRange, ConfiguredSlots, SlotIds, IsTransport, Sound
  <1>4. Freed(t.pool, s, u.pool)
    <2> DEFINE p == t.pool
               q == u.pool
    <2>1. Sound(p) /\ Accepts(p, h) /\ q = PoolComplete(p, h)
      BY <1>3 DEF IsTransport, RetiredFrom
    <2> HIDE DEF p, q, h
    <2>2. Freed(p, h.slot, q)
      BY <2>1, CompletesSlot
    <2> QED BY <1>2, <2>2 DEF p, q
  <1> HIDE DEF h
  <1>5. /\ IsTransport(u) /\ u.config = t.config /\ u.pool.started = t.pool.started
        /\ u.pool.slots = t.pool.slots /\ u.pool.gen = [t.pool.gen EXCEPT ![s] = Bump(@)]
        /\ u.pool.desc = [t.pool.desc EXCEPT ![s] = NoDescriptor]
        /\ Shortened(t.dir[d], u.dir[d]) /\ Beside(t, d, u)
        /\ \A e \in Directions : e # d => u.dir[e] = t.dir[e]
        /\ u.dir[d].base = t.dir[d].base
    BY <1>4 DEF RetiredFrom, Beside, Kept, Freed
  <1>6. \A i \in Nat : Place(u, d, i) = Place(t, d, i + 1)
    BY <1>1, <1>5, OldestIsNext
  <1>7. \A e, i : e \in Directions /\ e # d => Place(u, e, i) = Place(t, e, i)
    BY <1>5 DEF Place
  <1>8. \A k \in SlotIds : k # s => /\ HandleOf(u.pool, k) = HandleOf(t.pool, k)
                                    /\ u.pool.desc[k] = t.pool.desc[k]
    BY <1>1, <1>5 DEF HandleOf, IsTransport, Sound
  <1>9. ASSUME NEW e \in Directions, NEW i \in 0 .. u.dir[e].live - 1
        PROVE  /\ EntryOf(u.dir[e], i).handle = HandleOf(u.pool, Place(u, e, i))
               /\ u.pool.desc[Place(u, e, i)].dir = e
    <2>1. i \in Nat
      OBVIOUS
    <2>2. CASE e # d
      <3>1. i \in 0 .. t.dir[e].live - 1 /\ EntryOf(u.dir[e], i) = EntryOf(t.dir[e], i)
        BY <1>5, <2>2
      <3>2. Place(t, e, i) # s /\ Place(t, e, i) \in SlotIds
        BY <2>1, <2>2, PlacesApart
      <3>3. EntryOf(t.dir[e], i).handle = HandleOf(t.pool, Place(t, e, i))
            /\ t.pool.desc[Place(t, e, i)].dir = e
        BY <3>1 DEF Full, Held
      <3> QED BY <1>7, <1>8, <2>2, <3>1, <3>2, <3>3
    <2>3. CASE e = d
      <3>1. t.config[d] \in Nat /\ u.dir[d].live = t.config[d] - 1
        BY <1>1, <1>5, PlacesApart DEF Shortened
      <3>2. /\ i \in 0 .. t.dir[d].live - 2 /\ i + 1 \in 0 .. t.dir[d].live - 1
            /\ i + 1 \in 0 .. t.config[d] - 1 /\ 0 \in 0 .. t.config[d] - 1 /\ i + 1 # 0
            /\ i + 1 \in Nat
        BY <1>1, <2>3, <3>1
      <3>3. EntryOf(u.dir[d], i) = EntryOf(t.dir[d], i + 1)
        BY <1>5, <3>2 DEF Shortened
      <3>4. Place(t, d, i + 1) # s /\ Place(t, d, i + 1) \in SlotIds
        BY <3>2, PlacesApart
      <3>5. EntryOf(t.dir[d], i + 1).handle = HandleOf(t.pool, Place(t, d, i + 1))
            /\ t.pool.desc[Place(t, d, i + 1)].dir = d
        BY <3>2 DEF Full, Held
      <3> QED BY <1>6, <1>8, <2>1, <2>3, <3>3, <3>4, <3>5
    <2> QED BY <2>2, <2>3
  <1>10. Opened(u)
    BY <1>5 DEF Opened
  <1> QED BY <1>3, <1>4, <1>9, <1>10 DEF Held, h

\* The totals of a pool that has taken a slot.
LEMMA TookCounts ==
    ASSUME NEW p, Sound(p), NEW d \in Directions, NEW s \in SlotIds, NEW q,
           Took(p, s, Descriptor(d), q)
    PROVE  /\ q.count.live = p.count.live + 1 /\ q.count.fallbacks = p.count.fallbacks
           /\ q.count.maxLive = (IF q.count.live > p.count.maxLive THEN q.count.live
                                 ELSE p.count.maxLive)
           /\ \A k \in SlotIds : q.inUse[k] <=> k = s \/ p.inUse[k]
  <1> DEFINE c == p.count
             e == q.count
             x == Descriptor(d)
  <1>1. c \in Counts /\ x.dir \in Directions /\ e = AccountSubmit(c, x)
    BY DEF Sound, Took, Descriptor
  <1>2. \A k \in SlotIds : q.inUse[k] <=> k = s \/ p.inUse[k]
    BY DEF Sound, Took
  <1> HIDE DEF c, e, x
  <1>3. e.live = c.live + 1 /\ e.fallbacks = c.fallbacks
        /\ e.maxLive = (IF c.live + 1 > c.maxLive THEN c.live + 1 ELSE c.maxLive)
    BY <1>1 DEF AccountSubmit, Counts
  <1> QED BY <1>2, <1>3 DEF c, e

\* The totals of a pool that has freed a slot.
LEMMA FreedCounts ==
    ASSUME NEW p, Sound(p), NEW s \in SlotIds, NEW q, Freed(p, s, q)
    PROVE  /\ q.count.live = p.count.live - 1 /\ q.count.fallbacks = p.count.fallbacks
           /\ q.count.maxLive = p.count.maxLive
           /\ \A k \in SlotIds : q.inUse[k] <=> k # s /\ p.inUse[k]
  <1> DEFINE c == p.count
             e == q.count
             x == p.desc[s]
  <1>1. c \in Counts /\ x.dir \in Directions /\ e = AccountCompletion(c, x) /\ c.live # 0
    BY DEF Sound, Freed
  <1>2. \A k \in SlotIds : q.inUse[k] <=> k # s /\ p.inUse[k]
    BY DEF Sound, Freed
  <1> HIDE DEF c, e, x
  <1>3. e.live = c.live - 1 /\ e.fallbacks = c.fallbacks /\ e.maxLive = c.maxLive
    BY <1>1 DEF AccountCompletion, Counts
  <1> QED BY <1>2, <1>3 DEF c, e

\* A request of a direction with room, whose place is the lowest slot that is not in use.
LEMMA RequestSent ==
    ASSUME NEW t, IsTransport(t), Opened(t), Held(t), NEW d \in Directions,
           t.dir[d].live < t.config[d], NEW prime \in BOOLEAN,
           NEW s, s = Place(t, d, t.dir[d].live), ~t.pool.inUse[s],
           \A k \in SlotIds : k < s => t.pool.inUse[k],
           NEW u, u = T!SubmitNext(t, d, prime)
    PROVE  /\ SentTo(t, d, prime, s, u) /\ Held(u) /\ Opened(u) /\ s \in SlotIds
           /\ u.pool.count.live = t.pool.count.live + 1
           /\ u.pool.count.fallbacks = t.pool.count.fallbacks
           /\ u.pool.count.maxLive = (IF u.pool.count.live > t.pool.count.maxLive
                                      THEN u.pool.count.live ELSE t.pool.count.maxLive)
           /\ \A k \in SlotIds : u.pool.inUse[k] <=> k = s \/ t.pool.inUse[k]
  <1>1. t.dir[d].live \in Nat /\ Sound(t.pool) /\ t.pool.started
    BY PoolConstants DEF IsTransport, QueueRecs, Opened
  <1>2. s \in SlotIds /\ s < Together(t) /\ Together(t) <= t.pool.slots /\ Together(t) \in Nat
    BY <1>1, PlacesApart
  <1>3. s < t.pool.slots /\ s \in Nat
    <2>1. t.pool.slots \in Nat /\ s \in Nat
      BY <1>1, <1>2, PoolConstants DEF Sound, SlotIds
    <2> QED BY <1>2, <2>1
  <1> DEFINE p == t.pool
             f == FreeSlot(p)
  <1>4. CanSubmit(p) /\ f \in SlotIds /\ ~p.inUse[f] /\ \A k \in SlotIds : k < f => p.inUse[k]
    <2>1. Sound(p) /\ p.started /\ s < p.slots /\ ~p.inUse[s]
      BY <1>1, <1>3
    <2> HIDE DEF p
    <2> QED BY <1>2, <2>1, LowestFree
  <1>5. f = s
    <2>1. f \in Nat
      BY <1>4, PoolConstants DEF SlotIds
    <2>2. ~(f < s) /\ ~(s < f)
      BY <1>2, <1>4
    <2> QED BY <1>3, <2>1, <2>2
  <1>6. s = T!ExpectedSlot(t, d)
    BY DEF T!ExpectedSlot, Place, T!Depth
  <1>7. SentTo(t, d, prime, s, u)
    BY <1>2, <1>3, <1>4, <1>5, <1>6, RequestJoins
  <1>8. Held(u) /\ Opened(u)
    BY <1>7, HeldJoins
  <1>9. Took(t.pool, s, Descriptor(d), u.pool)
    BY <1>7 DEF SentTo
  <1> QED BY <1>1, <1>2, <1>7, <1>8, <1>9, TookCounts

\* What safety() asks of the counters, all but that nothing failed and nothing is live.
Counted(t) ==
    /\ t.pool.count.fallbacks = 0 /\ t.pool.count.maxLive <= Together(t)
    /\ \A d \in Directions : t.count.maxDepth[d] = t.config[d]
    /\ t.count.drift <= t.count.failures
    /\ t.count.gaps = 0 /\ t.count.reuses = t.count.steady
    /\ t.count.submitFailures = 0 /\ t.count.liveLimit = 0 /\ t.count.mismatches = 0
    /\ t.count.primes + t.count.steady
           = t.count.completions + t.count.cancels + t.pool.count.live

\* A full transport answers each completion by a submission, and is full again.
LEMMA StaysFull ==
    ASSUME NEW t, IsTransport(t), Opened(t), InStep(t), Full(t), NEW d \in Directions,
           Linked(t.dir[d]), NEW u, u = T!AfterCompletion(t, d)
    PROVE  Full(u) /\ u.count.primes = t.count.primes /\ (Counted(t) => Counted(u))
  <1> DEFINE r == T!RetireOldest(t, d)
             prime == FALSE
             v == T!SubmitNext(r, d, prime)
             s == Place(t, d, 0)
  <1>1. u = T!AccountDepth(v, d)
    BY DEF T!AfterCompletion
  <1>2. t.dir[d].live = t.config[d] /\ t.config[d] \in Nat /\ t.config[d] > 0
    BY PlacesApart DEF Full
  <1>3. RetiredFrom(t, d, r)
    BY <1>2, Retires
  <1> HIDE DEF r, s
  <1>4. /\ Accepts(t.pool, Oldest(t, d).handle) /\ Freed(t.pool, s, r.pool)
        /\ Held(r) /\ Opened(r)
    BY <1>3, OldestRetires DEF s
  <1>5. s \in SlotIds /\ s < Together(t) /\ Together(t) \in Nat /\ Together(t) <= MaxSlots
    BY PlacesApart DEF s
  <1>6. /\ IsTransport(r) /\ Beside(t, d, r) /\ Shortened(t.dir[d], r.dir[d])
        /\ r.config = t.config /\ r.dir[d].live = t.config[d] - 1
        /\ \A e \in Directions : e # d => r.dir[e] = t.dir[e]
    BY <1>2, <1>3 DEF RetiredFrom, Beside, Kept, Shortened
  <1>7. Place(r, d, r.dir[d].live) = s
    BY <1>2, <1>6, OldestIsNext DEF s
  <1>8. /\ r.pool.count.live = t.pool.count.live - 1
        /\ r.pool.count.fallbacks = t.pool.count.fallbacks
        /\ r.pool.count.maxLive = t.pool.count.maxLive
        /\ \A k \in SlotIds : r.pool.inUse[k] <=> k # s /\ k < Together(t)
    BY <1>4, <1>5, FreedCounts DEF Full, IsTransport
  <1>9. ~r.pool.inUse[s] /\ \A k \in SlotIds : k < s => r.pool.inUse[k]
    <2>1. \A k \in SlotIds : k < s => k # s /\ k < Together(t)
      BY <1>5, PoolConstants DEF SlotIds
    <2> QED BY <1>5, <1>8, <2>1
  <1>10. prime \in BOOLEAN
    OBVIOUS
  <1> HIDE DEF v, prime
  <1>11. /\ SentTo(r, d, prime, s, v) /\ Held(v) /\ Opened(v)
         /\ v.pool.count.live = r.pool.count.live + 1
         /\ v.pool.count.fallbacks = r.pool.count.fallbacks
         /\ v.pool.count.maxLive = (IF v.pool.count.live > r.pool.count.maxLive
                                    THEN v.pool.count.live ELSE r.pool.count.maxLive)
         /\ \A k \in SlotIds : v.pool.inUse[k] <=> k = s \/ r.pool.inUse[k]
    <2>1. r.dir[d].live < r.config[d] /\ v = T!SubmitNext(r, d, prime)
      BY <1>2, <1>6 DEF v
    <2> QED BY <1>4, <1>6, <1>7, <1>9, <1>10, <2>1, RequestSent
  <1>12. /\ IsTransport(v) /\ v.config = t.config /\ v.dir[d].live = t.config[d]
         /\ \A e \in Directions : e # d => v.dir[e] = t.dir[e]
    <2>1. v.dir[d].live = r.dir[d].live + 1 /\ v.config = r.config /\ IsTransport(v)
          /\ \A e \in Directions : e # d => v.dir[e] = r.dir[e]
      BY <1>11 DEF SentTo, Appended, Beside, Kept
    <2> QED BY <1>2, <1>6, <2>1
  <1>13. Accounted(v, d, u)
    BY <1>1, <1>12, AccountsDepth
  <1>14. u.pool = v.pool /\ u.dir = v.dir /\ u.config = t.config
    BY <1>12, <1>13 DEF Accounted, Kept
  <1>15. t.pool.count.live \in Nat /\ t.pool.count.maxLive \in Nat /\ t.pool.count.live = Together(t)
    BY DEF IsTransport, Sound, Counts, Full
  <1>16. u.pool.count.live = t.pool.count.live
    BY <1>8, <1>11, <1>14, <1>15
  <1>17. Together(u) = Together(t)
    BY <1>14 DEF Together
  <1>18. Full(u)
    <2>1. \A k \in SlotIds : u.pool.inUse[k] <=> k < Together(u)
      BY <1>5, <1>8, <1>11, <1>14, <1>17
    <2>2. \A e \in Directions : u.dir[e].live = u.config[e]
      BY <1>12, <1>14 DEF Full
    <2>3. Held(u)
      <3>1. \A e, i : Place(u, e, i) = Place(v, e, i)
        BY <1>12, <1>14 DEF Place
      <3> QED BY <1>11, <1>14, <3>1 DEF Held
    <2> QED BY <1>15, <1>16, <1>17, <2>1, <2>2, <2>3 DEF Full
  <1>19. Oldest(t, d).position = t.dir[d].expected
    <2>1. t.dir[d] \in QueueRecs /\ t.dir[d].live > 0
      BY <1>2 DEF IsTransport
    <2> QED BY <1>6, <2>1, StayLinked DEF Oldest
  <1>20. /\ t.count \in TransportCounts /\ r.count \in TransportCounts
         /\ v.count.primes = t.count.primes /\ v.count.steady = t.count.steady + 1
         /\ v.count.reuses = t.count.reuses + 1
         /\ v.count.completions = t.count.completions + 1 /\ v.count.cancels = t.count.cancels
         /\ v.count.failures = t.count.failures /\ v.count.gaps = t.count.gaps
         /\ v.count.submitFailures = t.count.submitFailures
         /\ v.count.liveLimit = t.count.liveLimit /\ v.count.drift = t.count.drift
         /\ v.count.mismatches = t.count.mismatches /\ v.count.maxDepth = t.count.maxDepth
    <2>1. Completed(t.count, ~Accepts(t.pool, Oldest(t, d).handle),
                    Oldest(t, d).position # t.dir[d].expected, r.count)
          /\ Submitted(r.count, prime, v.count)
      BY <1>3, <1>11 DEF RetiredFrom, SentTo
    <2>2. t.count \in TransportCounts /\ r.count \in TransportCounts
      BY <1>6 DEF IsTransport
    <2>3. /\ r.count.failures = t.count.failures /\ r.count.gaps = t.count.gaps
          /\ r.count.completions = t.count.completions + 1
          /\ r.count.primes = t.count.primes /\ r.count.steady = t.count.steady
          /\ r.count.reuses = t.count.reuses /\ r.count.cancels = t.count.cancels
          /\ r.count.submitFailures = t.count.submitFailures
          /\ r.count.liveLimit = t.count.liveLimit /\ r.count.drift = t.count.drift
          /\ r.count.mismatches = t.count.mismatches /\ r.count.maxDepth = t.count.maxDepth
      BY <1>4, <1>19, <2>1 DEF Completed
    <2>4. v.count.primes = r.count.primes + 0 /\ v.count.steady = r.count.steady + 1
          /\ v.count.reuses = r.count.reuses + 1
      BY <2>1 DEF Submitted, prime
    <2> QED BY <2>1, <2>2, <2>3, <2>4 DEF Submitted, TransportCounts
  <1>21. u.count.primes = t.count.primes
    BY <1>13, <1>20 DEF Accounted
  <1>22. ASSUME Counted(t) PROVE Counted(u)
    <2>1. u.pool.count.fallbacks = 0
      BY <1>8, <1>11, <1>14, <1>22 DEF Counted
    <2>2. u.pool.count.maxLive <= Together(u)
      BY <1>8, <1>11, <1>14, <1>15, <1>16, <1>17, <1>22 DEF Counted
    <2>3. v.dir[d].live = v.config[d]
      BY <1>12
    <2>4. \A e \in Directions : u.count.maxDepth[e] = u.config[e]
      <3>1. \A e \in Directions : v.count.maxDepth[e] = t.config[e]
        BY <1>20, <1>22 DEF Counted
      <3>2. ~(v.dir[d].live > v.count.maxDepth[d])
        BY <1>2, <1>12, <3>1
      <3> QED BY <1>13, <1>14, <3>1, <3>2 DEF Accounted
    <2>5. /\ u.count.drift <= u.count.failures
          /\ u.count.gaps = 0 /\ u.count.submitFailures = 0 /\ u.count.liveLimit = 0
          /\ u.count.mismatches = 0
      BY <1>13, <1>20, <1>22, <2>3 DEF Counted, Accounted
    <2>6. /\ u.count.reuses = u.count.steady
          /\ u.count.primes + u.count.steady
                 = u.count.completions + u.count.cancels + u.pool.count.live
      <3>1. /\ u.count.reuses = t.count.reuses + 1 /\ u.count.steady = t.count.steady + 1
            /\ u.count.completions = t.count.completions + 1 /\ u.count.cancels = t.count.cancels
        BY <1>13, <1>20 DEF Accounted
      <3>2. /\ t.count.primes \in Nat /\ t.count.steady \in Nat /\ t.count.completions \in Nat
            /\ t.count.cancels \in Nat
        BY <1>20 DEF TransportCounts
      <3> QED BY <1>15, <1>16, <1>21, <1>22, <3>1, <3>2 DEF Counted
    <2> QED BY <2>1, <2>2, <2>4, <2>5, <2>6 DEF Counted
  <1> QED BY <1>18, <1>21, <1>22

\* Nothing has been counted but k requests of prime().
OnlyPrimes(c, k) ==
    /\ c.primes = k /\ c.steady = 0 /\ c.reuses = 0 /\ c.completions = 0 /\ c.cancels = 0
    /\ c.drift = 0 /\ c.gaps = 0 /\ c.submitFailures = 0 /\ c.liveLimit = 0 /\ c.mismatches = 0
    /\ \A d \in Directions : c.maxDepth[d] = 0

\* The pool has its first k slots in use, and never had more.
FirstSlots(p, k) ==
    /\ p.count.live = k /\ p.count.maxLive = k /\ p.count.fallbacks = 0
    /\ \A s \in SlotIds : p.inUse[s] <=> s < k

\* A transport that has started and not been primed: nothing is queued and nothing counted,
\* except completions that had nothing to retire.
Blank(t) ==
    /\ Opened(t) /\ FirstSlots(t.pool, 0) /\ OnlyPrimes(t.count, 0)
    /\ \A d \in Directions : /\ t.dir[d].head = 0 /\ t.dir[d].live = 0
                             /\ t.dir[d].next = 0 /\ t.dir[d].expected = 0

\* A transport with its first k requests queued, those of capture before those of playback.
FirstLive(t, k) ==
    /\ t.dir["capture"].live = (IF k < t.config.capture THEN k ELSE t.config.capture)
    /\ t.dir["playback"].live = (IF k < t.config.capture THEN 0 ELSE k - t.config.capture)
    /\ \A d \in Directions : t.dir[d].head = 0
Same(t, u) == u.config = t.config /\ u.started = t.started /\ u.primed = t.primed
WellHeld(t) ==
    IsTransport(t) /\ Opened(t) /\ Held(t) /\ \A d \in Directions : Linked(t.dir[d])
Filling(t, u, k) ==
    WellHeld(u) /\ Same(t, u) /\ FirstLive(u, k) /\ FirstSlots(u.pool, k) /\ OnlyPrimes(u.count, k)

\* prime() starts with no slot in use,
LEMMA FillingStarts ==
    ASSUME NEW t, IsTransport(t), Blank(t)
    PROVE  Filling(t, t, 0)
  <1>1. Held(t) /\ \A d \in Directions : Linked(t.dir[d])
    <2>1. \A d \in Directions : 0 .. t.dir[d].live - 1 = {}
      BY DEF Blank
    <2> QED BY <2>1 DEF Held, Linked, Blank
  <1>2. t.config.capture > 0 /\ t.config.capture \in Nat
    BY PoolConstants DEF IsTransport, Blank, Opened, T!ConfigValid, T!Configs
  <1> QED BY <1>1, <1>2 DEF Filling, Blank, Directions, WellHeld, Same, FirstLive

\* The submission is one of prime()'s, and its direction is that of the slot k.
ByPrime(prime) == prime
TurnOf(t, k, d) == d = (IF k < t.config.capture THEN "capture" ELSE "playback")

\* takes the slots one after the other,
LEMMA FillingGoesOn ==
    ASSUME NEW t, IsTransport(t), Opened(t), NEW k \in Nat, k < Together(t),
           NEW u, Filling(t, u, k),
           NEW d, TurnOf(t, k, d),
           NEW prime \in BOOLEAN, ByPrime(prime), NEW v, v = T!SubmitNext(u, d, prime)
    PROVE  Filling(t, v, k + 1)
  <1>1. /\ IsTransport(u) /\ Opened(u) /\ Held(u) /\ u.config = t.config
        /\ u.dir["capture"].base = 0 /\ u.dir["playback"].base = t.config.capture
        /\ u.count \in TransportCounts /\ \A e \in Directions : Linked(u.dir[e])
    BY DEF Filling, WellHeld, Same, Opened, Directions, T!BaseFor, IsTransport
  <1>2. /\ t.config.capture \in Nat /\ t.config.playback \in Nat /\ t.config.capture > 0
        /\ t.config.playback > 0 /\ k < t.config.capture + t.config.playback
    BY PoolConstants DEF IsTransport, Opened, T!Configs, T!ConfigValid, Together
  <1>3. d \in Directions /\ u.dir[d].live < u.config[d] /\ u.dir[d].live \in 0 .. u.config[d] - 1
        /\ u.config[d] \in Nat /\ u.config[d] > 0
    <2>1. CASE k < t.config.capture
      <3>1. d = "capture"
        BY <2>1 DEF TurnOf
      <3> QED BY <1>1, <1>2, <2>1, <3>1 DEF Filling, FirstLive, Directions
    <2>2. CASE ~(k < t.config.capture)
      <3>1. d = "playback"
        BY <2>2 DEF TurnOf
      <3> QED BY <1>1, <1>2, <2>2, <3>1 DEF Filling, FirstLive, Directions
    <2> QED BY <2>1, <2>2
  <1> DEFINE s == Place(u, d, u.dir[d].live)
             l == u.dir[d].live
  <1>4. s = u.dir[d].base + l
    <2>1. l % u.config[d] = l /\ u.dir[d].head = 0 /\ 0 + l = l
      BY <1>3, ModSmall DEF Filling, FirstLive
    <2> QED BY <2>1 DEF Place
  <1>5. s = k
    <2>1. CASE k < t.config.capture
      BY <1>1, <1>2, <1>4, <2>1 DEF Filling, FirstLive, TurnOf
    <2>2. CASE ~(k < t.config.capture)
      BY <1>1, <1>2, <1>4, <2>2 DEF Filling, FirstLive, TurnOf
    <2> QED BY <2>1, <2>2
  <1> HIDE DEF s, l
  <1>6. ~u.pool.inUse[s] /\ \A j \in SlotIds : j < s => u.pool.inUse[j]
    <2>1. s \in SlotIds
      BY <1>1, <1>3, PlacesApart DEF s
    <2>2. FirstSlots(u.pool, k)
      BY DEF Filling
    <2>3. ~(k < k)
      OBVIOUS
    <2> QED BY <1>5, <2>1, <2>2, <2>3 DEF FirstSlots
  <1>7. /\ SentTo(u, d, prime, s, v) /\ Held(v) /\ Opened(v)
        /\ v.pool.count.live = u.pool.count.live + 1
        /\ v.pool.count.fallbacks = u.pool.count.fallbacks
        /\ v.pool.count.maxLive = (IF v.pool.count.live > u.pool.count.maxLive
                                   THEN v.pool.count.live ELSE u.pool.count.maxLive)
        /\ \A j \in SlotIds : v.pool.inUse[j] <=> j = s \/ u.pool.inUse[j]
    <2>1. s = Place(u, d, u.dir[d].live)
      BY DEF s
    <2> QED BY <1>1, <1>3, <1>6, <2>1, RequestSent
  <1>8. /\ IsTransport(v) /\ v.config = u.config /\ v.started = u.started /\ v.primed = u.primed
        /\ v.dir[d].live = u.dir[d].live + 1 /\ v.dir[d].head = u.dir[d].head
        /\ \A e \in Directions : e # d => v.dir[e] = u.dir[e]
        /\ Appended(u.dir[d], HandleOf(u.pool, s), v.dir[d]) /\ Submitted(u.count, prime, v.count)
    BY <1>7 DEF SentTo, Beside, Kept, Appended
  <1>9. \A e \in Directions : Linked(v.dir[e])
    <2>1. u.dir[d] \in QueueRecs /\ Linked(u.dir[d])
      BY <1>1, <1>3 DEF IsTransport
    <2>2. Linked(v.dir[d])
      BY <1>8, <2>1, StayLinked
    <2> QED BY <1>1, <1>8, <2>2
  <1>10. FirstSlots(v.pool, k + 1)
    <2>1. \A j \in SlotIds : j < k + 1 <=> j = k \/ j < k
      BY PoolConstants DEF SlotIds
    <2>2. FirstSlots(u.pool, k)
      BY DEF Filling
    <2> QED BY <1>5, <1>7, <2>1, <2>2 DEF FirstSlots
  <1>11. FirstLive(u, k)
    BY DEF Filling
  <1>12. FirstLive(v, k + 1)
    <2>1. CASE k < t.config.capture
      <3>1. d = "capture" /\ v.dir["playback"] = u.dir["playback"]
        BY <1>8, <2>1 DEF Directions, TurnOf
      <3>2. u.dir["capture"].live = k /\ u.dir["playback"].live = 0
        BY <1>1, <1>11, <2>1 DEF FirstLive
      <3>3. v.dir["capture"].live = k + 1 /\ v.dir["playback"].live = 0
        BY <1>8, <3>1, <3>2
      <3>4. v.config.capture = t.config.capture /\ (~(k + 1 < t.config.capture) => k + 1 = t.config.capture)
        BY <1>1, <1>2, <1>8, <2>1
      <3> QED BY <1>2, <1>8, <1>11, <3>3, <3>4 DEF FirstLive
    <2>2. CASE ~(k < t.config.capture)
      <3>1. d = "playback" /\ v.dir["capture"] = u.dir["capture"]
        BY <1>8, <2>2 DEF Directions, TurnOf
      <3>2. u.dir["capture"].live = t.config.capture
            /\ u.dir["playback"].live = k - t.config.capture
        BY <1>1, <1>11, <2>2 DEF FirstLive
      <3>3. v.dir["capture"].live = t.config.capture
            /\ v.dir["playback"].live = k + 1 - t.config.capture
        BY <1>2, <1>8, <3>1, <3>2
      <3>4. v.config.capture = t.config.capture /\ ~(k + 1 < t.config.capture)
        BY <1>1, <1>2, <1>8, <2>2
      <3> QED BY <1>2, <1>8, <1>11, <3>3, <3>4 DEF FirstLive
    <2> QED BY <2>1, <2>2
  <1>13. Same(t, v) /\ WellHeld(v)
    BY <1>7, <1>8, <1>9 DEF Filling, Same, WellHeld
  <1>14. OnlyPrimes(v.count, k + 1)
    <2>1. /\ v.count.primes = u.count.primes + 1 /\ v.count.steady = u.count.steady + 0
          /\ v.count.reuses = u.count.reuses + 0
      BY <1>8 DEF Submitted, ByPrime
    <2>2. OnlyPrimes(u.count, k)
      BY DEF Filling
    <2> QED BY <1>8, <2>1, <2>2 DEF Submitted, OnlyPrimes
  <1> QED BY <1>10, <1>12, <1>13, <1>14 DEF Filling

\* and ends with the slots of both directions.
LEMMA FillingEnds ==
    ASSUME NEW t, IsTransport(t), Blank(t)
    PROVE  Filling(t, T!Filled(t), Together(t))
  <1> DEFINE n == Together(t)
             order == T!PrimeOrder(t.config)
  <1>1. /\ n \in Nat /\ Opened(t) /\ t.config.capture \in Nat /\ t.config.playback \in Nat
        /\ n = t.config.capture + t.config.playback
    BY PlacesApart, PoolConstants DEF Blank, IsTransport, T!Configs, Together
  <1>2. /\ DOMAIN order = 1 .. n
        /\ \A i \in 1 .. n : order[i] = IF i <= t.config.capture THEN "capture" ELSE "playback"
    BY DEF T!PrimeOrder, Together
  <1> HIDE DEF order, n
  <1>3. PICK g : /\ g[0] = t /\ g[n] = T!Filled(t)
                 /\ \A i \in 1 .. n : g[i] = FillOne(t, g[i - 1], order[i])
    <2>1. order = T!PrimeOrder(t.config)
      BY DEF order
    <2> QED BY <1>1, <1>2, <2>1, FillTrace
  <1> DEFINE Upto == {k \in Nat : k <= n => Filling(t, g[k], k)}
  <1>4. 0 \in Upto
    BY <1>3, FillingStarts
  <1>5. ASSUME NEW k \in Upto PROVE k + 1 \in Upto
    <2>1. k \in Nat
      OBVIOUS
    <2>2. SUFFICES ASSUME k + 1 <= n PROVE Filling(t, g[k + 1], k + 1)
      BY <2>1
    <2>3. k < n /\ k <= n /\ k + 1 \in 1 .. n /\ (k + 1) - 1 = k
      BY <1>1, <2>1, <2>2
    <2>4. Filling(t, g[k], k)
      BY <2>3
    <2> DEFINE d == IF k < t.config.capture THEN "capture" ELSE "playback"
               prime == TRUE
               u == g[k]
               v == T!SubmitNext(u, d, prime)
    <2>5. order[k + 1] = d
      BY <1>1, <1>2, <2>1, <2>3
    <2>6. u.count.submitFailures = 0 /\ t.count.submitFailures = 0
      BY <2>4 DEF Filling, Blank, OnlyPrimes
    <2>7. g[k + 1] = v
      <3>1. g[k + 1] = FillOne(t, u, d)
        BY <1>3, <2>3, <2>5
      <3>2. ~(u.count.submitFailures > t.count.submitFailures)
        BY <2>6
      <3> HIDE DEF u, d
      <3> QED BY <3>1, <3>2 DEF FillOne
    <2>8. prime \in BOOLEAN /\ ByPrime(prime)
      BY DEF ByPrime
    <2> HIDE DEF d, u, v, prime, Upto
    <2>9. TurnOf(t, k, d)
      BY DEF d, TurnOf
    <2>10. Filling(t, u, k) /\ v = T!SubmitNext(u, d, prime) /\ k < Together(t)
      BY <2>3, <2>4 DEF u, v, n
    <2>11. Filling(t, v, k + 1)
      BY <1>1, <2>1, <2>8, <2>9, <2>10, FillingGoesOn
    <2> QED BY <2>7, <2>11
  <1>6. Upto = Nat
    <2> HIDE DEF Upto
    <2>1. Upto \in SUBSET Nat
      BY DEF Upto
    <2> QED BY <1>4, <1>5, <2>1, CountUp
  <1>7. n \in Upto
    BY <1>1, <1>6
  <1> QED BY <1>1, <1>3, <1>7 DEF n

\* prime() fills both queues of a blank transport.
LEMMA Primes ==
    ASSUME NEW t, IsTransport(t), Blank(t), NEW w, w = T!Primed(t)
    PROVE  /\ IsTransport(w) /\ w.started = t.started /\ w.primed /\ Opened(w) /\ Full(w)
           /\ Counted(w) /\ w.config = t.config /\ \A d \in Directions : Linked(w.dir[d])
  <1> DEFINE u == T!Filled(t)
             v == [u EXCEPT !.primed = TRUE]
             a == T!AccountDepth(v, "capture")
  <1>1. Filling(t, u, Together(t))
    BY FillingEnds
  <1>2. w = T!AccountDepth(a, "playback")
    <2>1. ~(u.count.submitFailures > t.count.submitFailures)
      BY <1>1 DEF Filling, Blank, OnlyPrimes
    <2> QED BY <2>1 DEF T!Primed
  <1>3. /\ t.config.capture \in Nat /\ t.config.playback \in Nat /\ t.config.capture > 0
        /\ t.config.playback > 0 /\ Together(t) = t.config.capture + t.config.playback
    BY PoolConstants DEF IsTransport, Blank, Opened, T!Configs, T!ConfigValid, Together
  <1> HIDE DEF u
  <1>4. /\ DOMAIN v = TransportNames /\ v.started = u.started /\ v.primed = TRUE
        /\ v.config = u.config /\ v.pool = u.pool /\ v.dir = u.dir /\ v.count = u.count
    BY <1>1 DEF Filling, WellHeld, IsTransport, TransportNames
  <1> HIDE DEF v
  <1>5. IsTransport(v) /\ v.config = t.config /\ v.started = t.started
    BY <1>1, <1>4 DEF Filling, WellHeld, Same, IsTransport
  <1>6. Accounted(v, "capture", a)
    <2>1. "capture" \in Directions
      BY DEF Directions
    <2> QED BY <1>5, <2>1, AccountsDepth
  <1> HIDE DEF a
  <1>7. IsTransport(a) /\ a.config = t.config /\ a.started = t.started /\ a.primed = TRUE
        /\ a.pool = u.pool /\ a.dir = u.dir
    BY <1>4, <1>5, <1>6 DEF Accounted, Kept
  <1>8. Accounted(a, "playback", w)
    <2>1. "playback" \in Directions
      BY DEF Directions
    <2> QED BY <1>2, <1>7, <2>1, AccountsDepth
  <1>9. IsTransport(w) /\ w.config = t.config /\ w.started = t.started /\ w.primed = TRUE
        /\ w.pool = u.pool /\ w.dir = u.dir
    BY <1>7, <1>8 DEF Accounted, Kept
  <1>10. \A d \in Directions : u.dir[d].live = t.config[d]
    <2>1. ~(Together(t) < t.config.capture)
      BY <1>3
    <2>2. u.dir["capture"].live = t.config.capture /\ u.dir["playback"].live = t.config.playback
      BY <1>1, <1>3, <2>1 DEF Filling, FirstLive, Same
    <2> QED BY <2>2 DEF Directions
  <1>11. Together(w) = Together(t) /\ Opened(w)
    BY <1>1, <1>9 DEF Filling, Same, WellHeld, Opened, Together
  <1>12. Full(w)
    <2>1. Held(w)
      <3>1. \A d, i : Place(w, d, i) = Place(u, d, i)
        BY <1>1, <1>9 DEF Place, Filling, Same
      <3> QED BY <1>1, <1>9, <3>1 DEF Held, Filling, WellHeld
    <2> QED BY <1>1, <1>9, <1>10, <1>11, <2>1 DEF Filling, FirstSlots, Full
  <1>13. /\ w.count.drift = 0 /\ \A d \in Directions : w.count.maxDepth[d] = t.config[d]
    <2>1. v.dir = u.dir /\ a.dir = u.dir /\ v.config = t.config /\ a.config = t.config
      BY <1>4, <1>5, <1>7
    <2>2. v.count.drift = 0 /\ v.count.maxDepth["capture"] = 0 /\ v.count.maxDepth["playback"] = 0
      BY <1>1, <1>4 DEF Filling, OnlyPrimes, Directions
    <2>3. u.dir["capture"].live = t.config.capture /\ u.dir["playback"].live = t.config.playback
      BY <1>10 DEF Directions
    <2>4. a.count.drift = 0 /\ w.count.drift = 0
      BY <1>6, <1>8, <2>1, <2>2, <2>3 DEF Accounted
    <2>5. a.count.maxDepth["capture"] = t.config.capture /\ a.count.maxDepth["playback"] = 0
      BY <1>3, <1>6, <2>1, <2>2, <2>3 DEF Accounted, Directions
    <2>6. w.count.maxDepth["capture"] = t.config.capture
          /\ w.count.maxDepth["playback"] = t.config.playback
      BY <1>3, <1>8, <2>1, <2>3, <2>5 DEF Accounted, Directions
    <2> QED BY <2>4, <2>6 DEF Directions
  <1>14. Counted(w)
    <2>1. w.count.failures \in Nat
      BY <1>9 DEF IsTransport, TransportCounts
    <2>2. /\ w.count.gaps = 0 /\ w.count.reuses = 0 /\ w.count.steady = 0
          /\ w.count.submitFailures = 0 /\ w.count.liveLimit = 0 /\ w.count.mismatches = 0
          /\ w.count.completions = 0 /\ w.count.cancels = 0 /\ w.count.primes = Together(t)
      BY <1>1, <1>4, <1>6, <1>8 DEF Accounted, Filling, OnlyPrimes
    <2>3. /\ w.pool.count.live = Together(t) /\ w.pool.count.maxLive = Together(t)
          /\ w.pool.count.fallbacks = 0
      BY <1>1, <1>9 DEF Filling, FirstSlots
    <2> QED BY <1>3, <1>9, <1>11, <1>13, <2>1, <2>2, <2>3 DEF Counted
  <1> QED BY <1>1, <1>9, <1>11, <1>12, <1>14 DEF Filling, WellHeld

Empty(t) == t.pool.count.live = 0 /\ \A d \in Directions : t.dir[d].live = 0

\* What the transport keeps to, between calls.
TransportSafe(t) ==
    /\ IsTransport(t)
    /\ \A d \in Directions : t.dir[d].live > 0 => Linked(t.dir[d])
    /\ t.primed => t.started
    /\ t.started => Opened(t) /\ (~t.primed => Blank(t))
    /\ InStep(t) =>
        /\ t.primed => Full(t) \/ Empty(t)
        /\ ~t.started => Empty(t)
        /\ t.count.primes > 0 => Counted(t)

\* A transport that was never started satisfies it.
LEMMA TransportInit == T!Init => TransportSafe(transport)
  <1> SUFFICES ASSUME T!Init PROVE TransportSafe(transport)
    OBVIOUS
  <1> DEFINE t == transport
  <1>1. t = T!NewTransport
    BY DEF T!Init
  <1>2. /\ DOMAIN t = TransportNames /\ t.started = FALSE /\ t.primed = FALSE
        /\ t.config = T!NoConfig /\ t.pool = NewPool /\ t.count = T!NoTransportCounts
        /\ t.dir = [d \in Directions |-> T!Queue(0)]
    BY <1>1, TransportPool DEF T!NewTransport, TransportNames
  <1> HIDE DEF t
  <1>3. T!NoConfig \in T!Configs
    BY PoolConstants DEF T!NoConfig, T!Configs
  <1>4. T!NoTransportCounts \in TransportCounts /\ T!NoTransportCounts.primes = 0
    BY TransportPool DEF T!NoTransportCounts, TransportCounts, Zero
  <1>5. T!Queue(0) \in QueueRecs /\ T!Queue(0).live = 0
    BY PoolConstants, TransportPool, TransportRequests DEF T!Queue, QueueRecs, SlotIds
  <1>6. Sound(NewPool) /\ NewPool.count.live = 0
    BY NewPoolSound DEF NoCounts
  <1>7. \A d \in Directions : t.dir[d].live = 0 /\ t.config[d] \in Nat
    BY <1>2, <1>5 DEF T!NoConfig, Directions
  <1>8. IsTransport(t)
    <2>1. t.dir \in [Directions -> QueueRecs]
      BY <1>2, <1>5
    <2>2. \A d \in Directions : t.dir[d].live <= t.config[d]
      BY <1>7
    <2>3. t.started \in BOOLEAN /\ t.primed \in BOOLEAN
      BY <1>2
    <2> QED BY <1>2, <1>3, <1>4, <1>6, <2>1, <2>2, <2>3 DEF IsTransport
  <1>9. Empty(t)
    BY <1>2, <1>6, <1>7 DEF Empty
  <1> QED BY <1>2, <1>4, <1>7, <1>8, <1>9 DEF TransportSafe, t

\* start()
LEMMA TransportStarts ==
    ASSUME NEW c \in T!Configs, T!ConfigValid(c), NEW u, u = T!StartedTransport(c)
    PROVE  TransportSafe(u)
  <1>1. /\ c.slots \in 1 .. MaxSlots /\ c.capture \in Nat /\ c.playback \in Nat
        /\ c.capture > 0 /\ c.playback > 0 /\ c.capture + c.playback <= c.slots
        /\ MaxSlots \in Nat /\ MaxSlots > 0
    BY PoolConstants DEF T!Configs, T!ConfigValid
  <1> DEFINE p == PoolStart(NewPool, c.slots)
  <1>2. /\ DOMAIN u = TransportNames /\ u.started = TRUE /\ u.primed = FALSE /\ u.config = c
        /\ u.pool = p /\ u.count = T!NoTransportCounts
        /\ u.dir = [d \in Directions |-> T!Queue(T!BaseFor(c, d))]
    BY TransportPool DEF T!StartedTransport, TransportNames
  <1>3. /\ Sound(p) /\ p.started /\ p.slots = c.slots /\ p.count = NoCounts
        /\ \A s \in SlotIds : ~p.inUse[s]
    <2>1. p = PoolStart(NewPool, c.slots) /\ c.slots \in 1 .. MaxSlots
      BY <1>1
    <2> HIDE DEF p
    <2>2. Sound(p) /\ p.started /\ p.slots = c.slots /\ p.count = NoCounts
      BY <2>1, NewPoolSound, OpensAndCloses
    <2>3. \A s \in SlotIds : ~p.inUse[s]
      <3>1. Busy(p) = {}
        BY <2>1, <2>2, SoundBusy DEF NoCounts
      <3> QED BY <2>2, <3>1, SoundBusy
    <2> QED BY <2>2, <2>3
  <1> HIDE DEF p
  <1>4. T!NoTransportCounts \in TransportCounts /\ OnlyPrimes(T!NoTransportCounts, 0)
    BY TransportPool DEF T!NoTransportCounts, TransportCounts, Zero, OnlyPrimes
  <1>5. \A d \in Directions : T!BaseFor(c, d) \in SlotIds
    BY <1>1 DEF T!BaseFor, SlotIds
  <1>6. ASSUME NEW b \in SlotIds
        PROVE  /\ T!Queue(b) \in QueueRecs /\ T!Queue(b).live = 0 /\ T!Queue(b).head = 0
               /\ T!Queue(b).next = 0 /\ T!Queue(b).expected = 0 /\ T!Queue(b).base = b
    BY PoolConstants, TransportPool, TransportRequests DEF T!Queue, QueueRecs, SlotIds
  <1>7. FirstSlots(p, 0)
    <2>1. NoCounts.live = 0 /\ NoCounts.maxLive = 0 /\ NoCounts.fallbacks = 0
      BY DEF NoCounts
    <2>2. \A s \in SlotIds : ~(s < 0)
      BY PoolConstants DEF SlotIds
    <2> QED BY <1>3, <2>1, <2>2 DEF FirstSlots
  <1>8. \A d \in Directions : /\ u.dir[d].head = 0 /\ u.dir[d].live = 0 /\ u.dir[d].next = 0
                              /\ u.dir[d].expected = 0 /\ u.dir[d].base = T!BaseFor(c, d)
                              /\ u.config[d] \in Nat
    BY <1>1, <1>2, <1>5, <1>6 DEF Directions
  <1>9. IsTransport(u)
    <2>1. u.dir \in [Directions -> QueueRecs]
      BY <1>2, <1>5, <1>6
    <2>2. \A d \in Directions : u.dir[d].live <= u.config[d]
      BY <1>8
    <2>3. u.started \in BOOLEAN /\ u.primed \in BOOLEAN
      BY <1>2
    <2> QED BY <1>2, <1>3, <1>4, <2>1, <2>2, <2>3 DEF IsTransport
  <1>10. Opened(u) /\ Blank(u)
    BY <1>2, <1>3, <1>4, <1>7, <1>8 DEF Opened, Blank
  <1>11. ~(u.count.primes > 0)
    BY <1>2, <1>4 DEF OnlyPrimes
  <1> QED BY <1>2, <1>8, <1>9, <1>10, <1>11 DEF TransportSafe

\* The transport u is t with its queues and its pool emptied.
DrainedTo(t, u) ==
    /\ IsTransport(u) /\ u.started = t.started /\ u.primed = t.primed /\ u.config = t.config
    /\ u.pool.started /\ u.pool.slots = t.pool.slots
    /\ \A s \in SlotIds : ~u.pool.inUse[s]
    /\ u.pool.count.fallbacks = t.pool.count.fallbacks
    /\ u.pool.count.maxLive = t.pool.count.maxLive
    /\ Empty(u)
    /\ \A d \in Directions : /\ u.dir[d].base = t.dir[d].base /\ u.dir[d].head = 0
                             /\ u.dir[d].next = t.dir[d].next
                             /\ u.dir[d].expected = t.dir[d].expected
    /\ u.count.cancels = t.count.cancels + t.pool.count.live
    /\ \A k : OnlyPrimes(t.count, k) /\ t.pool.count.live = 0 => OnlyPrimes(u.count, k)
    /\ u.count.primes = t.count.primes
    /\ Counted(t) => Counted(u)

\* drain() and stop() empty them.
LEMMA Drains ==
    ASSUME NEW t, IsTransport(t), t.pool.started, NEW u, u = T!Drained(t)
    PROVE  DrainedTo(t, u)
  <1> DEFINE p == PoolCancelAll(t.pool)
             n == Cardinality(Busy(t.pool))
             v == [d \in Directions |-> [t.dir[d] EXCEPT !.live = 0, !.head = 0]]
             a == t.count.cancels + n
             e == [t.count EXCEPT !.cancels = a]
  <1>1. Sound(t.pool) /\ t.dir \in [Directions -> QueueRecs] /\ t.count \in TransportCounts
        /\ t.config \in T!Configs
    BY DEF IsTransport
  <1>2. u = [t EXCEPT !.pool = p, !.dir = v, !.count = e]
    <2>1. u = [t EXCEPT !.pool = p, !.count.cancels = t.count.cancels + n,
                        !.dir = [d \in Directions |-> [t.dir[d] EXCEPT !.live = 0, !.head = 0]]]
      BY TransportPool DEF T!Drained
    <2> HIDE DEF p, n
    <2> QED BY <1>1, <2>1 DEF IsTransport, TransportNames
  <1>3. n = t.pool.count.live /\ n \in Nat
    BY <1>1, SoundBusy DEF Sound
  <1> HIDE DEF p, n
  <1>4. /\ Sound(p) /\ p.started /\ p.slots = t.pool.slots
        /\ p.count.fallbacks = t.pool.count.fallbacks /\ p.count.maxLive = t.pool.count.maxLive
        /\ p.count.live = 0 /\ \A s \in SlotIds : ~p.inUse[s]
    <2> DEFINE z == t.pool
    <2>1. Sound(z) /\ z.started /\ p = PoolCancelAll(z)
      BY <1>1 DEF p
    <2> HIDE DEF z
    <2>2. Sound(p) /\ p.slots = z.slots /\ p.count.fallbacks = z.count.fallbacks
          /\ p.count.maxLive = z.count.maxLive
      BY <2>1, CancelsAll
    <2>3. p.started
      BY <2>1, CancelsAll
    <2>4. p.count.live = 0
      BY <2>1, CancelsAll
    <2>5. \A s \in SlotIds : ~p.inUse[s]
      BY <2>1, CancelsAll
    <2> QED BY <2>2, <2>4, <2>5, <2>3 DEF z
  <1>5. \A d \in Directions : /\ v[d] \in QueueRecs /\ v[d].live = 0 /\ v[d].head = 0
                              /\ v[d].base = t.dir[d].base /\ v[d].next = t.dir[d].next
                              /\ v[d].expected = t.dir[d].expected
    <2> TAKE d \in Directions
    <2>1. 0 \in SlotIds /\ 0 \in 0 .. MaxSlots
      BY PoolConstants DEF SlotIds
    <2>2. v[d] = [t.dir[d] EXCEPT !.live = 0, !.head = 0] /\ t.dir[d] \in QueueRecs
      BY <1>1
    <2> HIDE DEF v
    <2> QED BY <2>1, <2>2 DEF QueueRecs
  <1>6. DOMAIN v = Directions /\ v \in [Directions -> QueueRecs]
    BY <1>5
  <1>7. a \in Nat
    BY <1>1, <1>3 DEF TransportCounts
  <1> HIDE DEF v, a
  <1>8. /\ e \in TransportCounts /\ e.cancels = a
        /\ e.primes = t.count.primes /\ e.steady = t.count.steady /\ e.reuses = t.count.reuses
        /\ e.completions = t.count.completions /\ e.drift = t.count.drift
        /\ e.gaps = t.count.gaps /\ e.submitFailures = t.count.submitFailures
        /\ e.liveLimit = t.count.liveLimit /\ e.mismatches = t.count.mismatches
        /\ e.maxDepth = t.count.maxDepth /\ e.failures = t.count.failures
    BY <1>1, <1>7 DEF TransportCounts
  <1> HIDE DEF e
  <1>9. /\ DOMAIN u = TransportNames /\ u.started = t.started /\ u.primed = t.primed
        /\ u.config = t.config /\ u.pool = p /\ u.dir = v /\ u.count = e
    BY <1>2 DEF IsTransport, TransportNames
  <1>10. IsTransport(u)
    <2>1. \A d \in Directions : u.dir[d].live <= u.config[d]
      BY <1>1, <1>5, <1>9, PoolConstants DEF T!Configs, Directions
    <2> QED BY <1>1, <1>4, <1>6, <1>8, <1>9, <2>1 DEF IsTransport
  <1>11. ASSUME NEW k, OnlyPrimes(t.count, k), t.pool.count.live = 0 PROVE OnlyPrimes(u.count, k)
    BY <1>3, <1>8, <1>9, <1>11 DEF OnlyPrimes, a
  <1>12. ASSUME Counted(t) PROVE Counted(u)
    <2>1. u.count.primes + u.count.steady
              = u.count.completions + u.count.cancels + u.pool.count.live
      <3>1. t.count.completions \in Nat /\ t.count.cancels \in Nat
        BY <1>1 DEF TransportCounts
      <3> QED BY <1>3, <1>4, <1>8, <1>9, <1>12, <3>1 DEF Counted, a
    <2> QED BY <1>4, <1>8, <1>9, <1>12, <2>1 DEF Counted, Together
  <1>13. Empty(u)
    BY <1>4, <1>5, <1>9 DEF Empty
  <1> QED BY <1>3, <1>4, <1>5, <1>8, <1>9, <1>10, <1>11, <1>12, <1>13 DEF DrainedTo, a

\* drain()
LEMMA TransportDrains ==
    ASSUME NEW t, TransportSafe(t), t.started, NEW u, u = T!Drained(t)
    PROVE  TransportSafe(u)
  <1>1. IsTransport(t) /\ Opened(t) /\ t.pool.started
    BY DEF TransportSafe, Opened
  <1>2. /\ IsTransport(u) /\ u.started = t.started /\ u.primed = t.primed /\ u.config = t.config
        /\ u.pool.started /\ u.pool.slots = t.pool.slots
        /\ \A s \in SlotIds : ~u.pool.inUse[s]
        /\ u.pool.count.fallbacks = t.pool.count.fallbacks
        /\ u.pool.count.maxLive = t.pool.count.maxLive
        /\ Empty(u)
        /\ \A d \in Directions : /\ u.dir[d].base = t.dir[d].base /\ u.dir[d].head = 0
                                 /\ u.dir[d].next = t.dir[d].next
                                 /\ u.dir[d].expected = t.dir[d].expected
        /\ \A k : OnlyPrimes(t.count, k) /\ t.pool.count.live = 0 => OnlyPrimes(u.count, k)
        /\ u.count.primes = t.count.primes
        /\ Counted(t) => Counted(u)
    <2>1. DrainedTo(t, u)
      BY <1>1, Drains
    <2> QED BY <2>1 DEF DrainedTo
  <1>3. Opened(u)
    BY <1>1, <1>2 DEF Opened
  <1>4. ASSUME ~u.primed PROVE Blank(u)
    <2>1. Blank(t)
      BY <1>2, <1>4 DEF TransportSafe
    <2>2. OnlyPrimes(u.count, 0)
      BY <1>2, <2>1 DEF Blank, FirstSlots
    <2>3. FirstSlots(u.pool, 0)
      <3>1. \A s \in SlotIds : ~(s < 0)
        BY PoolConstants DEF SlotIds
      <3> QED BY <1>2, <2>1, <3>1 DEF Blank, FirstSlots, Empty
    <2> QED BY <1>2, <1>3, <2>1, <2>2, <2>3 DEF Blank, Empty
  <1>5. InStep(u) => InStep(t)
    BY <1>2 DEF InStep
  <1>6. u.count.primes > 0 /\ InStep(u) => Counted(u)
    BY <1>2, <1>5 DEF TransportSafe
  <1>7. \A d \in Directions : ~(u.dir[d].live > 0)
    BY <1>2 DEF Empty
  <1> QED BY <1>2, <1>3, <1>4, <1>6, <1>7 DEF TransportSafe

\* stop()
LEMMA TransportStops ==
    ASSUME NEW t, TransportSafe(t), t.started, NEW u, u = T!Stopped(t)
    PROVE  TransportSafe(u)
  <1> DEFINE v == T!Drained(t)
             p == PoolStop(v.pool)
  <1>1. IsTransport(t) /\ t.pool.started
    BY DEF TransportSafe, Opened
  <1>2. IsTransport(v) /\ v.config = t.config /\ Empty(v) /\ v.count.primes = t.count.primes
        /\ (Counted(t) => Counted(v))
    BY <1>1, Drains DEF DrainedTo
  <1>3. u = [v EXCEPT !.pool = p, !.started = FALSE, !.primed = FALSE]
    BY TransportPool DEF T!Stopped
  <1> HIDE DEF v
  <1>4. Sound(p) /\ p.count = v.pool.count
    BY <1>2, OpensAndCloses DEF IsTransport
  <1> HIDE DEF p
  <1>5. /\ DOMAIN u = TransportNames /\ u.started = FALSE /\ u.primed = FALSE
        /\ u.config = t.config /\ u.pool = p /\ u.dir = v.dir /\ u.count = v.count
    BY <1>2, <1>3 DEF IsTransport, TransportNames
  <1>6. IsTransport(u)
    BY <1>2, <1>4, <1>5 DEF IsTransport
  <1>7. Empty(u) /\ \A d \in Directions : ~(u.dir[d].live > 0)
    BY <1>2, <1>4, <1>5 DEF Empty
  <1>8. Counted(v) => Counted(u)
    BY <1>2, <1>4, <1>5 DEF Counted, Together
  <1>9. InStep(u) => InStep(t)
    BY <1>5 DEF InStep
  <1>10. u.count.primes > 0 /\ InStep(u) => Counted(u)
    BY <1>2, <1>5, <1>8, <1>9 DEF TransportSafe
  <1> QED BY <1>5, <1>6, <1>7, <1>10 DEF TransportSafe

\* prime()
LEMMA TransportPrimes ==
    ASSUME NEW t, TransportSafe(t), t.started, ~t.primed, NEW u, u = T!Primed(t)
    PROVE  TransportSafe(u)
  <1>1. IsTransport(t) /\ Blank(t)
    BY DEF TransportSafe
  <1>2. /\ IsTransport(u) /\ u.started = t.started /\ u.primed /\ Opened(u) /\ Full(u)
        /\ Counted(u) /\ u.config = t.config /\ \A d \in Directions : Linked(u.dir[d])
    BY <1>1, Primes
  <1> QED BY <1>2 DEF TransportSafe

\* complete_next() with a request to retire,
LEMMA TransportCompletes ==
    ASSUME NEW t, TransportSafe(t), NEW d \in Directions, T!CanComplete(t, d),
           NEW u, u = T!AfterCompletion(t, d)
    PROVE  TransportSafe(u)
  <1>1. /\ IsTransport(t) /\ Opened(t) /\ t.started /\ t.primed /\ t.dir[d].live > 0
        /\ Linked(t.dir[d])
    BY DEF TransportSafe, T!CanComplete
  <1>2. Beside(t, d, u) /\ Linked(u.dir[d])
    BY <1>1, Completes
  <1>3. /\ IsTransport(u) /\ u.started = t.started /\ u.primed = t.primed /\ u.config = t.config
        /\ u.pool.started = t.pool.started /\ u.pool.slots = t.pool.slots
        /\ \A e \in Directions : u.dir[e].base = t.dir[e].base
        /\ \A e \in Directions : u.dir[e].live > 0 => Linked(u.dir[e])
    BY <1>2 DEF Beside, Kept, TransportSafe
  <1>4. Opened(u)
    BY <1>1, <1>3 DEF Opened
  <1>5. InStep(u) => Full(u) /\ (u.count.primes > 0 => Counted(u))
    <2> SUFFICES ASSUME InStep(u) PROVE Full(u) /\ (u.count.primes > 0 => Counted(u))
      OBVIOUS
    <2>1. InStep(t)
      BY <1>3 DEF InStep
    <2>2. ~Empty(t)
      BY <1>1 DEF Empty
    <2>3. Full(t) /\ (t.count.primes > 0 => Counted(t))
      BY <1>1, <2>1, <2>2 DEF TransportSafe
    <2> QED BY <1>1, <2>1, <2>3, StaysFull
  <1> QED BY <1>1, <1>3, <1>4, <1>5 DEF TransportSafe

\* and without one.
LEMMA TransportRefuses ==
    ASSUME NEW t, TransportSafe(t), NEW u, u = T!NothingToComplete(t)
    PROVE  TransportSafe(u)
  <1> DEFINE a == t.count.failures + 1
             b == IF t.started /\ t.primed THEN t.count.drift + 1 ELSE t.count.drift
             e == [t.count EXCEPT !.failures = a, !.drift = b]
  <1>1. IsTransport(t) /\ t.count \in TransportCounts /\ t.count.drift \in Nat /\ t.count.failures \in Nat
    BY DEF TransportSafe, IsTransport, TransportCounts
  <1>2. u = [t EXCEPT !.count = e]
    <2>1. u = [t EXCEPT !.count.failures = a, !.count.drift = b]
      BY DEF T!NothingToComplete
    <2> HIDE DEF a, b
    <2> QED BY <1>1, <2>1 DEF IsTransport, TransportNames, TransportCounts
  <1>3. /\ a \in Nat /\ b \in Nat /\ (t.count.drift <= t.count.failures => b <= a)
        /\ (~t.primed => b = t.count.drift)
    BY <1>1
  <1> HIDE DEF a, b
  <1>4. /\ e \in TransportCounts /\ e.cancels = t.count.cancels
        /\ e.primes = t.count.primes /\ e.steady = t.count.steady /\ e.reuses = t.count.reuses
        /\ e.completions = t.count.completions /\ e.drift = b
        /\ e.gaps = t.count.gaps /\ e.submitFailures = t.count.submitFailures
        /\ e.liveLimit = t.count.liveLimit /\ e.mismatches = t.count.mismatches
        /\ e.maxDepth = t.count.maxDepth /\ e.failures = a
    BY <1>1, <1>3 DEF TransportCounts
  <1> HIDE DEF e
  <1>5. /\ DOMAIN u = TransportNames /\ u.started = t.started /\ u.primed = t.primed
        /\ u.config = t.config /\ u.pool = t.pool /\ u.dir = t.dir /\ u.count = e
    BY <1>1, <1>2 DEF IsTransport, TransportNames
  <1>6. IsTransport(u)
    BY <1>1, <1>4, <1>5 DEF IsTransport
  <1>7. (Opened(t) => Opened(u)) /\ (InStep(u) => InStep(t)) /\ (Empty(t) => Empty(u))
    BY <1>5 DEF Opened, InStep, Empty
  <1>8. Counted(t) => Counted(u)
    BY <1>3, <1>4, <1>5 DEF Counted, Together
  <1>9. Full(t) => Full(u)
    <2>1. \A d, i : Place(u, d, i) = Place(t, d, i)
      BY <1>5 DEF Place
    <2>2. Held(t) => Held(u)
      BY <1>5, <2>1 DEF Held
    <2> QED BY <1>5, <2>2 DEF Full, Together
  <1>10. ~t.primed /\ Blank(t) => Blank(u)
    <2>1. ~t.primed /\ OnlyPrimes(t.count, 0) => OnlyPrimes(u.count, 0)
      BY <1>3, <1>4, <1>5 DEF OnlyPrimes
    <2> QED BY <1>5, <1>7, <2>1 DEF Blank
  <1> QED BY <1>4, <1>5, <1>6, <1>7, <1>8, <1>9, <1>10 DEF TransportSafe

\* Every step of the transport keeps the invariant.
LEMMA TransportNext == TransportSafe(transport) /\ [T!Next]_transport => TransportSafe(transport')
  <1> DEFINE t == transport
  <1> SUFFICES ASSUME TransportSafe(t), [T!Next]_transport PROVE TransportSafe(transport')
    OBVIOUS
  <1>1. ASSUME NEW c \in T!Configs, T!Start(c) PROVE TransportSafe(transport')
    BY <1>1, TransportStarts DEF T!Start
  <1>2. CASE T!Prime
    BY <1>2, TransportPrimes DEF T!Prime
  <1>3. ASSUME NEW d \in Directions, T!CompleteNext(d) PROVE TransportSafe(transport')
    BY <1>3, TransportCompletes DEF T!CompleteNext
  <1>4. ASSUME NEW d \in Directions, T!CompleteNextFails(d) PROVE TransportSafe(transport')
    BY <1>4, TransportRefuses DEF T!CompleteNextFails
  <1>5. CASE T!Drain
    BY <1>5, TransportDrains DEF T!Drain
  <1>6. CASE T!Stop
    BY <1>6, TransportStops DEF T!Stop
  <1>7. CASE UNCHANGED transport
    BY <1>7
  <1>8. T!Directions = Directions
    BY TransportPool
  <1> QED BY <1>1, <1>2, <1>3, <1>4, <1>5, <1>6, <1>7, <1>8 DEF T!Next

\* A full transport has each queued request live in the slot range of its direction.
LEMMA FullOwnsThePool ==
    ASSUME NEW t, IsTransport(t), Opened(t), Full(t)
    PROVE  /\ t.pool.count.live = t.dir["capture"].live + t.dir["playback"].live
           /\ \A d \in Directions : \A h \in T!LiveHandles(t, d) :
                 /\ Accepts(t.pool, h) /\ h.slot \in T!SlotRange(t, d)
                 /\ t.pool.desc[h.slot].dir = d
  <1>1. t.pool.count.live = t.dir["capture"].live + t.dir["playback"].live
    BY DEF Full, Together, Directions
  <1>2. ASSUME NEW d \in Directions, NEW h \in T!LiveHandles(t, d)
        PROVE  /\ Accepts(t.pool, h) /\ h.slot \in T!SlotRange(t, d)
               /\ t.pool.desc[h.slot].dir = d
    <2>1. PICK i \in 0 .. t.dir[d].live - 1 : h = EntryOf(t.dir[d], i).handle
      BY DEF T!LiveHandles, T!Entry, EntryOf
    <2> DEFINE s == Place(t, d, i)
    <2>2. h = HandleOf(t.pool, s) /\ t.pool.desc[s].dir = d
      BY <2>1 DEF Full, Held
    <2>3. i \in Nat
      OBVIOUS
    <2>4. /\ s \in SlotIds /\ s < Together(t) /\ Together(t) \in Nat /\ Together(t) <= t.pool.slots
          /\ s \in t.dir[d].base .. t.dir[d].base + t.config[d] - 1
      BY <2>3, PlacesApart
    <2> HIDE DEF s
    <2>5. h.slot = s /\ h.gen = t.pool.gen[s]
      BY <2>2 DEF HandleOf
    <2>6. s \in ConfiguredSlots(t.pool)
      BY <2>4, PoolConstants DEF ConfiguredSlots, SlotIds, IsTransport, Sound
    <2>7. Accepts(t.pool, h)
      BY <2>4, <2>5, <2>6 DEF Accepts, HandleInRange, Opened, Full
    <2> QED BY <2>2, <2>4, <2>5, <2>7 DEF T!SlotRange, T!Depth
  <1> QED BY <1>1, <1>2

\* The invariant gives what the run checks of the transport.
LEMMA TransportImplies ==
    TransportSafe(transport) => T!QueuesOwnThePool /\ T!DrainedIsProductSafe
  <1> DEFINE t == transport
  <1> SUFFICES ASSUME TransportSafe(t) PROVE T!QueuesOwnThePool /\ T!DrainedIsProductSafe
    OBVIOUS
  <1>1. IsTransport(t)
    BY DEF TransportSafe
  <1>2. T!Directions = Directions /\ T!SlotIds = SlotIds /\ T!Generations = Generations
    BY TransportPool DEF T!Generations, Generations
  <1>3. T!TypeOK
    <2>1. t.config \in T!Configs /\ t.started \in BOOLEAN /\ t.primed \in BOOLEAN
      BY <1>1 DEF IsTransport
    <2>2. t.pool.gen \in [SlotIds -> Generations]
      BY <1>1 DEF IsTransport, Sound
    <2>3. \A d \in Directions : t.dir[d] \in QueueRecs /\ t.dir[d].live <= t.config[d]
      BY <1>1 DEF IsTransport
    <2>4. \A d \in Directions :
             /\ t.dir[d] \in [base : SlotIds, head : SlotIds, live : 0 .. MaxSlots,
                              queue : [SlotIds -> T!Request \cup {T!NoRequest}],
                              next : Nat, expected : Nat]
             /\ t.dir[d].live <= T!Depth(t, d)
      BY <2>3 DEF QueueRecs, Requests, T!Depth
    <2> QED BY <1>2, <2>1, <2>2, <2>4 DEF T!TypeOK
  <1>4. \A d \in Directions : T!Continuous(t.dir[d])
    <2> TAKE d \in Directions
    <2>1. t.dir[d].live \in Nat
      BY <1>1, PoolConstants DEF IsTransport, QueueRecs
    <2>2. CASE t.dir[d].live > 0
      BY <2>2 DEF TransportSafe, Linked, T!Continuous, T!Entry, EntryOf
    <2>3. CASE t.dir[d].live = 0
      BY <2>3 DEF T!Continuous
    <2> QED BY <2>1, <2>2, <2>3
  <1>5. T!DepthsDivideRing => InStep(t)
    BY <1>2 DEF T!DepthsDivideRing, T!Depth, InStep
  <1>6. ASSUME InStep(t)
        PROVE  /\ t.pool.count.live = t.dir["capture"].live + t.dir["playback"].live
               /\ \A d \in Directions : \A h \in T!LiveHandles(t, d) :
                     /\ t.started => Accepts(t.pool, h)
                     /\ h.slot \in T!SlotRange(t, d) /\ t.pool.desc[h.slot].dir = d
               /\ t.primed => \/ \A d \in Directions : t.dir[d].live = T!Depth(t, d)
                              \/ \A d \in Directions : t.dir[d].live = 0
    <2>1. Empty(t) \/ (t.started /\ Full(t))
      <3>1. t.started /\ ~t.primed => Empty(t)
        BY DEF TransportSafe, Blank, FirstSlots, Empty
      <3>2. t.primed => t.started /\ (Full(t) \/ Empty(t))
        BY <1>6 DEF TransportSafe
      <3>3. ~t.started => Empty(t)
        BY <1>6 DEF TransportSafe
      <3> QED BY <3>1, <3>2, <3>3
    <2>2. CASE Empty(t)
      <3>1. \A d \in Directions : T!LiveHandles(t, d) = {}
        <4>1. \A d \in Directions : 0 .. t.dir[d].live - 1 = {}
          BY <2>2 DEF Empty
        <4> QED BY <4>1 DEF T!LiveHandles
      <3> QED BY <2>2, <3>1 DEF Empty, Directions
    <2>3. CASE t.started /\ Full(t)
      <3>1. Opened(t)
        BY <2>3 DEF TransportSafe
      <3>2. \A d \in Directions : t.dir[d].live = T!Depth(t, d)
        BY <2>3 DEF Full, T!Depth
      <3> QED BY <1>1, <2>3, <3>1, <3>2, FullOwnsThePool
    <2> QED BY <2>1, <2>2, <2>3
  <1>7. \A p, h : T!Accepts(p, h) = Accepts(p, h)
    BY TransportPool
  <1>8. T!QueuesOwnThePool
    BY <1>2, <1>3, <1>4, <1>5, <1>6, <1>7 DEF T!QueuesOwnThePool
  <1>9. ASSUME InStep(t), t.count.primes > 0, t.count.failures = 0, t.pool.count.live = 0
        PROVE  T!ProductSafe(t)
    <2>1. Counted(t)
      BY <1>9 DEF TransportSafe
    <2>2. t.count.drift \in Nat /\ t.count.maxDepth \in [Directions -> Nat]
          /\ t.count.completions \in Nat /\ t.count.cancels \in Nat
      BY <1>1 DEF IsTransport, TransportCounts
    <2>3. t.count.maxDepth = T!AllDepths(t)
      BY <1>2, <2>1, <2>2 DEF Counted, T!AllDepths, T!Depth
    <2>4. T!StableDepth(t)
      BY <1>9, <2>1, <2>2, <2>3 DEF Counted, T!StableDepth
    <2>5. T!Quiet(t.count)
      BY <1>9, <2>1 DEF Counted, T!Quiet
    <2>6. t.count.primes + t.count.steady = t.count.completions + t.count.cancels
      BY <1>9, <2>1, <2>2 DEF Counted
    <2> QED BY <1>9, <2>1, <2>4, <2>5, <2>6 DEF Counted, Together, T!ProductSafe
  <1>10. T!DrainedIsProductSafe
    BY <1>5, <1>9 DEF T!DrainedIsProductSafe
  <1> QED BY <1>8, <1>10

\* The transport owns its pool, and safety() holds of it.
LEMMA TransportSafety == OwnersSpec => [](T!QueuesOwnThePool /\ T!DrainedIsProductSafe)
  <1> DEFINE Inv == TransportSafe(transport)
  <1>1. OwnersInit => Inv
    BY TransportInit DEF OwnersInit
  <1>2. Inv /\ [OwnersNext]_<<runtimeVars, transport, deviceVars, submitter, leadVars>> => Inv'
    BY TransportNext, OneOwnerSteps
  <1>3. Inv => T!QueuesOwnThePool /\ T!DrainedIsProductSafe
    BY TransportImplies
  <1> HIDE DEF Inv
  <1> QED BY <1>1, <1>2, <1>3, PTL DEF OwnersSpec

\* In every session in which nothing was forced to fail, a primed transport that is drained is
\* product_safe, and the playback lead is never below its low watermark, whatever the order in
\* which a process steps its owners.
THEOREM SafetyReportsAreKept == OwnersSpec => []SafetyReportsHold
  <1>1. OwnersSpec => [](T!QueuesOwnThePool /\ T!DrainedIsProductSafe)
    BY TransportSafety
  <1>2. OwnersSpec => [](L!SlotsSubmittedOnce /\ L!LeadHolds)
    BY LeadSafety
  <1>3. T!DrainedIsProductSafe /\ L!LeadHolds => SafetyReportsHold
    BY DEF SafetyReportsHold
  <1> QED BY <1>1, <1>2, <1>3, PTL
=============================================================================
